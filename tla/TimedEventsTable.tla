-------------------------- MODULE TimedEventsTable --------------------------
(***************************************************************************)
(* What the operations of TimedEvents do to its map and its timers: each   *)
(* keeps the two in agreement and touches the events of its own source     *)
(* only, and a pop takes the least of all pending events.                  *)
(***************************************************************************)
EXTENDS TimedEventsOps, WellFoundedInduction, TLAPS

USE ZenonT(30)



Events == Sources \cup ExitIds

Phases == {"Disarmed", "Active", "InactiveCopy", "InactiveNoCopy"}
States == [deadline : Times, interval : Times, phase : Phases]

\* The maps from times to non-empty sets of events.
Maps == UNION {[D -> (SUBSET Events) \ {{}}] : D \in SUBSET Times}

Tables == [map : Maps, signal_timers : [TimerIds -> States],
           controlled : [Pids -> Times \cup {NoTime}]]

-----------------------------------------------------------------------------
(* Arithmetic.                                                             *)

\* A set of naturals that is not empty has a least one: next_deadline exists.
LEMMA LeastNat ==
    ASSUME NEW S, S \subseteq Nat, S # {}
    PROVE  \E m \in S : \A n \in S : m <= n
<1>1. \E m \in S : \A y \in S : ~(<<y, m>> \in OpToRel(<, Nat))
  BY NatLessThanWellFounded, WFMin
<1>2. PICK m \in S : \A y \in S : ~(<<y, m>> \in OpToRel(<, Nat))
  BY <1>1
<1>3. \A y \in S : ~(y < m)
  BY <1>2 DEF OpToRel
<1> QED BY <1>3, SMT

\* One period more than the quotient lies past the dividend.
LEMMA NextMultiple ==
    ASSUME NEW a \in Nat, NEW b \in Nat \ {0}
    PROVE  a \div b \in Nat /\ a < ((a \div b) + 1) * b
BY SMTT(30)

\* A multiple leaves no remainder.
LEMMA NoRemainder ==
    ASSUME NEW n \in Nat, NEW b \in Nat \ {0}
    PROVE  (n * b) % b = 0
BY SMTT(30)

\* LogicalTime's addition stays within the times; it adds, or saturates.
LEMMA PlusTime ==
    ASSUME NEW a \in Nat, NEW b \in Nat
    PROVE  /\ Plus(a, b) \in Times
           /\ Plus(a, b) = MAX_TIME \/ (Plus(a, b) = a + b /\ a + b < MAX_TIME)
BY TimeAssumption, SMT DEF Plus, Times

\* d is a number of periods past `first`.
OnGrid(d, first, interval) == \E n \in Nat : d = first + n * interval

\* grid_after: a point past both `last` and t, or the end of time.
LEMMA GridAfter ==
    ASSUME NEW last \in Times, NEW interval \in Times, NEW t \in Times
    PROVE  /\ grid_after(last, interval, t) \in Times
           /\ \/ grid_after(last, interval, t) = MAX_TIME
              \/ /\ grid_after(last, interval, t) > last
                 /\ grid_after(last, interval, t) > t
                 /\ interval # 0 => OnGrid(grid_after(last, interval, t), last, interval)
<1> DEFINE step == IF interval = 0 THEN 1 ELSE interval
           elapsed == IF t > last THEN t - last ELSE 0
           k == (elapsed \div step) + 1
<1>1. last \in Nat /\ interval \in Nat /\ t \in Nat
  BY TimeAssumption, SMT DEF Times
<1>2. step \in Nat \ {0} /\ elapsed \in Nat
  BY <1>1, SMT
<1>3. k \in Nat /\ elapsed < k * step
  BY <1>2, NextMultiple, SMT
<1>4. k * step \in Nat
  BY <1>2, <1>3, SMT
<1>5. grid_after(last, interval, t) = Plus(last, k * step)
  BY DEF grid_after
<1>6. last + k * step > last /\ last + k * step > t
  BY <1>1, <1>2, <1>3, <1>4, SMT
<1>7. /\ Plus(last, k * step) \in Times
      /\ Plus(last, k * step) = MAX_TIME \/ Plus(last, k * step) = last + k * step
  BY <1>1, <1>4, PlusTime
<1>8. interval # 0 => k * step = k * interval
  OBVIOUS
<1> HIDE DEF step, elapsed, k
<1>9. interval # 0 => OnGrid(last + k * step, last, interval)
  BY <1>3, <1>8 DEF OnGrid
<1> QED BY <1>5, <1>6, <1>7, <1>9

-----------------------------------------------------------------------------
(* The map, by what it holds.                                              *)

\* A map has times for keys and never an empty set.
LEMMA MapShape ==
    ASSUME NEW m \in Maps
    PROVE  /\ DOMAIN m \subseteq Times
           /\ \A t \in DOMAIN m : m[t] # {} /\ m[t] \subseteq Events
           /\ \A t, e : Holds(m, t, e) => t \in Times /\ e \in Events
<1>1. PICK D \in SUBSET Times : m \in [D -> (SUBSET Events) \ {{}}]
  BY DEF Maps
<1> QED BY <1>1 DEF Holds

\* A function from times to non-empty sets of events is a map.
LEMMA IsMap ==
    ASSUME NEW m, NEW D \in SUBSET Times, m \in [D -> (SUBSET Events) \ {{}}]
    PROVE  m \in Maps
BY DEF Maps

\* An insertion adds one event at one time.
LEMMA EnterHolds ==
    ASSUME NEW m \in Maps, NEW t \in Times, NEW e \in Events
    PROVE  /\ Enter(m, t, e) \in Maps
           /\ \A u, f : Holds(Enter(m, t, e), u, f) <=> Holds(m, u, f) \/ (u = t /\ f = e)
<1>1. Enter(m, t, e) \in [DOMAIN m \cup {t} -> (SUBSET Events) \ {{}}]
  BY MapShape DEF Enter
<1>2. DOMAIN m \cup {t} \in SUBSET Times
  BY MapShape
<1> QED BY <1>1, <1>2, IsMap DEF Enter, Holds

\* A withdrawal takes away that event at that time and nothing else.
LEMMA WithdrawHolds ==
    ASSUME NEW m \in Maps, NEW t, NEW e
    PROVE  /\ Withdraw(m, t, e) \in Maps
           /\ \A u, f : Holds(Withdraw(m, t, e), u, f) <=> Holds(m, u, f) /\ ~(u = t /\ f = e)
<1>1. CASE t \notin DOMAIN m
  BY <1>1 DEF Withdraw, Holds
<1>2. CASE t \in DOMAIN m
  <2> DEFINE left == m[t] \ {e}
             D == {y \in DOMAIN m : y # t \/ left # {}}
  <2>1. Withdraw(m, t, e) = [x \in D |-> IF x = t THEN left ELSE m[x]]
    BY <1>2 DEF Withdraw
  <2>2. D \in SUBSET Times /\ left \subseteq Events
    BY <1>2, MapShape
  <2>3. Withdraw(m, t, e) \in [D -> (SUBSET Events) \ {{}}]
    BY <2>1, <2>2, MapShape
  <2>4. Withdraw(m, t, e) \in Maps
    BY <2>2, <2>3, IsMap
  <2> QED BY <1>2, <2>1, <2>4 DEF Holds
<1> QED BY <1>1, <1>2

\* Taking the events gone[t] away from every time t.
Filtered(m, gone) ==
    [t \in {u \in DOMAIN m : ~(m[u] \subseteq gone[u])} |-> m[t] \ gone[t]]

\* It takes away exactly those events, and no empty set stays.
LEMMA FilterHolds ==
    ASSUME NEW m \in Maps, NEW gone
    PROVE  /\ Filtered(m, gone) \in Maps
           /\ \A u, f : Holds(Filtered(m, gone), u, f) <=> Holds(m, u, f) /\ f \notin gone[u]
<1> DEFINE D == {u \in DOMAIN m : ~(m[u] \subseteq gone[u])}
<1>1. D \in SUBSET Times
  BY MapShape
<1>2. Filtered(m, gone) \in [D -> (SUBSET Events) \ {{}}]
  BY MapShape DEF Filtered
<1>3. Filtered(m, gone) \in Maps
  BY <1>1, <1>2, IsMap
<1>4. \A u, f : Holds(Filtered(m, gone), u, f) <=> Holds(m, u, f) /\ f \notin gone[u]
  BY DEF Holds, Filtered
<1> QED BY <1>3, <1>4

-----------------------------------------------------------------------------
(* The invariant of the table.                                             *)

\* The timers, but s for id.
But(timers, id, s) == [timers EXCEPT ![id] = s]

Puts(tab, new, id, s) == new.signal_timers = But(tab.signal_timers, id, s)

\* It changes the state of that timer only.
LEMMA ButIs ==
    ASSUME NEW timers, timers \in [TimerIds -> States], NEW id \in TimerIds, NEW s \in States
    PROVE  /\ But(timers, id, s) \in [TimerIds -> States]
           /\ But(timers, id, s)[id] = s
           /\ \A i \in TimerIds : i # id => But(timers, id, s)[i] = timers[i]
BY DEF But

\* The deadline t that signal_timers or controlled_real_timer_deadlines record
\* for timer id.
Recorded(tab, id, t) ==
    \/ tab.signal_timers[id].phase = "Active" /\ tab.signal_timers[id].deadline = t
    \/ id.rank = 0 /\ tab.controlled[id.pid] = t

\* The map holds exactly the recorded deadlines of the timers, and at most one
\* of a thread.  Alarms are either all signal timers or all controlled ones.  A
\* timer that waits for a dequeue is periodic and expired before the end of time.
TableInv(tab, control) ==
    /\ tab \in Tables
    /\ \A id \in TimerIds : \A t : Holds(tab.map, t, id) <=> Recorded(tab, id, t) /\ t \in Times
    /\ \A p \in Pids : control => tab.signal_timers[Alarm(p)] = Disarmed
    /\ \A p \in Pids : ~control => tab.controlled[p] = NoTime
    /\ \A tid \in Tids : \A t, u :
          Holds(tab.map, t, ThreadEvt(tid)) /\ Holds(tab.map, u, ThreadEvt(tid)) => t = u
    /\ \A id \in TimerIds : is_inactive(tab.signal_timers[id]) =>
          tab.signal_timers[id].deadline # MAX_TIME /\ tab.signal_timers[id].interval # 0

\* The table `new` differs from `tab` in the events of S only.
OnlyFor(S, tab, new) == \A t, e : e \notin S => (Holds(new.map, t, e) <=> Holds(tab.map, t, e))

\* The identities of events: ranks tell their kinds apart.
LEMMA TimerIdentity ==
    ASSUME NEW id \in TimerIds
    PROVE  /\ id.rank \in {0, 1} /\ id.pid \in Pids /\ id.sub \in Nat
           /\ id.rank = 0 => id = Alarm(id.pid)
           /\ id \in Sources /\ id \in Events
BY IdAssumption, SMT DEF TimerIds, Sources, Events, Alarm, Posix

\* Alarms have rank 0.
LEMMA AlarmIdentity ==
    ASSUME NEW p \in Pids
    PROVE  Alarm(p) \in TimerIds /\ Alarm(p).rank = 0 /\ Alarm(p).pid = p
BY SMT DEF TimerIds, Alarm

\* POSIX timers have rank 1.
LEMMA PosixIdentity ==
    ASSUME NEW p \in Pids, NEW i \in PosixIds
    PROVE  Posix(p, i) \in TimerIds /\ Posix(p, i).rank = 1 /\ Posix(p, i).pid = p
BY SMT DEF TimerIds, Posix

\* Threads have rank 3.
LEMMA ThreadIdentity ==
    ASSUME NEW t \in Tids
    PROVE  /\ ThreadEvt(t).rank = 3 /\ ThreadEvt(t).pid = t
           /\ ThreadEvt(t) \in Sources /\ ThreadEvt(t) \in Events
           /\ ThreadEvt(t) \notin TimerIds /\ ThreadEvt(t) \notin ExitIds
<1>1. ThreadEvt(t).rank = 3 /\ ThreadEvt(t).pid = t
  BY DEF ThreadEvt
<1>2. ThreadEvt(t) \notin TimerIds
  BY <1>1, TimerIdentity, SMT
<1>3. ThreadEvt(t) \notin ExitIds
  BY <1>1, SMT DEF ExitIds, ChildExit
<1> QED BY <1>1, <1>2, <1>3 DEF Sources, Events

\* No thread's event is a timer's.
LEMMA ThreadsAreNoTimers == \A tid \in Tids, id \in TimerIds : ThreadEvt(tid) # id
BY ThreadIdentity

\* Child exits have rank 2 and are no sources.
LEMMA ExitIdentity ==
    ASSUME NEW e \in ExitIds
    PROVE  e.rank = 2 /\ e \in Events /\ e \notin Sources
<1>1. e.rank = 2
  BY SMT DEF ExitIds, ChildExit
<1> QED BY <1>1, TimerIdentity, ThreadIdentity, SMT DEF Events, Sources

\* A source is a timer or a thread.
LEMMA SourceIdentity ==
    ASSUME NEW s \in Sources
    PROVE  \/ s \in TimerIds /\ s.rank \in {0, 1}
           \/ s.rank = 3 /\ s.pid \in Tids /\ s = ThreadEvt(s.pid)
BY TimerIdentity, ThreadIdentity, SMT DEF Sources

\* An event is its rank and its two numbers.
LEMMA EventIdentity ==
    ASSUME NEW e \in Events
    PROVE  /\ e.rank \in Nat /\ e.pid \in Nat /\ e.sub \in Nat
           /\ e = [rank |-> e.rank, pid |-> e.pid, sub |-> e.sub]
<1>1. CASE e \in TimerIds
  BY <1>1, IdAssumption, SMT DEF TimerIds, Alarm, Posix
<1>2. CASE e \in ExitIds
  BY <1>2, IdAssumption, SMT DEF ExitIds, ChildExit
<1>3. CASE e \in {ThreadEvt(t) : t \in Tids}
  BY <1>3, IdAssumption, SMT DEF ThreadEvt
<1> QED BY <1>1, <1>2, <1>3 DEF Events, Sources

\* A timer's state changes, and with it its event in the map.
LEMMA TimerChange ==
    ASSUME NEW tab, NEW control, TableInv(tab, control),
           NEW id \in TimerIds, control => id.rank # 0,
           NEW s \in States, is_inactive(s) => s.deadline # MAX_TIME /\ s.interval # 0,
           NEW new \in Tables,
           Puts(tab, new, id, s),
           new.controlled = tab.controlled,
           \A t, e : Holds(new.map, t, e) <=>
                        \/ e # id /\ Holds(tab.map, t, e)
                        \/ e = id /\ s.phase = "Active" /\ t = s.deadline
    PROVE  TableInv(new, control) /\ OnlyFor({id}, tab, new)
<1> USE DEF TableInv
<1>1. tab.signal_timers \in [TimerIds -> States] /\ tab.controlled \in [Pids -> Times \cup {NoTime}]
  BY DEF Tables
<1>2. \A i \in TimerIds : new.signal_timers[i] = IF i = id THEN s ELSE tab.signal_timers[i]
  BY <1>1, ButIs, SMT DEF Puts
<1>3. ASSUME NEW i \in TimerIds, NEW t
      PROVE  Holds(new.map, t, i) <=> Recorded(new, i, t) /\ t \in Times
  <2>1. CASE i # id
    BY <1>2, <2>1, SMT DEF Recorded
  <2>2. CASE i = id
    <3>1. id.rank = 0 => tab.controlled[id.pid] = NoTime
      BY TimerIdentity
    <3>2. s.deadline \in Times
      BY DEF States
    <3>3. NoTime \notin Times
      BY TimeAssumption, SMT DEF Times, NoTime
    <3> QED BY <1>2, <2>2, <3>1, <3>2, <3>3, SMT DEF Recorded
  <2> QED BY <2>1, <2>2
<1>4. \A p \in Pids : control => new.signal_timers[Alarm(p)] = Disarmed
  BY <1>2, AlarmIdentity, SMT
<1>5. \A tid \in Tids : ThreadEvt(tid) # id
  BY ThreadsAreNoTimers
<1>6. \A i \in TimerIds : is_inactive(new.signal_timers[i]) =>
          new.signal_timers[i].deadline # MAX_TIME /\ new.signal_timers[i].interval # 0
  BY <1>2
<1>8. ASSUME NEW tid \in Tids, NEW t, NEW u,
             Holds(new.map, t, ThreadEvt(tid)), Holds(new.map, u, ThreadEvt(tid))
      PROVE  t = u
  <2>1. Holds(tab.map, t, ThreadEvt(tid)) /\ Holds(tab.map, u, ThreadEvt(tid))
    BY <1>5, <1>8
  <2> QED BY <2>1
<1>7. TableInv(new, control)
  <2> HIDE DEF TableInv
  <2>1. \A p \in Pids : ~control => new.controlled[p] = NoTime
    BY DEF TableInv
  <2> QED BY <1>3, <1>4, <1>8, <1>6, <2>1 DEF TableInv
<1> QED BY <1>7 DEF OnlyFor

\* A controlled deadline changes, and with it its event in the map.
LEMMA ControlledChange ==
    ASSUME NEW tab, NEW control, TableInv(tab, control), control,
           NEW p \in Pids, NEW d \in Times \cup {NoTime},
           NEW new \in Tables,
           new.signal_timers = tab.signal_timers,
           new.controlled = [tab.controlled EXCEPT ![p] = d],
           \A t, e : Holds(new.map, t, e) <=>
                        \/ e # Alarm(p) /\ Holds(tab.map, t, e)
                        \/ e = Alarm(p) /\ d # NoTime /\ t = d
    PROVE  TableInv(new, control) /\ OnlyFor({Alarm(p)}, tab, new)
<1> USE DEF TableInv
<1>1. tab.controlled \in [Pids -> Times \cup {NoTime}]
  BY DEF Tables
<1>2. \A q \in Pids : new.controlled[q] = IF q = p THEN d ELSE tab.controlled[q]
  BY <1>1
<1>3. ASSUME NEW i \in TimerIds, NEW t
      PROVE  Holds(new.map, t, i) <=> Recorded(new, i, t) /\ t \in Times
  <2>1. CASE i # Alarm(p)
    <3>1. i.rank = 0 => i.pid \in Pids /\ i.pid # p
      BY <2>1, TimerIdentity
    <3> QED BY <1>2, <2>1, <3>1, SMT DEF Recorded
  <2>2. CASE i = Alarm(p)
    <3>1. i.rank = 0 /\ i.pid = p
      BY <2>2, AlarmIdentity
    <3>2. new.signal_timers[i].phase # "Active"
      BY <2>2, SMT DEF Disarmed
    <3>3. NoTime \notin Times
      BY TimeAssumption, SMT DEF Times, NoTime
    <3> QED BY <1>2, <2>2, <3>1, <3>2, <3>3, SMT DEF Recorded
  <2> QED BY <2>1, <2>2
<1>4. \A tid \in Tids : ThreadEvt(tid) # Alarm(p)
  BY ThreadsAreNoTimers, AlarmIdentity
<1>8. ASSUME NEW tid \in Tids, NEW t, NEW u,
             Holds(new.map, t, ThreadEvt(tid)), Holds(new.map, u, ThreadEvt(tid))
      PROVE  t = u
  <2>1. Holds(tab.map, t, ThreadEvt(tid)) /\ Holds(tab.map, u, ThreadEvt(tid))
    BY <1>4, <1>8
  <2> QED BY <2>1
<1>5. TableInv(new, control)
  BY <1>3, <1>8
<1> QED BY <1>5 DEF OnlyFor

-----------------------------------------------------------------------------
(* Updates of a table's fields, written out.                               *)

IsTable(tab) ==
    tab = [map |-> tab.map, signal_timers |-> tab.signal_timers, controlled |-> tab.controlled]

Arms(tab, id, s, t) == [tab EXCEPT !.signal_timers[id] = s, !.map = Enter(@, t, id)]
Moves(tab, id, d, t) ==
    [tab EXCEPT !.signal_timers[id].deadline = d, !.map = Enter(@, t, id)]
Waits(tab, id, d, p) ==
    [tab EXCEPT !.signal_timers[id].deadline = d, !.signal_timers[id].phase = p]
Resumes(tab, id, d, p, t) ==
    [tab EXCEPT !.signal_timers[id].deadline = d, !.signal_timers[id].phase = p,
                !.map = Enter(@, t, id)]

\* What Arms changes, field by field.
LEMMA ArmsTimer ==
    ASSUME NEW tab,
           IsTable(tab),
           NEW id, NEW s, NEW t
    PROVE  Arms(tab, id, s, t)
              = [map |-> Enter(tab.map, t, id),
                 signal_timers |-> But(tab.signal_timers, id, s),
                 controlled |-> tab.controlled]
<1> USE DEF IsTable, But, Arms
<1> DEFINE m == tab.map
           b == tab.signal_timers
           c == tab.controlled
           q == [tab EXCEPT !.signal_timers[id] = s]
<1>1. q = [map |-> m, signal_timers |-> [b EXCEPT ![id] = s], controlled |-> c]
  BY SMT
<1>2. Arms(tab, id, s, t) = [q EXCEPT !.map = Enter(m, t, id)]
  OBVIOUS
<1> HIDE DEF q
<1>3. [q EXCEPT !.map = Enter(m, t, id)]
         = [map |-> Enter(m, t, id), signal_timers |-> [b EXCEPT ![id] = s], controlled |-> c]
  BY <1>1, SMT
<1> QED BY <1>2, <1>3

\* What Moves changes, field by field.
LEMMA MovesTimer ==
    ASSUME NEW tab, tab.signal_timers \in [TimerIds -> States],
           IsTable(tab),
           NEW id \in TimerIds, NEW d, NEW t
    PROVE  Moves(tab, id, d, t)
              = [map |-> Enter(tab.map, t, id),
                 signal_timers |-> But(tab.signal_timers, id,
                     [deadline |-> d, interval |-> tab.signal_timers[id].interval,
                     phase |-> tab.signal_timers[id].phase]),
                 controlled |-> tab.controlled]
<1> USE DEF IsTable, But, Moves
<1> DEFINE m == tab.map
           b == tab.signal_timers
           c == tab.controlled
           s == [deadline |-> d, interval |-> b[id].interval, phase |-> b[id].phase]
           q == [tab EXCEPT !.signal_timers[id].deadline = d]
<1>1. b[id] \in States
  OBVIOUS
<1>2. [b[id] EXCEPT !.deadline = d] = s
  BY <1>1, SMT DEF States
<1>3. q = [map |-> m, signal_timers |-> [b EXCEPT ![id] = [b[id] EXCEPT !.deadline = d]],
           controlled |-> c]
  BY SMT
<1>4. Moves(tab, id, d, t)
         = [q EXCEPT !.map = Enter(m, t, id)]
  OBVIOUS
<1> HIDE DEF q, s
<1>5. q = [map |-> m, signal_timers |-> [b EXCEPT ![id] = s], controlled |-> c]
  BY <1>2, <1>3
<1>6. [q EXCEPT !.map = Enter(m, t, id)]
         = [map |-> Enter(m, t, id), signal_timers |-> [b EXCEPT ![id] = s], controlled |-> c]
  BY <1>5, SMT
<1> QED BY <1>4, <1>6 DEF s

\* What Waits changes, field by field.
LEMMA WaitsTimer ==
    ASSUME NEW tab, tab.signal_timers \in [TimerIds -> States],
           IsTable(tab),
           NEW id \in TimerIds, NEW d, NEW p
    PROVE  Waits(tab, id, d, p)
              = [map |-> tab.map,
                 signal_timers |-> But(tab.signal_timers, id,
                     [deadline |-> d, interval |-> tab.signal_timers[id].interval, phase |-> p]),
                 controlled |-> tab.controlled]
<1> USE DEF IsTable, But, Waits
<1> DEFINE m == tab.map
           b == tab.signal_timers
           c == tab.controlled
           q == [tab EXCEPT !.signal_timers[id].deadline = d]
           bb == [b EXCEPT ![id] = [b[id] EXCEPT !.deadline = d]]
           s == [deadline |-> d, interval |-> b[id].interval, phase |-> p]
<1>1. q = [map |-> m, signal_timers |-> bb, controlled |-> c]
  BY SMT
<1>2. Waits(tab, id, d, p)
         = [q EXCEPT !.signal_timers[id].phase = p]
  OBVIOUS
<1>3. bb[id] = [b[id] EXCEPT !.deadline = d]
  OBVIOUS
<1>4. [bb[id] EXCEPT !.phase = p] = s
  <2>1. b[id] \in States
    OBVIOUS
  <2>2. bb[id] = [deadline |-> d, interval |-> b[id].interval, phase |-> b[id].phase]
    BY <1>3, <2>1 DEF States
  <2> HIDE DEF bb
  <2> QED BY <2>2, SMT
<1>5. [bb EXCEPT ![id] = s] = [b EXCEPT ![id] = s]
  OBVIOUS
<1> HIDE DEF q, bb, s
<1>6. [q EXCEPT !.signal_timers[id].phase = p]
         = [map |-> m, signal_timers |-> [bb EXCEPT ![id] = [bb[id] EXCEPT !.phase = p]],
            controlled |-> c]
  BY <1>1, SMT
<1> QED BY <1>2, <1>4, <1>5, <1>6 DEF s

\* What Resumes changes, field by field.
LEMMA ResumesTimer ==
    ASSUME NEW tab, tab.signal_timers \in [TimerIds -> States],
           IsTable(tab),
           NEW id \in TimerIds, NEW d, NEW p, NEW t
    PROVE  Resumes(tab, id, d, p, t)
              = [map |-> Enter(tab.map, t, id),
                 signal_timers |-> But(tab.signal_timers, id,
                     [deadline |-> d, interval |-> tab.signal_timers[id].interval, phase |-> p]),
                 controlled |-> tab.controlled]
<1> DEFINE q == Waits(tab, id, d, p)
           s == [deadline |-> d, interval |-> tab.signal_timers[id].interval, phase |-> p]
<1>1. q = [map |-> tab.map, signal_timers |-> But(tab.signal_timers, id, s),
           controlled |-> tab.controlled]
  BY WaitsTimer, SMT
<1>2. q.map = tab.map
  BY <1>1, SMT
<1>3. Resumes(tab, id, d, p, t) = [q EXCEPT !.map = Enter(q.map, t, id)]
  BY DEF Resumes, Waits
<1> HIDE DEF q, s
<1>4. [q EXCEPT !.map = Enter(q.map, t, id)]
         = [map |-> Enter(tab.map, t, id), signal_timers |-> But(tab.signal_timers, id, s),
            controlled |-> tab.controlled]
  BY <1>1, <1>2, SMT
<1> QED BY <1>3, <1>4 DEF s

-----------------------------------------------------------------------------
(* What each operation on the table does to it.                            *)

\* The event of a timer's old arming goes, and nothing else.
LEMMA Cleared ==
    ASSUME NEW tab, NEW control, TableInv(tab, control),
           NEW id \in TimerIds, control => id.rank # 0
    PROVE  LET new == clear_old_signal_timer(tab, id, tab.signal_timers[id])
           IN  /\ IsTable(new) /\ new.signal_timers = tab.signal_timers
               /\ new.controlled = tab.controlled /\ new.map \in Maps
               /\ \A t, e : Holds(new.map, t, e) <=> e # id /\ Holds(tab.map, t, e)
<1> DEFINE s == tab.signal_timers[id]
           new == clear_old_signal_timer(tab, id, s)
<1> USE DEF IsTable
<1>1. IsTable(tab) /\ tab.map \in Maps
  BY DEF TableInv, Tables
<1>2. id.rank = 0 => tab.controlled[id.pid] = NoTime
  BY TimerIdentity DEF TableInv
<1>3. \A t : Holds(tab.map, t, id) => s.phase = "Active" /\ t = s.deadline
  <2>1. NoTime \notin Times
    BY TimeAssumption, SMT DEF Times, NoTime
  <2> QED BY <1>2, <2>1 DEF TableInv, Recorded
<1>4. CASE s.phase = "Active"
  <2>1. new = [map |-> Withdraw(tab.map, s.deadline, id), signal_timers |-> tab.signal_timers,
               controlled |-> tab.controlled]
    BY <1>1, <1>4 DEF clear_old_signal_timer
  <2>2. \A t, e : Holds(new.map, t, e) <=> Holds(tab.map, t, e) /\ ~(t = s.deadline /\ e = id)
    BY <1>1, <2>1, WithdrawHolds, SMT
  <2>3. new.map \in Maps
    BY <1>1, <2>1, WithdrawHolds, SMT
  <2> QED BY <1>3, <2>1, <2>2, <2>3, SMT
<1>5. CASE s.phase # "Active"
  BY <1>1, <1>3, <1>5 DEF clear_old_signal_timer
<1> QED BY <1>4, <1>5

\* Clearing a timer's event and entering its new one sets the timer.
LEMMA SetTimer ==
    ASSUME NEW tab, NEW control, TableInv(tab, control),
           NEW id \in TimerIds, control => id.rank # 0,
           NEW s \in States, s.phase = "Active",
           NEW m \in Maps, \A t, e : Holds(m, t, e) <=> e # id /\ Holds(tab.map, t, e),
           NEW new,
           new = [map |-> Enter(m, s.deadline, id),
                  signal_timers |-> But(tab.signal_timers, id, s),
                  controlled |-> tab.controlled]
    PROVE  TableInv(new, control) /\ OnlyFor({id}, tab, new)
<1>1. s.deadline \in Times /\ id \in Events
  BY TimerIdentity DEF States
<1>2. /\ Enter(m, s.deadline, id) \in Maps
      /\ \A t, e : Holds(Enter(m, s.deadline, id), t, e) <=> Holds(m, t, e) \/ (t = s.deadline /\ e = id)
  BY <1>1, EnterHolds
<1>3. new \in Tables
  BY <1>2, ButIs DEF TableInv, Tables
<1>4. \A t, e : Holds(new.map, t, e) <=>
                   \/ e # id /\ Holds(tab.map, t, e)
                   \/ e = id /\ s.phase = "Active" /\ t = s.deadline
  BY <1>2
<1>5. ~is_inactive(s)
  BY DEF is_inactive
<1> QED BY <1>3, <1>4, <1>5, TimerChange DEF Puts

\* Clearing a timer's event without entering another silences the timer.
LEMMA SilenceTimer ==
    ASSUME NEW tab, NEW control, TableInv(tab, control),
           NEW id \in TimerIds, control => id.rank # 0,
           NEW s \in States, s.phase # "Active",
           is_inactive(s) => s.deadline # MAX_TIME /\ s.interval # 0,
           NEW m \in Maps, \A t, e : Holds(m, t, e) <=> e # id /\ Holds(tab.map, t, e),
           NEW new,
           new = [map |-> m, signal_timers |-> But(tab.signal_timers, id, s),
                  controlled |-> tab.controlled]
    PROVE  TableInv(new, control) /\ OnlyFor({id}, tab, new)
<1>1. new \in Tables
  BY ButIs DEF TableInv, Tables
<1>2. \A t, e : Holds(new.map, t, e) <=>
                   \/ e # id /\ Holds(tab.map, t, e)
                   \/ e = id /\ s.phase = "Active" /\ t = s.deadline
  OBVIOUS
<1> QED BY <1>1, <1>2, TimerChange DEF Puts

\* insert_signal_timer arms the timer with its deadline and interval.
LEMMA InsertSignalTimer ==
    ASSUME NEW tab, NEW control, TableInv(tab, control),
           NEW id \in TimerIds, control => id.rank # 0,
           NEW ns \in Times, NEW interval \in Times
    PROVE  LET new == insert_signal_timer(tab, id, ns, interval)
           IN  /\ TableInv(new, control) /\ OnlyFor({id}, tab, new)
               /\ Puts(tab, new, id,
                     [deadline |-> ns, interval |-> interval, phase |-> "Active"])
<1> DEFINE cleared == clear_old_signal_timer(tab, id, tab.signal_timers[id])
           s == [deadline |-> ns, interval |-> interval, phase |-> "Active"]
           new == insert_signal_timer(tab, id, ns, interval)
<1>1. /\ IsTable(cleared) /\ cleared.signal_timers = tab.signal_timers
      /\ cleared.controlled = tab.controlled /\ cleared.map \in Maps
      /\ \A t, e : Holds(cleared.map, t, e) <=> e # id /\ Holds(tab.map, t, e)
  BY Cleared
<1>2. s \in States /\ s.phase = "Active" /\ s.deadline = ns
  BY DEF States, Phases
<1>3. new = Arms(cleared, id, s, ns)
  BY DEF insert_signal_timer, Arms
<1> HIDE DEF cleared, s, new
<1>4. new = [map |-> Enter(cleared.map, s.deadline, id),
             signal_timers |-> But(tab.signal_timers, id, s),
             controlled |-> tab.controlled]
  BY <1>1, <1>2, <1>3, ArmsTimer, SMT
<1>5. TableInv(new, control) /\ OnlyFor({id}, tab, new)
  BY <1>1, <1>2, <1>4, SetTimer
<1> QED BY <1>4, <1>5, SMT DEF s, new, Puts

\* remove_signal_timer disarms it.
LEMMA RemoveSignalTimer ==
    ASSUME NEW tab, NEW control, TableInv(tab, control),
           NEW id \in TimerIds, control => id.rank # 0
    PROVE  LET new == remove_signal_timer(tab, id)
           IN  /\ TableInv(new, control) /\ OnlyFor({id}, tab, new)
               /\ Puts(tab, new, id, Disarmed)
<1> DEFINE cleared == clear_old_signal_timer(tab, id, tab.signal_timers[id])
           new == remove_signal_timer(tab, id)
<1>1. /\ IsTable(cleared) /\ cleared.signal_timers = tab.signal_timers
      /\ cleared.controlled = tab.controlled /\ cleared.map \in Maps
      /\ \A t, e : Holds(cleared.map, t, e) <=> e # id /\ Holds(tab.map, t, e)
  BY Cleared
<1>2. Disarmed \in States /\ Disarmed.phase # "Active" /\ ~is_inactive(Disarmed)
  BY TimeAssumption, SMT DEF States, Phases, Disarmed, is_inactive, Times
<1>3. new = [cleared EXCEPT !.signal_timers[id] = Disarmed]
  BY DEF remove_signal_timer
<1> HIDE DEF cleared, new
<1>4. new = [map |-> cleared.map, signal_timers |-> But(tab.signal_timers, id, Disarmed),
             controlled |-> tab.controlled]
  BY <1>1, <1>3 DEF IsTable, But
<1>5. TableInv(new, control) /\ OnlyFor({id}, tab, new)
  BY <1>1, <1>2, <1>4, SilenceTimer
<1> QED BY <1>4, <1>5, SMT DEF new, Puts

\* A table is a record of its three fields.
LEMMA TableShape ==
    ASSUME NEW tab, NEW control, TableInv(tab, control)
    PROVE  /\ IsTable(tab) /\ tab.map \in Maps
           /\ tab.signal_timers \in [TimerIds -> States]
           /\ tab.controlled \in [Pids -> Times \cup {NoTime}]
           /\ NoTime \notin Times
<1>1. NoTime \notin Times
  BY TimeAssumption, SMT DEF Times, NoTime
<1> QED BY <1>1 DEF TableInv, Tables, IsTable

\* A timer that is not Active has no event of its own, unless it is controlled.
LEMMA SilentTimer ==
    ASSUME NEW tab, NEW control, TableInv(tab, control),
           NEW id \in TimerIds, tab.signal_timers[id].phase # "Disarmed"
    PROVE  /\ control => id.rank # 0
           /\ tab.signal_timers[id].phase # "Active" => \A t : ~Holds(tab.map, t, id)
<1>1. control => id.rank # 0
  BY TimerIdentity, SMT DEF TableInv, Disarmed
<1>2. id.rank = 0 => tab.controlled[id.pid] = NoTime
  BY <1>1, TimerIdentity DEF TableInv
<1>3. NoTime \notin Times
  BY TableShape
<1> QED BY <1>1, <1>2, <1>3, SMT DEF TableInv, Recorded

\* signal_timer_rearm_after puts an inactive timer on its next grid point.
LEMMA SignalTimerRearmAfter ==
    ASSUME NEW tab, NEW control, TableInv(tab, control),
           NEW id \in TimerIds, is_inactive(tab.signal_timers[id]), NEW t \in Times
    PROVE  LET old == tab.signal_timers[id]
               new == signal_timer_rearm_after(tab, id, t)
           IN  /\ TableInv(new, control) /\ OnlyFor({id}, tab, new)
               /\ Puts(tab, new, id,
                     [deadline |-> grid_after(old.deadline, old.interval, t),
                      interval |-> old.interval, phase |-> "Active"])
<1> DEFINE old == tab.signal_timers[id]
           next == grid_after(old.deadline, old.interval, t)
           s == [deadline |-> next, interval |-> old.interval, phase |-> "Active"]
           new == signal_timer_rearm_after(tab, id, t)
<1>1. /\ IsTable(tab) /\ tab.map \in Maps /\ tab.signal_timers \in [TimerIds -> States]
  BY TableShape
<1>2. old \in States /\ old.deadline \in Times /\ old.interval \in Times
  BY <1>1 DEF States
<1>3. next \in Times
  BY <1>2, GridAfter
<1>4. s \in States /\ s.phase = "Active" /\ s.deadline = next
  BY <1>2, <1>3 DEF States, Phases
<1>5. old.phase # "Disarmed" /\ old.phase # "Active"
  BY DEF is_inactive
<1>6. (control => id.rank # 0) /\ \A u : ~Holds(tab.map, u, id)
  BY <1>5, SilentTimer
<1>7. new = Resumes(tab, id, next, "Active", next)
  BY DEF signal_timer_rearm_after, Resumes
<1>8. new = [map |-> Enter(tab.map, next, id), signal_timers |-> But(tab.signal_timers, id, s),
             controlled |-> tab.controlled]
  BY <1>1, <1>7, ResumesTimer, SMT
<1>9. \A u, e : Holds(tab.map, u, e) <=> e # id /\ Holds(tab.map, u, e)
  BY <1>6
<1> HIDE DEF old, next, s, new, Puts
<1>10. TableInv(new, control) /\ OnlyFor({id}, tab, new)
  BY <1>1, <1>4, <1>6, <1>8, <1>9, SetTimer
<1> QED BY <1>8, <1>10, SMT DEF old, next, s, new, Puts

\* alarm_set_copy only notes whether the copy is there.
LEMMA AlarmSetCopy ==
    ASSUME NEW tab, NEW control, TableInv(tab, control),
           NEW p \in Pids, is_inactive(tab.signal_timers[Alarm(p)]), NEW copy \in BOOLEAN
    PROVE  LET id == Alarm(p)
               old == tab.signal_timers[id]
               new == alarm_set_copy(tab, p, copy)
           IN  /\ TableInv(new, control) /\ OnlyFor({id}, tab, new)
               /\ Puts(tab, new, id,
                     [deadline |-> old.deadline, interval |-> old.interval,
                      phase |-> Inactive(copy)])
<1> DEFINE id == Alarm(p)
           old == tab.signal_timers[id]
           s == [deadline |-> old.deadline, interval |-> old.interval, phase |-> Inactive(copy)]
           new == alarm_set_copy(tab, p, copy)
<1>1. /\ IsTable(tab) /\ tab.map \in Maps /\ tab.signal_timers \in [TimerIds -> States]
  BY TableShape
<1>2. id \in TimerIds
  BY AlarmIdentity
<1>3. old \in States
  BY <1>1, <1>2
<1>4. s \in States /\ s.phase # "Active"
  BY <1>3 DEF States, Phases, Inactive
<1>5. old.phase # "Disarmed" /\ old.phase # "Active"
  BY DEF is_inactive
<1>6. (control => id.rank # 0) /\ \A u : ~Holds(tab.map, u, id)
  BY <1>2, <1>5, SilentTimer
<1>7. s.deadline # MAX_TIME /\ s.interval # 0
  BY <1>2 DEF TableInv
<1>8. [old EXCEPT !.phase = Inactive(copy)] = s
  BY <1>3, SMT DEF States
<1>9. new = [map |-> tab.map,
             signal_timers |-> But(tab.signal_timers, id, [old EXCEPT !.phase = Inactive(copy)]),
             controlled |-> tab.controlled]
  BY <1>1 DEF alarm_set_copy, IsTable, But
<1>10. \A u, e : Holds(tab.map, u, e) <=> e # id /\ Holds(tab.map, u, e)
  BY <1>6
<1> HIDE DEF id, old, s, new, Puts
<1>11. new = [map |-> tab.map, signal_timers |-> But(tab.signal_timers, id, s),
              controlled |-> tab.controlled]
  BY <1>8, <1>9
<1>12. TableInv(new, control) /\ OnlyFor({id}, tab, new)
  BY <1>1, <1>2, <1>4, <1>6, <1>7, <1>10, <1>11, SilenceTimer
<1> QED BY <1>11, <1>12, SMT DEF id, old, s, new, Puts

\* remove_controlled_real_timer_deadline takes the deadline and its event.
LEMMA RemoveControlled ==
    ASSUME NEW tab, NEW control, TableInv(tab, control), NEW p \in Pids
    PROVE  LET new == remove_controlled_real_timer_deadline(tab, p)
           IN  /\ TableInv(new, control) /\ OnlyFor({Alarm(p)}, tab, new)
               /\ IsTable(new) /\ new.signal_timers = tab.signal_timers
               /\ new.controlled = [tab.controlled EXCEPT ![p] = NoTime]
               /\ control => \A t : ~Holds(new.map, t, Alarm(p))
<1> DEFINE new == remove_controlled_real_timer_deadline(tab, p)
           d == tab.controlled[p]
<1>1. /\ IsTable(tab) /\ tab.map \in Maps /\ tab.signal_timers \in [TimerIds -> States]
      /\ tab.controlled \in [Pids -> Times \cup {NoTime}] /\ NoTime \notin Times
  BY TableShape
<1>2. Alarm(p) \in TimerIds /\ Alarm(p).rank = 0 /\ Alarm(p).pid = p
  BY AlarmIdentity
<1>3. control => \A t : Holds(tab.map, t, Alarm(p)) => t = d /\ t # NoTime
  BY <1>1, <1>2, SMT DEF TableInv, Recorded, Disarmed
<1>4. CASE d = NoTime
  <2>1. new = tab
    BY <1>4 DEF remove_controlled_real_timer_deadline
  <2>2. tab.controlled = [tab.controlled EXCEPT ![p] = NoTime]
    BY <1>1, <1>4
  <2> QED BY <1>1, <1>3, <1>4, <2>1, <2>2 DEF OnlyFor
<1>5. CASE d # NoTime
  <2>1. control
    BY <1>5 DEF TableInv
  <2>2. new = [map |-> Withdraw(tab.map, d, Alarm(p)), signal_timers |-> tab.signal_timers,
               controlled |-> [tab.controlled EXCEPT ![p] = NoTime]]
    BY <1>1, <1>5 DEF remove_controlled_real_timer_deadline, IsTable
  <2>3. /\ Withdraw(tab.map, d, Alarm(p)) \in Maps
        /\ \A t, e : Holds(Withdraw(tab.map, d, Alarm(p)), t, e)
                        <=> Holds(tab.map, t, e) /\ ~(t = d /\ e = Alarm(p))
    BY <1>1, WithdrawHolds
  <2>4. \A t, e : Holds(new.map, t, e) <=>
                     \/ e # Alarm(p) /\ Holds(tab.map, t, e)
                     \/ e = Alarm(p) /\ NoTime # NoTime /\ t = NoTime
    BY <1>3, <2>1, <2>2, <2>3, SMT
  <2>5. new \in Tables
    BY <1>1, <2>2, <2>3, SMT DEF Tables
  <2> HIDE DEF new
  <2>6. TableInv(new, control) /\ OnlyFor({Alarm(p)}, tab, new)
    BY <2>1, <2>2, <2>4, <2>5, ControlledChange
  <2> QED BY <2>2, <2>4, <2>6, SMT DEF IsTable, new
<1> QED BY <1>4, <1>5

\* insert_controlled_real_timer_deadline replaces the deadline and its event.
LEMMA InsertControlled ==
    ASSUME NEW tab, NEW control, TableInv(tab, control), control,
           NEW p \in Pids, NEW d \in Times
    PROVE  LET new == insert_controlled_real_timer_deadline(tab, d, p)
           IN  /\ TableInv(new, control) /\ OnlyFor({Alarm(p)}, tab, new)
               /\ new.signal_timers = tab.signal_timers
<1> DEFINE bare == remove_controlled_real_timer_deadline(tab, p)
           new == insert_controlled_real_timer_deadline(tab, d, p)
<1>1. /\ TableInv(bare, control) /\ OnlyFor({Alarm(p)}, tab, bare)
      /\ IsTable(bare) /\ bare.signal_timers = tab.signal_timers
      /\ bare.controlled = [tab.controlled EXCEPT ![p] = NoTime]
      /\ \A t : ~Holds(bare.map, t, Alarm(p))
  BY RemoveControlled
<1>2. /\ bare.map \in Maps /\ tab.controlled \in [Pids -> Times \cup {NoTime}]
      /\ NoTime \notin Times
  BY <1>1, TableShape
<1>3. new = [bare EXCEPT !.controlled[p] = d, !.map = Enter(@, d, Alarm(p))]
  BY DEF insert_controlled_real_timer_deadline
<1>4. new = [map |-> Enter(bare.map, d, Alarm(p)), signal_timers |-> bare.signal_timers,
             controlled |-> [bare.controlled EXCEPT ![p] = d]]
  <2> DEFINE q == [bare EXCEPT !.controlled[p] = d]
  <2>1. q = [map |-> bare.map, signal_timers |-> bare.signal_timers,
             controlled |-> [bare.controlled EXCEPT ![p] = d]]
    BY <1>1, SMT DEF IsTable
  <2>2. q.map = bare.map
    BY <2>1
  <2>3. new = [q EXCEPT !.map = Enter(q.map, d, Alarm(p))]
    BY <1>3
  <2> HIDE DEF q, new, bare
  <2> QED BY <2>1, <2>2, <2>3
<1>5. Alarm(p) \in Events
  BY AlarmIdentity, TimerIdentity
<1>6. /\ Enter(bare.map, d, Alarm(p)) \in Maps
      /\ \A t, e : Holds(Enter(bare.map, d, Alarm(p)), t, e)
                      <=> Holds(bare.map, t, e) \/ (t = d /\ e = Alarm(p))
  BY <1>2, <1>5, EnterHolds, SMT
<1> HIDE DEF bare, new
<1>7. /\ new.controlled = [tab.controlled EXCEPT ![p] = d]
      /\ new.signal_timers = tab.signal_timers /\ new.map = Enter(bare.map, d, Alarm(p))
  BY <1>1, <1>2, <1>4
<1>8. new \in Tables
  BY <1>1, <1>2, <1>4, <1>6, <1>7 DEF Tables, TableInv
<1>9. \A t, e : Holds(new.map, t, e) <=>
                   \/ e # Alarm(p) /\ Holds(tab.map, t, e)
                   \/ e = Alarm(p) /\ d # NoTime /\ t = d
  BY <1>1, <1>2, <1>6, <1>7, SMT DEF OnlyFor
<1>10. TableInv(new, control) /\ OnlyFor({Alarm(p)}, tab, new)
  BY <1>7, <1>8, <1>9, ControlledChange
<1> QED BY <1>7, <1>10 DEF new

\* Events of threads and child exits come and go; the timers are left alone.
LEMMA OtherChange ==
    ASSUME NEW tab, NEW control, TableInv(tab, control), NEW S, S \cap TimerIds = {},
           NEW m \in Maps, NEW new,
           new = [map |-> m, signal_timers |-> tab.signal_timers, controlled |-> tab.controlled],
           \A t, e : e \notin S => (Holds(m, t, e) <=> Holds(tab.map, t, e)),
           \A tid \in Tids : \A t, u :
              Holds(m, t, ThreadEvt(tid)) /\ Holds(m, u, ThreadEvt(tid)) => t = u
    PROVE  TableInv(new, control) /\ OnlyFor(S, tab, new)
<1>1. new \in Tables
  BY DEF Tables, TableInv
<1>2. \A id \in TimerIds : \A t : Holds(new.map, t, id) <=> Recorded(new, id, t) /\ t \in Times
  <2>1. ASSUME NEW id \in TimerIds, NEW t
        PROVE  Holds(new.map, t, id) <=> Recorded(new, id, t) /\ t \in Times
    <3>1. Holds(new.map, t, id) <=> Holds(tab.map, t, id)
      OBVIOUS
    <3>2. Recorded(new, id, t) <=> Recorded(tab, id, t)
      BY DEF Recorded
    <3> QED BY <3>1, <3>2 DEF TableInv
  <2> QED BY <2>1
<1> QED BY <1>1, <1>2 DEF TableInv, OnlyFor

\* insert: a thread that has no deadline gets one.
LEMMA InsertThread ==
    ASSUME NEW tab, NEW control, TableInv(tab, control),
           NEW tid \in Tids, NEW ns \in Times, thread_deadlines(tab, tid) = {}
    PROVE  LET new == insert(tab, ns, tid)
           IN  /\ TableInv(new, control) /\ OnlyFor({ThreadEvt(tid)}, tab, new)
               /\ new.signal_timers = tab.signal_timers
<1> DEFINE new == insert(tab, ns, tid)
           m == Enter(tab.map, ns, ThreadEvt(tid))
<1>1. IsTable(tab) /\ tab.map \in Maps
  BY TableShape
<1>2. ThreadEvt(tid) \in Events /\ ThreadEvt(tid) \notin TimerIds
  BY ThreadIdentity
<1>3. /\ m \in Maps
      /\ \A t, e : Holds(m, t, e) <=> Holds(tab.map, t, e) \/ (t = ns /\ e = ThreadEvt(tid))
  BY <1>1, <1>2, EnterHolds
<1>4. new = [map |-> m, signal_timers |-> tab.signal_timers, controlled |-> tab.controlled]
  BY <1>1, SMT DEF insert, IsTable
<1>5. \A t : ~Holds(tab.map, t, ThreadEvt(tid))
  BY DEF thread_deadlines, Holds
<1> HIDE DEF new, m
<1>6. ASSUME NEW tt \in Tids, NEW t, NEW u, Holds(m, t, ThreadEvt(tt)), Holds(m, u, ThreadEvt(tt))
      PROVE  t = u
  BY <1>3, <1>5, <1>6, SMT DEF TableInv
<1>7. {ThreadEvt(tid)} \cap TimerIds = {}
  BY <1>2
<1>8. \A t, e : e \notin {ThreadEvt(tid)} => (Holds(m, t, e) <=> Holds(tab.map, t, e))
  BY <1>3
<1>9. TableInv(new, control) /\ OnlyFor({ThreadEvt(tid)}, tab, new)
  BY <1>3, <1>4, <1>6, <1>7, <1>8, OtherChange, SMT
<1> QED BY <1>4, <1>9, SMT DEF new

\* remove: it loses it.
LEMMA RemoveThread ==
    ASSUME NEW tab, NEW control, TableInv(tab, control), NEW tid \in Tids
    PROVE  LET new == remove(tab, tid)
           IN  /\ TableInv(new, control) /\ OnlyFor({ThreadEvt(tid)}, tab, new)
               /\ new.signal_timers = tab.signal_timers
<1> DEFINE new == remove(tab, tid)
           gone == [t \in Times |-> {ThreadEvt(tid)}]
           m == Filtered(tab.map, gone)
           w == [t \in {u \in DOMAIN tab.map : tab.map[u] # {ThreadEvt(tid)}} |->
                   tab.map[t] \ {ThreadEvt(tid)}]
<1>1. IsTable(tab) /\ tab.map \in Maps
  BY TableShape
<1>2. DOMAIN tab.map \subseteq Times /\ \A t \in DOMAIN tab.map : tab.map[t] # {}
  BY <1>1, MapShape
<1>3. new = [tab EXCEPT !.map = w]
  BY DEF remove
<1>4. /\ new.map = w
      /\ new = [map |-> new.map, signal_timers |-> tab.signal_timers, controlled |-> tab.controlled]
  <2> HIDE DEF w, new
  <2> QED BY <1>1, <1>3 DEF IsTable
<1>5. new.map = m
  <2>1. \A u \in DOMAIN tab.map : gone[u] = {ThreadEvt(tid)}
    BY <1>2
  <2>2. {u \in DOMAIN tab.map : tab.map[u] # {ThreadEvt(tid)}}
           = {u \in DOMAIN tab.map : ~(tab.map[u] \subseteq gone[u])}
    BY <1>2, <2>1, SMT
  <2> QED BY <1>4, <2>1, <2>2 DEF Filtered
<1>6. /\ m \in Maps
      /\ \A t, e : Holds(m, t, e) <=> Holds(tab.map, t, e) /\ e \notin gone[t]
  BY <1>1, FilterHolds
<1>7. \A t, e : Holds(m, t, e) <=> Holds(tab.map, t, e) /\ e # ThreadEvt(tid)
  <2>1. \A t, e : Holds(tab.map, t, e) => gone[t] = {ThreadEvt(tid)}
    BY <1>2 DEF Holds
  <2> HIDE DEF gone, m
  <2> QED BY <1>6, <2>1
<1>8. {ThreadEvt(tid)} \cap TimerIds = {}
  BY ThreadIdentity
<1> HIDE DEF new, m
<1>9. ASSUME NEW tt \in Tids, NEW t, NEW u, Holds(m, t, ThreadEvt(tt)), Holds(m, u, ThreadEvt(tt))
      PROVE  t = u
  BY <1>7, <1>9 DEF TableInv
<1>10. \A t, e : e \notin {ThreadEvt(tid)} => (Holds(m, t, e) <=> Holds(tab.map, t, e))
  BY <1>7
<1>11. TableInv(new, control) /\ OnlyFor({ThreadEvt(tid)}, tab, new)
  BY <1>4, <1>5, <1>6, <1>8, <1>9, <1>10, OtherChange
<1> QED BY <1>4, <1>11, SMT DEF new

\* insert_child_exit adds a child exit.
LEMMA InsertChildExit ==
    ASSUME NEW tab, NEW control, TableInv(tab, control),
           NEW ns \in Times, NEW c \in Pids, NEW p \in Pids
    PROVE  LET new == insert_child_exit(tab, ns, c, p)
           IN  /\ TableInv(new, control) /\ OnlyFor({ChildExit(c, p)}, tab, new)
               /\ new.signal_timers = tab.signal_timers
               /\ \A t : Holds(new.map, t, ChildExit(c, p))
                            <=> Holds(tab.map, t, ChildExit(c, p)) \/ t = ns
<1> DEFINE x == ChildExit(c, p)
           new == insert_child_exit(tab, ns, c, p)
           m == Enter(tab.map, ns, x)
<1>1. IsTable(tab) /\ tab.map \in Maps
  BY TableShape
<1>2. x \in ExitIds
  BY SMT DEF ExitIds
<1>3. x \in Events /\ x \notin Sources
  BY <1>2, ExitIdentity
<1>4. {x} \cap TimerIds = {} /\ \A tid \in Tids : ThreadEvt(tid) # x
  BY <1>3, TimerIdentity, ThreadIdentity
<1>5. new = [map |-> m, signal_timers |-> tab.signal_timers, controlled |-> tab.controlled]
  BY <1>1, SMT DEF insert_child_exit, IsTable
<1> HIDE DEF x
<1>6. /\ m \in Maps
      /\ \A t, e : Holds(m, t, e) <=> Holds(tab.map, t, e) \/ (t = ns /\ e = x)
  BY <1>1, <1>3, EnterHolds
<1> HIDE DEF new, m
<1>7. ASSUME NEW tt \in Tids, NEW t, NEW u, Holds(m, t, ThreadEvt(tt)), Holds(m, u, ThreadEvt(tt))
      PROVE  t = u
  BY <1>4, <1>6, <1>7 DEF TableInv
<1>8. \A t, e : e \notin {x} => (Holds(m, t, e) <=> Holds(tab.map, t, e))
  BY <1>6
<1>9. TableInv(new, control) /\ OnlyFor({x}, tab, new)
  BY <1>4, <1>5, <1>6, <1>7, <1>8, OtherChange, SMT
<1>10. new.signal_timers = tab.signal_timers /\ new.map = m
  BY <1>5
<1> QED BY <1>6, <1>9, <1>10 DEF new, x

\* remove_posix_timers and the last part of remove_process_timers: the timers of
\* ids are disarmed and their events are gone.
LEMMA RemovesTimers ==
    ASSUME NEW tab, NEW control, TableInv(tab, control), NEW ids \in SUBSET TimerIds,
           \A id \in ids : id.rank = 0 => tab.controlled[id.pid] = NoTime
    PROVE  LET new == RemoveTimers(tab, ids)
           IN  /\ TableInv(new, control) /\ OnlyFor(ids, tab, new)
               /\ \A id \in ids : \A t : ~Holds(new.map, t, id)
               /\ new.signal_timers = [id \in TimerIds |->
                     IF id \in ids THEN Disarmed ELSE tab.signal_timers[id]]
<1> DEFINE Gone(t) == {id \in ids : /\ tab.signal_timers[id].phase = "Active"
                                    /\ tab.signal_timers[id].deadline = t}
           gone == [t \in Times |-> Gone(t)]
           w == [t \in {u \in DOMAIN tab.map : ~(tab.map[u] \subseteq Gone(u))} |-> tab.map[t] \ Gone(t)]
           b == [id \in TimerIds |-> IF id \in ids THEN Disarmed ELSE tab.signal_timers[id]]
           new == RemoveTimers(tab, ids)
<1>1. /\ IsTable(tab) /\ tab.map \in Maps /\ tab.signal_timers \in [TimerIds -> States]
      /\ NoTime \notin Times
  BY TableShape
<1>2. new = [tab EXCEPT !.map = w, !.signal_timers = b]
  BY DEF RemoveTimers
<1>3. new = [map |-> w, signal_timers |-> b, controlled |-> tab.controlled]
  <2> HIDE DEF w, b, new
  <2> QED BY <1>1, <1>2 DEF IsTable
<1>4. w = Filtered(tab.map, gone)
  <2>1. \A u \in DOMAIN tab.map : gone[u] = Gone(u)
    BY <1>1, MapShape
  <2> HIDE DEF gone, Gone
  <2>2. {u \in DOMAIN tab.map : ~(tab.map[u] \subseteq Gone(u))}
           = {u \in DOMAIN tab.map : ~(tab.map[u] \subseteq gone[u])}
    BY <2>1
  <2> QED BY <2>1, <2>2 DEF Filtered
<1>5. /\ w \in Maps
      /\ \A t, e : Holds(w, t, e) <=> Holds(tab.map, t, e) /\ e \notin gone[t]
  <2> HIDE DEF w, gone
  <2> QED BY <1>1, <1>4, FilterHolds
<1>6. \A t, e : Holds(w, t, e) <=> Holds(tab.map, t, e) /\ e \notin ids
  <2> SUFFICES ASSUME NEW t, NEW e, Holds(tab.map, t, e)
               PROVE  e \in gone[t] <=> e \in ids
    <3> HIDE DEF w, gone
    <3> QED BY <1>5
  <2>1. t \in Times
    BY <1>1, MapShape
  <2>2. gone[t] = Gone(t)
    BY <2>1
  <2>3. ASSUME e \in ids PROVE tab.signal_timers[e].phase = "Active" /\ tab.signal_timers[e].deadline = t
    <3>1. Recorded(tab, e, t)
      BY <2>3 DEF TableInv
    <3> QED BY <1>1, <2>1, <2>3, <3>1 DEF Recorded
  <2> QED BY <2>2, <2>3
<1>7. Disarmed \in States /\ ~is_inactive(Disarmed) /\ Disarmed.phase # "Active"
  BY TimeAssumption, SMT DEF States, Phases, Disarmed, is_inactive, Times
<1>8. b \in [TimerIds -> States]
  BY <1>1, <1>7
<1>9. \A id \in TimerIds : b[id] = IF id \in ids THEN Disarmed ELSE tab.signal_timers[id]
  OBVIOUS
<1> HIDE DEF w, b, new, gone, Gone
<1>10. new \in Tables
  BY <1>3, <1>5, <1>8 DEF Tables, TableInv
<1>11. new.map = w /\ new.signal_timers = b /\ new.controlled = tab.controlled
  BY <1>3
<1>12. ASSUME NEW id \in TimerIds, NEW t
       PROVE  Holds(new.map, t, id) <=> Recorded(new, id, t) /\ t \in Times
  <2>1. CASE id \in ids
    <3>1. ~Recorded(new, id, t) \/ t \notin Times
      BY <1>1, <1>7, <1>9, <1>11, <2>1 DEF Recorded
    <3> QED BY <1>6, <1>11, <2>1, <3>1
  <2>2. CASE id \notin ids
    <3>1. Recorded(new, id, t) <=> Recorded(tab, id, t)
      BY <1>9, <1>11, <2>2 DEF Recorded
    <3> QED BY <1>6, <1>11, <2>2, <3>1 DEF TableInv
  <2> QED BY <2>1, <2>2
<1>13. \A p \in Pids : control => new.signal_timers[Alarm(p)] = Disarmed
  BY <1>9, <1>11, AlarmIdentity DEF TableInv
<1>14. \A id \in TimerIds : is_inactive(new.signal_timers[id]) =>
          new.signal_timers[id].deadline # MAX_TIME /\ new.signal_timers[id].interval # 0
  BY <1>7, <1>9, <1>11 DEF TableInv
<1>15. ASSUME NEW tt \in Tids, NEW t, NEW u,
              Holds(new.map, t, ThreadEvt(tt)), Holds(new.map, u, ThreadEvt(tt))
       PROVE  t = u
  BY <1>6, <1>11, <1>15 DEF TableInv
<1>16. \A p \in Pids : ~control => new.controlled[p] = NoTime
  BY <1>11 DEF TableInv
<1>17. TableInv(new, control)
  BY <1>10, <1>12, <1>13, <1>14, <1>15, <1>16 DEF TableInv
<1>18. OnlyFor(ids, tab, new) /\ \A id \in ids : \A t : ~Holds(new.map, t, id)
  BY <1>6, <1>11 DEF OnlyFor
<1> QED BY <1>11, <1>17, <1>18 DEF new, b

-----------------------------------------------------------------------------
(* The pop.                                                                *)

\* A set of events that is not empty has a first one.
LEMMA FirstEvent ==
    ASSUME NEW S \in SUBSET Events, S # {}
    PROVE  FirstOf(S) \in S /\ \A f \in S \ {FirstOf(S)} : Before(FirstOf(S), f)
<1> DEFINE ranks == {e.rank : e \in S}
<1>1. ranks \subseteq Nat /\ ranks # {}
  BY EventIdentity
<1>2. PICK r \in ranks : \A n \in ranks : r <= n
  <2> HIDE DEF ranks
  <2> QED BY <1>1, LeastNat
<1> DEFINE S1 == {e \in S : e.rank = r}
           pids == {e.pid : e \in S1}
<1>3. pids \subseteq Nat /\ pids # {}
  BY EventIdentity
<1>4. PICK p \in pids : \A n \in pids : p <= n
  <2> HIDE DEF pids
  <2> QED BY <1>3, LeastNat
<1> DEFINE S2 == {e \in S1 : e.pid = p}
           subs == {e.sub : e \in S2}
<1>5. subs \subseteq Nat /\ subs # {}
  BY EventIdentity
<1>6. PICK s \in subs : \A n \in subs : s <= n
  <2> HIDE DEF subs
  <2> QED BY <1>5, LeastNat
<1>7. PICK e \in S : e.rank = r /\ e.pid = p /\ e.sub = s
  OBVIOUS
<1>8. ASSUME NEW f \in S \ {e} PROVE Before(e, f)
  <2>1. /\ f.rank \in Nat /\ f.pid \in Nat /\ f.sub \in Nat
        /\ e.rank \in Nat /\ e.pid \in Nat /\ e.sub \in Nat
    BY EventIdentity
  <2>2. ~(f.rank = e.rank /\ f.pid = e.pid /\ f.sub = e.sub)
    <3>1. /\ f = [rank |-> f.rank, pid |-> f.pid, sub |-> f.sub]
          /\ e = [rank |-> e.rank, pid |-> e.pid, sub |-> e.sub]
      BY EventIdentity
    <3> QED BY <3>1
  <2>3. e.rank <= f.rank
    BY <1>2, <1>7
  <2>4. f.rank = e.rank => e.pid <= f.pid
    BY <1>4, <1>7
  <2>5. f.rank = e.rank /\ f.pid = e.pid => e.sub <= f.sub
    BY <1>6, <1>7
  <2> QED BY <2>1, <2>2, <2>3, <2>4, <2>5, SMT DEF Before
<1> QED BY <1>8 DEF FirstOf

\* pop_if_before takes the least of all the deadlines, and the first of the
\* events that share it.
LEMMA PoppedIsLeast ==
    ASSUME NEW tab, NEW control, TableInv(tab, control), ~is_empty(tab)
    PROVE  /\ popped_time(tab) \in Times
           /\ popped_event(tab) \in Events
           /\ Holds(tab.map, popped_time(tab), popped_event(tab))
           /\ \A u, f : Holds(tab.map, u, f) =>
                 \/ popped_time(tab) < u
                 \/ popped_time(tab) = u /\ (f = popped_event(tab) \/ Before(popped_event(tab), f))
<1> DEFINE D == DOMAIN tab.map
           t == popped_time(tab)
<1>1. tab.map \in Maps
  BY TableShape
<1>2. D \subseteq Times /\ \A u \in D : tab.map[u] # {} /\ tab.map[u] \subseteq Events
  BY <1>1, MapShape
<1>3. D # {} /\ D \subseteq Nat
  BY <1>2, TimeAssumption, SMT DEF is_empty, Times
<1>4. \E m \in D : \A n \in D : m <= n
  <2> HIDE DEF D
  <2> QED BY <1>3, LeastNat
<1>5. t \in D /\ \A n \in D : t <= n
  BY <1>4 DEF popped_time, next_deadline
<1> DEFINE e == popped_event(tab)
<1>6. e = FirstOf(tab.map[t])
  BY DEF popped_event, popped_time
<1>7. e \in tab.map[t] /\ \A f \in tab.map[t] \ {e} : Before(e, f)
  <2>1. tab.map[t] \in SUBSET Events /\ tab.map[t] # {}
    BY <1>2, <1>5
  <2> QED BY <1>6, <2>1, FirstEvent, SMT
<1> HIDE DEF t, e
<1>8. \A u, f : Holds(tab.map, u, f) => t < u \/ (t = u /\ (f = e \/ Before(e, f)))
  <2> SUFFICES ASSUME NEW u, NEW f, Holds(tab.map, u, f)
               PROVE  t < u \/ (t = u /\ (f = e \/ Before(e, f)))
    OBVIOUS
  <2>1. u \in D /\ f \in tab.map[u]
    BY DEF Holds
  <2>2. t <= u /\ t \in Nat /\ u \in Nat
    BY <1>3, <1>5, <2>1
  <2> QED BY <1>7, <2>1, <2>2, SMT
<1>9. t \in Times /\ e \in Events /\ Holds(tab.map, t, e)
  BY <1>2, <1>5, <1>7 DEF Holds
<1> QED BY <1>8, <1>9 DEF t, e

\* The popped event is a controlled deadline, a signal timer's, or no timer's.
LEMMA PoppedKind ==
    ASSUME NEW tab, NEW control, TableInv(tab, control), ~is_empty(tab)
    PROVE  LET t == popped_time(tab)
               e == popped_event(tab)
           IN  \/ /\ control /\ e \in {Alarm(p) : p \in Pids} /\ tab.controlled[e.pid] = t
               \/ /\ e \in TimerIds /\ tab.signal_timers[e].phase = "Active"
                  /\ tab.signal_timers[e].deadline = t
                  /\ ~(e \in {Alarm(p) : p \in Pids} /\ tab.controlled[e.pid] = t)
                  /\ control => e.rank # 0
               \/ e \notin TimerIds /\ e \notin {Alarm(p) : p \in Pids}
<1> DEFINE t == popped_time(tab)
           e == popped_event(tab)
<1>1. Holds(tab.map, t, e) /\ t \in Times
  BY PoppedIsLeast
<1>2. NoTime \notin Times
  BY TableShape
<1> HIDE DEF t, e
<1>3. \A p \in Pids : Alarm(p) \in TimerIds /\ Alarm(p).pid = p
  BY AlarmIdentity
<1>4. CASE e \in TimerIds
  <2>1. Recorded(tab, e, t)
    BY <1>1, <1>4 DEF TableInv
  <2>2. e.rank = 0 => e \in {Alarm(p) : p \in Pids}
    BY <1>4, TimerIdentity
  <2>3. CASE e.rank = 0 /\ tab.controlled[e.pid] = t
    <3>1. e.pid \in Pids
      BY <1>4, TimerIdentity
    <3>2. control
      BY <1>1, <1>2, <2>3, <3>1 DEF TableInv
    <3> QED BY <2>2, <2>3, <3>2 DEF t, e
  <2>4. CASE ~(e.rank = 0 /\ tab.controlled[e.pid] = t)
    <3>1. tab.signal_timers[e].phase = "Active" /\ tab.signal_timers[e].deadline = t
      BY <2>1, <2>4 DEF Recorded
    <3>2. control => e.rank # 0
      BY <1>4, <3>1, TimerIdentity, SMT DEF TableInv, Disarmed
    <3>3. e \in {Alarm(p) : p \in Pids} => e.rank = 0
      BY AlarmIdentity
    <3> QED BY <1>4, <2>4, <3>1, <3>2, <3>3 DEF t, e
  <2> QED BY <2>3, <2>4
<1>5. CASE e \notin TimerIds
  BY <1>3, <1>5 DEF t, e
<1> QED BY <1>4, <1>5

\* The pop of a controlled deadline uses it up.
LEMMA PopControlled ==
    ASSUME NEW tab, NEW control, TableInv(tab, control), ~is_empty(tab), control,
           popped_event(tab) \in {Alarm(p) : p \in Pids},
           tab.controlled[popped_event(tab).pid] = popped_time(tab)
    PROVE  /\ TableInv(pop(tab), control) /\ OnlyFor({popped_event(tab)}, tab, pop(tab))
           /\ pop(tab).signal_timers = tab.signal_timers
           /\ \A u : ~Holds(pop(tab).map, u, popped_event(tab))
<1> DEFINE t == popped_time(tab)
           e == popped_event(tab)
           taken == [tab EXCEPT !.map = Withdraw(@, t, e)]
           new == pop(tab)
<1>1. PICK p \in Pids : e = Alarm(p)
  OBVIOUS
<1>2. Alarm(p) \in TimerIds /\ Alarm(p).rank = 0 /\ Alarm(p).pid = p
  BY AlarmIdentity
<1>3. /\ IsTable(tab) /\ tab.map \in Maps /\ tab.signal_timers \in [TimerIds -> States]
      /\ tab.controlled \in [Pids -> Times \cup {NoTime}] /\ NoTime \notin Times
  BY TableShape
<1>4. new = [taken EXCEPT !.controlled[p] = NoTime]
  BY <1>1, <1>2 DEF pop
<1>5. taken = [map |-> Withdraw(tab.map, t, e), signal_timers |-> tab.signal_timers,
               controlled |-> tab.controlled]
  BY <1>3, SMT DEF IsTable
<1>6. tab.controlled[p] = t
  BY <1>1, <1>2
<1>7. t \in Times /\ Holds(tab.map, t, e)
  BY PoppedIsLeast
<1> HIDE DEF t, e, taken, new
<1>8. /\ Withdraw(tab.map, t, e) \in Maps
      /\ \A u, f : Holds(Withdraw(tab.map, t, e), u, f) <=> Holds(tab.map, u, f) /\ ~(u = t /\ f = e)
  BY <1>3, WithdrawHolds
<1>9. new = [map |-> Withdraw(tab.map, t, e), signal_timers |-> tab.signal_timers,
             controlled |-> [tab.controlled EXCEPT ![p] = NoTime]]
  BY <1>4, <1>5
<1>10. \A u : Holds(tab.map, u, e) => u = t
  <2>1. tab.signal_timers[Alarm(p)].phase # "Active"
    BY SMT DEF TableInv, Disarmed
  <2> QED BY <1>1, <1>2, <1>6, <2>1, SMT DEF TableInv, Recorded
<1>11. \A u, f : Holds(new.map, u, f) <=>
                    \/ f # Alarm(p) /\ Holds(tab.map, u, f)
                    \/ f = Alarm(p) /\ NoTime # NoTime /\ u = NoTime
  BY <1>1, <1>8, <1>9, <1>10
<1>12. new \in Tables
  BY <1>3, <1>8, <1>9 DEF Tables
<1>13. new.signal_timers = tab.signal_timers /\ new.controlled = [tab.controlled EXCEPT ![p] = NoTime]
  BY <1>9
<1>14. TableInv(new, control) /\ OnlyFor({Alarm(p)}, tab, new)
  BY <1>11, <1>12, <1>13, ControlledChange
<1> QED BY <1>1, <1>11, <1>13, <1>14 DEF new, e

\* The pop of a thread's event or of a child exit takes it away.
LEMMA PopOther ==
    ASSUME NEW tab, NEW control, TableInv(tab, control), ~is_empty(tab),
           popped_event(tab) \notin TimerIds,
           popped_event(tab) \notin {Alarm(p) : p \in Pids}
    PROVE  /\ TableInv(pop(tab), control) /\ OnlyFor({popped_event(tab)}, tab, pop(tab))
           /\ pop(tab).signal_timers = tab.signal_timers
           /\ \A u : Holds(pop(tab).map, u, popped_event(tab))
                        <=> Holds(tab.map, u, popped_event(tab)) /\ u # popped_time(tab)
<1> DEFINE t == popped_time(tab)
           e == popped_event(tab)
           m == Withdraw(tab.map, t, e)
           new == pop(tab)
<1>1. IsTable(tab) /\ tab.map \in Maps
  BY TableShape
<1>2. new = [tab EXCEPT !.map = Withdraw(@, t, e)]
  BY DEF pop
<1>3. new = [map |-> m, signal_timers |-> tab.signal_timers, controlled |-> tab.controlled]
  BY <1>1, <1>2 DEF IsTable
<1>4. {e} \cap TimerIds = {}
  OBVIOUS
<1> HIDE DEF t, e, new
<1>5. /\ m \in Maps
      /\ \A u, f : Holds(m, u, f) <=> Holds(tab.map, u, f) /\ ~(u = t /\ f = e)
  BY <1>1, WithdrawHolds
<1> HIDE DEF m
<1>6. ASSUME NEW tt \in Tids, NEW u, NEW v, Holds(m, u, ThreadEvt(tt)), Holds(m, v, ThreadEvt(tt))
      PROVE  u = v
  BY <1>5, <1>6 DEF TableInv
<1>7. \A u, f : f \notin {e} => (Holds(m, u, f) <=> Holds(tab.map, u, f))
  BY <1>5
<1>8. TableInv(new, control) /\ OnlyFor({e}, tab, new)
  BY <1>3, <1>4, <1>5, <1>6, <1>7, OtherChange, SMT
<1>9. new.signal_timers = tab.signal_timers /\ new.map = m
  BY <1>3
<1> QED BY <1>5, <1>8, <1>9 DEF new, e, t
=============================================================================
