# Verification of Hermit's deterministic scheduler

Hermit runs a guest program deterministically. An execution backend (ptrace, KVM,
LiteInst and others, through Reverie) stops guest threads at system calls and
other events; Detcore decides the policy. Its heart is a scheduler that lets one
guest thread run at a time, in an order that is a function of the program and the
seed, although requests arrive from backend workers in whatever order the host
produces. This project models that scheduler.

## 1. The system

| Part | State | Operations | What makes it hard |
|---|---|---|---|
| Run queue, `detcore/src/scheduler/runqueue.rs` | entries by (priority, turn), open selection, yield marks | push, select, commit, undo, remove, upgrade, suspend, restore, reorder | long sequences of legal calls; marks that outlive a thread; key collisions |
| Turn loop, `scheduler.rs` and `tool_global.rs` | `next_turns`, run queue, blocked pools, pending buffers, incarnations | the daemon's steps 1 to 6; the RPC handlers | the lock is released while a request is awaited; deaths, execs and late requests land in that gap |
| Ivar, `ivar.rs` | contents, one Waker | put, try_put, await | lost wake-ups |
| Futexes | waiter pools, timeouts | wait, wake, timeout, exit wake | timeout racing a wake; wake by a dying thread |
| Exec | teardown record, incarnation of each tid | prepare, fail, reconnect | the tid outlives the image; siblings die on the way |
| Timed events, `timed_waiters.rs` | set of events per time, state per timer | arm, disarm, fire, re-arm, exec, exit | two records of one fact; periodic grids; saturation |
| Vfork barriers, `scheduler.rs` | a barrier per parent, tombstones, released parents | begin, register, release, retire, readmit | child, parent and scheduler learn of a start, a release and a death in an order the host chooses |
| SIGKILL retirement, `sigkill_retirement.rs` | reservations, held receipts, fence, retained wakes | reserve, send, commit, unwind, account, refuse | physical exits come before, between and after the steps of the sender |
| Child-exit SIGCHLDs, `child_exit_sigchld.rs` | state per child, window of sends | own, timer, dequeue, stand in, flush | two copies of each signal, one pending slot, dequeues outside the schedule |
| Interval timers, `itimer_coalesce.rs`, `real_timer.rs` | phase of the timer, what is known of its pending copy | arm, expire, reconcile, exec, dequeue reports | the kernel's queue is seen only at some points; reports are late or repeated |
| Network record and replay, `network_engine.rs`, `syscalls/network_trace.rs` | streams of a channel, recorded inputs and fragments | connect, receive, poll, send, shutdown | arrivals between checks; sends that wait and are overtaken |
| Signal receivers, pipe wakes, schedule replayer, happens-before gates, boundary controller | ledgers and cursors in `scheduler/*.rs` | | not modelled yet |
| Handlers, procfs, cpuid, logs, command line | | | translation and I/O; not modelled |

A guest thread sends a request by RPC; the handler files it in the thread's
request Ivar and awaits the response Ivar. The daemon waits until the threads that
hold a grant have checked in (step 1), drains the buffered removals and admissions
and processes the blocked pools (step 2), selects a thread (step 3), awaits its
request, blocks it or not (step 4), grants it (step 5) and queues it again (step
6). `PROJECT.json` lists every component, and the hazards at their lines.

## 2. Modules

- **RunQueueOps** is the run queue as a data type: one operator per method. The
  `BTreeMap` is a set of entries, so that a duplicate key is a state and not
  something the model cannot express. The random generator is a choice.
- **RunQueue** has one action for each place of the scheduler that changes the
  queue, with every queue operation that place makes under the lock.
  **MCRunQueue** gives the run-time pairs and the view of its runs.
- **SelectionLock** is the abstract contract: one selection at a time; while it is
  open nobody joins the queue, and only the selected thread may leave.
  **RunQueueProofs** holds the theorems about both.
- **TurnProtocol** is the daemon against the handlers, for one process: its leader
  and the threads it clones. One action is one critical section of the scheduler
  mutex. The queue is a set of threads plus the selection (its order is RunQueue's
  subject), and time is the choice of which deadlines have passed.
  **MCTurnProtocol** adds the symmetry of the threads other than the leader;
  **TurnProtocolProofs** holds the theorems.
- **TimedEventsOps**, **TimedEvents** are the deadline map and its users;
  **DeadlineTable** is what they promise: one deadline per timer, sleeper and
  child exit, handed out in order. **TimedEventsTable** (the operations) and
  **TimedEventsProofs** hold the theorems.
- **Ivar** is the cell with its readers and writers; **IvarProofs** its theorem.
- **VforkBarrier** has the barrier records of the scheduler, the passes that wait
  for them (step 2a), and the clones, registrations, releases, continuations and
  deaths whose reports arrive in any order. **InstantVfork** is the schedule it
  promises: every start, release and end takes effect when it happens, and
  **VforkRefinement** the mapping between the two. **ThreadQueues** has the operators
  on sequences of threads that they share. **VforkBarrierProofs** holds the theorems.
- **SigkillRetirement** follows a send of SIGKILL from reservation to settlement,
  against exits, fatal signals, kills from outside and reports that are lost.
  **MCSigkillRetirement** names the processes and the targets of its run;
  **SigkillProofs** holds the theorems.
- **ChildExitLedger** is the ledger as pure operators; **ChildExitSigchld** puts it
  between the children's exits, the kernel's queues, guest sends and the threads
  that dequeue. **MCChildExitSigchld** gives three setups: ptrace, ptrace with
  threads that block outside the schedule, and SaBRe.
- **TracedItimer** and **ControlledItimer** are the two implementations of
  ITIMER_REAL; **RealItimer** is the process under either (`signal_control_installed`
  decides at every entry point), and **LinuxItimer** is what both promise.
  **RealItimerProofs** proves that both keep it.
- **NetworkEngine** is a channel of the engine as pure operators; **NetworkReplay**
  records a free guest against a free host and replays the recorded schedule.
  **MCNetworkReplay** gives two guests: one thread that makes every call, and two
  threads that send on one channel.

`signal_control` (TimedEvents, RealItimer), `setup` (ChildExitSigchld) and `guest`
(NetworkReplay) are variables that Init chooses and no step changes: one run covers
every configuration.

Definitions keep the names of the functions they translate. A name with a suffix
(`Excluded_even_alone`) is a mutant: the same code with one plausible mistake.
It is used only to show that a property can fail.

## 3. Runs

| Run | Shows | States |
|---|---|---|
| RunQueue | Three threads, strategy None, unbounded life (see the view below): distinct keys, someone to select, every poller upgraded within the interval, issue 3952, the selection lock | 200,476 |
| RunQueueFair | Two threads, StickyRandom, observation gates and run-time order: the committed thread is the selected one, nobody is queued twice, run-time turns stay with ordinary entries | 224,724 |
| TurnProtocol | A leader and two threads, one exec: one guest runs; nobody is lost, granted stale, or scheduled dead; exec hand-over; the loop's end and the deadlock verdict are right; the selection lock | 984,856 |
| TurnProtocolLive | Two threads on a backend that cancels no calls of the dead and registers no queued sleeps: nobody is lost or scheduled dead; under fairness the daemon never stays in a wait for ever | 21,383 |
| TimedEvents | A thread, an alarm and a POSIX timer, traced and controlled: map and timer states agree; periodic timers stay on their grid and re-arm in the future; refinement of DeadlineTable | 145,520 |
| Ivar | One task at a time awaits the cell: one value, and the reader wakes | 427 |
| NetworkReplay | The replay observes what the recording observed, uses it up, and the recording passes its own validation | 879,184 |
| ChildExitSigchld | No child's exit is lost and none is notified twice, but for the cases named below | 892,614 |
| SigkillRetirement | While a guest runs no committed kill is half done; owner-death wakes run together; the valve refuses only for a lost report; under fairness the sender's kill(2) returns | 44,897 |
| RealItimer | Both timers implement LinuxItimer; none waits for a dequeue that nobody will report | 51,544 |
| VforkBarrier | Four threads, two vforks at once: the turns are those of InstantVfork; a registration never panics; every barrier that is waited for is owed a report | 266,590 |
| IvarShared | Expected to fail: several tasks await one cell | |

**Bounds.** `RankedView` identifies queue states that agree on the order of their
turns and on the turn counter modulo the upgrade interval, and on the pushes since
each entry that waits for an upgrade, which only PollersAreUpgraded reads. No guard
or operator reads more of a turn when the run-time order is off, so with `MaxPushes`
out of reach run RunQueue covers the queue's whole life. Only the run-time order
compares thread ids, so that run takes them as symmetric model values. With gates or
run-time order the absolute turns matter and `MaxPushes` bounds the pushes to 4. Two
priorities give a band before and a band behind. `POLLING_UPGRADE_INTERVAL` is 3
instead of 200 so that upgrades happen, with a push in between. Run RunQueue has
neither gates nor the run-time order; for the turns these produce DistinctKeys is
proved (section 4). Three threads in TurnProtocol allow a death, a survivor and an
exec by a non-leader at once; one exec suffices for a stale incarnation. `MAX_TIME`
is where logical time saturates; 5 leaves room for a timer of interval 2 to fire
late. TimedEvents has one process, so its ChildExits, which needs two, is covered by
the theorems only. Strategy Random is not run by itself: StickyRandom makes the same
draws. Three children allow two that one SIGKILL kills and one that exits by itself;
two kills allow a send that meets an open fence or finds its target gone. Four
requests let a guest connect, receive, poll and fail; eight let two sends of two
bytes wait, be accepted in part and overtake each other. Two lives of a pid let a
report outlive its process. Four threads are two parents with a child each.

**Deadlock checking** is off where the system may stop: the scheduler loop ends, a
bounded queue runs out of pushes, the cell has been written and read, the recording
was replayed, every child was notified, every process was killed.

**Fairness.** TurnProtocolLive assumes weak fairness of the daemon (its task is
polled while it can run), of each thread's pending request (backend workers handle
what was sent), of an exec that was prepared, of the deregistration of a thread
whose exit was granted and of a new thread's first request. Of a guest that holds
the grant it assumes strong fairness of one ordinary request: its time slice ends
in a preemption, which checks in, however many other requests it makes first. It
does not assume that background calls return, that sleepers wake or that any
thread exits. Ivar assumes that the executor polls a task that was woken.
SigkillRetirement assumes weak fairness of the sender's own steps, of the valve (a
wall clock), and of what the kernel and the backend do to a thread that was killed
(it exits, its callbacks run, its publication is reported or lost); and strong
fairness of each thread's grants and of the request that ends its time slice. The
valve outlasts the backend's reports (`BackendIdle`).

**The finding.** `ivar.rs` documents that filling a cell wakes "any blocked
readers". The cell stores one Waker, the most recent (`ivar.rs:207`), so of two
tasks that await an empty cell the first stays blocked. IvarShared is that
counterexample. The scheduler awaits a request Ivar from the daemon only and a
response Ivar from its own handler only; with one reader at a time, run Ivar
shows the wake-up is never lost.

**Cases in which the code does less than its comments say.** The runs' properties
leave them out; the constants or the formula named bring each one back.

- *A poll that names a channel twice* (`PolledTwice = TRUE`). network_wait pulls
  arrivals entry by entry and sends them in one request. What is pulled for the
  second entry is not visible to the check of the first, but in replay it is
  released by its time, which both share. The engine's module comment says that a
  replay "observes every input at the same check that the recording did"
  (`network_engine.rs:22`); with such a poll ReplayObservesTheSame fails
  (`syscalls/network_trace.rs:2178`).
- *A thread that blocked outside the schedule* (drop the second conjunct of
  EveryExitIsNotified). A's copy from the scheduler is delivered, A's kernel copy
  is pending, B exits and both of its copies merge into that one, and `claim`
  (`child_exit_sigchld.rs:576`) drops it as A's second: the parent sees nothing for
  B. The module promises "One `SIGCHLD` per child exit" on ptrace
  (`child_exit_sigchld.rs:9`). With a guest send in the same setup a copy may also be
  attributed to the wrong send.
- *A timer that an empty run queue dispatches* (drop `kicked` from the two
  properties). With nothing to run, step 2d dispatches the child-exit timer as a plain
  send to the process (`scheduler.rs:18462`, `parked.rs:991`). On ptrace it takes no
  decision of the ledger, so the child's two copies may both be delivered, against the
  "One `SIGCHLD` per child exit" of `child_exit_sigchld.rs:9`. On SaBRe it takes the
  decision but leaves no record of which thread the copy was for: when the copy merges
  into a pending duplicate of another child, both are dropped and the parent sees
  nothing for the child.
- *A kill of the sender's own process* whose victim may exit by itself. The sender
  files its Exit request after the reservation (`signal.rs:3780`), which ends its
  turn. When a reserved sibling's exit is granted first, its receipt is held and
  retires nothing (`tool_global.rs:7474`), the loop awaits that sibling, and the
  commit never comes. The run reaches that state; `(t \in held) ~> (t \notin held)`
  fails in it, though the module comment says that the scheduler retires each victim
  or the receipt "takes the ordinary path" (`sigkill_retirement.rs:21`). With two
  senders (`Killers = {1, 2}`) a sender may also die between its commit and its
  send; its victims in other processes are then never killed, and
  RefusesOnlyTheLost fails.

## 4. Proofs

The theorems below hold for every value of the constants that satisfies the named
assumptions of the modules: any number of threads, processes, timers, readers or
lives, and any MAX_TIME. Each rests on an inductive invariant `IInv` of its module:
`Init => IInv`, `IInv /\ [Next]_vars => IInv'`, and `IInv` implies the property, or
with a step implies the action property or a step of the abstract specification.

**RunQueueProofs**, for any strategy, priorities, interval and bound:

- `NoThreadTwice`, `CommitsTheSelected`, `SelectionFindsSomeone`: invariants of the
  runs above;
- `TypeCorrectness`, `MarksNameQueuedThreads`, `SkipsMeetNoEpoch`: the rest of the
  inductive invariant, which no run checks by itself;
- `LockRefinement`: RunQueue implements SelectionLock.

`IInv` is TypeOK with OneEntryPerThread, SelectionIsCommittable, YieldMarksAreQueued
and SkipExcludesEpoch. None of them is inductive alone. That the commit takes the
selected thread needs one entry per thread; that a yield's skip never meets an open
epoch needs the marks to name queued threads; that someone is eligible then follows
from the marks and the skip, and is not itself part of the induction. The proof has
a lemma per queue operator (what it preserves) and a step per action. The theorems
assume `MaxPushes < RUN_TIME_TURNS`, which in the code is 2^61 pushes.

About the order of the queue, under the same assumptions:

- `KeysAreDistinct` (DistinctKeys), `RunTimeTurnsAreOrdinary`
  (RunTimeTurnsAreRoundRobin), `UpgradesReachPollers` (PollersAreUpgraded);
- the action property `RestoresKeepTheirClass` (RestoreKeepsGateClass).

DistinctKeys is not inductive: a push takes the next turn of a counter, so every
turn in the queue must lie between the counters, and so must that of an entry set
aside for an observation, which a restore puts back as it was. `KInv` adds to `IInv`
that a *counted* turn is unique over all bands, queued or set aside (an upgrade moves
an entry to another band with its turn), and that a turn of the run-time order
belongs to an ordinary entry and is unique in its band. The action property follows
from what a restoration does in a state of the invariant.

PollersAreUpgraded says that an upgrade reaches a backed-off poller before
`POLLING_UPGRADE_INTERVAL` pushes at the back have gone past it: the queue upgrades
all of them when the turn counter is a multiple of the interval. The invariant
behind it is that the pushes at the back since a poller that no upgrade has reached
are at most the counter's remainder. A push at the back adds one to both and a push
at the front to the remainder only, unless the remainder returns to zero, and then
the upgrade has left no such entry. It is stated for a queue without observation
gates (`~ControlledSignals`): an entry set aside for an observation is restored with
its old turn, however many pushes came between.

**TurnProtocolProofs**, for any number of threads and execs, with and without the
cancellation of killed RPCs:

- `Sequentialized` (OneGuestRuns), `NoThreadIsLost` (EveryThreadIsSomewhere),
  `HandoversAreWhole` (HandoverIsPaired), `NoRequestPanics`
  (AdmittedRequestsAreAwaited), `LeavesNobodyBehind` (EndsWithNobodyLeft);
- the action properties `TheDeadStayDead` (NoTurnForTheDead) and `DeadlocksAreReal`
  (DeadlockIsReal);
- `LockRefinement`: TurnProtocol implements SelectionLock.

The invariant has a part per concern: the state of a thread against its entry
(`ThreadInv`), requests on their way (`CallInv`), an exec under way (`ExecInv`), who
holds the grant (`GrantInv`), the daemon's place against the selection
(`DaemonInv`), and the pools (`PoolInv`). OneGuestRuns needs all of them: the grant
survives in a request on its way, so a thread *holds* it also while an admissible
request of its is in flight; such a request is unique only because stale requests
are told apart by the incarnation (`mm`); and that the daemon grants nothing
meanwhile needs its last check of quiescence to be current, which in turn needs
every holder to be queued. Frame lemmas say which variables each part reads, so
that an action's proof has one step per part it disturbs.

**TimedEventsProofs**, for any threads, processes, POSIX timer ids and intervals:

- `NoStaleEvent` (MapMatchesTimers), `TimersKeepTheirGrid` (OnItsGrid);
- the action property `NoBurstOfMissedPeriods` (RearmsLater);
- `DeadlineRefinement`: TimedEvents implements DeadlineTable.

**TimedEventsTable** proves what each operation does to the places of the map it
touches, that a pop finds a least deadline (the naturals are well-founded), and that
the operations keep `TableInv`: a timer's event is in the map at a time exactly when
that time is recorded for the timer; a thread's event is in it once at most; a
process has its alarm either among the signal timers or among the controlled ones;
an inactive timer is periodic and has not saturated. Uniqueness of a source's
deadline needs all of these, since a cancellation removes the event only at the
recorded time. `IInv` (**TimedEventsProofs**) adds that the clocks have not
saturated and that every periodic deadline is on the grid of its arming, for which
`grid_after` must return, by integer division, a later time that is a whole number
of intervals away.

**IvarProofs**: `FilledOnce` (OneValueForAll). The invariant says that a successful
writer's value is the cell's and that there is one such writer; it needs the cell
never to be emptied. CellAssumption keeps values apart from the writers' other
states.

**RealItimerProofs**: `NoTimerIsStuck` (WaitsForADequeue), `TracedRefinement` and
`ControlledRefinement` (both implementations refine LinuxItimer). The traced
invariant relates the scheduler's pending copy to the kernel's queue, to the stop at
which a dequeue is seen and to the barrier of a deferred timer. The controlled one
says that reports still to come are of an earlier life or of a retired timer, and
that the sequence numbers of the backend and of the scheduler agree.

**VforkBarrierProofs**, for any finite set of threads, so any nesting and number of
vforks, and any number of deaths:

- `RegistrationsAreMet` (RegistrationFindsItsParent), `WaitsAreOwed`
  (BarrierWaitsAreOwed).

`IInv` says where a thread can be (`Places`), that ids are used once (`Ids`), and what
each record stands for: a call under way (`Calls`), a child still to register
(`Coming`), a teardown still to be reported (`Torn`), and for each barrier, pending or
with its child, who will report next (`Owed`). A barrier changes hands when its parent
or its child dies in the middle of the vfork; so the report that is owed may be the
child's registration, whose parent left a tombstone, or the parent's, whose child is
gone. The proof goes through three lemmas about what retiring a parent, releasing a
child and both together (`LogicallyKill`) do to the records, and one step per action.
Every death, at a turn, by exit_group, at an exec or from outside, then ends a thread
in the same way (`EndStep`).

**SigkillProofs**, for any threads, processes, targets and lost reports:

- `KillsSettle`: KillsAreSettled in every state in which no reservation's sender has
  been deregistered (`NoSendIsAbandoned`);
- `SafeKillsSettle` (KillsAreSettled) and `SafeRefusals` (RefusesOnlyTheLost), both
  where nothing but its own send ends a sender's process (`SafeSenders`).

The conditions are needed. A sender that another send reserves may die with its own
reservation open; reservations end only in `commit_sigkill`
(`sigkill_retirement.rs:495`), so its victims stay reserved, and both properties
fail. The constants of the run satisfy `SafeSenders`. `IInv` relates the four records
of a victim: its reservation, its receipt (held or counted), its place in the fence,
and what the kernel has done to it. A committed victim that is not in the fence has
been accounted for; its leader is accounted for last. `SafeInv` adds that a sender
between its reservation and its commit is alive, and `RefusalInv` that a process in
the fence's holds has its publication still to come or lost, so that once the backend
is idle only a lost one is left.

What TLC alone checks, and why:

- Liveness (BlockedReadersWake, TurnsEnd, KillsReturn): it needs fairness and
  ENABLED, which this prover does not reason about.
- ChildExitSigchld and NetworkReplay: their properties are about counts and
  histories that folds compute over sequences, and what a fold returns for every
  input needs an induction over data.
- WakesRunTogether: it speaks of the order of the wakes that have run, a sequence
  that a step extends by an enumeration of a set.
- ImplementsInstantVfork: its mapping sorts, reverses and filters sequences, and
  compares the results with those of the abstract schedule. The proof needs
  equalities of such sequences, each an induction over their length; what the
  sequences *contain* is all that the theorems above use, and is proved.

## 5. Not modelled in the modelled parts

The map covers the run queue, the timed-event table, the Ivar and most of the files
named in section 1 for the other modules, and the ordinary turn's path through
`scheduler.rs` and `tool_global.rs`, which is the smaller part of those two files.
Left out are:

- TurnProtocol: `wait4` waiters, signals that interrupt a wait, happens-before gates
  and the verdict on idle pollers; vfork barriers and the SIGKILL fence are modules
  of their own. Which finished background calls rejoin in a pass is any subset. A
  tid is not reused before the scheduler's next drain (`FreeTids`). The leader dies
  before the last thread only by its own granted exit. The
  panics of `replace_retired_run_queue_incarnation` (`scheduler.rs:22115`) and the
  debug assertion of `admit_to_run_queue` are not in the model, which would go on
  where they fire.
- Futexes: one address; no requeue, bitset, PI or robust lists.
- TimedEvents: the ledger of coalesced expirations and signal payloads.
- RunQueue: `push_safety_check` runs in debug builds only. For the pushes of threads
  that come from outside the queue (PushBack, PushFront, ReadmitReady) that the thread
  is not queued is the callers' obligation and a guard of the action; for a commit, a
  requeue and a restore it is shown. Pollers are restored one per step, where the code
  restores the members of a set one after another.
- VforkBarrier: one priority band, without pollers; run mode only; the valve that
  ends a wait; reuse of a tid, and so the tombstone a reused parent tid would find;
  signal takers and happens-before holds. The outcome of a clone is drawn at its
  grant. The kernel holds a parent until its child execs or ends (ptrace, KVM). A
  kill from outside that no pass waits for (`Noticed`: of a vfork child parked for
  another thread, of a parent before its child registered) takes effect when its
  report arrives, so the refinement is not claimed after one (`unseen`). The wait's
  end is not stated as liveness: BarrierWaitsAreOwed says that each wait is owed a
  report, and a backend that delivers what it owes ends it.
- NetworkReplay: accepts, several channels, counters' overflow, descriptors and
  flags. The release condition on sent bytes (`after_tx`) never decides in a replay
  of the same schedule. A recording that ends inside a blocking send is left out
  (`Finish`).
- ChildExitSigchld: a wait that faults, a send that fails, raw exit statuses, PID
  namespaces, the classification of a child as discarded, and rt_sigtimedwait
  without a siginfo buffer. Timers fire in any order, and which deferred delivery is
  readmitted is any.
- SigkillRetirement: the refusals for a namespace init, a background operation or an
  unknown address space; snapshots of robust lists; input freezes; re-parenting;
  threads retired at an unwind; reuse of a tid; repeated deregistrations. Every victim
  process has a parent that is notified with SIGCHLD, so every commit holds for its
  publication; `own_killed_child_notification` returns without a hold where there is
  no parent, no synthesized signal or another exit signal
  (`sigkill_retirement.rs:624`).
- RealItimer: SIGALRMs to one thread; a traced process's exit, so
  `alarm_unobservable` outliving it and the `ProcessGone` outcome of a
  reconciliation, which removes the alarm of a process that is gone; the outcome
  `Unreadable`, which ends the run (`itimer_coalesce.rs:334`); SIGALRMs sent from
  outside the schedule between a dequeue and the stop that reconciles it; a delivery
  reported only afterwards; of the controlled timer failed publications, overflow,
  identity validation and the rebinding at exec.

## 6. Plan

1. Extend TurnProtocol: child waits and exit publication, signals that end a wait;
   compose it with VforkBarrier and SigkillRetirement through the fence and the
   barrier of step 2a.
2. A process-signal-receiver module; POSIX timer overruns on top of TimedEvents.
3. Pipe wakes and FIFO peers; shared open files.
4. Pure algorithms against reference definitions: edit distances of schedules,
   bisection, pedigree.
5. Replay: the schedule replayer, the rejoin log, the boundary cursor.
6. Proofs: the refinement of InstantVfork, from the equalities of sequences it needs.
