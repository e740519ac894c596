------------------------------ MODULE RunQueue ------------------------------
(***************************************************************************)
(* The run queue as the scheduler uses it: every action is one place of    *)
(* detcore/src/scheduler.rs (or of scheduler/parked.rs and                 *)
(* scheduler/pipe_wake.rs) that changes the queue, with every queue        *)
(* operation that place makes while it holds the scheduler's lock.         *)
(***************************************************************************)
EXTENDS RunQueueOps, FiniteSets

CONSTANTS
    ControlledSignals, \* the backend parks requests to observe signals (KVM)
    FairContinuation,  \* --replay-continue-fairly past a replayed schedule
    RunTimes,          \* the (run time, last selection) pairs it sorts by
    PollAttempts,      \* poll_attempt of a polling request
    MaxPushes          \* bound on turn_counter

ASSUME EnvironmentAssumption ==
    /\ ControlledSignals \in BOOLEAN /\ FairContinuation \in BOOLEAN
    /\ FairContinuation => Tids \subseteq Nat
    /\ RunTimes \subseteq Nat \X Nat
    /\ PollAttempts \subseteq Nat
    /\ MaxPushes \in Nat /\ MaxPushes < RUN_TIME_TURNS

VARIABLES
    rq,          \* Scheduler::run_queue
    priorities,  \* Scheduler::priorities, read by get_priority
    suspended    \* SavedMembership::Queued of the parked requests

vars == <<rq, priorities, suspended>>

\* struct SuspendedRunQueueEntry
Suspended == [entry : Entry, persistent_priority : Priorities]

\* A scheduler that has just been created, with a drawn priority per thread.
Init ==
    /\ rq = new
    /\ priorities \in [Tids -> Priorities]
    /\ suspended = {}

\* The places below push at most once.
Room == turn_counter(rq) < MaxPushes

-----------------------------------------------------------------------------
(* Outside a selection.  push_safety_check, an assertion of debug builds   *)
(* only, is the callers' obligation and a guard of the three plain pushes. *)

\* runqueue_push_back: admit_now at the back, a futex wake, hb_flush_wakes, a
\* woken child waiter.
PushBack(t) ==
    /\ Room /\ CanMutate(rq) /\ push_safety_check(rq, t)
    /\ rq' = push_back(rq, t, priorities[t])
    /\ UNCHANGED <<priorities, suspended>>

\* runqueue_push_front: wake_timed_event, a forced unblock, admit_now at the
\* front.
PushFront(t) ==
    /\ Room /\ CanMutate(rq) /\ push_safety_check(rq, t)
    /\ rq' = push_front(rq, t, priorities[t])
    /\ UNCHANGED <<priorities, suspended>>

\* readmit_ready_thread: a finished background call.
ReadmitReady(t) ==
    /\ Room /\ CanMutate(rq) /\ push_safety_check(rq, t)
    /\ rq' = push_eager_io_repoll(rq, t)
    /\ UNCHANGED <<priorities, suspended>>

\* A removal outside a selection: drain_pending_runqueue_removals, a thread
\* put to sleep or woken elsewhere by a signal.  A thread that retires drops
\* its parked requests too (retire_parked_requests).
Remove(t, retires) ==
    /\ CanMutate(rq)
    /\ rq' = remove_tid(rq, t)
    /\ suspended' = IF retires THEN {s \in suspended : s.entry.tid # t}
                    ELSE suspended
    /\ rq' # rq \/ suspended' # suspended
    /\ UNCHANGED priorities

\* requeue_with_new_priority
RequeueWithNewPriority(t, p) ==
    /\ Room /\ CanMutate(rq)
    /\ priorities' = [priorities EXCEPT ![t] = p]
    /\ LET removed == remove_tid(rq, t)
       IN  rq' = IF contains_tid(rq, t) THEN push_back(removed, t, p)
                 ELSE removed
    /\ UNCHANGED suspended

\* requeue_futex_waker, hand_off_turn: behind the thread it just woke.
RequeueBehind(t) ==
    /\ Room /\ CanMutate(rq) /\ contains_tid(rq, t)
    /\ rq' = push_back(remove_tid(rq, t), t, priorities[t])
    /\ UNCHANGED <<priorities, suspended>>

\* step2b_restore_due_pollers, ready_channel: each restores the pollers of some
\* set one after another, and each of them is a step here.
RestorePoller(t) ==
    /\ Room /\ CanMutate(rq)
    /\ contains_tid(rq, t)
    /\ EntryOf(rq, t).poll_upgrade # NoUpgrade
    /\ rq' = restore_poller_priority(rq, t)
    /\ UNCHANGED <<priorities, suspended>>

\* upgrade_pollers_on_time
UpgradeOnTime ==
    /\ CanMutate(rq)
    /\ rq' = upgrade_pollers(rq)
    /\ UNCHANGED <<priorities, suspended>>

\* begin_alarm_observation: the parked thread's entry is set aside and the
\* thread queued as an observation gate.
BeginObservation(t) ==
    /\ ControlledSignals
    /\ Room /\ CanMutate(rq) /\ contains_tid(rq, t)
    /\ ~\E s \in suspended : s.entry.tid = t
    /\ suspended' = suspended \cup
          {[entry |-> EntryOf(rq, t), persistent_priority |-> priorities[t]]}
    /\ rq' = push_back(suspend(rq, t), t, priorities[t])
    /\ UNCHANGED priorities

\* resume_request: whatever the gate left queued is dropped and the entry
\* comes back.
ResumeRequest(s) ==
    /\ CanMutate(rq)
    /\ suspended' = suspended \ {s}
    /\ LET gone == suspend(rq, s.entry.tid)
           e == Rebanded(s.entry, s.persistent_priority,
                         priorities[s.entry.tid])
       IN  \E n \in {e.turn} \cup {f.turn + 1 : f \in gone.queue} :
              /\ IsRestoreTurn(gone, e, n)
              /\ rq' = restore(gone, e, n)
    /\ UNCHANGED priorities

-----------------------------------------------------------------------------
(* Opening a selection: step3_peek.                                        *)

\* order_continuation_fairly: exactly the round-robin threads, by run time.
OrderedFairly(q, order, a) ==
    IF FairContinuation THEN order_by_run_time(q, order, a) ELSE q

RunTimeOrders ==
    IF FairContinuation THEN [round_robin_tids(rq) -> RunTimes] ELSE {<<>>}

\* The least turns are found among those the run times name and the ones
\* right after.
Assignments(order) ==
    IF FairContinuation
    THEN LET base == {RUN_TIME_TURNS + RunTimeOffset(order[t][1]) :
                        t \in DOMAIN order}
         IN  {a \in [DOMAIN order -> {b + i : b \in base, i \in 0..Cardinality(Tids) - 1}] :
                IsRunTimeAssignment(rq, order, a)}
    ELSE {<<>>}

\* The scheduling strategy chooses.
PeekNext ==
    /\ CanMutate(rq) /\ rq.queue # {}
    /\ \E order \in RunTimeOrders : \E a \in Assignments(order) :
          LET q == OrderedFairly(rq, order, a)
          IN  \E sel \in Selections(EpochChecked(q)) :
                 rq' = tentative_pop_next(q, sel)
    /\ UNCHANGED <<priorities, suspended>>

\* A signal taker, a vfork child, a group-exit decider or a continuation of
\* rt_sigreturn goes first whatever the strategy says.
PeekExact(t) ==
    /\ CanMutate(rq) /\ contains_tid(rq, t)
    /\ \E order \in RunTimeOrders : \E a \in Assignments(order) :
          rq' = tentative_pop_tid(OrderedFairly(rq, order, a), t)
    /\ UNCHANGED <<priorities, suspended>>

-----------------------------------------------------------------------------
(* Closing it.  `forget` is StickyRandom's draw, which no other makes.     *)

Draws == IF Strategy = "StickyRandom" THEN BOOLEAN ELSE {FALSE}

Selected == rq.tentative_selection

\* step6_reenquue with Requeue::Back
CompleteTurn(forget) ==
    /\ Room /\ ~CanMutate(rq)
    /\ rq' = push_back(commit_tentative_pop_completed_turn(rq, forget),
                       Selected, priorities[Selected])
    /\ UNCHANGED <<priorities, suspended>>

\* step6_reenquue with Requeue::OneTurnYield
CompleteYield(forget) ==
    /\ Room /\ ~CanMutate(rq)
    /\ rq' = push_yielded(commit_tentative_pop_completed_turn(rq, forget),
                          Selected, priorities[Selected])
    /\ UNCHANGED <<priorities, suspended>>

\* step6_reenquue with Requeue::YieldEpoch
CompleteChaosYield(forget) ==
    /\ Room /\ ~CanMutate(rq)
    /\ rq' = push_yielded_into_epoch(commit_tentative_pop_yield(rq, forget),
                                     Selected, priorities[Selected])
    /\ UNCHANGED <<priorities, suspended>>

\* The non-committing turn of a polling request; a replayed schedule may keep
\* the turn for the retry.
BackOffPoller(forget, attempt, keeps_turn) ==
    /\ Room /\ ~CanMutate(rq)
    /\ LET q == commit_tentative_pop(rq, forget)
           p == priorities[Selected]
       IN  rq' = IF keeps_turn THEN push_back(q, Selected, p)
                 ELSE push_poller(q, Selected, p, attempt)
    /\ UNCHANGED <<priorities, suspended>>

\* perform_priority_changepoint
PriorityChangepoint(forget, p) ==
    /\ Room /\ ~CanMutate(rq)
    /\ priorities' = [priorities EXCEPT ![Selected] = p]
    /\ rq' = push_back(end_yield_epoch(commit_tentative_pop(rq, forget)),
                       Selected, p)
    /\ UNCHANGED suspended

\* skip_turn_blocked, and the deferral of a SIGCHLD
BlockTurn ==
    /\ ~CanMutate(rq)
    /\ rq' = remove_tid(undo_tentative_pop(rq), Selected)
    /\ UNCHANGED <<priorities, suspended>>

\* step4: the call goes to the background.
BackgroundTurn ==
    /\ ~CanMutate(rq)
    /\ rq' = end_yield_epoch(consume_yield_exclusion(
                remove_tid(undo_tentative_pop(rq), Selected)))
    /\ UNCHANGED <<priorities, suspended>>

\* abort_turn_if_thread_vanished, the ThreadExited and terminal arms of
\* finish_selected_turn, report_backend_failure
AbortTurn ==
    /\ ~CanMutate(rq)
    /\ rq' = undo_tentative_pop(rq)
    /\ UNCHANGED <<priorities, suspended>>

Next ==
    \/ \E t \in Tids :
          \/ PushBack(t) \/ PushFront(t) \/ ReadmitReady(t)
          \/ \E retires \in BOOLEAN : Remove(t, retires)
          \/ \E p \in Priorities : RequeueWithNewPriority(t, p)
          \/ RequeueBehind(t) \/ RestorePoller(t)
          \/ BeginObservation(t) \/ PeekExact(t)
    \/ UpgradeOnTime \/ PeekNext
    \/ \E s \in suspended : ResumeRequest(s)
    \/ \E forget \in Draws :
          \/ CompleteTurn(forget) \/ CompleteYield(forget)
          \/ CompleteChaosYield(forget)
          \/ \E attempt \in PollAttempts, keeps_turn \in BOOLEAN :
                BackOffPoller(forget, attempt, keeps_turn)
          \/ \E p \in Priorities : PriorityChangepoint(forget, p)
    \/ BlockTurn \/ BackgroundTurn \/ AbortTurn

Spec == Init /\ [][Next]_vars

-----------------------------------------------------------------------------
(* What holds of the queue between any two of these steps.                 *)

\* The fields keep their Rust types; priorities stay ordinary
\* (is_ordinary_priority) and a poll upgrade never records the reserved one.
TypeOK ==
    /\ rq \in RunQueueState /\ rq.last_front_turn <= 0
    /\ priorities \in [Tids -> Priorities]
    /\ suspended \subseteq Suspended

\* No thread is queued twice, if the callers of the three plain pushes keep to
\* push_safety_check: the pushes that close a selection or requeue a thread, and
\* the restores of pollers and of observation gates (with their
\* assert!(!contains_tid)) never meet an entry of the same thread.
OneEntryPerThread ==
    \A e, f \in rq.queue : e.tid = f.tid => e = f

\* Every insertion finds its key free: the assert!(old.is_none()) of
\* push_inner, do_poll_upgrade, restore_poller_priority, order_by_run_time
\* and restore.
DistinctKeys ==
    \A e, f \in rq.queue : SameKey(e, f) => e = f

\* An open selection names a queued thread, and it is the one commit_selection
\* takes off the queue under every strategy (its unwraps and its
\* debug_assert!(ret == tentative_selection)); with none open the exact flag is
\* down, which tentative_pop_next asserts.
SelectionIsCommittable ==
    /\ rq.tentative_selection # NoTid =>
          /\ contains_tid(rq, rq.tentative_selection)
          /\ Committed(rq) = rq.tentative_selection
    /\ rq.tentative_selection = NoTid => ~rq.tentative_selection_is_exact

\* Whatever yields came before, a non-empty queue has a thread to select: the
\* "impossible" of step3_peek and random_range(0, 0) never happen.
SomeoneEligible ==
    rq.queue # {} => Eligible(EpochChecked(rq)) # {}

\* The yield bookkeeping names queued threads only, so a retired thread's
\* successor under the same tid inherits nothing (remove_tid).
YieldMarksAreQueued ==
    /\ rq.yielded_skip # NoTid => contains_tid(rq, rq.yielded_skip)
    /\ rq.yield_epoch \subseteq tids(rq)
    /\ rq.queued_by_yield \subseteq tids(rq)

\* The one-turn skip and an open yield epoch never meet, so the fallback of
\* tentative_pop_next that drops the epoch for the skip is never taken.
SkipExcludesEpoch ==
    rq.yielded_skip # NoTid => ~rq.epoch_open

\* A turn of the run-time order belongs to an ordinary entry: a poller keeps
\* the turn it was backed off with, and an eager repoll its place in front,
\* whatever upgrades, gates and restores come between two orderings.
RunTimeTurnsAreRoundRobin ==
    \A e \in rq.queue : e.turn >= RUN_TIME_TURNS =>
        is_non_polling(e) /\ e.priority \in Priorities

\* No poller is overlooked for long.  The starvation bound of chaos scheduling
\* leaves a backed-off or restored poller out until an upgrade returns it to its
\* band or marks it (can_be_passed_over), and every poller it leaves out was
\* queued within the last POLLING_UPGRADE_INTERVAL pushes at the back, whatever
\* other pushes and restores moved turn_counter in between.  An entry set aside
\* for an observation gate is upgraded by nobody, so the bound is that of a
\* backend without gates.
PollersAreUpgraded ==
    ~ControlledSignals =>
        \A e \in rq.queue :
            \/ can_be_passed_over(rq, e.tid)
            \/ rq.last_back_turn - e.turn < POLLING_UPGRADE_INTERVAL

\* Between the pop that opens a selection and the commit or undo that closes
\* it nobody joins the queue and only the selected thread may leave it: the
\* queue keeps the contract of its locked state, whatever the strategy.
Lock == INSTANCE SelectionLock WITH queued <- tids(rq),
                                    selected <- rq.tentative_selection

ImplementsSelectionLock == Lock!Spec

\* Issue 3952: restoring a poller whose deadline passed does not change
\* whether the deterministic-work-first gates count it as work, unless the
\* move itself completes a poll-upgrade interval.
RestoreKeepsGateClass ==
    [][\A t \in Tids :
          RestorePoller(t) /\ turn_counter(rq') % POLLING_UPGRADE_INTERVAL # 0
             => holds_work(rq', t) = holds_work(rq, t)]_vars
=============================================================================
