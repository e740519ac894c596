---------------------------- MODULE RunQueueOps ----------------------------
(***************************************************************************)
(* The run queue of the Detcore scheduler, detcore/src/scheduler/          *)
(* runqueue.rs, as a data type: a record `q` holding the fields of struct  *)
(* RunQueue and one operator per method that returns the record the method *)
(* leaves behind.  RunQueue.tla turns it into a state machine; the modules *)
(* about turns compose its operators inside their own actions.             *)
(*                                                                         *)
(* The BTreeMap from (priority, turn) to QueueValue is the set of its      *)
(* entries, so that two values under one key, or two entries of one        *)
(* thread, are states an invariant can rule out rather than states the     *)
(* model cannot express.                                                   *)
(***************************************************************************)
EXTENDS Integers

CONSTANTS
    Tids,                      \* DetTid: the guest threads
    NoTid,                     \* None, for every Option<DetTid>
    Strategy,                  \* sched_strategy: SchedHeuristic
    LAST_PRIORITY,             \* 10000 in the code
    POLLING_UPGRADE_INTERVAL,  \* 200 in the code
    RUN_TIME_TURNS             \* 2^61 in the code

\* None is no thread.
ASSUME TidAssumption == NoTid \notin Tids

\* FIRST_PRIORITY = 1 < LAST_PRIORITY; turns of the run-time order lie past
\* every turn a push can reach.
ASSUME PriorityAssumption ==
    /\ LAST_PRIORITY \in Nat /\ LAST_PRIORITY > 1
    /\ POLLING_UPGRADE_INTERVAL \in Nat \ {0}
    /\ RUN_TIME_TURNS \in Nat \ {0}

ASSUME StrategyAssumption ==
    Strategy \in {"None", "ConnectBind", "Random", "StickyRandom"}

EAGER_IO_REPOLL_PRIORITY == 0
FIRST_PRIORITY == EAGER_IO_REPOLL_PRIORITY + 1
PLAIN_YIELDS_BEFORE_EPOCH == 1

\* is_ordinary_priority
Priorities == FIRST_PRIORITY..LAST_PRIORITY

\* poll_upgrade: Option<Priority>; None is the reserved priority 0, which no
\* poller has as its normal priority.
NoUpgrade == EAGER_IO_REPOLL_PRIORITY

\* A key of the BTreeMap with its QueueValue.
Entry == [tid : Tids, priority : {EAGER_IO_REPOLL_PRIORITY} \cup Priorities,
          turn : Int, poll_upgrade : {NoUpgrade} \cup Priorities,
          deadline_restored : BOOLEAN, upgraded_in_place : BOOLEAN]

\* struct RunQueue.  yield_epoch: Option<BTreeSet> is split into whether one
\* is open and its members; a thread without a streak has streak 0, and a
\* streak saturates one past PLAIN_YIELDS_BEFORE_EPOCH, the only value the
\* code compares it with.  poll_upgrades only counts upgrades and the random
\* generator is a nondeterministic choice; both are left out.
RunQueueState ==
    [queue : SUBSET Entry,
     last_back_turn : Nat,
     last_front_turn : Int,
     tentative_selection : Tids \cup {NoTid},
     tentative_selection_is_exact : BOOLEAN,
     yielded_skip : Tids \cup {NoTid},
     epoch_open : BOOLEAN,
     yield_epoch : SUBSET Tids,
     yield_streaks : [Tids -> 0..PLAIN_YIELDS_BEFORE_EPOCH + 1],
     queued_by_yield : SUBSET Tids,
     sticky_random_selection : Tids \cup {NoTid}]

\* RunQueue::new
new ==
    [queue |-> {}, last_back_turn |-> 0, last_front_turn |-> 0,
     tentative_selection |-> NoTid, tentative_selection_is_exact |-> FALSE,
     yielded_skip |-> NoTid, epoch_open |-> FALSE, yield_epoch |-> {},
     yield_streaks |-> [t \in Tids |-> 0], queued_by_yield |-> {},
     sticky_random_selection |-> NoTid]

-----------------------------------------------------------------------------
(* Queries.                                                                *)

\* Ord for PrioritizedOrder: priority first, then round-robin turn.
Precedes(e, f) ==
    \/ e.priority < f.priority
    \/ e.priority = f.priority /\ e.turn < f.turn

SameKey(e, f) == e.priority = f.priority /\ e.turn = f.turn

tids(q) == {e.tid : e \in q.queue}

contains_tid(q, tid) == \E e \in q.queue : e.tid = tid

EntryOf(q, tid) == CHOOSE e \in q.queue : e.tid = tid

is_non_polling(e) == e.poll_upgrade = NoUpgrade /\ ~e.deadline_restored

is_fully_backed_off_poller(e) ==
    e.poll_upgrade # NoUpgrade /\ e.priority >= LAST_PRIORITY

counts_as_poller(e) == is_fully_backed_off_poller(e) \/ e.deadline_restored

runnable_besides(q, tid) ==
    {e.tid : e \in {f \in q.queue : f.tid # tid /\ ~counts_as_poller(f)}}

has_runnable_besides(q, tid) == runnable_besides(q, tid) # {}

holds_work(q, tid) ==
    \E e \in q.queue : e.tid = tid /\ ~counts_as_poller(e)

only_pollers(q) == \A e \in q.queue : counts_as_poller(e)

only_pollers_or_yielders(q) ==
    \A e \in q.queue : counts_as_poller(e) \/ e.tid \in q.queued_by_yield

contains_non_polling_tid(q, tid) ==
    \E e \in q.queue : e.tid = tid /\ is_non_polling(e)

can_be_passed_over(q, tid) ==
    \E e \in q.queue : e.tid = tid /\ (is_non_polling(e) \/ e.upgraded_in_place)

tentative_pop_in_progress(q) == q.tentative_selection # NoTid

-----------------------------------------------------------------------------
(* Poll upgrades.                                                          *)

\* What one upgrade does to one entry: a poller below the last band returns
\* to its normal priority under its old turn, one that belongs to the last
\* band is marked, and a restored poller becomes ordinary or is marked too.
UpgradeEntry(e) ==
    LET moved ==
          CASE e.poll_upgrade = NoUpgrade -> e
            [] e.poll_upgrade >= LAST_PRIORITY ->
                 [e EXCEPT !.upgraded_in_place = TRUE]
            [] OTHER ->
                 [e EXCEPT !.priority = e.poll_upgrade,
                           !.poll_upgrade = NoUpgrade]
    IN  [moved EXCEPT
           !.deadline_restored = @ /\ moved.priority >= LAST_PRIORITY,
           !.upgraded_in_place =
              @ \/ (moved.deadline_restored /\ moved.priority >= LAST_PRIORITY)]

do_poll_upgrade(q) == [q EXCEPT !.queue = {UpgradeEntry(e) : e \in @}]

turn_counter(q) == q.last_back_turn - q.last_front_turn

check_poll_upgrade(q) ==
    IF turn_counter(q) % POLLING_UPGRADE_INTERVAL = 0
    THEN do_poll_upgrade(q) ELSE q

upgrade_pollers(q) == do_poll_upgrade(q)

-----------------------------------------------------------------------------
(* Pushes.  CanMutate is their first assertion and push_safety_check the   *)
(* second: the state machines use both as guards or as obligations.        *)

CanMutate(q) == q.tentative_selection = NoTid

push_safety_check(q, tid) == ~contains_tid(q, tid)

push_inner(q, tid, priority, turn, poll_upgrade) ==
    check_poll_upgrade(
        [q EXCEPT !.queue = @ \cup
            {[tid |-> tid, priority |-> priority, turn |-> turn,
              poll_upgrade |-> poll_upgrade,
              deadline_restored |-> FALSE, upgraded_in_place |-> FALSE]}])

push_back_inner(q, tid, priority, poll_upgrade) ==
    push_inner([q EXCEPT !.last_back_turn = @ + 1],
               tid, priority, q.last_back_turn + 1, poll_upgrade)

\* Mutant of push_front_inner: the front counter does not move.
push_front_inner_stuck(q, tid, priority, poll_upgrade) ==
    push_inner(q, tid, priority, q.last_front_turn - 1, poll_upgrade)

push_front_inner(q, tid, priority, poll_upgrade) ==
    push_inner([q EXCEPT !.last_front_turn = @ - 1],
               tid, priority, q.last_front_turn - 1, poll_upgrade)

push_back(q, tid, priority) == push_back_inner(q, tid, priority, NoUpgrade)

push_front(q, tid, priority) == push_front_inner(q, tid, priority, NoUpgrade)

push_eager_io_repoll(q, tid) ==
    push_front_inner(q, tid, EAGER_IO_REPOLL_PRIORITY, NoUpgrade)

\* Exponential backoff from the normal priority, saturating at the last band
\* (2^attempt * normal is at least normal, also where the u64 product
\* overflows and the code takes Priority::MAX).
poller_priority(normal_priority, poll_attempt) ==
    LET backed_off == (2^poll_attempt) * normal_priority
    IN  IF backed_off \in normal_priority..LAST_PRIORITY
        THEN backed_off ELSE LAST_PRIORITY

push_poller(q, tid, normal_priority, poll_attempt) ==
    push_back_inner(q, tid, poller_priority(normal_priority, poll_attempt),
                    normal_priority)

push_yielded(q, tid, priority) ==
    push_back([q EXCEPT !.yielded_skip = tid,
                        !.queued_by_yield = @ \cup {tid}], tid, priority)

push_yielded_into_epoch(q, tid, priority) ==
    LET skipped_someone == \E e \in q.queue : e.tid # tid
        streak == IF q.yield_streaks[tid] > PLAIN_YIELDS_BEFORE_EPOCH
                  THEN q.yield_streaks[tid] ELSE q.yield_streaks[tid] + 1
        joins == skipped_someone /\ streak > PLAIN_YIELDS_BEFORE_EPOCH
    IN  push_back(
          [q EXCEPT
             !.yield_streaks =
                IF skipped_someone THEN [@ EXCEPT ![tid] = streak] ELSE @,
             !.epoch_open = @ \/ joins,
             !.yield_epoch = IF joins THEN @ \cup {tid} ELSE @,
             !.queued_by_yield = @ \cup {tid}], tid, priority)

-----------------------------------------------------------------------------
(* Selection: a tentative pop, closed by a commit or an undo.              *)

end_yield_epoch(q) ==
    [q EXCEPT !.epoch_open = FALSE, !.yield_epoch = {},
              !.yield_streaks = [t \in Tids |-> 0]]

consume_yield_exclusion(q) == [q EXCEPT !.yielded_skip = NoTid]

\* The epoch ends here when it covers every queued thread that could use the
\* turn.
EpochChecked(q) ==
    IF q.epoch_open /\ \A e \in q.queue : \/ e.tid \in q.yield_epoch
                                          \/ is_fully_backed_off_poller(e)
    THEN end_yield_epoch(q) ELSE q

\* Mutant of Excluded: a thread alone in the queue is skipped as well.
Excluded_even_alone(q) ==
    IF q.epoch_open THEN {q.yielded_skip} \cup q.yield_epoch
    ELSE {q.yielded_skip}

\* The threads this selection passes over: the last yielder if it is not
\* alone, and the epoch as well if that leaves someone.
Excluded(q) ==
    LET skip == IF /\ contains_tid(q, q.yielded_skip)
                   /\ \E e, f \in q.queue : e # f
                THEN {q.yielded_skip} ELSE {}
        with_epoch == skip \cup q.yield_epoch
    IN  IF q.epoch_open /\ \E e \in q.queue : e.tid \notin with_epoch
        THEN with_epoch ELSE skip

Eligible(q) == {e \in q.queue : e.tid \notin Excluded(q)}

\* In the order of the BTreeMap: one entry, if keys are distinct.
Firsts(S) == {e \in S : ~\E f \in S : Precedes(f, e)}

EligibleTids(q) == {e.tid : e \in Eligible(q)}

\* The threads tentative_pop_next can select.  Random keeps a selection that
\* is already open; StickyRandom keeps its last choice while it is queued and
\* not passed over.
Selections(q) ==
    CASE q.queue = {} ->
           {IF Strategy \in {"None", "ConnectBind"} THEN NoTid
            ELSE q.tentative_selection}
      [] Strategy \in {"None", "ConnectBind"} -> 
           {e.tid : e \in Firsts(Eligible(q))}
      [] Strategy = "Random" ->
           IF q.tentative_selection # NoTid THEN {q.tentative_selection}
           ELSE EligibleTids(q)
      [] OTHER ->
           IF /\ contains_tid(q, q.sticky_random_selection)
              /\ q.sticky_random_selection \notin Excluded(q)
           THEN {q.sticky_random_selection}
           ELSE EligibleTids(q)

\* tentative_pop_next, with the selection `sel` \in Selections(EpochChecked(q)).
tentative_pop_next(q, sel) ==
    [EpochChecked(q) EXCEPT
        !.tentative_selection = sel,
        !.sticky_random_selection =
           IF Strategy = "StickyRandom" /\ q.queue # {} THEN sel ELSE @]

\* Mutant of tentative_pop_tid: the selection is not marked exact.
tentative_pop_tid_inexact(q, tid) ==
    IF contains_tid(q, tid) THEN [q EXCEPT !.tentative_selection = tid] ELSE q

tentative_pop_tid(q, tid) ==
    IF contains_tid(q, tid)
    THEN [q EXCEPT !.tentative_selection = tid,
                   !.tentative_selection_is_exact = TRUE]
    ELSE q

\* What commit_selection takes off the queue: StickyRandom goes by its own
\* field unless the selection is exact.
Committed(q) ==
    IF Strategy = "StickyRandom" /\ ~q.tentative_selection_is_exact
    THEN q.sticky_random_selection ELSE q.tentative_selection

\* `forget`: the draw by which StickyRandom gives up its choice.
commit_selection(q, forget) ==
    [q EXCEPT
        !.tentative_selection = NoTid,
        !.tentative_selection_is_exact = FALSE,
        !.queue = @ \ {EntryOf(q, Committed(q))},
        !.sticky_random_selection =
           IF /\ Strategy = "StickyRandom"
              /\ ~q.tentative_selection_is_exact
              /\ forget
           THEN NoTid ELSE @,
        !.queued_by_yield = @ \ {Committed(q)}]

commit_tentative_pop(q, forget) == commit_selection(q, forget)

commit_tentative_pop_yield(q, forget) ==
    consume_yield_exclusion(commit_selection(q, forget))

commit_tentative_pop_completed_turn(q, forget) ==
    end_yield_epoch(consume_yield_exclusion(commit_tentative_pop(q, forget)))

\* Mutant of undo_tentative_pop: the selection is not closed.
undo_tentative_pop_stays_open(q) ==
    [q EXCEPT !.tentative_selection_is_exact = FALSE]

undo_tentative_pop(q) ==
    [q EXCEPT !.tentative_selection = NoTid,
              !.tentative_selection_is_exact = FALSE]

-----------------------------------------------------------------------------
(* Removal and reordering.                                                 *)

remove_tid(q, tid) ==
    [q EXCEPT
        !.queue = {e \in @ : e.tid # tid},
        !.yielded_skip = IF @ = tid THEN NoTid ELSE @,
        !.yield_epoch = @ \ {tid},
        !.yield_streaks = [@ EXCEPT ![tid] = 0],
        !.queued_by_yield = @ \ {tid},
        !.sticky_random_selection = IF @ = tid THEN NoTid ELSE @]

\* Mutant of RestoredEntry: the entry is not marked as restored.
RestoredEntry_unmarked(e, turn) ==
    [e EXCEPT !.priority = e.poll_upgrade, !.turn = turn,
              !.poll_upgrade = NoUpgrade]

\* What restore_poller_priority makes of entry e.
RestoredEntry(e, turn) ==
    [e EXCEPT !.priority = e.poll_upgrade, !.turn = turn,
              !.poll_upgrade = NoUpgrade,
              !.deadline_restored = e.priority >= LAST_PRIORITY]

\* Mutant of restore_poller_priority: the counter moves past a multiple of the
\* interval unseen.
restore_poller_priority_unchecked(q, tid) ==
    LET e == EntryOf(q, tid)
    IN  IF contains_tid(q, tid) /\ e.poll_upgrade # NoUpgrade
        THEN [q EXCEPT
                !.last_back_turn = @ + 1,
                !.queue = (@ \ {e}) \cup {RestoredEntry(e, q.last_back_turn + 1)}]
        ELSE q

\* A poller whose deadline passed goes to the back of its normal band.
restore_poller_priority(q, tid) ==
    LET e == EntryOf(q, tid)
    IN  IF contains_tid(q, tid) /\ e.poll_upgrade # NoUpgrade
        THEN check_poll_upgrade(
               [q EXCEPT
                  !.last_back_turn = @ + 1,
                  !.queue = (@ \ {e}) \cup
                     {RestoredEntry(e, q.last_back_turn + 1)}])
        ELSE q

\* Mutant of suspend: the entry stays.
suspend_leaves(q, tid) == q

\* suspend takes the entry out and keeps everything else the queue knows of
\* the thread.
suspend(q, tid) == [q EXCEPT !.queue = {e \in @ : e.tid # tid}]

\* restore: an entry suspended when its thread had persistent priority
\* `saved` comes back under its old key, in the band of the priority it has
\* now if that changed.
Rebanded(e, saved, current) ==
    IF saved = current THEN e
    ELSE [e EXCEPT !.priority = current,
                   !.poll_upgrade = IF @ = NoUpgrade THEN @ ELSE current]

\* The key restore inserts e under: a turn of the run-time order moves up to
\* the next free one, any other turn is kept.
IsRestoreTurn(q, e, n) ==
    IF e.turn >= RUN_TIME_TURNS
    THEN /\ n \in Int /\ n >= e.turn
         /\ ~\E f \in q.queue : f.priority = e.priority /\ f.turn = n
         /\ \A m \in e.turn..n - 1 :
               \E f \in q.queue : f.priority = e.priority /\ f.turn = m
    ELSE n = e.turn

restore(q, e, n) == [q EXCEPT !.queue = @ \cup {[e EXCEPT !.turn = n]}]

\* Mutant of in_round_robin_order: backed-off pollers are ordered as well.
in_round_robin_order_with_pollers(e) ==
    e.turn >= 0 /\ e.priority # EAGER_IO_REPOLL_PRIORITY

in_round_robin_order(e) ==
    /\ e.turn >= 0
    /\ e.priority # EAGER_IO_REPOLL_PRIORITY
    /\ is_non_polling(e)

round_robin_tids(q) ==
    {e.tid : e \in {f \in q.queue : in_round_robin_order(f)}}

\* The entries order_by_run_time moves, given the function `order` from
\* threads to pairs <<run time, last selection>>, and their order in a band.
Moved(q, order) ==
    {e \in q.queue : e.tid \in DOMAIN order /\ in_round_robin_order(e)}

RunsBefore(e, f, order) ==
    LET a == order[e.tid]
        b == order[f.tid]
    IN  \/ a[1] < b[1]
        \/ a[1] = b[1] /\ a[2] < b[2]
        \/ a[1] = b[1] /\ a[2] = b[2] /\ e.tid < f.tid

RunTimeOffset(run_time) ==
    IF run_time < RUN_TIME_TURNS THEN run_time ELSE RUN_TIME_TURNS

\* The turns open to moved entry e once the entries before it in its band
\* have the turns `a`.
OpenTurn(q, order, a, e, n) ==
    /\ n >= RUN_TIME_TURNS + RunTimeOffset(order[e.tid][1])
    /\ \A f \in Moved(q, order) :
          f.priority = e.priority /\ RunsBefore(f, e, order) => n > a[f.tid]
    /\ ~\E f \in q.queue \ Moved(q, order) :
          f.priority = e.priority /\ f.turn = n

\* `a` gives each moved entry the least turn open to it.
IsRunTimeAssignment(q, order, a) ==
    \A e \in Moved(q, order) :
        /\ OpenTurn(q, order, a, e, a[e.tid])
        /\ \A n \in RUN_TIME_TURNS..a[e.tid] - 1 : ~OpenTurn(q, order, a, e, n)

order_by_run_time(q, order, a) ==
    [q EXCEPT !.queue =
        (@ \ Moved(q, order)) \cup
        {[e EXCEPT !.turn = a[e.tid]] : e \in Moved(q, order)}]
=============================================================================
