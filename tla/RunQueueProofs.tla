--------------------------- MODULE RunQueueProofs ---------------------------
(***************************************************************************)
(* Proofs about RunQueue, for any number of threads, any strategy, any     *)
(* bands, any upgrade interval and any number of pushes.                   *)
(*                                                                         *)
(* The lemmas of the first part say, of each operator on queues, what it   *)
(* does to the set of queued threads and to the marks that name threads;   *)
(* the second part shows that each action of RunQueue keeps IInv, and the  *)
(* third draws the theorems from it.  The fourth does the same for the     *)
(* keys of the entries and for the upgrades of pollers.                    *)
(***************************************************************************)
EXTENDS RunQueue, TLAPS

USE ZenonT(30)

\* OneEntryPerThread, of any queue.
Single(q) == \A e, f \in q.queue : e.tid = f.tid => e = f

\* The fields of two queues that do not depend on the order of entries.
SameMarks(q, r) ==
    /\ r.tentative_selection = q.tentative_selection
    /\ r.tentative_selection_is_exact = q.tentative_selection_is_exact
    /\ r.yielded_skip = q.yielded_skip
    /\ r.epoch_open = q.epoch_open
    /\ r.yield_epoch = q.yield_epoch
    /\ r.queued_by_yield = q.queued_by_yield
    /\ r.sticky_random_selection = q.sticky_random_selection

\* A queue that is well-formed: its type, and one entry per thread.
QueueOK(q) ==
    /\ q \in RunQueueState
    /\ q.last_front_turn <= 0
    /\ Single(q)

Bands == {EAGER_IO_REPOLL_PRIORITY} \cup Priorities

-----------------------------------------------------------------------------
(* The operators.                                                          *)

\* An upgrade moves an entry between bands and leaves its thread alone.
LEMMA UpgradeEntryType ==
    ASSUME NEW e \in Entry
    PROVE  UpgradeEntry(e) \in Entry /\ UpgradeEntry(e).tid = e.tid
<1> DEFINE moved ==
      CASE e.poll_upgrade = NoUpgrade -> e
        [] e.poll_upgrade >= LAST_PRIORITY ->
             [e EXCEPT !.upgraded_in_place = TRUE]
        [] OTHER ->
             [e EXCEPT !.priority = e.poll_upgrade,
                       !.poll_upgrade = NoUpgrade]
<1>1. moved \in Entry /\ moved.tid = e.tid
  <2>1. CASE e.poll_upgrade = NoUpgrade
    <3>1. ~(e.poll_upgrade >= LAST_PRIORITY)
      BY <2>1, PriorityAssumption, SMT DEF NoUpgrade, EAGER_IO_REPOLL_PRIORITY
    <3>2. moved = e
      BY <2>1, <3>1
    <3> QED BY <3>2
  <2>2. CASE e.poll_upgrade # NoUpgrade /\ e.poll_upgrade >= LAST_PRIORITY
    <3>1. moved = [e EXCEPT !.upgraded_in_place = TRUE]
      BY <2>2
    <3> QED BY <3>1 DEF Entry
  <2>3. CASE e.poll_upgrade # NoUpgrade /\ ~(e.poll_upgrade >= LAST_PRIORITY)
    <3>1. moved = [e EXCEPT !.priority = e.poll_upgrade,
                            !.poll_upgrade = NoUpgrade]
      BY <2>3
    <3> QED BY <3>1, <2>3 DEF Entry, NoUpgrade
  <2> QED BY <2>1, <2>2, <2>3
<1> HIDE DEF moved
<1>2. UpgradeEntry(e) =
        [moved EXCEPT
           !.deadline_restored = @ /\ moved.priority >= LAST_PRIORITY,
           !.upgraded_in_place =
              @ \/ (moved.deadline_restored /\ moved.priority >= LAST_PRIORITY)]
  BY DEF UpgradeEntry, moved
<1> QED BY <1>1, <1>2 DEF Entry

\* do_poll_upgrade keeps the threads queued, and one entry for each.
LEMMA UpgradeKeeps ==
    ASSUME NEW q, QueueOK(q)
    PROVE  /\ QueueOK(do_poll_upgrade(q))
           /\ tids(do_poll_upgrade(q)) = tids(q)
           /\ SameMarks(q, do_poll_upgrade(q))
<1> DEFINE r == do_poll_upgrade(q)
<1>1. r = [q EXCEPT !.queue = {UpgradeEntry(e) : e \in q.queue}]
  BY DEF do_poll_upgrade
<1>2. q.queue \subseteq Entry
  BY DEF QueueOK, RunQueueState
<1>3. r.queue = {UpgradeEntry(e) : e \in q.queue} /\ r.queue \subseteq Entry
  BY <1>1, <1>2, UpgradeEntryType, SMT DEF QueueOK, RunQueueState
<1>4. r \in RunQueueState /\ SameMarks(q, r) /\ r.last_front_turn <= 0
  BY <1>1, <1>3 DEF QueueOK, RunQueueState, SameMarks
<1>5. tids(r) = tids(q)
  BY <1>2, <1>3, UpgradeEntryType, SMT DEF tids
<1>6. Single(r)
  BY <1>2, <1>3, UpgradeEntryType, SMT DEF QueueOK, Single
<1> QED BY <1>4, <1>5, <1>6 DEF QueueOK

\* So does the upgrade a push may bring.
LEMMA CheckUpgradeKeeps ==
    ASSUME NEW q, QueueOK(q)
    PROVE  /\ QueueOK(check_poll_upgrade(q))
           /\ tids(check_poll_upgrade(q)) = tids(q)
           /\ SameMarks(q, check_poll_upgrade(q))
BY UpgradeKeeps DEF check_poll_upgrade, SameMarks

\* A push of a thread that is not queued adds that thread.
LEMMA PushInnerAdds ==
    ASSUME NEW q, QueueOK(q), NEW t \in Tids, t \notin tids(q),
           NEW p \in Bands, NEW n \in Int, NEW u \in Bands
    PROVE  /\ QueueOK(push_inner(q, t, p, n, u))
           /\ tids(push_inner(q, t, p, n, u)) = tids(q) \cup {t}
           /\ SameMarks(q, push_inner(q, t, p, n, u))
<1> DEFINE e == [tid |-> t, priority |-> p, turn |-> n, poll_upgrade |-> u,
                 deadline_restored |-> FALSE, upgraded_in_place |-> FALSE]
           r == [q EXCEPT !.queue = @ \cup {e}]
<1>1. e \in Entry /\ e.tid = t
  BY DEF Entry, Bands, NoUpgrade
<1>2. r.queue = q.queue \cup {e} /\ r \in RunQueueState
      /\ r.last_front_turn <= 0 /\ SameMarks(q, r)
  BY <1>1 DEF QueueOK, RunQueueState, SameMarks
<1>3. push_inner(q, t, p, n, u) = check_poll_upgrade(r)
  BY DEF push_inner
<1> HIDE DEF e, r
<1>4. tids(r) = tids(q) \cup {t}
  BY <1>1, <1>2 DEF tids
<1>5. Single(r)
  BY <1>1, <1>2 DEF QueueOK, Single, tids
<1>6. QueueOK(r)
  BY <1>2, <1>5 DEF QueueOK
<1>7. /\ QueueOK(check_poll_upgrade(r))
      /\ tids(check_poll_upgrade(r)) = tids(r)
      /\ SameMarks(r, check_poll_upgrade(r))
  BY <1>6, CheckUpgradeKeeps
<1> QED BY <1>2, <1>3, <1>4, <1>7 DEF SameMarks

\* push_back_inner: the new back turn is counted, then push_inner.
LEMMA PushBackInnerAdds ==
    ASSUME NEW q, QueueOK(q), NEW t \in Tids, t \notin tids(q),
           NEW p \in Bands, NEW u \in Bands
    PROVE  /\ QueueOK(push_back_inner(q, t, p, u))
           /\ tids(push_back_inner(q, t, p, u)) = tids(q) \cup {t}
           /\ SameMarks(q, push_back_inner(q, t, p, u))
<1> DEFINE r == [q EXCEPT !.last_back_turn = @ + 1]
           n == q.last_back_turn + 1
<1>1. r \in RunQueueState /\ r.queue = q.queue /\ SameMarks(q, r)
      /\ r.last_front_turn <= 0 /\ n \in Int
  BY SMT DEF QueueOK, RunQueueState, SameMarks
<1>2. push_back_inner(q, t, p, u) = push_inner(r, t, p, n, u)
  BY DEF push_back_inner
<1> HIDE DEF r, n
<1>3. QueueOK(r) /\ tids(r) = tids(q)
  BY <1>1 DEF QueueOK, Single, tids
<1>4. /\ QueueOK(push_inner(r, t, p, n, u))
      /\ tids(push_inner(r, t, p, n, u)) = tids(r) \cup {t}
      /\ SameMarks(r, push_inner(r, t, p, n, u))
  BY <1>1, <1>3, PushInnerAdds
<1> QED BY <1>1, <1>2, <1>3, <1>4 DEF SameMarks

\* push_front_inner: the same with the next front turn.
LEMMA PushFrontInnerAdds ==
    ASSUME NEW q, QueueOK(q), NEW t \in Tids, t \notin tids(q),
           NEW p \in Bands, NEW u \in Bands
    PROVE  /\ QueueOK(push_front_inner(q, t, p, u))
           /\ tids(push_front_inner(q, t, p, u)) = tids(q) \cup {t}
           /\ SameMarks(q, push_front_inner(q, t, p, u))
<1> DEFINE r == [q EXCEPT !.last_front_turn = @ - 1]
           n == q.last_front_turn - 1
<1>1. r \in RunQueueState /\ r.queue = q.queue /\ SameMarks(q, r)
      /\ r.last_front_turn <= 0 /\ n \in Int
  BY SMT DEF QueueOK, RunQueueState, SameMarks
<1>2. push_front_inner(q, t, p, u) = push_inner(r, t, p, n, u)
  BY DEF push_front_inner
<1> HIDE DEF r, n
<1>3. QueueOK(r) /\ tids(r) = tids(q)
  BY <1>1 DEF QueueOK, Single, tids
<1>4. /\ QueueOK(push_inner(r, t, p, n, u))
      /\ tids(push_inner(r, t, p, n, u)) = tids(r) \cup {t}
      /\ SameMarks(r, push_inner(r, t, p, n, u))
  BY <1>1, <1>3, PushInnerAdds
<1> QED BY <1>1, <1>2, <1>3, <1>4 DEF SameMarks

\* The pushes that mark nothing.
LEMMA PushAdds ==
    ASSUME NEW q, QueueOK(q), NEW t \in Tids, t \notin tids(q),
           NEW p \in Priorities, NEW attempt,
           NEW r \in {push_back(q, t, p), push_front(q, t, p),
                      push_eager_io_repoll(q, t),
                      push_poller(q, t, p, attempt)}
    PROVE  QueueOK(r) /\ tids(r) = tids(q) \cup {t} /\ SameMarks(q, r)
<1>1. NoUpgrade \in Bands /\ p \in Bands /\ EAGER_IO_REPOLL_PRIORITY \in Bands
  BY DEF Bands, NoUpgrade
<1>2. poller_priority(p, attempt) \in Bands
  <2>1. LAST_PRIORITY \in Priorities
    BY PriorityAssumption, SMT DEF Priorities, FIRST_PRIORITY,
       EAGER_IO_REPOLL_PRIORITY
  <2>2. p..LAST_PRIORITY \subseteq Priorities
    BY PriorityAssumption, SMT DEF Priorities, FIRST_PRIORITY,
       EAGER_IO_REPOLL_PRIORITY
  <2> QED BY <2>1, <2>2 DEF poller_priority, Bands
<1>3. CASE r = push_back(q, t, p)
  BY <1>1, <1>3, PushBackInnerAdds, SMT DEF push_back
<1>4. CASE r = push_front(q, t, p)
  BY <1>1, <1>4, PushFrontInnerAdds, SMT DEF push_front
<1>5. CASE r = push_eager_io_repoll(q, t)
  BY <1>1, <1>5, PushFrontInnerAdds, SMT DEF push_eager_io_repoll
<1>6. CASE r = push_poller(q, t, p, attempt)
  BY <1>1, <1>2, <1>6, PushBackInnerAdds, SMT DEF push_poller
<1> QED BY <1>3, <1>4, <1>5, <1>6

\* contains_tid in terms of the set of threads.
LEMMA ContainsIsMember ==
    ASSUME NEW q, NEW t
    PROVE  contains_tid(q, t) <=> t \in tids(q)
BY DEF contains_tid, tids

\* The entry of a queued thread is in the queue and names it.
LEMMA EntryOfQueued ==
    ASSUME NEW q, NEW t \in tids(q)
    PROVE  EntryOf(q, t) \in q.queue /\ EntryOf(q, t).tid = t
<1>1. \E e \in q.queue : e.tid = t
  BY DEF tids
<1> QED BY <1>1 DEF EntryOf

\* remove_tid takes the thread out with every mark that names it.
LEMMA RemoveTakes ==
    ASSUME NEW q, QueueOK(q), NEW t \in Tids
    PROVE  LET r == remove_tid(q, t)
           IN  /\ QueueOK(r)
               /\ tids(r) = tids(q) \ {t}
               /\ r.tentative_selection = q.tentative_selection
               /\ r.tentative_selection_is_exact = q.tentative_selection_is_exact
               /\ r.yielded_skip = IF q.yielded_skip = t THEN NoTid
                                   ELSE q.yielded_skip
               /\ r.epoch_open = q.epoch_open
               /\ r.yield_epoch = q.yield_epoch \ {t}
               /\ r.queued_by_yield = q.queued_by_yield \ {t}
<1> DEFINE r == remove_tid(q, t)
<1>1. /\ r \in RunQueueState
      /\ r.last_front_turn <= 0
      /\ r.queue = {e \in q.queue : e.tid # t}
      /\ r.tentative_selection = q.tentative_selection
      /\ r.tentative_selection_is_exact = q.tentative_selection_is_exact
      /\ r.yielded_skip = IF q.yielded_skip = t THEN NoTid ELSE q.yielded_skip
      /\ r.epoch_open = q.epoch_open
      /\ r.yield_epoch = q.yield_epoch \ {t}
      /\ r.queued_by_yield = q.queued_by_yield \ {t}
  <2> DEFINE Streaks == [Tids -> 0..PLAIN_YIELDS_BEFORE_EPOCH + 1]
             streaks == [q.yield_streaks EXCEPT ![t] = 0]
  <2>1. streaks \in Streaks
    BY SMT DEF QueueOK, RunQueueState, PLAIN_YIELDS_BEFORE_EPOCH
  <2>2. r = [q EXCEPT
               !.queue = {e \in @ : e.tid # t},
               !.yielded_skip = IF @ = t THEN NoTid ELSE @,
               !.yield_epoch = @ \ {t},
               !.yield_streaks = streaks,
               !.queued_by_yield = @ \ {t},
               !.sticky_random_selection = IF @ = t THEN NoTid ELSE @]
    BY DEF remove_tid
  <2> HIDE DEF r, streaks
  <2> QED BY <2>1, <2>2 DEF QueueOK, RunQueueState
<1> HIDE DEF r
<1>2. tids(r) = tids(q) \ {t} /\ Single(r)
  BY <1>1, SMT DEF QueueOK, tids, Single
<1> QED BY <1>1, <1>2 DEF QueueOK, r

\* suspend takes the entry and leaves the marks.
LEMMA SuspendTakes ==
    ASSUME NEW q, QueueOK(q), NEW t \in Tids
    PROVE  /\ QueueOK(suspend(q, t))
           /\ tids(suspend(q, t)) = tids(q) \ {t}
           /\ SameMarks(q, suspend(q, t))
<1> DEFINE r == suspend(q, t)
<1>1. /\ r \in RunQueueState
      /\ r.last_front_turn <= 0
      /\ r.queue = {e \in q.queue : e.tid # t}
      /\ SameMarks(q, r)
  BY DEF QueueOK, RunQueueState, suspend, SameMarks
<1> HIDE DEF r
<1>2. tids(r) = tids(q) \ {t} /\ Single(r)
  BY <1>1 DEF QueueOK, tids, Single
<1> QED BY <1>1, <1>2 DEF QueueOK, r

\* A commit takes the selected thread, and no other, off the queue.
LEMMA CommitTakes ==
    ASSUME NEW q, QueueOK(q), NEW forget \in BOOLEAN,
           q.tentative_selection \in tids(q),
           Committed(q) = q.tentative_selection
    PROVE  LET r == commit_selection(q, forget)
               t == q.tentative_selection
           IN  /\ QueueOK(r)
               /\ tids(r) = tids(q) \ {t}
               /\ r.tentative_selection = NoTid
               /\ ~r.tentative_selection_is_exact
               /\ r.yielded_skip = q.yielded_skip
               /\ r.epoch_open = q.epoch_open
               /\ r.yield_epoch = q.yield_epoch
               /\ r.queued_by_yield = q.queued_by_yield \ {t}
<1> DEFINE r == commit_selection(q, forget)
           t == q.tentative_selection
           e == EntryOf(q, t)
<1>1. e \in q.queue /\ e.tid = t
  BY EntryOfQueued
<1>2. /\ r \in RunQueueState
      /\ r.last_front_turn <= 0
      /\ r.queue = q.queue \ {e}
      /\ r.tentative_selection = NoTid
      /\ r.tentative_selection_is_exact = FALSE
      /\ r.yielded_skip = q.yielded_skip
      /\ r.epoch_open = q.epoch_open
      /\ r.yield_epoch = q.yield_epoch
      /\ r.queued_by_yield = q.queued_by_yield \ {t}
  BY DEF QueueOK, RunQueueState, commit_selection
<1> HIDE DEF r, e
<1>3. tids(r) = tids(q) \ {t} /\ Single(r)
  BY <1>1, <1>2, SMT DEF QueueOK, tids, Single
<1> QED BY <1>2, <1>3 DEF QueueOK, r

\* The three bookkeeping operators leave the entries alone.
LEMMA EndEpochKeeps ==
    ASSUME NEW q, QueueOK(q)
    PROVE  LET r == end_yield_epoch(q)
           IN  /\ QueueOK(r)
               /\ r.queue = q.queue
               /\ tids(r) = tids(q)
               /\ r.tentative_selection = q.tentative_selection
               /\ r.tentative_selection_is_exact = q.tentative_selection_is_exact
               /\ r.yielded_skip = q.yielded_skip
               /\ r.epoch_open = FALSE
               /\ r.yield_epoch = {}
               /\ r.queued_by_yield = q.queued_by_yield
               /\ r.sticky_random_selection = q.sticky_random_selection
<1> DEFINE r == end_yield_epoch(q)
<1>1. /\ r \in RunQueueState
      /\ r.last_front_turn <= 0
      /\ r.queue = q.queue
      /\ r.tentative_selection = q.tentative_selection
      /\ r.tentative_selection_is_exact = q.tentative_selection_is_exact
      /\ r.yielded_skip = q.yielded_skip
      /\ r.epoch_open = FALSE
      /\ r.yield_epoch = {}
      /\ r.queued_by_yield = q.queued_by_yield
      /\ r.sticky_random_selection = q.sticky_random_selection
  <2> DEFINE Streaks == [Tids -> 0..PLAIN_YIELDS_BEFORE_EPOCH + 1]
             streaks == [t \in Tids |-> 0]
  <2>1. streaks \in Streaks
    BY SMT DEF PLAIN_YIELDS_BEFORE_EPOCH
  <2>2. r = [q EXCEPT !.epoch_open = FALSE, !.yield_epoch = {},
                      !.yield_streaks = streaks]
    BY DEF end_yield_epoch
  <2> HIDE DEF r, streaks
  <2> QED BY <2>1, <2>2 DEF QueueOK, RunQueueState
<1> HIDE DEF r
<1>2. tids(r) = tids(q) /\ Single(r)
  BY <1>1 DEF QueueOK, tids, Single
<1> QED BY <1>1, <1>2 DEF QueueOK, r

\* consume_yield_exclusion ends the one-turn skip and nothing else.
LEMMA ConsumeKeeps ==
    ASSUME NEW q, QueueOK(q)
    PROVE  LET r == consume_yield_exclusion(q)
           IN  /\ QueueOK(r)
               /\ tids(r) = tids(q)
               /\ r.tentative_selection = q.tentative_selection
               /\ r.tentative_selection_is_exact = q.tentative_selection_is_exact
               /\ r.yielded_skip = NoTid
               /\ r.epoch_open = q.epoch_open
               /\ r.yield_epoch = q.yield_epoch
               /\ r.queued_by_yield = q.queued_by_yield
<1> DEFINE r == consume_yield_exclusion(q)
<1>1. /\ r \in RunQueueState
      /\ r.last_front_turn <= 0
      /\ r.queue = q.queue
      /\ r.tentative_selection = q.tentative_selection
      /\ r.tentative_selection_is_exact = q.tentative_selection_is_exact
      /\ r.yielded_skip = NoTid
      /\ r.epoch_open = q.epoch_open
      /\ r.yield_epoch = q.yield_epoch
      /\ r.queued_by_yield = q.queued_by_yield
  BY DEF QueueOK, RunQueueState, consume_yield_exclusion
<1> HIDE DEF r
<1>2. tids(r) = tids(q) /\ Single(r)
  BY <1>1 DEF QueueOK, tids, Single
<1> QED BY <1>1, <1>2 DEF QueueOK, r

\* undo_tentative_pop closes the selection and leaves the queue as it was.
LEMMA UndoKeeps ==
    ASSUME NEW q, QueueOK(q)
    PROVE  LET r == undo_tentative_pop(q)
           IN  /\ QueueOK(r)
               /\ tids(r) = tids(q)
               /\ r.tentative_selection = NoTid
               /\ ~r.tentative_selection_is_exact
               /\ r.yielded_skip = q.yielded_skip
               /\ r.epoch_open = q.epoch_open
               /\ r.yield_epoch = q.yield_epoch
               /\ r.queued_by_yield = q.queued_by_yield
<1> DEFINE r == undo_tentative_pop(q)
<1>1. /\ r \in RunQueueState
      /\ r.last_front_turn <= 0
      /\ r.queue = q.queue
      /\ r.tentative_selection = NoTid
      /\ r.tentative_selection_is_exact = FALSE
      /\ r.yielded_skip = q.yielded_skip
      /\ r.epoch_open = q.epoch_open
      /\ r.yield_epoch = q.yield_epoch
      /\ r.queued_by_yield = q.queued_by_yield
  BY DEF QueueOK, RunQueueState, undo_tentative_pop
<1> HIDE DEF r
<1>2. tids(r) = tids(q) /\ Single(r)
  BY <1>1 DEF QueueOK, tids, Single
<1> QED BY <1>1, <1>2 DEF QueueOK, r

\* A yield adds the thread with the marks of its yield.
LEMMA PushYieldedAdds ==
    ASSUME NEW q, QueueOK(q), NEW t \in Tids, t \notin tids(q),
           NEW p \in Priorities
    PROVE  LET r == push_yielded(q, t, p)
           IN  /\ QueueOK(r)
               /\ tids(r) = tids(q) \cup {t}
               /\ r.tentative_selection = q.tentative_selection
               /\ r.tentative_selection_is_exact = q.tentative_selection_is_exact
               /\ r.yielded_skip = t
               /\ r.epoch_open = q.epoch_open
               /\ r.yield_epoch = q.yield_epoch
               /\ r.queued_by_yield = q.queued_by_yield \cup {t}
<1> DEFINE m == [q EXCEPT !.yielded_skip = t,
                          !.queued_by_yield = @ \cup {t}]
<1>1. /\ m \in RunQueueState
      /\ m.last_front_turn <= 0
      /\ m.queue = q.queue
      /\ m.tentative_selection = q.tentative_selection
      /\ m.tentative_selection_is_exact = q.tentative_selection_is_exact
      /\ m.yielded_skip = t
      /\ m.epoch_open = q.epoch_open
      /\ m.yield_epoch = q.yield_epoch
      /\ m.queued_by_yield = q.queued_by_yield \cup {t}
  BY DEF QueueOK, RunQueueState
<1>2. push_yielded(q, t, p) = push_back(m, t, p)
  BY DEF push_yielded
<1> HIDE DEF m
<1>3. QueueOK(m) /\ tids(m) = tids(q)
  BY <1>1 DEF QueueOK, tids, Single
<1>4. /\ QueueOK(push_back(m, t, p))
      /\ tids(push_back(m, t, p)) = tids(m) \cup {t}
      /\ SameMarks(m, push_back(m, t, p))
  BY <1>3, PushAdds, SMT
<1> QED BY <1>1, <1>2, <1>3, <1>4 DEF SameMarks

\* push_yielded_into_epoch queues the thread, which may open an epoch or join
\* the open one.
LEMMA PushYieldedIntoEpochAdds ==
    ASSUME NEW q, QueueOK(q), NEW t \in Tids, t \notin tids(q),
           NEW p \in Priorities
    PROVE  LET r == push_yielded_into_epoch(q, t, p)
           IN  /\ QueueOK(r)
               /\ tids(r) = tids(q) \cup {t}
               /\ r.tentative_selection = q.tentative_selection
               /\ r.tentative_selection_is_exact = q.tentative_selection_is_exact
               /\ r.yielded_skip = q.yielded_skip
               /\ r.yield_epoch \subseteq q.yield_epoch \cup {t}
               /\ r.queued_by_yield = q.queued_by_yield \cup {t}
<1> DEFINE Streaks == [Tids -> 0..PLAIN_YIELDS_BEFORE_EPOCH + 1]
           skipped_someone == \E e \in q.queue : e.tid # t
           streak == IF q.yield_streaks[t] > PLAIN_YIELDS_BEFORE_EPOCH
                     THEN q.yield_streaks[t] ELSE q.yield_streaks[t] + 1
           joins == skipped_someone /\ streak > PLAIN_YIELDS_BEFORE_EPOCH
           streaks == IF skipped_someone
                      THEN [q.yield_streaks EXCEPT ![t] = streak]
                      ELSE q.yield_streaks
           m == [q EXCEPT !.yield_streaks = streaks,
                          !.epoch_open = @ \/ joins,
                          !.yield_epoch = IF joins THEN @ \cup {t} ELSE @,
                          !.queued_by_yield = @ \cup {t}]
<1>1. streaks \in Streaks
  <2>1. q.yield_streaks \in Streaks
    BY DEF QueueOK, RunQueueState
  <2>2. streak \in 0..PLAIN_YIELDS_BEFORE_EPOCH + 1
    BY <2>1, SMT DEF PLAIN_YIELDS_BEFORE_EPOCH
  <2> QED BY <2>1, <2>2
<1>2. push_yielded_into_epoch(q, t, p) = push_back(m, t, p)
  BY DEF push_yielded_into_epoch
<1> HIDE DEF streaks, joins
<1>3. /\ m \in RunQueueState
      /\ m.last_front_turn <= 0
      /\ m.queue = q.queue
      /\ m.tentative_selection = q.tentative_selection
      /\ m.tentative_selection_is_exact = q.tentative_selection_is_exact
      /\ m.yielded_skip = q.yielded_skip
      /\ m.yield_epoch \subseteq q.yield_epoch \cup {t}
      /\ m.queued_by_yield = q.queued_by_yield \cup {t}
  BY <1>1 DEF QueueOK, RunQueueState
<1> HIDE DEF m
<1>4. QueueOK(m) /\ tids(m) = tids(q)
  BY <1>3 DEF QueueOK, tids, Single
<1>5. /\ QueueOK(push_back(m, t, p))
      /\ tids(push_back(m, t, p)) = tids(m) \cup {t}
      /\ SameMarks(m, push_back(m, t, p))
  BY <1>4, PushAdds, SMT
<1> QED BY <1>2, <1>3, <1>4, <1>5 DEF SameMarks

\* Moving a poller whose deadline passed changes no membership.
LEMMA RestorePollerKeeps ==
    ASSUME NEW q, QueueOK(q), NEW t \in tids(q)
    PROVE  /\ QueueOK(restore_poller_priority(q, t))
           /\ tids(restore_poller_priority(q, t)) = tids(q)
           /\ SameMarks(q, restore_poller_priority(q, t))
<1> DEFINE e == EntryOf(q, t)
           f == RestoredEntry(e, q.last_back_turn + 1)
           m == [q EXCEPT !.last_back_turn = @ + 1,
                          !.queue = (@ \ {e}) \cup {f}]
<1>1. e \in q.queue /\ e.tid = t /\ e \in Entry
  BY EntryOfQueued DEF QueueOK, RunQueueState
<1>2. CASE contains_tid(q, t) /\ e.poll_upgrade # NoUpgrade
  <2>1. f \in Entry /\ f.tid = t
    <3>1. q.last_back_turn + 1 \in Int
      BY SMT DEF QueueOK, RunQueueState
    <3>2. (e.priority >= LAST_PRIORITY) \in BOOLEAN
      BY SMT
    <3> HIDE DEF e
    <3> QED BY <1>1, <3>1, <3>2 DEF Entry, NoUpgrade, RestoredEntry
  <2>2. restore_poller_priority(q, t) = check_poll_upgrade(m)
    BY <1>2 DEF restore_poller_priority
  <2> HIDE DEF e, f
  <2>3. /\ m \in RunQueueState
        /\ m.last_front_turn <= 0
        /\ m.queue = (q.queue \ {e}) \cup {f}
        /\ SameMarks(q, m)
    <3> DEFINE S == (q.queue \ {e}) \cup {f}
               n == q.last_back_turn + 1
    <3>1. S \in SUBSET Entry /\ n \in Nat
      BY <2>1, SMT DEF QueueOK, RunQueueState
    <3>2. m = [q EXCEPT !.last_back_turn = n, !.queue = S]
      BY DEF QueueOK, RunQueueState
    <3> HIDE DEF S, n, m
    <3>3. m \in RunQueueState /\ m.queue = S
      BY <3>1, <3>2 DEF QueueOK, RunQueueState
    <3>4. m.last_front_turn <= 0 /\ SameMarks(q, m)
      BY <3>1, <3>2 DEF QueueOK, RunQueueState, SameMarks
    <3> QED BY <3>3, <3>4 DEF S
  <2> HIDE DEF m
  <2>4. tids(m) = tids(q) /\ Single(m)
    BY <1>1, <2>1, <2>3, SMT DEF QueueOK, tids, Single
  <2>5. QueueOK(m)
    BY <2>3, <2>4 DEF QueueOK
  <2> QED BY <2>2, <2>3, <2>4, <2>5, CheckUpgradeKeeps, SMT DEF SameMarks
<1>3. CASE ~(contains_tid(q, t) /\ e.poll_upgrade # NoUpgrade)
  BY <1>3 DEF restore_poller_priority, SameMarks
<1> QED BY <1>2, <1>3

\* A suspended entry comes back for its own thread.
LEMMA RestoreAdds ==
    ASSUME NEW q, QueueOK(q), NEW e \in Entry, e.tid \notin tids(q),
           NEW n \in Int
    PROVE  /\ QueueOK(restore(q, e, n))
           /\ tids(restore(q, e, n)) = tids(q) \cup {e.tid}
           /\ SameMarks(q, restore(q, e, n))
<1> DEFINE f == [e EXCEPT !.turn = n]
           r == restore(q, e, n)
<1>1. f \in Entry /\ f.tid = e.tid
  BY DEF Entry
<1>2. r = [q EXCEPT !.queue = @ \cup {f}]
  BY DEF restore
<1> HIDE DEF f, r
<1>3. /\ r \in RunQueueState
      /\ r.last_front_turn <= 0
      /\ r.queue = q.queue \cup {f}
      /\ SameMarks(q, r)
  BY <1>1, <1>2 DEF QueueOK, RunQueueState, SameMarks
<1>4. tids(r) = tids(q) \cup {e.tid} /\ Single(r)
  BY <1>1, <1>3, SMT DEF QueueOK, tids, Single
<1> QED BY <1>3, <1>4 DEF QueueOK, r

\* restore's new priority of a suspended entry keeps its thread and its turn.
LEMMA RebandedType ==
    ASSUME NEW e \in Entry, NEW saved, NEW current \in Priorities
    PROVE  /\ Rebanded(e, saved, current) \in Entry
           /\ Rebanded(e, saved, current).tid = e.tid
           /\ Rebanded(e, saved, current).turn = e.turn
BY DEF Rebanded, Entry

\* The run-time order gives new turns to the threads there are.
LEMMA OrderKeeps ==
    ASSUME NEW q, QueueOK(q), NEW order, NEW a,
           \A t \in DOMAIN order : a[t] \in Int
    PROVE  /\ QueueOK(order_by_run_time(q, order, a))
           /\ tids(order_by_run_time(q, order, a)) = tids(q)
           /\ SameMarks(q, order_by_run_time(q, order, a))
<1> DEFINE M == Moved(q, order)
           At(e) == [e EXCEPT !.turn = a[e.tid]]
           S == (q.queue \ M) \cup {At(e) : e \in M}
           r == order_by_run_time(q, order, a)
<1>1. /\ q.queue \subseteq Entry
      /\ M \subseteq q.queue
      /\ \A e \in M : e.tid \in DOMAIN order
  BY DEF QueueOK, RunQueueState, Moved
<1>2. \A e \in M : At(e) \in Entry /\ At(e).tid = e.tid
  BY <1>1 DEF Entry
<1>3. r = [q EXCEPT !.queue = S]
  BY DEF order_by_run_time
<1> HIDE DEF M, r, At
<1>4. S \subseteq Entry
  BY <1>1, <1>2
<1>5. {e.tid : e \in S} = tids(q)
  BY <1>1, <1>2, SMT DEF tids
<1>6. \A e, f \in S : e.tid = f.tid => e = f
  BY <1>1, <1>2, SMT DEF QueueOK, Single
<1> HIDE DEF S
<1>7. /\ r \in RunQueueState
      /\ r.last_front_turn <= 0
      /\ r.queue = S
      /\ SameMarks(q, r)
  BY <1>3, <1>4 DEF QueueOK, RunQueueState, SameMarks
<1> QED BY <1>5, <1>6, <1>7 DEF QueueOK, Single, tids, r

\* order_continuation_fairly moves turns only, whatever the run times are.
LEMMA OrderedFairlyKeeps ==
    ASSUME QueueOK(rq), NEW order \in RunTimeOrders,
           NEW a \in Assignments(order)
    PROVE  /\ QueueOK(OrderedFairly(rq, order, a))
           /\ tids(OrderedFairly(rq, order, a)) = tids(rq)
           /\ SameMarks(rq, OrderedFairly(rq, order, a))
<1>1. CASE ~FairContinuation
  BY <1>1 DEF OrderedFairly, SameMarks
<1>2. CASE FairContinuation
  <2>1. order \in [round_robin_tids(rq) -> RunTimes]
    BY <1>2 DEF RunTimeOrders
  <2>2. \A t \in DOMAIN order : order[t][1] \in Nat
    BY <2>1, EnvironmentAssumption, SMT
  <2>3. \A t \in DOMAIN order :
           RUN_TIME_TURNS + RunTimeOffset(order[t][1]) \in Int
    BY <2>2, PriorityAssumption, SMT DEF RunTimeOffset
  <2> DEFINE base == {RUN_TIME_TURNS + RunTimeOffset(order[t][1]) :
                        t \in DOMAIN order}
  <2>4. a \in [DOMAIN order -> {b + i : b \in base, i \in 0..Cardinality(Tids) - 1}]
    BY <1>2, SMT DEF Assignments
  <2>5. \A t \in DOMAIN order : a[t] \in Int
    BY <2>3, <2>4, SMT
  <2> QED BY <1>2, <2>5, OrderKeeps DEF OrderedFairly
<1> QED BY <1>1, <1>2

\* Closing an exhausted epoch leaves the entries alone.
LEMMA EpochCheckedKeeps ==
    ASSUME NEW q, QueueOK(q)
    PROVE  LET r == EpochChecked(q)
           IN  /\ QueueOK(r)
               /\ r.queue = q.queue
               /\ tids(r) = tids(q)
               /\ r.tentative_selection = q.tentative_selection
               /\ r.tentative_selection_is_exact = q.tentative_selection_is_exact
               /\ r.yielded_skip = q.yielded_skip
               /\ r.epoch_open => q.epoch_open
               /\ r.yield_epoch \subseteq q.yield_epoch
               /\ r.queued_by_yield = q.queued_by_yield
BY EndEpochKeeps DEF EpochChecked

\* Of two entries one is not the last yielder's, so a selection finds one.
LEMMA EligibleExists ==
    ASSUME NEW q, QueueOK(q), q.queue # {}
    PROVE  Eligible(q) # {}
<1> DEFINE skip == IF /\ contains_tid(q, q.yielded_skip)
                      /\ \E e, f \in q.queue : e # f
                   THEN {q.yielded_skip} ELSE {}
           with_epoch == skip \cup q.yield_epoch
<1>1. Excluded(q) = IF q.epoch_open /\ \E e \in q.queue : e.tid \notin with_epoch
                    THEN with_epoch ELSE skip
  BY DEF Excluded
<1>2. \E e \in q.queue : e.tid \notin skip
  BY DEF QueueOK, Single
<1> HIDE DEF skip, with_epoch
<1>3. \E e \in q.queue : e.tid \notin Excluded(q)
  BY <1>1, <1>2
<1> QED BY <1>3 DEF Eligible

\* Whatever the strategy, what it selects is queued.
LEMMA SelectionsAreQueued ==
    ASSUME NEW q, QueueOK(q), q.queue # {}, q.tentative_selection = NoTid,
           NEW sel \in Selections(q)
    PROVE  sel \in tids(q)
<1>1. EligibleTids(q) \subseteq tids(q)
  BY DEF EligibleTids, Eligible, tids
<1>2. CASE Strategy \in {"None", "ConnectBind"}
  <2>1. Selections(q) = {e.tid : e \in Firsts(Eligible(q))}
    BY <1>2 DEF Selections
  <2> QED BY <2>1 DEF Firsts, Eligible, tids
<1>3. CASE Strategy = "Random"
  <2>1. Selections(q) = EligibleTids(q)
    BY <1>3 DEF Selections
  <2> QED BY <1>1, <2>1
<1>4. CASE Strategy = "StickyRandom"
  <2>1. Selections(q) = IF /\ contains_tid(q, q.sticky_random_selection)
                           /\ q.sticky_random_selection \notin Excluded(q)
                        THEN {q.sticky_random_selection}
                        ELSE EligibleTids(q)
    BY <1>4 DEF Selections
  <2> QED BY <1>1, <2>1, ContainsIsMember, SMT
<1> QED BY <1>2, <1>3, <1>4, StrategyAssumption

-----------------------------------------------------------------------------
(* The inductive invariant.                                                *)

\* One entry per thread is inductive only with the others: a commit pushes
\* the selected thread back, so it must have taken that thread's entry.
IInv ==
    /\ TypeOK
    /\ OneEntryPerThread
    /\ SelectionIsCommittable
    /\ YieldMarksAreQueued
    /\ SkipExcludesEpoch

\* What IInv says of any queue.
Committable(q) ==
    /\ q.tentative_selection # NoTid =>
          /\ q.tentative_selection \in tids(q)
          /\ Committed(q) = q.tentative_selection
    /\ q.tentative_selection = NoTid => ~q.tentative_selection_is_exact

Marked(q) ==
    /\ q.yielded_skip # NoTid => q.yielded_skip \in tids(q) /\ ~q.epoch_open
    /\ q.yield_epoch \subseteq tids(q)
    /\ q.queued_by_yield \subseteq tids(q)

Good(q) == QueueOK(q) /\ Committable(q) /\ Marked(q)

Rest ==
    /\ priorities \in [Tids -> Priorities]
    /\ suspended \subseteq Suspended

\* The inductive invariant is what the queue's operations keep, and the types
\* of what the scheduler holds besides.
LEMMA IInvSplits == IInv <=> Good(rq) /\ Rest
BY ContainsIsMember DEF IInv, TypeOK, OneEntryPerThread, SelectionIsCommittable,
   YieldMarksAreQueued, SkipExcludesEpoch, Good, QueueOK, Single, Committable,
   Marked, Rest

\* The same after a step.
LEMMA IInvAfter == Good(rq') /\ Rest' => IInv'
BY ContainsIsMember DEF IInv, TypeOK, OneEntryPerThread, SelectionIsCommittable,
   YieldMarksAreQueued, SkipExcludesEpoch, Good, QueueOK, Single, Committable,
   Marked, Rest

\* Adding threads and touching no mark keeps a queue good.
LEMMA GrowthIsGood ==
    ASSUME NEW q, NEW r, Good(q), QueueOK(r), tids(q) \subseteq tids(r),
           SameMarks(q, r)
    PROVE  Good(r)
BY DEF Good, Committable, Marked, SameMarks, Committed

\* A queue with no open selection is good when its marks are.
LEMMA ClosedIsGood ==
    ASSUME NEW r, QueueOK(r), Marked(r), r.tentative_selection = NoTid,
           ~r.tentative_selection_is_exact
    PROVE  Good(r)
BY DEF Good, Committable

\* remove_tid with no selection open keeps a queue good: no mark names the
\* thread afterwards.
LEMMA RemovedIsGood ==
    ASSUME NEW q, Good(q), q.tentative_selection = NoTid, NEW t \in Tids
    PROVE  /\ Good(remove_tid(q, t))
           /\ tids(remove_tid(q, t)) = tids(q) \ {t}
           /\ remove_tid(q, t).tentative_selection = NoTid
           /\ remove_tid(q, t).epoch_open = q.epoch_open
BY RemoveTakes, ClosedIsGood, SMT DEF Good, Committable, Marked

\* An open selection names one of the threads.
LEMMA SelectedIsThread ==
    ASSUME IInv, ~CanMutate(rq)
    PROVE  /\ Selected \in Tids
           /\ Selected \in tids(rq)
           /\ Committed(rq) = Selected
           /\ priorities[Selected] \in Priorities
BY IInvSplits, TidAssumption DEF Good, QueueOK, Committable, CanMutate, Selected,
   Rest, RunQueueState

\* RunQueue::new satisfies the invariant.
LEMMA InitGood == Init => IInv
<1> SUFFICES ASSUME Init PROVE IInv
  OBVIOUS
<1>1. rq \in RunQueueState
  <2>1. [t \in Tids |-> 0] \in [Tids -> 0..PLAIN_YIELDS_BEFORE_EPOCH + 1]
    BY SMT DEF PLAIN_YIELDS_BEFORE_EPOCH
  <2> QED BY <2>1, SMT DEF Init, new, RunQueueState
<1>2. /\ rq.queue = {} /\ rq.last_front_turn = 0
      /\ rq.tentative_selection = NoTid
      /\ rq.tentative_selection_is_exact = FALSE
      /\ rq.yielded_skip = NoTid
      /\ rq.yield_epoch = {} /\ rq.queued_by_yield = {}
  BY DEF Init, new
<1>3. QueueOK(rq) /\ Marked(rq)
  BY <1>1, <1>2, SMT DEF QueueOK, Single, Marked
<1>4. Rest
  BY DEF Init, Rest
<1> QED BY <1>2, <1>3, <1>4, ClosedIsGood, IInvSplits

-----------------------------------------------------------------------------
(* The actions outside a selection.                                        *)

\* A push of an absent thread keeps the invariant.
LEMMA PushesKeep ==
    ASSUME IInv, NEW t \in Tids,
           PushBack(t) \/ PushFront(t) \/ ReadmitReady(t)
    PROVE  IInv'
<1>1. Good(rq) /\ Rest
  BY IInvSplits
<1>2. t \notin tids(rq) /\ priorities[t] \in Priorities
  BY <1>1, ContainsIsMember
     DEF PushBack, PushFront, ReadmitReady, push_safety_check, Rest
<1>3. rq' \in {push_back(rq, t, priorities[t]), push_front(rq, t, priorities[t]),
               push_eager_io_repoll(rq, t),
               push_poller(rq, t, priorities[t], 0)}
  BY DEF PushBack, PushFront, ReadmitReady
<1>4. QueueOK(rq') /\ tids(rq') = tids(rq) \cup {t} /\ SameMarks(rq, rq')
  BY <1>1, <1>2, <1>3, PushAdds, SMT DEF Good
<1>5. Good(rq')
  BY <1>1, <1>4, GrowthIsGood
<1>6. Rest'
  BY <1>1 DEF PushBack, PushFront, ReadmitReady, Rest
<1> QED BY <1>5, <1>6, IInvAfter

\* A drained removal keeps the invariant.
LEMMA RemoveKeeps ==
    ASSUME IInv, NEW t \in Tids, NEW retires \in BOOLEAN, Remove(t, retires)
    PROVE  IInv'
<1>1. Good(rq) /\ Rest
  BY IInvSplits
<1>2. rq' = remove_tid(rq, t) /\ rq.tentative_selection = NoTid
  BY DEF Remove, CanMutate
<1>3. Good(rq')
  BY <1>1, <1>2, RemovedIsGood
<1>4. Rest'
  BY <1>1 DEF Remove, Rest
<1> QED BY <1>3, <1>4, IInvAfter

\* Taking a thread off and queueing it again keeps the invariant.
LEMMA RequeuesKeep ==
    ASSUME IInv, NEW t \in Tids,
           \/ \E p \in Priorities : RequeueWithNewPriority(t, p)
           \/ RequeueBehind(t)
    PROVE  IInv'
<1>1. Good(rq) /\ Rest
  BY IInvSplits
<1> DEFINE r == remove_tid(rq, t)
<1>2. rq.tentative_selection = NoTid
  BY DEF RequeueWithNewPriority, RequeueBehind, CanMutate
<1>3. Good(r) /\ t \notin tids(r)
  BY <1>1, <1>2, RemovedIsGood
<1>4. \A p \in Priorities : Good(push_back(r, t, p))
  BY <1>3, PushAdds, GrowthIsGood DEF Good
<1>5. rq' = r \/ \E p \in Priorities : rq' = push_back(r, t, p)
  BY <1>1 DEF RequeueWithNewPriority, RequeueBehind, Rest
<1>6. Good(rq')
  BY <1>3, <1>4, <1>5
<1>7. Rest'
  BY <1>1 DEF RequeueWithNewPriority, RequeueBehind, Rest
<1> QED BY <1>6, <1>7, IInvAfter

\* Restoring and upgrading pollers keeps the invariant.
LEMMA PollersKeep ==
    ASSUME IInv, (\E t \in Tids : RestorePoller(t)) \/ UpgradeOnTime
    PROVE  IInv'
<1>1. Good(rq) /\ Rest
  BY IInvSplits
<1>2. ASSUME NEW t \in Tids, RestorePoller(t)
      PROVE  Good(rq')
  <2>1. t \in tids(rq) /\ rq' = restore_poller_priority(rq, t)
    BY <1>2, ContainsIsMember DEF RestorePoller
  <2> QED BY <1>1, <2>1, RestorePollerKeeps, GrowthIsGood DEF Good
<1>3. ASSUME UpgradeOnTime
      PROVE  Good(rq')
  BY <1>1, <1>3, UpgradeKeeps, GrowthIsGood DEF UpgradeOnTime, upgrade_pollers,
     Good
<1>4. Rest'
  BY <1>1 DEF RestorePoller, UpgradeOnTime, Rest
<1> QED BY <1>2, <1>3, <1>4, IInvAfter

\* Suspending a parked thread for an observation, and resuming it, keeps the
\* invariant.
LEMMA ObservationsKeep ==
    ASSUME IInv, \/ \E t \in Tids : BeginObservation(t)
                 \/ \E s \in suspended : ResumeRequest(s)
    PROVE  IInv'
<1>1. Good(rq) /\ Rest
  BY IInvSplits
<1>2. ASSUME NEW t \in Tids, BeginObservation(t)
      PROVE  Good(rq') /\ Rest'
  <2> DEFINE m == suspend(rq, t)
  <2>1. t \in tids(rq) /\ rq' = push_back(m, t, priorities[t])
    BY <1>2, ContainsIsMember DEF BeginObservation
  <2>2. QueueOK(m) /\ tids(m) = tids(rq) \ {t} /\ SameMarks(rq, m)
    BY <1>1, SuspendTakes DEF Good
  <2> HIDE DEF m
  <2>3. QueueOK(rq') /\ tids(rq') = tids(m) \cup {t} /\ SameMarks(m, rq')
    BY <1>1, <2>1, <2>2, PushAdds DEF Rest
  <2>4. Good(rq')
    BY <1>1, <2>1, <2>2, <2>3, GrowthIsGood DEF SameMarks
  <2>5. EntryOf(rq, t) \in Entry
    BY <1>1, <2>1, EntryOfQueued DEF Good, QueueOK, RunQueueState
  <2>6. Rest'
    BY <1>1, <1>2, <2>5, SMT DEF BeginObservation, Rest, Suspended
  <2> QED BY <2>4, <2>6
<1>3. ASSUME NEW s \in suspended, ResumeRequest(s)
      PROVE  Good(rq') /\ Rest'
  <2> DEFINE t == s.entry.tid
             m == suspend(rq, t)
             e == Rebanded(s.entry, s.persistent_priority, priorities[t])
  <2>1. s.entry \in Entry /\ t \in Tids /\ priorities[t] \in Priorities
    BY <1>1 DEF Rest, Suspended, Entry
  <2>2. e \in Entry /\ e.tid = t
    BY <2>1, RebandedType
  <2>3. QueueOK(m) /\ tids(m) = tids(rq) \ {t} /\ SameMarks(rq, m)
    BY <1>1, <2>1, SuspendTakes DEF Good
  <2>4. m.queue \subseteq Entry
    BY <2>3 DEF QueueOK, RunQueueState
  <2>5. PICK n \in {e.turn} \cup {f.turn + 1 : f \in m.queue} :
              rq' = restore(m, e, n)
    BY <1>3 DEF ResumeRequest
  <2>6. n \in Int
    BY <2>2, <2>4, <2>5, SMT DEF Entry
  <2> HIDE DEF m, e, t
  <2>7. QueueOK(rq') /\ tids(rq') = tids(m) \cup {t} /\ SameMarks(m, rq')
    BY <2>2, <2>3, <2>5, <2>6, RestoreAdds
  <2>8. Good(rq')
    BY <1>1, <2>3, <2>7, GrowthIsGood DEF SameMarks
  <2>9. Rest'
    BY <1>1, <1>3 DEF ResumeRequest, Rest
  <2> QED BY <2>8, <2>9
<1> QED BY <1>2, <1>3, IInvAfter

-----------------------------------------------------------------------------
(* Opening a selection.                                                    *)

\* step3_peek opens a selection that can be committed.
LEMMA PeeksKeep ==
    ASSUME IInv, PeekNext \/ \E t \in Tids : PeekExact(t)
    PROVE  IInv'
<1>1. Good(rq) /\ Rest
  BY IInvSplits
<1>2. ASSUME PeekNext
      PROVE  Good(rq')
  <2>0. PICK order \in RunTimeOrders : \E a \in Assignments(order) :
           LET q == OrderedFairly(rq, order, a)
           IN  \E sel \in Selections(EpochChecked(q)) :
                  rq' = tentative_pop_next(q, sel)
    BY <1>2 DEF PeekNext
  <2>1. PICK a \in Assignments(order) :
           LET q == OrderedFairly(rq, order, a)
           IN  \E sel \in Selections(EpochChecked(q)) :
                  rq' = tentative_pop_next(q, sel)
    BY <2>0
  <2> DEFINE q == OrderedFairly(rq, order, a)
             c == EpochChecked(q)
  <2>2. PICK sel \in Selections(c) : rq' = tentative_pop_next(q, sel)
    BY <2>1
  <2>3. QueueOK(q) /\ tids(q) = tids(rq) /\ SameMarks(rq, q)
    BY <1>1, OrderedFairlyKeeps DEF Good
  <2> HIDE DEF q
  <2>4. Good(q) /\ q.tentative_selection = NoTid /\ q.queue # {}
    BY <1>1, <1>2, <2>3, GrowthIsGood, SMT DEF SameMarks, PeekNext, CanMutate, tids
  <2>5. /\ QueueOK(c) /\ c.queue = q.queue /\ tids(c) = tids(q)
        /\ c.tentative_selection = NoTid
        /\ ~c.tentative_selection_is_exact
        /\ Marked(c)
    BY <2>4, EpochCheckedKeeps DEF Good, Committable, Marked
  <2>6. sel \in tids(q)
    BY <2>2, <2>4, <2>5, SelectionsAreQueued
  <2>7. sel \in Tids
    BY <2>4, <2>6, SMT DEF Good, QueueOK, RunQueueState, Entry, tids
  <2>8. rq' = [c EXCEPT !.tentative_selection = sel,
                        !.sticky_random_selection =
                           IF Strategy = "StickyRandom" /\ q.queue # {}
                           THEN sel ELSE @]
    BY <2>2 DEF tentative_pop_next
  <2> HIDE DEF c
  <2>9. /\ rq' \in RunQueueState
        /\ rq'.last_front_turn <= 0
        /\ rq'.queue = c.queue
        /\ rq'.tentative_selection = sel
        /\ ~rq'.tentative_selection_is_exact
        /\ rq'.yielded_skip = c.yielded_skip
        /\ rq'.epoch_open = c.epoch_open
        /\ rq'.yield_epoch = c.yield_epoch
        /\ rq'.queued_by_yield = c.queued_by_yield
        /\ Strategy = "StickyRandom" => rq'.sticky_random_selection = sel
    BY <2>4, <2>5, <2>7, <2>8 DEF QueueOK, RunQueueState
  <2>10. QueueOK(rq') /\ tids(rq') = tids(c) /\ Marked(rq')
    BY <2>5, <2>9 DEF QueueOK, Single, tids, Marked
  <2>11. Committable(rq')
    BY <2>5, <2>6, <2>7, <2>9, <2>10, TidAssumption DEF Committable, Committed
  <2> QED BY <2>10, <2>11 DEF Good
<1>3. ASSUME NEW t \in Tids, PeekExact(t)
      PROVE  Good(rq')
  <2>0. PICK order \in RunTimeOrders : \E a \in Assignments(order) :
           rq' = tentative_pop_tid(OrderedFairly(rq, order, a), t)
    BY <1>3 DEF PeekExact
  <2>1. PICK a \in Assignments(order) :
           rq' = tentative_pop_tid(OrderedFairly(rq, order, a), t)
    BY <2>0
  <2> DEFINE q == OrderedFairly(rq, order, a)
  <2>2. QueueOK(q) /\ tids(q) = tids(rq) /\ SameMarks(rq, q)
    BY <1>1, OrderedFairlyKeeps DEF Good
  <2>3. t \in tids(q)
    BY <1>3, <2>2, ContainsIsMember DEF PeekExact
  <2> HIDE DEF q
  <2>4. Good(q)
    BY <1>1, <2>2, GrowthIsGood
  <2>5. rq' = [q EXCEPT !.tentative_selection = t,
                        !.tentative_selection_is_exact = TRUE]
    BY <2>1, <2>3, ContainsIsMember DEF tentative_pop_tid, q
  <2>6. /\ rq' \in RunQueueState
        /\ rq'.last_front_turn <= 0
        /\ rq'.queue = q.queue
        /\ rq'.tentative_selection = t
        /\ rq'.tentative_selection_is_exact = TRUE
        /\ rq'.yielded_skip = q.yielded_skip
        /\ rq'.epoch_open = q.epoch_open
        /\ rq'.yield_epoch = q.yield_epoch
        /\ rq'.queued_by_yield = q.queued_by_yield
    BY <2>4, <2>5 DEF Good, QueueOK, RunQueueState
  <2>7. QueueOK(rq') /\ tids(rq') = tids(q) /\ Marked(rq')
    BY <2>4, <2>6 DEF Good, QueueOK, Single, tids, Marked
  <2>8. Committable(rq')
    BY <2>3, <2>6, <2>7, TidAssumption DEF Committable, Committed
  <2> QED BY <2>7, <2>8 DEF Good
<1>4. Rest'
  BY <1>1 DEF PeekNext, PeekExact, Rest
<1> QED BY <1>2, <1>3, <1>4, IInvAfter

-----------------------------------------------------------------------------
(* Closing it.                                                             *)

\* What every closing step leaves behind.
Closes ==
    /\ Good(rq')
    /\ rq'.tentative_selection = NoTid
    /\ tids(rq') \in {tids(rq), tids(rq) \ {Selected}}

\* The queue after a completed turn's commit, before the push.
LEMMA CompletedTurnTakes ==
    ASSUME IInv, ~CanMutate(rq), NEW forget \in BOOLEAN
    PROVE  LET m == commit_tentative_pop_completed_turn(rq, forget)
           IN  /\ QueueOK(m)
               /\ tids(m) = tids(rq) \ {Selected}
               /\ m.tentative_selection = NoTid
               /\ ~m.tentative_selection_is_exact
               /\ m.yielded_skip = NoTid
               /\ ~m.epoch_open
               /\ m.yield_epoch = {}
               /\ m.queued_by_yield = rq.queued_by_yield \ {Selected}
<1> DEFINE c == commit_selection(rq, forget)
           d == consume_yield_exclusion(c)
           m == end_yield_epoch(d)
<1>1. Good(rq) /\ Selected \in tids(rq) /\ Committed(rq) = Selected
  BY IInvSplits, SelectedIsThread
<1>2. /\ QueueOK(c) /\ tids(c) = tids(rq) \ {Selected}
      /\ c.tentative_selection = NoTid
      /\ ~c.tentative_selection_is_exact
      /\ c.queued_by_yield = rq.queued_by_yield \ {Selected}
  BY <1>1, CommitTakes DEF Good, Selected
<1> HIDE DEF c
<1>3. /\ QueueOK(d) /\ tids(d) = tids(c) /\ d.tentative_selection = NoTid
      /\ ~d.tentative_selection_is_exact /\ d.yielded_skip = NoTid
      /\ d.queued_by_yield = c.queued_by_yield
  BY <1>2, ConsumeKeeps
<1> HIDE DEF d
<1>4. /\ QueueOK(m) /\ tids(m) = tids(d) /\ m.tentative_selection = NoTid
      /\ ~m.tentative_selection_is_exact /\ m.yielded_skip = NoTid
      /\ m.epoch_open = FALSE /\ m.yield_epoch = {}
      /\ m.queued_by_yield = d.queued_by_yield
  BY <1>3, EndEpochKeeps
<1>5. commit_tentative_pop_completed_turn(rq, forget) = m
  BY DEF commit_tentative_pop_completed_turn, commit_tentative_pop, c, d
<1> QED BY <1>2, <1>3, <1>4, <1>5

\* step6_reenquue of an ordinary turn closes the selection.
LEMMA CompleteTurnCloses ==
    ASSUME IInv, NEW forget \in BOOLEAN, CompleteTurn(forget)
    PROVE  Closes
<1> DEFINE m == commit_tentative_pop_completed_turn(rq, forget)
<1>1. /\ Good(rq) /\ ~CanMutate(rq)
      /\ rq' = push_back(m, Selected, priorities[Selected])
  BY IInvSplits DEF CompleteTurn
<1>2. /\ Selected \in Tids /\ Selected \in tids(rq)
      /\ priorities[Selected] \in Priorities
  BY <1>1, SelectedIsThread
<1>3. /\ QueueOK(m) /\ tids(m) = tids(rq) \ {Selected}
      /\ m.tentative_selection = NoTid /\ ~m.tentative_selection_is_exact
      /\ m.yielded_skip = NoTid /\ m.yield_epoch = {}
      /\ m.queued_by_yield = rq.queued_by_yield \ {Selected}
  BY <1>1, CompletedTurnTakes
<1> HIDE DEF m
<1>4. QueueOK(rq') /\ tids(rq') = tids(rq) /\ SameMarks(m, rq')
  BY <1>1, <1>2, <1>3, PushAdds, SMT
<1>5. Marked(rq')
  BY <1>1, <1>3, <1>4 DEF Good, Marked, SameMarks
<1> QED BY <1>3, <1>4, <1>5, ClosedIsGood DEF Closes, SameMarks

\* step6_reenquue of a one-turn yield closes it; with no epoch open, the skip
\* it may leave behind names the thread just queued.
LEMMA CompleteYieldCloses ==
    ASSUME IInv, NEW forget \in BOOLEAN, CompleteYield(forget)
    PROVE  Closes
<1> DEFINE m == commit_tentative_pop_completed_turn(rq, forget)
<1>1. /\ Good(rq) /\ ~CanMutate(rq)
      /\ rq' = push_yielded(m, Selected, priorities[Selected])
  BY IInvSplits DEF CompleteYield
<1>2. /\ Selected \in Tids /\ Selected \in tids(rq)
      /\ priorities[Selected] \in Priorities
  BY <1>1, SelectedIsThread
<1>3. /\ QueueOK(m) /\ tids(m) = tids(rq) \ {Selected}
      /\ m.tentative_selection = NoTid /\ ~m.tentative_selection_is_exact
      /\ ~m.epoch_open /\ m.yield_epoch = {}
      /\ m.queued_by_yield = rq.queued_by_yield \ {Selected}
  BY <1>1, CompletedTurnTakes
<1> HIDE DEF m
<1>4. /\ QueueOK(rq') /\ tids(rq') = tids(m) \cup {Selected}
      /\ rq'.tentative_selection = m.tentative_selection
      /\ rq'.tentative_selection_is_exact = m.tentative_selection_is_exact
      /\ rq'.yielded_skip = Selected
      /\ rq'.epoch_open = m.epoch_open
      /\ rq'.yield_epoch = m.yield_epoch
      /\ rq'.queued_by_yield = m.queued_by_yield \cup {Selected}
  <2>1. Selected \notin tids(m)
    BY <1>3
  <2> QED BY <1>1, <1>2, <1>3, <2>1, PushYieldedAdds, SMT
<1>5. tids(rq') = tids(rq)
  BY <1>2, <1>3, <1>4, SMT
<1>6. Marked(rq')
  BY <1>1, <1>2, <1>3, <1>4, <1>5 DEF Good, Marked
<1> QED BY <1>3, <1>4, <1>5, <1>6, ClosedIsGood DEF Closes

\* step6_reenquue of a chaos yield closes it; the epoch and the skip do not
\* meet.
LEMMA CompleteChaosYieldCloses ==
    ASSUME IInv, NEW forget \in BOOLEAN, CompleteChaosYield(forget)
    PROVE  Closes
<1> DEFINE c == commit_selection(rq, forget)
           m == consume_yield_exclusion(c)
<1>1. /\ Good(rq) /\ ~CanMutate(rq)
      /\ rq' = push_yielded_into_epoch(m, Selected, priorities[Selected])
  BY IInvSplits DEF CompleteChaosYield, commit_tentative_pop_yield
<1>2. /\ Selected \in Tids /\ Selected \in tids(rq)
      /\ Committed(rq) = Selected
      /\ priorities[Selected] \in Priorities
  BY <1>1, SelectedIsThread
<1>3. /\ QueueOK(c) /\ tids(c) = tids(rq) \ {Selected}
      /\ c.tentative_selection = NoTid
      /\ ~c.tentative_selection_is_exact
      /\ c.yield_epoch = rq.yield_epoch
      /\ c.queued_by_yield = rq.queued_by_yield \ {Selected}
  BY <1>1, <1>2, CommitTakes DEF Good, Selected
<1> HIDE DEF c
<1>4. /\ QueueOK(m) /\ tids(m) = tids(c) /\ m.tentative_selection = NoTid
      /\ ~m.tentative_selection_is_exact /\ m.yielded_skip = NoTid
      /\ m.yield_epoch = c.yield_epoch
      /\ m.queued_by_yield = c.queued_by_yield
  BY <1>3, ConsumeKeeps
<1> HIDE DEF m
<1>5. /\ QueueOK(rq') /\ tids(rq') = tids(m) \cup {Selected}
      /\ rq'.tentative_selection = m.tentative_selection
      /\ rq'.tentative_selection_is_exact = m.tentative_selection_is_exact
      /\ rq'.yielded_skip = m.yielded_skip
      /\ rq'.yield_epoch \subseteq m.yield_epoch \cup {Selected}
      /\ rq'.queued_by_yield = m.queued_by_yield \cup {Selected}
  <2>1. Selected \notin tids(m)
    BY <1>3, <1>4
  <2> QED BY <1>1, <1>2, <1>4, <2>1, PushYieldedIntoEpochAdds, SMT
<1>6. tids(rq') = tids(rq)
  BY <1>2, <1>3, <1>4, <1>5, SMT
<1>7. Marked(rq')
  BY <1>1, <1>2, <1>3, <1>4, <1>5, <1>6 DEF Good, Marked
<1> QED BY <1>4, <1>5, <1>6, <1>7, ClosedIsGood DEF Closes

\* A poll retry's back-off closes it.
LEMMA BackOffPollerCloses ==
    ASSUME IInv, NEW forget \in BOOLEAN, NEW attempt, NEW keeps_turn \in BOOLEAN,
           BackOffPoller(forget, attempt, keeps_turn)
    PROVE  Closes
<1> DEFINE m == commit_selection(rq, forget)
           p == priorities[Selected]
<1>1. /\ Good(rq) /\ ~CanMutate(rq)
      /\ rq' \in {push_back(m, Selected, p), push_front(m, Selected, p),
                   push_eager_io_repoll(m, Selected),
                   push_poller(m, Selected, p, attempt)}
  BY IInvSplits DEF BackOffPoller, commit_tentative_pop
<1>2. /\ Selected \in Tids /\ Selected \in tids(rq)
      /\ Committed(rq) = Selected /\ p \in Priorities
  BY <1>1, SelectedIsThread
<1>3. /\ QueueOK(m) /\ tids(m) = tids(rq) \ {Selected}
      /\ m.tentative_selection = NoTid
      /\ ~m.tentative_selection_is_exact
      /\ m.yielded_skip = rq.yielded_skip
      /\ m.epoch_open = rq.epoch_open
      /\ m.yield_epoch = rq.yield_epoch
      /\ m.queued_by_yield = rq.queued_by_yield \ {Selected}
  BY <1>1, <1>2, CommitTakes DEF Good, Selected
<1> HIDE DEF m, p
<1>4. QueueOK(rq') /\ tids(rq') = tids(m) \cup {Selected} /\ SameMarks(m, rq')
  BY <1>1, <1>2, <1>3, PushAdds, SMT
<1>5. tids(rq') = tids(rq)
  BY <1>2, <1>3, <1>4
<1>6. Marked(rq')
  BY <1>1, <1>3, <1>4, <1>5 DEF Good, Marked, SameMarks
<1> QED BY <1>3, <1>4, <1>5, <1>6, ClosedIsGood DEF Closes, SameMarks

\* A priority changepoint closes it.
LEMMA PriorityChangepointCloses ==
    ASSUME IInv, NEW forget \in BOOLEAN, NEW p \in Priorities,
           PriorityChangepoint(forget, p)
    PROVE  Closes
<1> DEFINE c == commit_selection(rq, forget)
           m == end_yield_epoch(c)
<1>1. /\ Good(rq) /\ ~CanMutate(rq) /\ rq' = push_back(m, Selected, p)
  BY IInvSplits DEF PriorityChangepoint, commit_tentative_pop
<1>2. Selected \in Tids /\ Selected \in tids(rq) /\ Committed(rq) = Selected
  BY <1>1, SelectedIsThread
<1>3. /\ QueueOK(c) /\ tids(c) = tids(rq) \ {Selected}
      /\ c.tentative_selection = NoTid
      /\ ~c.tentative_selection_is_exact
      /\ c.yielded_skip = rq.yielded_skip
      /\ c.queued_by_yield = rq.queued_by_yield \ {Selected}
  BY <1>1, <1>2, CommitTakes DEF Good, Selected
<1> HIDE DEF c
<1>4. /\ QueueOK(m) /\ tids(m) = tids(c) /\ m.tentative_selection = NoTid
      /\ ~m.tentative_selection_is_exact
      /\ m.yielded_skip = c.yielded_skip
      /\ m.epoch_open = FALSE /\ m.yield_epoch = {}
      /\ m.queued_by_yield = c.queued_by_yield
  BY <1>3, EndEpochKeeps
<1> HIDE DEF m
<1>5. QueueOK(rq') /\ tids(rq') = tids(m) \cup {Selected} /\ SameMarks(m, rq')
  BY <1>1, <1>2, <1>3, <1>4, PushAdds, SMT
<1>6. tids(rq') = tids(rq)
  BY <1>2, <1>3, <1>4, <1>5
<1>7. Marked(rq')
  BY <1>1, <1>3, <1>4, <1>5, <1>6 DEF Good, Marked, SameMarks
<1> QED BY <1>4, <1>5, <1>6, <1>7, ClosedIsGood DEF Closes, SameMarks

\* An aborted turn closes it and leaves every thread queued.
LEMMA AbortTurnCloses ==
    ASSUME IInv, AbortTurn
    PROVE  Closes
<1>1. Good(rq) /\ rq' = undo_tentative_pop(rq)
  BY IInvSplits DEF AbortTurn
<1>2. /\ QueueOK(rq') /\ tids(rq') = tids(rq)
      /\ rq'.tentative_selection = NoTid
      /\ ~rq'.tentative_selection_is_exact
      /\ Marked(rq')
  BY <1>1, UndoKeeps DEF Good, Marked
<1> QED BY <1>2, ClosedIsGood DEF Closes

\* A turn that blocks or goes to the background closes it and takes the
\* selected thread off the queue.
LEMMA BlockedTurnsClose ==
    ASSUME IInv, BlockTurn \/ BackgroundTurn
    PROVE  Closes
<1> DEFINE u == undo_tentative_pop(rq)
           m == remove_tid(u, Selected)
           d == consume_yield_exclusion(m)
           b == end_yield_epoch(d)
<1>1. Good(rq) /\ ~CanMutate(rq) /\ rq' \in {m, b}
  BY IInvSplits DEF BlockTurn, BackgroundTurn
<1>2. Selected \in Tids
  BY <1>1, SelectedIsThread
<1>3. Good(u) /\ tids(u) = tids(rq) /\ u.tentative_selection = NoTid
  BY <1>1, UndoKeeps, ClosedIsGood DEF Good, Marked
<1> HIDE DEF u
<1>4. /\ Good(m) /\ tids(m) = tids(rq) \ {Selected}
      /\ m.tentative_selection = NoTid
  BY <1>2, <1>3, RemovedIsGood
<1> HIDE DEF m
<1>5. /\ QueueOK(d) /\ tids(d) = tids(m) /\ d.tentative_selection = NoTid
      /\ ~d.tentative_selection_is_exact /\ d.yielded_skip = NoTid
      /\ d.queued_by_yield \subseteq tids(m)
  BY <1>4, ConsumeKeeps DEF Good, Committable, Marked
<1> HIDE DEF d
<1>6. /\ QueueOK(b) /\ tids(b) = tids(d) /\ b.tentative_selection = NoTid
      /\ ~b.tentative_selection_is_exact /\ b.yielded_skip = NoTid
      /\ b.yield_epoch = {} /\ b.queued_by_yield = d.queued_by_yield
  BY <1>5, EndEpochKeeps
<1> HIDE DEF b
<1>7. Good(b)
  BY <1>5, <1>6, ClosedIsGood DEF Marked
<1> QED BY <1>1, <1>4, <1>5, <1>6, <1>7 DEF Closes

-----------------------------------------------------------------------------
(* The theorems.                                                           *)

ClosingStep ==
    \/ \E forget \in Draws :
          \/ CompleteTurn(forget) \/ CompleteYield(forget)
          \/ CompleteChaosYield(forget)
          \/ \E attempt \in PollAttempts, keeps_turn \in BOOLEAN :
                BackOffPoller(forget, attempt, keeps_turn)
          \/ \E p \in Priorities : PriorityChangepoint(forget, p)
    \/ BlockTurn \/ BackgroundTurn \/ AbortTurn

OpenStep ==
    \/ \E t \in Tids :
          \/ PushBack(t) \/ PushFront(t) \/ ReadmitReady(t)
          \/ \E retires \in BOOLEAN : Remove(t, retires)
          \/ \E p \in Priorities : RequeueWithNewPriority(t, p)
          \/ RequeueBehind(t) \/ RestorePoller(t)
          \/ BeginObservation(t) \/ PeekExact(t)
    \/ UpgradeOnTime \/ PeekNext
    \/ \E s \in suspended : ResumeRequest(s)

\* Every step either needs an unlocked queue or closes a selection.
LEMMA NextSplits == Next <=> OpenStep \/ ClosingStep
BY DEF Next, OpenStep, ClosingStep

\* Every way to end a turn closes the selection as the lock asks.
LEMMA ClosingStepCloses ==
    ASSUME IInv, ClosingStep
    PROVE  Closes /\ ~CanMutate(rq) /\ Rest'
<1>1. Draws \subseteq BOOLEAN
  BY DEF Draws
<1>2. Closes
  BY <1>1, CompleteTurnCloses, CompleteYieldCloses, CompleteChaosYieldCloses,
     BackOffPollerCloses, PriorityChangepointCloses, AbortTurnCloses,
     BlockedTurnsClose DEF ClosingStep
<1>3. ~CanMutate(rq)
  BY DEF ClosingStep, CompleteTurn, CompleteYield, CompleteChaosYield,
     BackOffPoller, PriorityChangepoint, BlockTurn, BackgroundTurn, AbortTurn
<1>4. Rest
  BY IInvSplits
<1>5. Rest'
  BY <1>4 DEF ClosingStep, CompleteTurn, CompleteYield, CompleteChaosYield,
     BackOffPoller, PriorityChangepoint, BlockTurn, BackgroundTurn, AbortTurn,
     Rest
<1> QED BY <1>2, <1>3, <1>5

\* Every other step finds the queue unlocked and keeps the invariant.
LEMMA OpenStepKeeps ==
    ASSUME IInv, OpenStep
    PROVE  IInv' /\ CanMutate(rq)
<1>1. IInv'
  BY PushesKeep, RemoveKeeps, RequeuesKeep, PollersKeep, ObservationsKeep,
     PeeksKeep DEF OpenStep
<1>2. CanMutate(rq)
  BY DEF OpenStep, PushBack, PushFront, ReadmitReady, Remove,
     RequeueWithNewPriority, RequeueBehind, RestorePoller, BeginObservation,
     PeekExact, UpgradeOnTime, PeekNext, ResumeRequest
<1> QED BY <1>1, <1>2

\* The inductive invariant holds of the run queue for ever.
THEOREM Invariance == Spec => []IInv
<1>1. IInv /\ [Next]_vars => IInv'
  <2>1. ASSUME IInv, Next
        PROVE  IInv'
    BY <2>1, NextSplits, OpenStepKeeps, ClosingStepCloses, IInvAfter DEF Closes
  <2>2. ASSUME IInv, UNCHANGED vars
        PROVE  IInv'
    BY <2>2 DEF vars, IInv, TypeOK, OneEntryPerThread, SelectionIsCommittable,
       YieldMarksAreQueued, SkipExcludesEpoch, contains_tid, tids, Committed
  <2> QED BY <2>1, <2>2
<1> QED BY InitGood, <1>1, PTL DEF Spec

\* Every field of the run queue keeps its Rust type and ordinary priorities
\* stay ordinary.
THEOREM TypeCorrectness == Spec => []TypeOK
<1>1. IInv => TypeOK
  BY DEF IInv
<1> QED BY <1>1, Invariance, PTL

\* No thread is ever queued twice: push_safety_check never panics and neither
\* does the assertion of restore.
THEOREM NoThreadTwice == Spec => []OneEntryPerThread
<1>1. IInv => OneEntryPerThread
  BY DEF IInv
<1> QED BY <1>1, Invariance, PTL

\* Every commit takes the thread that was selected, under every strategy: the
\* unwraps and the debug_assert of commit_selection never fail.
THEOREM CommitsTheSelected == Spec => []SelectionIsCommittable
<1>1. IInv => SelectionIsCommittable
  BY DEF IInv
<1> QED BY <1>1, Invariance, PTL

\* Yields never exclude everyone: a non-empty queue has a selectable thread.
THEOREM SelectionFindsSomeone == Spec => []SomeoneEligible
<1>1. IInv => SomeoneEligible
  <2> SUFFICES ASSUME IInv, rq.queue # {}
               PROVE  Eligible(EpochChecked(rq)) # {}
    BY DEF SomeoneEligible
  <2>1. QueueOK(rq)
    BY IInvSplits DEF Good
  <2> QED BY <2>1, EpochCheckedKeeps, EligibleExists
<1> QED BY <1>1, Invariance, PTL

\* The marks of yields name queued threads only.
THEOREM MarksNameQueuedThreads == Spec => []YieldMarksAreQueued
<1>1. IInv => YieldMarksAreQueued
  BY DEF IInv
<1> QED BY <1>1, Invariance, PTL

\* A one-turn skip and an open yield epoch never meet.
THEOREM SkipsMeetNoEpoch == Spec => []SkipExcludesEpoch
<1>1. IInv => SkipExcludesEpoch
  BY DEF IInv
<1> QED BY <1>1, Invariance, PTL

\* The run queue implements the contract of its locked state: from the pop to
\* the commit or the undo only the selected thread may leave it.
THEOREM LockRefinement == Spec => ImplementsSelectionLock
<1>1. Init => Lock!Init
  BY SMT DEF Init, new, Lock!Init, tids
<1>2. IInv /\ IInv' /\ [Next]_vars
        => [Lock!Unlocked \/ Lock!Close]_<<tids(rq), rq.tentative_selection>>
  <2>1. ASSUME IInv, IInv', OpenStep
        PROVE  Lock!Unlocked
    <3>1. rq.tentative_selection = NoTid
      BY <2>1, OpenStepKeeps DEF CanMutate
    <3>2. tids(rq)' \in SUBSET Tids
      BY <2>1, SMT DEF IInv, TypeOK, RunQueueState, Entry, tids
    <3>3. rq'.tentative_selection \in tids(rq)' \cup {NoTid}
      BY <2>1 DEF IInv, SelectionIsCommittable, contains_tid, tids
    <3> QED BY <3>1, <3>2, <3>3 DEF Lock!Unlocked
  <2>2. ASSUME IInv, ClosingStep
        PROVE  Lock!Close
    BY <2>2, ClosingStepCloses DEF Closes, CanMutate, Selected, Lock!Close
  <2>3. ASSUME UNCHANGED vars
        PROVE  UNCHANGED <<tids(rq), rq.tentative_selection>>
    BY <2>3 DEF vars, tids
  <2> QED BY <2>1, <2>2, <2>3, NextSplits
<1> QED BY <1>1, <1>2, Invariance, PTL DEF Spec, ImplementsSelectionLock, Lock!Spec

-----------------------------------------------------------------------------
(***************************************************************************)
(* The keys of the run queue, for any number of threads and pushes: no     *)
(* insertion ever finds its key taken.  A turn is either one that a push   *)
(* took from the counters, which no other entry has in any band, queued or *)
(* set aside for an observation, or one of the run-time order, which only  *)
(* an ordinary entry has and which is unique in its band.                  *)
(***************************************************************************)

\* The turn was taken from the counters.
Counted(e) == e.turn < RUN_TIME_TURNS

\* What every entry satisfies, in the queue or set aside.
Issued(q, e) ==
    /\ Counted(e) => q.last_front_turn <= e.turn /\ e.turn <= q.last_back_turn
    /\ ~Counted(e) => is_non_polling(e) /\ e.priority \in Priorities
    /\ e.deadline_restored => e.poll_upgrade = NoUpgrade

\* The invariant of a queue and the entries A set aside.
Keyed(q, A) ==
    /\ turn_counter(q) <= MaxPushes
    /\ \A e \in q.queue : Issued(q, e)
    /\ \A s \in A : Issued(q, s.entry)
    /\ \A e, f \in q.queue : Counted(e) /\ e.turn = f.turn => e = f
    /\ \A e \in q.queue, s \in A : Counted(e) => e.turn # s.entry.turn
    /\ \A s, r \in A : Counted(s.entry) /\ s.entry.turn = r.entry.turn => s = r
    /\ \A e, f \in q.queue : SameKey(e, f) => e = f

KInv == IInv /\ Keyed(rq, suspended)

\* r has the counters of q and no entry that q has not.
Shrinks(q, r) ==
    /\ r.queue \subseteq q.queue
    /\ r.last_back_turn = q.last_back_turn
    /\ r.last_front_turn = q.last_front_turn

-----------------------------------------------------------------------------
(* The operators.                                                          *)

\* Taking entries away, from the queue or from those set aside, keeps the keys.
LEMMA ShrinkKeyed ==
    ASSUME NEW q, NEW r, NEW A, NEW B, Keyed(q, A), Shrinks(q, r), B \subseteq A
    PROVE  Keyed(r, B)
BY DEF Keyed, Shrinks, Issued, turn_counter

\* What one operation after another takes away.
LEMMA ShrinksTwice ==
    ASSUME NEW q, NEW m, NEW r, Shrinks(q, m), Shrinks(m, r)
    PROVE  Shrinks(q, r)
BY DEF Shrinks

\* The operations that insert nothing.
LEMMA BookkeepingShrinks ==
    ASSUME NEW q \in RunQueueState, NEW t, NEW forget
    PROVE  /\ Shrinks(q, q)
           /\ Shrinks(q, remove_tid(q, t))
           /\ Shrinks(q, suspend(q, t))
           /\ Shrinks(q, commit_selection(q, forget))
           /\ Shrinks(q, end_yield_epoch(q))
           /\ Shrinks(q, consume_yield_exclusion(q))
           /\ Shrinks(q, undo_tentative_pop(q))
           /\ Shrinks(q, EpochChecked(q))
           /\ Shrinks(q, tentative_pop_tid(q, t))
<1>1. Shrinks(q, q)
  BY DEF Shrinks
<1>2. Shrinks(q, remove_tid(q, t))
  BY DEF Shrinks, RunQueueState, remove_tid
<1>3. Shrinks(q, suspend(q, t))
  BY DEF Shrinks, RunQueueState, suspend
<1>4. Shrinks(q, commit_selection(q, forget))
  BY DEF Shrinks, RunQueueState, commit_selection
<1>5. Shrinks(q, end_yield_epoch(q))
  BY DEF Shrinks, RunQueueState, end_yield_epoch
<1>6. Shrinks(q, consume_yield_exclusion(q))
  BY DEF Shrinks, RunQueueState, consume_yield_exclusion
<1>7. Shrinks(q, undo_tentative_pop(q))
  BY DEF Shrinks, RunQueueState, undo_tentative_pop
<1>8. Shrinks(q, EpochChecked(q))
  BY <1>1, <1>5 DEF EpochChecked
<1>9. Shrinks(q, [q EXCEPT !.tentative_selection = t,
                           !.tentative_selection_is_exact = TRUE])
  BY DEF Shrinks, RunQueueState
<1>10. Shrinks(q, tentative_pop_tid(q, t))
  BY <1>1, <1>9 DEF tentative_pop_tid
<1> QED BY <1>1, <1>2, <1>3, <1>4, <1>5, <1>6, <1>7, <1>8, <1>10

\* An upgrade keeps an entry's turn, and an ordinary entry as it is.
LEMMA UpgradeKeepsTurn ==
    ASSUME NEW e \in Entry, e.deadline_restored => e.poll_upgrade = NoUpgrade
    PROVE  /\ UpgradeEntry(e).turn = e.turn
           /\ is_non_polling(e) => UpgradeEntry(e) = e
           /\ UpgradeEntry(e).deadline_restored
                 => UpgradeEntry(e).poll_upgrade = NoUpgrade
<1> DEFINE moved ==
      CASE e.poll_upgrade = NoUpgrade -> e
        [] e.poll_upgrade >= LAST_PRIORITY ->
             [e EXCEPT !.upgraded_in_place = TRUE]
        [] OTHER ->
             [e EXCEPT !.priority = e.poll_upgrade,
                       !.poll_upgrade = NoUpgrade]
<1>1. /\ moved \in Entry /\ moved.turn = e.turn
      /\ moved.deadline_restored = e.deadline_restored
      /\ e.poll_upgrade = NoUpgrade => moved = e
  <2>1. CASE e.poll_upgrade = NoUpgrade
    <3>1. ~(e.poll_upgrade >= LAST_PRIORITY)
      BY <2>1, PriorityAssumption, SMT DEF NoUpgrade, EAGER_IO_REPOLL_PRIORITY
    <3>2. moved = e
      BY <2>1, <3>1
    <3> QED BY <3>2
  <2>2. CASE e.poll_upgrade # NoUpgrade /\ e.poll_upgrade >= LAST_PRIORITY
    <3>1. moved = [e EXCEPT !.upgraded_in_place = TRUE]
      BY <2>2
    <3> QED BY <2>2, <3>1 DEF Entry
  <2>3. CASE e.poll_upgrade # NoUpgrade /\ ~(e.poll_upgrade >= LAST_PRIORITY)
    <3>1. moved = [e EXCEPT !.priority = e.poll_upgrade,
                            !.poll_upgrade = NoUpgrade]
      BY <2>3
    <3> QED BY <3>1, <2>3 DEF Entry, NoUpgrade
  <2> QED BY <2>1, <2>2, <2>3
<1> HIDE DEF moved
<1> DEFINE dr == moved.deadline_restored /\ moved.priority >= LAST_PRIORITY
           uip == moved.upgraded_in_place \/
                    (moved.deadline_restored /\ moved.priority >= LAST_PRIORITY)
<1>2. UpgradeEntry(e) = [moved EXCEPT !.deadline_restored = dr, !.upgraded_in_place = uip]
  BY DEF UpgradeEntry, moved
<1>3. /\ UpgradeEntry(e).turn = e.turn
      /\ UpgradeEntry(e).poll_upgrade = moved.poll_upgrade
      /\ UpgradeEntry(e).deadline_restored = dr
  BY <1>1, <1>2 DEF Entry
<1>4. ASSUME is_non_polling(e)
      PROVE  UpgradeEntry(e) = e
  <2>1. moved = e /\ e.deadline_restored = FALSE /\ e.upgraded_in_place \in BOOLEAN
    BY <1>1, <1>4 DEF is_non_polling, Entry
  <2>2. dr = FALSE /\ uip = e.upgraded_in_place
    BY <2>1
  <2> HIDE DEF dr, uip
  <2> QED BY <1>2, <2>1, <2>2 DEF Entry
<1>5. UpgradeEntry(e).deadline_restored => UpgradeEntry(e).poll_upgrade = NoUpgrade
  BY <1>1, <1>3
<1> QED BY <1>3, <1>4, <1>5

\* do_poll_upgrade keeps the keys: a poller has a counted turn, which no entry
\* of the band it moves to has.
LEMMA UpgradeKeyed ==
    ASSUME NEW q, QueueOK(q), NEW A, Keyed(q, A)
    PROVE  Keyed(do_poll_upgrade(q), A) /\ Keyed(check_poll_upgrade(q), A)
<1> DEFINE r == do_poll_upgrade(q)
<1>1. /\ r.queue = {UpgradeEntry(e) : e \in q.queue}
      /\ r.last_back_turn = q.last_back_turn
      /\ r.last_front_turn = q.last_front_turn
  BY DEF QueueOK, RunQueueState, do_poll_upgrade
<1>2. \A e \in q.queue : e \in Entry /\ Issued(q, e)
  BY DEF QueueOK, RunQueueState, Keyed
<1>3. \A e \in q.queue :
        /\ UpgradeEntry(e) \in Entry
        /\ UpgradeEntry(e).turn = e.turn
        /\ ~Counted(e) => UpgradeEntry(e) = e
        /\ UpgradeEntry(e).deadline_restored => UpgradeEntry(e).poll_upgrade = NoUpgrade
  BY <1>2, UpgradeEntryType, UpgradeKeepsTurn DEF Issued
<1> HIDE DEF r
<1>4. \A e \in r.queue : Issued(r, e)
  <2> SUFFICES ASSUME NEW e \in q.queue
               PROVE  Issued(r, UpgradeEntry(e))
    BY <1>1
  <2> QED BY <1>1, <1>2, <1>3 DEF Issued, Counted
<1>5. \A s \in A : Issued(r, s.entry)
  BY <1>1 DEF Keyed, Issued
<1>6. \A e, f \in r.queue : Counted(e) /\ e.turn = f.turn => e = f
  BY <1>1, <1>3, SMT DEF Keyed, Counted
<1>7. \A e \in r.queue, s \in A : Counted(e) => e.turn # s.entry.turn
  BY <1>1, <1>3, SMT DEF Keyed, Counted
<1>8. \A e, f \in r.queue : SameKey(e, f) => e = f
  <2> SUFFICES ASSUME NEW e \in q.queue, NEW f \in q.queue,
                      SameKey(UpgradeEntry(e), UpgradeEntry(f))
               PROVE  UpgradeEntry(e) = UpgradeEntry(f)
    BY <1>1
  <2>1. e.turn = f.turn
    BY <1>3 DEF SameKey
  <2>2. CASE Counted(e)
    BY <2>1, <2>2 DEF Keyed
  <2>3. CASE ~Counted(e)
    BY <1>3, <2>1, <2>3 DEF Keyed, Counted
  <2> QED BY <2>2, <2>3
<1>9. turn_counter(r) <= MaxPushes
  BY <1>1 DEF Keyed, turn_counter
<1>10. Keyed(r, A)
  BY <1>4, <1>5, <1>6, <1>7, <1>8, <1>9 DEF Keyed
<1> QED BY <1>10 DEF check_poll_upgrade, r

-----------------------------------------------------------------------------
(* Poll upgrades.  An entry the starvation bound overlooks has seen no     *)
(* upgrade since it was queued, and turn_counter moves by one at a time:   *)
(* it cannot have passed a multiple of the interval since.                 *)

Overlooked(e) == ~is_non_polling(e) /\ ~e.upgraded_in_place

\* The pushes at the back since an overlooked entry's own.
Polled(q) ==
    \A e \in q.queue :
        Overlooked(e) => q.last_back_turn - e.turn
                            <= turn_counter(q) % POLLING_UPGRADE_INTERVAL

\* The remainder of a division.
LEMMA Remainders ==
    ASSUME NEW n \in Nat, NEW k \in Nat \ {0}
    PROVE  n % k \in 0..k - 1
BY SMT

\* Two multiples of k are k apart or more.
LEMMA MultiplesApart ==
    ASSUME NEW k \in Nat \ {0}, NEW a \in Int, NEW b \in Int, a > b
    PROVE  k * a >= k * b + k
<1>1. PICK d \in Nat : a = b + 1 + d
  <2>1. a - b - 1 \in Nat
    BY SMT
  <2> QED BY <2>1, SMT
<1>2. k * a = k * b + k + k * d
  BY <1>1, SMT
<1>3. k * d \in Nat /\ k * b \in Int
  BY SMT
<1> QED BY <1>2, <1>3, SMT

\* Counting up by one either completes an interval or adds one to the
\* remainder.
LEMMA RemainderGrows ==
    ASSUME NEW n \in Nat, NEW k \in Nat \ {0}, (n + 1) % k # 0
    PROVE  (n + 1) % k = (n % k) + 1
<1> DEFINE a == n \div k
           b == (n + 1) \div k
           x == n % k
           y == (n + 1) % k
<1>1. n \in Int /\ k \in Int /\ k > 0 /\ n + 1 \in Int /\ n + 1 \in Nat
  BY SMT
<1>2. n = k * a + x
  BY <1>1, SMT
<1>3. n + 1 = k * b + y
  BY <1>1, SMT
<1>4. a \in Int /\ b \in Int
  BY <1>1, SMT
<1>5. x \in 0..k - 1 /\ y \in 0..k - 1 /\ y # 0
  BY <1>1, Remainders
<1>6. a > b => k * a >= k * b + k
  BY <1>4, MultiplesApart
<1>7. b > a => k * b >= k * a + k
  BY <1>4, MultiplesApart
<1>8. k * a \in Int /\ k * b \in Int
  BY <1>4, SMT
<1> HIDE DEF a, b, x, y
<1>9. a = b
  BY <1>2, <1>3, <1>4, <1>5, <1>6, <1>7, <1>8, SMT
<1> QED BY <1>2, <1>3, <1>5, <1>8, <1>9, SMT DEF x, y

\* Taking entries away.
LEMMA ShrinkPolled ==
    ASSUME NEW q, NEW r, Polled(q), Shrinks(q, r)
    PROVE  Polled(r)
BY DEF Polled, Shrinks, turn_counter

\* An upgrade overlooks nobody.
LEMMA UpgradeReaches ==
    ASSUME NEW e \in Entry, e.deadline_restored => e.poll_upgrade = NoUpgrade
    PROVE  ~Overlooked(UpgradeEntry(e))
<1> DEFINE moved ==
      CASE e.poll_upgrade = NoUpgrade -> e
        [] e.poll_upgrade >= LAST_PRIORITY ->
             [e EXCEPT !.upgraded_in_place = TRUE]
        [] OTHER ->
             [e EXCEPT !.priority = e.poll_upgrade,
                       !.poll_upgrade = NoUpgrade]
<1>1. /\ moved \in Entry
      /\ \/ moved.upgraded_in_place
         \/ moved.poll_upgrade = NoUpgrade
  <2>1. CASE e.poll_upgrade = NoUpgrade
    <3>1. ~(e.poll_upgrade >= LAST_PRIORITY)
      BY <2>1, PriorityAssumption, SMT DEF NoUpgrade, EAGER_IO_REPOLL_PRIORITY
    <3>2. moved = e
      BY <2>1, <3>1
    <3> QED BY <2>1, <3>2
  <2>2. CASE e.poll_upgrade # NoUpgrade /\ e.poll_upgrade >= LAST_PRIORITY
    <3>1. moved = [e EXCEPT !.upgraded_in_place = TRUE]
      BY <2>2
    <3> QED BY <3>1 DEF Entry
  <2>3. CASE e.poll_upgrade # NoUpgrade /\ ~(e.poll_upgrade >= LAST_PRIORITY)
    <3>1. moved = [e EXCEPT !.priority = e.poll_upgrade,
                            !.poll_upgrade = NoUpgrade]
      BY <2>3
    <3> QED BY <3>1, <2>3 DEF Entry, NoUpgrade
  <2> QED BY <2>1, <2>2, <2>3
<1> HIDE DEF moved
<1> DEFINE dr == moved.deadline_restored /\ moved.priority >= LAST_PRIORITY
           uip == moved.upgraded_in_place \/
                    (moved.deadline_restored /\ moved.priority >= LAST_PRIORITY)
<1>2. UpgradeEntry(e) = [moved EXCEPT !.deadline_restored = dr, !.upgraded_in_place = uip]
  BY DEF UpgradeEntry, moved
<1>3. /\ UpgradeEntry(e).poll_upgrade = moved.poll_upgrade
      /\ UpgradeEntry(e).deadline_restored = dr
      /\ UpgradeEntry(e).upgraded_in_place = uip
  BY <1>1, <1>2 DEF Entry
<1> QED BY <1>1, <1>3 DEF Overlooked, is_non_polling

\* do_poll_upgrade leaves no entry of the queue overlooked.
LEMMA UpgradePolled ==
    ASSUME NEW q, QueueOK(q), NEW A, Keyed(q, A)
    PROVE  Polled(do_poll_upgrade(q))
<1>1. do_poll_upgrade(q).queue = {UpgradeEntry(e) : e \in q.queue}
  BY DEF QueueOK, RunQueueState, do_poll_upgrade
<1>2. \A e \in q.queue : ~Overlooked(UpgradeEntry(e))
  BY UpgradeReaches DEF QueueOK, RunQueueState, Keyed, Issued
<1> QED BY <1>1, <1>2 DEF Polled

\* A step that moves one counter by one and adds entry e.
LEMMA AddPolled ==
    ASSUME NEW q, QueueOK(q), Polled(q), NEW m, QueueOK(m), NEW A, Keyed(m, A), NEW e,
           m.queue \subseteq q.queue \cup {e},
           Overlooked(e) => e.turn = m.last_back_turn,
           \/ /\ m.last_back_turn = q.last_back_turn + 1
              /\ m.last_front_turn = q.last_front_turn
           \/ /\ m.last_back_turn = q.last_back_turn
              /\ m.last_front_turn = q.last_front_turn - 1
    PROVE  Polled(check_poll_upgrade(m))
<1>1. CASE turn_counter(m) % POLLING_UPGRADE_INTERVAL = 0
  BY <1>1, UpgradePolled DEF check_poll_upgrade
<1>2. CASE turn_counter(m) % POLLING_UPGRADE_INTERVAL # 0
  <2> DEFINE k == POLLING_UPGRADE_INTERVAL
             n == turn_counter(q)
  <2>1. /\ q.last_back_turn \in Nat /\ q.last_front_turn \in Int /\ q.last_front_turn <= 0
        /\ q.queue \subseteq Entry /\ m.queue \subseteq Entry
        /\ m.last_back_turn \in Nat /\ k \in Nat \ {0}
    BY PriorityAssumption DEF QueueOK, RunQueueState
  <2>2. n \in Nat /\ turn_counter(m) = n + 1
    BY <2>1, SMT DEF turn_counter
  <2>3. turn_counter(m) % k = (n % k) + 1 /\ n % k \in 0..k - 1
    BY <1>2, <2>1, <2>2, RemainderGrows, Remainders
  <2> HIDE DEF k, n
  <2>4. ASSUME NEW f \in m.queue, Overlooked(f)
        PROVE  m.last_back_turn - f.turn <= turn_counter(m) % k
    <3>1. f.turn \in Int
      BY <2>1 DEF Entry
    <3>2. CASE f = e
      BY <2>1, <2>3, <2>4, <3>1, <3>2, SMT
    <3>3. CASE f \in q.queue
      <4>1. q.last_back_turn - f.turn <= n % k
        BY <2>4, <3>3 DEF Polled, n, k
      <4> QED BY <2>1, <2>3, <3>1, <4>1, SMT
    <3> QED BY <3>2, <3>3
  <2>5. check_poll_upgrade(m) = m
    BY <1>2 DEF check_poll_upgrade
  <2> QED BY <2>4, <2>5 DEF Polled, k
<1> QED BY <1>1, <1>2

-----------------------------------------------------------------------------
(* The operators that insert.                                              *)

\* Adding an entry with a turn that the counters pass at this moment.
LEMMA AddKeyed ==
    ASSUME NEW q, NEW A, NEW m, NEW e, Keyed(q, A),
           q \in RunQueueState, m \in RunQueueState, A \subseteq Suspended,
           m.queue = q.queue \cup {e}, e \in Entry,
           e.deadline_restored => e.poll_upgrade = NoUpgrade,
           m.last_front_turn <= q.last_front_turn,
           q.last_back_turn <= m.last_back_turn,
           m.last_front_turn <= e.turn, e.turn <= m.last_back_turn,
           e.turn < q.last_front_turn \/ q.last_back_turn < e.turn,
           m.last_front_turn <= 0, turn_counter(m) <= MaxPushes
    PROVE  Keyed(m, A)
<1>1. /\ q.queue \subseteq Entry /\ \A s \in A : s.entry \in Entry
      /\ q.last_back_turn \in Int /\ q.last_front_turn \in Int
      /\ m.last_back_turn \in Int /\ m.last_front_turn \in Int /\ e.turn \in Int
  BY SMT DEF RunQueueState, Suspended, Entry
<1>2. \A f \in Entry : f.turn \in Int
  BY DEF Entry
<1>3. Counted(e) /\ RUN_TIME_TURNS \in Int
  BY <1>1, EnvironmentAssumption, PriorityAssumption, SMT DEF turn_counter, Counted
<1>4. \A f \in Entry : Issued(q, f) => Issued(m, f) /\ f.turn # e.turn
  BY <1>1, <1>2, <1>3, SMT DEF Issued, Counted
<1>5. Issued(m, e)
  BY <1>3 DEF Issued
<1>6. \A f \in q.queue : Issued(m, f) /\ f.turn # e.turn
  BY <1>1, <1>4 DEF Keyed
<1>7. \A s \in A : Issued(m, s.entry) /\ s.entry.turn # e.turn
  BY <1>1, <1>4 DEF Keyed
<1> QED BY <1>5, <1>6, <1>7 DEF Keyed, SameKey

\* The pushes insert under a new turn.
LEMMA PushInnerKeyed ==
    ASSUME NEW q, QueueOK(q), NEW A \in SUBSET Suspended, Keyed(q, A),
           turn_counter(q) < MaxPushes,
           NEW t \in Tids, t \notin tids(q), NEW p \in Bands, NEW u \in Bands,
           NEW r \in {push_back_inner(q, t, p, u), push_front_inner(q, t, p, u)}
    PROVE  /\ Keyed(r, A)
           /\ Polled(q) /\ (u = NoUpgrade \/ r = push_back_inner(q, t, p, u))
                 => Polled(r)
<1> DEFINE E(n) == [tid |-> t, priority |-> p, turn |-> n, poll_upgrade |-> u,
                    deadline_restored |-> FALSE, upgraded_in_place |-> FALSE]
           b == q.last_back_turn + 1
           f == q.last_front_turn - 1
           mb == [q EXCEPT !.last_back_turn = b, !.queue = @ \cup {E(b)}]
           mf == [q EXCEPT !.last_front_turn = f, !.queue = @ \cup {E(f)}]
<1>1. /\ q \in RunQueueState /\ b \in Nat /\ f \in Int /\ f <= 0
      /\ q.last_back_turn \in Nat /\ q.last_front_turn \in Int
      /\ q.last_front_turn <= 0 /\ MaxPushes \in Nat
  BY EnvironmentAssumption, SMT DEF QueueOK, RunQueueState
<1>2. E(b) \in Entry /\ E(f) \in Entry
  BY <1>1, SMT DEF Entry, Bands, NoUpgrade
<1>3. /\ E(b).turn = b /\ E(f).turn = f
      /\ E(b).tid = t /\ E(f).tid = t
      /\ ~E(b).deadline_restored /\ ~E(f).deadline_restored
      /\ E(f).poll_upgrade = u
  OBVIOUS
<1> HIDE DEF E
<1>4. /\ mb \in RunQueueState /\ mb.queue = q.queue \cup {E(b)}
      /\ mb.last_back_turn = b /\ mb.last_front_turn = q.last_front_turn
  <2> HIDE DEF b
  <2> QED BY <1>1, <1>2 DEF RunQueueState
<1>5. /\ mf \in RunQueueState /\ mf.queue = q.queue \cup {E(f)}
      /\ mf.last_back_turn = q.last_back_turn /\ mf.last_front_turn = f
  <2> HIDE DEF f
  <2> QED BY <1>1, <1>2 DEF RunQueueState
<1>6. /\ push_back_inner(q, t, p, u) = check_poll_upgrade(mb)
      /\ push_front_inner(q, t, p, u) = check_poll_upgrade(mf)
  <2>1. push_back_inner(q, t, p, u) = check_poll_upgrade(mb)
    BY <1>1 DEF push_back_inner, push_inner, E, RunQueueState
  <2>2. push_front_inner(q, t, p, u) = check_poll_upgrade(mf)
    BY <1>1 DEF push_front_inner, push_inner, E, RunQueueState
  <2> QED BY <2>1, <2>2
<1> HIDE DEF mb, mf
<1>7. Keyed(mb, A)
  <2>1. turn_counter(mb) <= MaxPushes
    BY <1>1, <1>4, SMT DEF turn_counter
  <2> QED BY <1>1, <1>2, <1>3, <1>4, <2>1, AddKeyed, SMT
<1>8. Keyed(mf, A)
  <2>1. turn_counter(mf) <= MaxPushes
    BY <1>1, <1>5, SMT DEF turn_counter
  <2> QED BY <1>1, <1>2, <1>3, <1>5, <2>1, AddKeyed, SMT
<1>9. QueueOK(mb) /\ QueueOK(mf)
  BY <1>1, <1>3, <1>4, <1>5, SMT DEF QueueOK, Single, tids
<1>10. Polled(q) => Polled(check_poll_upgrade(mb))
  BY <1>3, <1>4, <1>7, <1>9, AddPolled
<1>11. Polled(q) /\ u = NoUpgrade => Polled(check_poll_upgrade(mf))
  <2>1. u = NoUpgrade => ~Overlooked(E(f))
    BY <1>3 DEF Overlooked, is_non_polling
  <2> QED BY <1>5, <1>8, <1>9, <2>1, AddPolled
<1> QED BY <1>6, <1>7, <1>8, <1>9, <1>10, <1>11, UpgradeKeyed

\* The same of every push.
LEMMA PushKeyed ==
    ASSUME NEW q, QueueOK(q), NEW A \in SUBSET Suspended, Keyed(q, A),
           turn_counter(q) < MaxPushes,
           NEW t \in Tids, t \notin tids(q), NEW p \in Priorities, NEW attempt,
           NEW r \in {push_back(q, t, p), push_front(q, t, p),
                      push_eager_io_repoll(q, t), push_poller(q, t, p, attempt)}
    PROVE  Keyed(r, A) /\ (Polled(q) => Polled(r))
<1>1. NoUpgrade \in Bands /\ p \in Bands /\ EAGER_IO_REPOLL_PRIORITY \in Bands
  BY DEF Bands, NoUpgrade
<1>2. poller_priority(p, attempt) \in Bands
  <2>1. LAST_PRIORITY \in Priorities
    BY PriorityAssumption, SMT DEF Priorities, FIRST_PRIORITY, EAGER_IO_REPOLL_PRIORITY
  <2>2. p..LAST_PRIORITY \subseteq Priorities
    BY PriorityAssumption, SMT DEF Priorities, FIRST_PRIORITY, EAGER_IO_REPOLL_PRIORITY
  <2> QED BY <2>1, <2>2 DEF poller_priority, Bands
<1>3. \E x, u \in Bands :
         /\ r \in {push_back_inner(q, t, x, u), push_front_inner(q, t, x, u)}
         /\ u = NoUpgrade \/ r = push_back_inner(q, t, x, u)
  BY <1>1, <1>2 DEF push_back, push_front, push_eager_io_repoll, push_poller
<1> QED BY <1>3, PushInnerKeyed

\* restore_poller_priority moves a poller to a new turn of its normal band.
LEMMA RestorePollerKeyed ==
    ASSUME NEW q, QueueOK(q), NEW A \in SUBSET Suspended, Keyed(q, A),
           turn_counter(q) < MaxPushes, NEW t \in tids(q)
    PROVE  /\ Keyed(restore_poller_priority(q, t), A)
           /\ Polled(q) => Polled(restore_poller_priority(q, t))
<1> DEFINE e == EntryOf(q, t)
           b == q.last_back_turn + 1
           f == RestoredEntry(e, b)
           g == [q EXCEPT !.queue = @ \ {e}]
           m == [q EXCEPT !.last_back_turn = b, !.queue = (@ \ {e}) \cup {f}]
<1>1. e \in q.queue /\ e.tid = t /\ e \in Entry
  BY EntryOfQueued DEF QueueOK, RunQueueState
<1>2. /\ q \in RunQueueState /\ b \in Nat /\ b \in Int
      /\ q.last_back_turn \in Nat /\ q.last_front_turn \in Int
      /\ q.last_front_turn <= 0 /\ MaxPushes \in Nat
  BY EnvironmentAssumption, SMT DEF QueueOK, RunQueueState
<1>3. CASE ~(contains_tid(q, t) /\ e.poll_upgrade # NoUpgrade)
  BY <1>3 DEF restore_poller_priority
<1>4. CASE contains_tid(q, t) /\ e.poll_upgrade # NoUpgrade
  <2>1. restore_poller_priority(q, t) = check_poll_upgrade(m)
    BY <1>4 DEF restore_poller_priority
  <2>2. (e.priority >= LAST_PRIORITY) \in BOOLEAN
    BY SMT
  <2> HIDE DEF e, b
  <2>3. f \in Entry /\ f.tid = t /\ f.turn = b /\ f.poll_upgrade = NoUpgrade
    BY <1>1, <1>2, <1>4, <2>2 DEF Entry, NoUpgrade, RestoredEntry
  <2> HIDE DEF f
  <2>4. /\ g \in RunQueueState /\ g.queue = q.queue \ {e}
        /\ g.last_back_turn = q.last_back_turn
        /\ g.last_front_turn = q.last_front_turn
    BY <1>2 DEF RunQueueState
  <2>5. m \in RunQueueState /\ m.queue = (q.queue \ {e}) \cup {f}
        /\ m.last_back_turn = b /\ m.last_front_turn = q.last_front_turn
    <3>1. (q.queue \ {e}) \cup {f} \in SUBSET Entry
      BY <1>2, <2>3 DEF RunQueueState
    <3> DEFINE S == (q.queue \ {e}) \cup {f}
    <3>2. m = [q EXCEPT !.last_back_turn = b, !.queue = S]
      BY <1>2 DEF RunQueueState
    <3> HIDE DEF S, m
    <3>3. m \in RunQueueState /\ m.queue = S
          /\ m.last_back_turn = b /\ m.last_front_turn = q.last_front_turn
      <4>1. S \in SUBSET Entry
        BY <3>1 DEF S
      <4> QED BY <1>2, <3>2, <4>1 DEF RunQueueState
    <3> QED BY <3>3 DEF S
  <2> HIDE DEF m, g
  <2>6. Keyed(g, A)
    BY <2>4, ShrinkKeyed DEF Shrinks
  <2>7. turn_counter(m) <= MaxPushes /\ b = q.last_back_turn + 1
    BY <1>2, <2>5, SMT DEF turn_counter, b
  <2>8. Keyed(m, A)
    BY <1>2, <2>3, <2>4, <2>5, <2>6, <2>7, AddKeyed, SMT
  <2>9. QueueOK(m)
    BY <1>1, <1>2, <2>3, <2>5 DEF QueueOK, Single, tids
  <2>10. Polled(q) => Polled(check_poll_upgrade(m))
    <3>1. m.queue \subseteq q.queue \cup {f}
      BY <2>5
    <3> QED BY <2>3, <2>5, <2>7, <2>8, <2>9, <3>1, AddPolled
  <2> QED BY <2>1, <2>8, <2>9, <2>10, UpgradeKeyed
<1> QED BY <1>3, <1>4

\* restore brings an entry back under its own turn, which nothing took
\* meanwhile, or under a free turn of the run-time order.
LEMMA RestoreKeyed ==
    ASSUME NEW q, QueueOK(q), NEW A \in SUBSET Suspended, Keyed(q, A),
           NEW e \in Entry, Issued(q, e), NEW n \in Int, IsRestoreTurn(q, e, n),
           Counted(e) => \A f \in q.queue : f.turn # e.turn,
           Counted(e) => \A s \in A : s.entry.turn # e.turn
    PROVE  Keyed(restore(q, e, n), A)
<1> DEFINE f == [e EXCEPT !.turn = n]
           r == restore(q, e, n)
<1>1. /\ f \in Entry /\ f.turn = n /\ f.priority = e.priority
      /\ f.poll_upgrade = e.poll_upgrade /\ f.deadline_restored = e.deadline_restored
  BY DEF Entry
<1>2. /\ r.queue = q.queue \cup {f}
      /\ r.last_back_turn = q.last_back_turn
      /\ r.last_front_turn = q.last_front_turn
  BY DEF QueueOK, RunQueueState, restore
<1> HIDE DEF f, r
<1>3. e.turn \in Int /\ RUN_TIME_TURNS \in Int /\ \A g \in q.queue : g.turn \in Int
  BY PriorityAssumption, SMT DEF Entry, QueueOK, RunQueueState
<1>4. Counted(e) => n = e.turn
  BY <1>3, SMT DEF IsRestoreTurn, Counted
<1>5. ~Counted(e) => /\ ~Counted(f)
                     /\ \A g \in q.queue : ~(g.priority = f.priority /\ g.turn = f.turn)
  BY <1>1, <1>3, SMT DEF IsRestoreTurn, Counted
<1>6. Issued(r, f)
  <2>1. CASE Counted(e)
    BY <1>1, <1>2, <1>4, <2>1 DEF Issued, Counted, is_non_polling
  <2>2. CASE ~Counted(e)
    BY <1>1, <1>2, <1>5, <2>2 DEF Issued, is_non_polling
  <2> QED BY <2>1, <2>2
<1>7. /\ \A g \in q.queue : Counted(f) \/ Counted(g) => g.turn # f.turn
      /\ \A g \in q.queue : ~SameKey(f, g) /\ ~SameKey(g, f)
      /\ \A s \in A : Counted(f) => s.entry.turn # f.turn
  <2>1. CASE Counted(e)
    BY <1>1, <1>4, <2>1 DEF Counted, SameKey
  <2>2. CASE ~Counted(e)
    BY <1>1, <1>5, <2>2 DEF Counted, SameKey
  <2> QED BY <2>1, <2>2
<1>8. \A g \in q.queue : Issued(r, g)
  BY <1>2 DEF Keyed, Issued
<1>9. \A s \in A : Issued(r, s.entry)
  BY <1>2 DEF Keyed, Issued
<1>10. turn_counter(r) <= MaxPushes
  BY <1>2 DEF Keyed, turn_counter
<1>11. Keyed(r, A)
  BY <1>2, <1>6, <1>7, <1>8, <1>9, <1>10, SMT DEF Keyed
<1> QED BY <1>11 DEF r

\* A new priority keeps what holds of an entry that was set aside.
LEMMA RebandedIssued ==
    ASSUME NEW q, NEW e \in Entry, Issued(q, e), NEW saved, NEW current \in Priorities
    PROVE  Issued(q, Rebanded(e, saved, current))
<1> DEFINE f == Rebanded(e, saved, current)
<1>1. CASE saved = current
  BY <1>1 DEF Rebanded
<1>2. CASE saved # current
  <2>1. /\ f.turn = e.turn /\ f.priority = current
        /\ f.deadline_restored = e.deadline_restored
        /\ e.poll_upgrade = NoUpgrade => f.poll_upgrade = NoUpgrade
    BY <1>2 DEF Rebanded, Entry
  <2> HIDE DEF f
  <2>2. Issued(q, f)
    BY <2>1 DEF Issued, Counted, is_non_polling
  <2> QED BY <2>2 DEF f
<1> QED BY <1>1, <1>2

\* Of two moved entries of one band, one runs before the other.
LEMMA RunsBeforeIsTotal ==
    ASSUME NEW e, NEW f, NEW order, e.tid \in Nat, f.tid \in Nat, e.tid # f.tid,
           order[e.tid] \in Nat \X Nat, order[f.tid] \in Nat \X Nat
    PROVE  RunsBefore(e, f, order) \/ RunsBefore(f, e, order)
<1> DEFINE a == order[e.tid]
           b == order[f.tid]
<1>1. a[1] \in Nat /\ a[2] \in Nat /\ b[1] \in Nat /\ b[2] \in Nat
  OBVIOUS
<1>2. /\ RunsBefore(e, f, order) <=> \/ a[1] < b[1]
                                     \/ a[1] = b[1] /\ a[2] < b[2]
                                     \/ a[1] = b[1] /\ a[2] = b[2] /\ e.tid < f.tid
      /\ RunsBefore(f, e, order) <=> \/ b[1] < a[1]
                                     \/ b[1] = a[1] /\ b[2] < a[2]
                                     \/ b[1] = a[1] /\ b[2] = a[2] /\ f.tid < e.tid
  BY DEF RunsBefore
<1> HIDE DEF a, b
<1> QED BY <1>1, <1>2, SMT

\* order_by_run_time gives every entry it moves a turn of its own.
LEMMA OrderKeyed ==
    ASSUME NEW q, QueueOK(q), NEW A \in SUBSET Suspended, Keyed(q, A),
           NEW order, NEW a, Tids \subseteq Nat,
           \A t \in DOMAIN order : a[t] \in Int /\ order[t] \in Nat \X Nat,
           IsRunTimeAssignment(q, order, a)
    PROVE  /\ Keyed(order_by_run_time(q, order, a), A)
           /\ Polled(q) => Polled(order_by_run_time(q, order, a))
<1> DEFINE M == Moved(q, order)
           At(e) == [e EXCEPT !.turn = a[e.tid]]
           r == order_by_run_time(q, order, a)
<1>1. /\ \A e \in q.queue : e \in Entry /\ Issued(q, e)
      /\ M \subseteq q.queue
      /\ \A e \in M : e.tid \in DOMAIN order /\ in_round_robin_order(e)
  BY DEF QueueOK, RunQueueState, Keyed, Moved
<1>2. \A e \in M : /\ At(e).turn = a[e.tid] /\ At(e).tid = e.tid
                   /\ At(e).priority = e.priority
                   /\ At(e).poll_upgrade = e.poll_upgrade
                   /\ At(e).deadline_restored = e.deadline_restored
  BY <1>1 DEF Entry
<1>3. /\ r.queue = (q.queue \ M) \cup {At(e) : e \in M}
      /\ r.last_back_turn = q.last_back_turn
      /\ r.last_front_turn = q.last_front_turn
  BY DEF QueueOK, RunQueueState, order_by_run_time
<1>4. \A e \in M : /\ a[e.tid] \in Int /\ order[e.tid] \in Nat \X Nat
                   /\ OpenTurn(q, order, a, e, a[e.tid])
  BY <1>1 DEF IsRunTimeAssignment
<1> HIDE DEF r, At
<1>5. \A e \in M : a[e.tid] >= RUN_TIME_TURNS
  <2> SUFFICES ASSUME NEW e \in M PROVE a[e.tid] >= RUN_TIME_TURNS
    OBVIOUS
  <2>1. order[e.tid][1] \in Nat
    BY <1>4
  <2>2. RunTimeOffset(order[e.tid][1]) \in Nat
    BY <2>1, PriorityAssumption DEF RunTimeOffset
  <2>3. a[e.tid] >= RUN_TIME_TURNS + RunTimeOffset(order[e.tid][1])
    BY <1>4 DEF OpenTurn
  <2> QED BY <1>4, <2>2, <2>3, PriorityAssumption, SMT
<1>6. \A e, f \in M : e.priority = f.priority /\ a[e.tid] = a[f.tid] => e = f
  <2> SUFFICES ASSUME NEW e \in M, NEW f \in M, e.priority = f.priority,
                      a[e.tid] = a[f.tid], e # f
               PROVE  FALSE
    OBVIOUS
  <2>1. e.tid # f.tid /\ e.tid \in Nat /\ f.tid \in Nat
    BY <1>1 DEF QueueOK, Single, Entry
  <2>2. RunsBefore(e, f, order) \/ RunsBefore(f, e, order)
    BY <1>4, <2>1, RunsBeforeIsTotal
  <2>3. a[f.tid] > a[e.tid] \/ a[e.tid] > a[f.tid]
    BY <1>4, <2>2 DEF OpenTurn
  <2> QED BY <1>4, <2>3, SMT
<1>7. \A e \in M, f \in q.queue \ M : ~(f.priority = e.priority /\ f.turn = a[e.tid])
  BY <1>4 DEF OpenTurn
<1>8. \A e \in M : ~Counted(At(e)) /\ Issued(r, At(e))
  <2> SUFFICES ASSUME NEW e \in M PROVE ~Counted(At(e)) /\ Issued(r, At(e))
    OBVIOUS
  <2>1. ~Counted(At(e))
    BY <1>2, <1>4, <1>5, PriorityAssumption, SMT DEF Counted
  <2>2. is_non_polling(e) /\ e.priority \in Priorities
    BY <1>1 DEF in_round_robin_order, Entry
  <2> QED BY <1>2, <2>1, <2>2 DEF Issued, is_non_polling
<1>9. \A e \in r.queue : Issued(r, e)
  BY <1>1, <1>3, <1>8 DEF Issued
<1>10. \A s \in A : Issued(r, s.entry)
  BY <1>3 DEF Keyed, Issued
<1>11. \A e, f \in r.queue : Counted(e) /\ e.turn = f.turn => e = f
  BY <1>3, <1>8 DEF Keyed, Counted
<1>12. \A e \in r.queue, s \in A : Counted(e) => e.turn # s.entry.turn
  BY <1>3, <1>8 DEF Keyed
<1>13. \A e, f \in r.queue : SameKey(e, f) => e = f
  BY <1>1, <1>2, <1>3, <1>6, <1>7, SMT DEF Keyed, SameKey
<1>14. turn_counter(r) <= MaxPushes
  BY <1>3 DEF Keyed, turn_counter
<1>15. Keyed(r, A)
  BY <1>9, <1>10, <1>11, <1>12, <1>13, <1>14 DEF Keyed
<1>16. \A e \in M : ~Overlooked(At(e))
  BY <1>1, <1>2 DEF Overlooked, is_non_polling, in_round_robin_order
<1>17. Polled(q) => Polled(r)
  BY <1>3, <1>16 DEF Polled, turn_counter
<1> QED BY <1>15, <1>17 DEF r

\* order_continuation_fairly keeps the keys.
LEMMA OrderedFairlyKeyed ==
    ASSUME KInv, NEW order \in RunTimeOrders, NEW a \in Assignments(order)
    PROVE  /\ Keyed(OrderedFairly(rq, order, a), suspended)
           /\ Polled(rq) => Polled(OrderedFairly(rq, order, a))
           /\ OrderedFairly(rq, order, a) \in RunQueueState
<1>1. QueueOK(rq) /\ suspended \in SUBSET Suspended /\ Keyed(rq, suspended)
  BY IInvSplits DEF KInv, Good, Rest
<1>2. OrderedFairly(rq, order, a) \in RunQueueState
  BY <1>1, OrderedFairlyKeeps DEF QueueOK
<1>3. CASE ~FairContinuation
  BY <1>1, <1>2, <1>3 DEF OrderedFairly
<1>4. CASE FairContinuation
  <2>1. order \in [round_robin_tids(rq) -> RunTimes] /\ Tids \subseteq Nat
    BY <1>4, EnvironmentAssumption DEF RunTimeOrders
  <2>2. \A t \in DOMAIN order : order[t] \in Nat \X Nat
    BY <2>1, EnvironmentAssumption
  <2>3. \A t \in DOMAIN order : order[t][1] \in Nat
    BY <2>2
  <2>4. \A t \in DOMAIN order : RUN_TIME_TURNS + RunTimeOffset(order[t][1]) \in Int
    BY <2>3, PriorityAssumption, SMT DEF RunTimeOffset
  <2> DEFINE base == {RUN_TIME_TURNS + RunTimeOffset(order[t][1]) : t \in DOMAIN order}
  <2>5. /\ a \in [DOMAIN order -> {b + i : b \in base, i \in 0..Cardinality(Tids) - 1}]
        /\ IsRunTimeAssignment(rq, order, a)
    BY <1>4, SMT DEF Assignments
  <2>6. \A t \in DOMAIN order : a[t] \in Int
    BY <2>4, <2>5, SMT
  <2> HIDE DEF base
  <2>7. \A t \in DOMAIN order : a[t] \in Int /\ order[t] \in Nat \X Nat
    BY <2>2, <2>6
  <2>8. QueueOK(rq) /\ suspended \in SUBSET Suspended /\ Keyed(rq, suspended)
    BY <1>1
  <2>9. Tids \subseteq Nat /\ IsRunTimeAssignment(rq, order, a)
    BY <2>1, <2>5, SMT
  <2>10. /\ Keyed(order_by_run_time(rq, order, a), suspended)
         /\ Polled(rq) => Polled(order_by_run_time(rq, order, a))
    BY ONLY <2>7, <2>8, <2>9, OrderKeyed, ZenonT(30)
  <2> QED BY <1>2, <1>4, <2>10 DEF OrderedFairly
<1> QED BY <1>3, <1>4

-----------------------------------------------------------------------------
(* The actions.                                                            *)

\* What the invariant gives to each of them.
LEMMA KInvHolds ==
    ASSUME KInv
    PROVE  /\ QueueOK(rq) /\ rq \in RunQueueState /\ Good(rq)
           /\ suspended \in SUBSET Suspended
           /\ priorities \in [Tids -> Priorities]
           /\ Keyed(rq, suspended)
BY IInvSplits DEF KInv, Good, QueueOK, Rest

\* What a step carries over: the keys, and the bound on what is overlooked.
Carries(A) == Keyed(rq', A) /\ (Polled(rq) => Polled(rq'))

\* A step that only takes away.
LEMMA ShrinkCarries ==
    ASSUME KInv, Shrinks(rq, rq'), NEW A, A \subseteq suspended
    PROVE  Carries(A)
BY KInvHolds, ShrinkKeyed, ShrinkPolled DEF Carries

\* A push onto what a smaller queue is left of rq.
LEMMA ShrinkAndPush ==
    ASSUME KInv, Room, NEW m, QueueOK(m), Shrinks(rq, m),
           NEW t \in Tids, t \notin tids(m), NEW p \in Priorities, NEW attempt,
           rq' \in {push_back(m, t, p), push_front(m, t, p),
                    push_eager_io_repoll(m, t), push_poller(m, t, p, attempt)}
    PROVE  Carries(suspended)
<1>1. Keyed(m, suspended) /\ (Polled(rq) => Polled(m))
  BY KInvHolds, ShrinkKeyed, ShrinkPolled
<1>2. turn_counter(m) < MaxPushes
  BY DEF Shrinks, turn_counter, Room
<1>3. Keyed(rq', suspended) /\ (Polled(m) => Polled(rq'))
  BY <1>1, <1>2, KInvHolds, PushKeyed, SMT
<1> QED BY <1>1, <1>3 DEF Carries

\* The pushes outside a selection.
LEMMA PushesKeyed ==
    ASSUME KInv, NEW t \in Tids, PushBack(t) \/ PushFront(t) \/ ReadmitReady(t)
    PROVE  Carries(suspended')
<1>1. /\ Room /\ t \notin tids(rq) /\ priorities[t] \in Priorities /\ suspended' = suspended
      /\ rq' \in {push_back(rq, t, priorities[t]), push_front(rq, t, priorities[t]),
                  push_eager_io_repoll(rq, t), push_poller(rq, t, priorities[t], 0)}
  BY KInvHolds, ContainsIsMember DEF PushBack, PushFront, ReadmitReady, push_safety_check
<1> QED BY <1>1, KInvHolds, BookkeepingShrinks, ShrinkAndPush, SMT

\* A removal.
LEMMA RemoveKeyed ==
    ASSUME KInv, NEW t \in Tids, NEW retires \in BOOLEAN, Remove(t, retires)
    PROVE  Carries(suspended')
<1>1. rq' = remove_tid(rq, t) /\ suspended' \subseteq suspended
  BY DEF Remove
<1>2. Shrinks(rq, rq')
  BY <1>1, KInvHolds, BookkeepingShrinks
<1> QED BY <1>1, <1>2, ShrinkCarries

\* A thread that is taken off and queued again.
LEMMA RequeuesKeyed ==
    ASSUME KInv, NEW t \in Tids,
           (\E p \in Priorities : RequeueWithNewPriority(t, p)) \/ RequeueBehind(t)
    PROVE  Carries(suspended')
<1> DEFINE r == remove_tid(rq, t)
<1>1. /\ Room /\ suspended' = suspended
      /\ rq' = r \/ \E p \in Priorities : rq' = push_back(r, t, p)
  BY KInvHolds DEF RequeueWithNewPriority, RequeueBehind
<1>2. QueueOK(r) /\ t \notin tids(r) /\ Shrinks(rq, r)
  BY KInvHolds, RemoveTakes, BookkeepingShrinks, SMT
<1> HIDE DEF r
<1>3. CASE rq' = r
  BY <1>1, <1>2, <1>3, ShrinkCarries
<1>4. ASSUME NEW p \in Priorities, rq' = push_back(r, t, p)
      PROVE  Carries(suspended)
  BY <1>1, <1>2, <1>4, ShrinkAndPush
<1> QED BY <1>1, <1>3, <1>4

\* Pollers that are restored or upgraded.
LEMMA PollersKeyed ==
    ASSUME KInv, (\E t \in Tids : RestorePoller(t)) \/ UpgradeOnTime
    PROVE  Carries(suspended')
<1>1. ASSUME NEW t \in Tids, RestorePoller(t)
      PROVE  Carries(suspended')
  <2>1. /\ t \in tids(rq) /\ rq' = restore_poller_priority(rq, t)
        /\ suspended' = suspended /\ turn_counter(rq) < MaxPushes
    BY <1>1, ContainsIsMember DEF RestorePoller, Room
  <2> QED BY <2>1, KInvHolds, RestorePollerKeyed DEF Carries
<1>2. ASSUME UpgradeOnTime
      PROVE  Carries(suspended')
  BY <1>2, KInvHolds, UpgradeKeyed, UpgradePolled DEF UpgradeOnTime, upgrade_pollers, Carries
<1> QED BY <1>1, <1>2

\* begin_alarm_observation: the entry set aside keeps its turn to itself.
LEMMA BeginObservationKeyed ==
    ASSUME KInv, NEW t \in Tids, BeginObservation(t)
    PROVE  Keyed(rq', suspended')
<1> DEFINE m == suspend(rq, t)
           e == EntryOf(rq, t)
           s == [entry |-> e, persistent_priority |-> priorities[t]]
<1>1. /\ Room /\ t \in tids(rq) /\ suspended' = suspended \cup {s}
      /\ rq' = push_back(m, t, priorities[t])
      /\ priorities[t] \in Priorities
  BY KInvHolds, ContainsIsMember DEF BeginObservation
<1>2. e \in rq.queue /\ e.tid = t /\ e \in Entry
  BY <1>1, KInvHolds, EntryOfQueued DEF RunQueueState
<1>3. QueueOK(m) /\ t \notin tids(m) /\ Shrinks(rq, m)
  BY KInvHolds, SuspendTakes, BookkeepingShrinks
<1>4. s \in Suspended /\ s.entry = e
  BY <1>1, <1>2 DEF Suspended
<1> HIDE DEF m, e, s
<1>5. Keyed(m, suspended)
  BY <1>3, KInvHolds, ShrinkKeyed
<1>6. e \notin m.queue
  BY <1>2, <1>3 DEF tids
<1>7. Issued(m, e)
  BY <1>2, <1>3, KInvHolds DEF Keyed, Issued, Shrinks
<1>8. Counted(e) => \A f \in m.queue : f.turn # e.turn
  BY <1>2, <1>3, <1>6, KInvHolds DEF Keyed, Shrinks
<1>9. Counted(e) => \A r \in suspended : r.entry.turn # e.turn
  BY <1>2, KInvHolds DEF Keyed
<1>10. Keyed(m, suspended \cup {s})
  <2>1. \A r \in suspended \cup {s} : Issued(m, r.entry)
    BY <1>4, <1>5, <1>7 DEF Keyed
  <2>2. \A f \in m.queue, r \in suspended \cup {s} : Counted(f) => f.turn # r.entry.turn
    BY <1>4, <1>5, <1>8 DEF Keyed, Counted
  <2>3. \A r, x \in suspended \cup {s} :
          Counted(r.entry) /\ r.entry.turn = x.entry.turn => r = x
    BY <1>4, <1>5, <1>9 DEF Keyed, Counted
  <2> QED BY <1>5, <2>1, <2>2, <2>3 DEF Keyed
<1>11. turn_counter(m) < MaxPushes
  BY <1>1, <1>3 DEF Shrinks, turn_counter, Room
<1>12. suspended \cup {s} \in SUBSET Suspended
  BY <1>4, KInvHolds
<1> QED BY <1>1, <1>3, <1>10, <1>11, <1>12, PushKeyed

\* resume_request: the entry comes back to its turn.
LEMMA ResumeKeyed ==
    ASSUME KInv, NEW s \in suspended, ResumeRequest(s)
    PROVE  Keyed(rq', suspended')
<1> DEFINE t == s.entry.tid
           m == suspend(rq, t)
           e == Rebanded(s.entry, s.persistent_priority, priorities[t])
           A == suspended \ {s}
<1>1. s.entry \in Entry /\ t \in Tids /\ priorities[t] \in Priorities
  BY KInvHolds DEF Suspended, Entry
<1>2. e \in Entry /\ e.turn = s.entry.turn
  BY <1>1, RebandedType
<1>3. QueueOK(m) /\ Shrinks(rq, m)
  BY <1>1, KInvHolds, SuspendTakes, BookkeepingShrinks
<1>4. PICK n \in {e.turn} \cup {f.turn + 1 : f \in m.queue} :
        IsRestoreTurn(m, e, n) /\ rq' = restore(m, e, n)
  BY DEF ResumeRequest
<1>5. suspended' = A
  BY DEF ResumeRequest
<1>6. n \in Int
  <2>1. m.queue \subseteq Entry
    BY <1>3 DEF QueueOK, RunQueueState
  <2> QED BY <1>2, <1>4, <2>1, SMT DEF Entry
<1>7. Keyed(m, suspended)
  BY <1>3, KInvHolds, ShrinkKeyed
<1>8. Keyed(m, A) /\ A \in SUBSET Suspended
  BY <1>3, KInvHolds, ShrinkKeyed, SMT
<1>9. Issued(m, e)
  <2>1. Issued(m, s.entry)
    BY <1>7 DEF Keyed
  <2> QED BY <1>1, <2>1, RebandedIssued
<1> HIDE DEF m, e
<1>10. Counted(e) => Counted(s.entry)
  BY <1>2 DEF Counted
<1>11. Counted(e) => \A f \in m.queue : f.turn # e.turn
  BY <1>2, <1>7, <1>10 DEF Keyed, Counted
<1>12. Counted(e) => \A r \in A : r.entry.turn # e.turn
  BY <1>2, <1>7, <1>10 DEF Keyed, Counted
<1> HIDE DEF A
<1>13. Keyed(restore(m, e, n), A)
  BY <1>2, <1>3, <1>4, <1>6, <1>8, <1>9, <1>11, <1>12, RestoreKeyed
<1> QED BY <1>4, <1>5, <1>13

\* step3_peek.
LEMMA PeeksKeyed ==
    ASSUME KInv, PeekNext \/ \E t \in Tids : PeekExact(t)
    PROVE  Carries(suspended')
<1>1. ASSUME PeekNext
      PROVE  Carries(suspended')
  <2>0. PICK order \in RunTimeOrders : \E a \in Assignments(order) :
           LET q == OrderedFairly(rq, order, a)
           IN  \E sel \in Selections(EpochChecked(q)) : rq' = tentative_pop_next(q, sel)
    BY <1>1 DEF PeekNext
  <2>1. PICK a \in Assignments(order) :
           LET q == OrderedFairly(rq, order, a)
           IN  \E sel \in Selections(EpochChecked(q)) : rq' = tentative_pop_next(q, sel)
    BY <2>0
  <2> DEFINE q == OrderedFairly(rq, order, a)
             c == EpochChecked(q)
  <2>2. PICK sel : rq' = tentative_pop_next(q, sel)
    BY <2>1
  <2>3. /\ Keyed(q, suspended) /\ QueueOK(q) /\ q \in RunQueueState
        /\ Polled(rq) => Polled(q)
    BY KInvHolds, OrderedFairlyKeyed, OrderedFairlyKeeps
  <2> HIDE DEF q
  <2>4. c \in RunQueueState /\ Shrinks(q, c)
    BY <2>3, BookkeepingShrinks, EpochCheckedKeeps DEF QueueOK
  <2>5. rq' = [c EXCEPT !.tentative_selection = sel,
                        !.sticky_random_selection =
                           IF Strategy = "StickyRandom" /\ q.queue # {} THEN sel ELSE @]
    BY <2>2 DEF tentative_pop_next
  <2> HIDE DEF c
  <2>6. Shrinks(c, rq')
    BY <2>4, <2>5 DEF Shrinks, RunQueueState
  <2>7. Carries(suspended)
    BY <2>3, <2>4, <2>6, ShrinksTwice, ShrinkKeyed, ShrinkPolled DEF Carries
  <2> QED BY <1>1, <2>7 DEF PeekNext
<1>2. ASSUME NEW t \in Tids, PeekExact(t)
      PROVE  Carries(suspended')
  <2>0. PICK order \in RunTimeOrders : \E a \in Assignments(order) :
           rq' = tentative_pop_tid(OrderedFairly(rq, order, a), t)
    BY <1>2 DEF PeekExact
  <2>1. PICK a \in Assignments(order) :
           rq' = tentative_pop_tid(OrderedFairly(rq, order, a), t)
    BY <2>0
  <2>2. /\ Keyed(OrderedFairly(rq, order, a), suspended)
        /\ Polled(rq) => Polled(OrderedFairly(rq, order, a))
        /\ OrderedFairly(rq, order, a) \in RunQueueState
    BY OrderedFairlyKeyed
  <2>3. Shrinks(OrderedFairly(rq, order, a), rq')
    BY <2>1, <2>2, BookkeepingShrinks
  <2>4. Carries(suspended)
    BY <2>2, <2>3, ShrinkKeyed, ShrinkPolled DEF Carries
  <2> QED BY <1>2, <2>4 DEF PeekExact
<1> QED BY <1>1, <1>2

\* What a commit leaves of the queue, with or without the ends of the yields'
\* exclusions.
LEMMA CommitsShrink ==
    ASSUME KInv, ~CanMutate(rq), NEW forget \in BOOLEAN,
           NEW m \in {commit_tentative_pop(rq, forget),
                      commit_tentative_pop_yield(rq, forget),
                      commit_tentative_pop_completed_turn(rq, forget),
                      end_yield_epoch(commit_tentative_pop(rq, forget))}
    PROVE  QueueOK(m) /\ Shrinks(rq, m) /\ Selected \notin tids(m)
<1> DEFINE c == commit_selection(rq, forget)
           d == consume_yield_exclusion(c)
<1>1. QueueOK(rq) /\ rq \in RunQueueState /\ Selected \in tids(rq) /\ Committed(rq) = Selected
  BY KInvHolds, SelectedIsThread DEF KInv
<1>2. QueueOK(c) /\ c \in RunQueueState /\ Shrinks(rq, c) /\ Selected \notin tids(c)
  BY <1>1, CommitTakes, BookkeepingShrinks DEF Selected, QueueOK
<1>3. m \in {c, d, end_yield_epoch(d), end_yield_epoch(c)}
  BY DEF commit_tentative_pop, commit_tentative_pop_yield,
     commit_tentative_pop_completed_turn
<1> HIDE DEF c
<1>4. QueueOK(d) /\ d \in RunQueueState /\ Shrinks(c, d) /\ tids(d) = tids(c)
  BY <1>2, ConsumeKeeps, BookkeepingShrinks DEF QueueOK
<1> HIDE DEF d
<1>5. QueueOK(end_yield_epoch(d)) /\ Shrinks(d, end_yield_epoch(d))
      /\ tids(end_yield_epoch(d)) = tids(d)
  BY <1>4, EndEpochKeeps, BookkeepingShrinks
<1>6. QueueOK(end_yield_epoch(c)) /\ Shrinks(c, end_yield_epoch(c))
      /\ tids(end_yield_epoch(c)) = tids(c)
  BY <1>2, EndEpochKeeps, BookkeepingShrinks
<1> QED BY <1>2, <1>3, <1>4, <1>5, <1>6, ShrinksTwice, SMT

\* The marks that a yield leaves change no entry.
LEMMA YieldPushes ==
    ASSUME NEW q, QueueOK(q), NEW t \in Tids, NEW p,
           NEW r \in {push_yielded(q, t, p), push_yielded_into_epoch(q, t, p)}
    PROVE  \E m : QueueOK(m) /\ Shrinks(q, m) /\ tids(m) = tids(q) /\ r = push_back(m, t, p)
<1> DEFINE Streaks == [Tids -> 0..PLAIN_YIELDS_BEFORE_EPOCH + 1]
           skipped_someone == \E e \in q.queue : e.tid # t
           streak == IF q.yield_streaks[t] > PLAIN_YIELDS_BEFORE_EPOCH
                     THEN q.yield_streaks[t] ELSE q.yield_streaks[t] + 1
           joins == skipped_someone /\ streak > PLAIN_YIELDS_BEFORE_EPOCH
           streaks == IF skipped_someone THEN [q.yield_streaks EXCEPT ![t] = streak]
                      ELSE q.yield_streaks
           a == [q EXCEPT !.yielded_skip = t, !.queued_by_yield = @ \cup {t}]
           b == [q EXCEPT !.yield_streaks = streaks,
                          !.epoch_open = @ \/ joins,
                          !.yield_epoch = IF joins THEN @ \cup {t} ELSE @,
                          !.queued_by_yield = @ \cup {t}]
<1>1. streaks \in Streaks
  BY SMT DEF QueueOK, RunQueueState, PLAIN_YIELDS_BEFORE_EPOCH
<1>2. r = push_back(a, t, p) \/ r = push_back(b, t, p)
  BY DEF push_yielded, push_yielded_into_epoch
<1> HIDE DEF streaks, joins
<1>3. /\ a \in RunQueueState /\ a.queue = q.queue
      /\ a.last_back_turn = q.last_back_turn /\ a.last_front_turn = q.last_front_turn
  BY DEF QueueOK, RunQueueState
<1>4. /\ b \in RunQueueState /\ b.queue = q.queue
      /\ b.last_back_turn = q.last_back_turn /\ b.last_front_turn = q.last_front_turn
  BY <1>1 DEF QueueOK, RunQueueState
<1> HIDE DEF a, b
<1>5. QueueOK(a) /\ QueueOK(b) /\ Shrinks(q, a) /\ Shrinks(q, b)
      /\ tids(a) = tids(q) /\ tids(b) = tids(q)
  BY <1>3, <1>4 DEF QueueOK, Single, Shrinks, tids
<1> QED BY <1>2, <1>5

\* The turns that push the selected thread back.
LEMMA CompletionsKeyed ==
    ASSUME KInv, NEW forget \in BOOLEAN,
           \/ CompleteTurn(forget) \/ CompleteYield(forget) \/ CompleteChaosYield(forget)
           \/ \E attempt \in PollAttempts, keeps_turn \in BOOLEAN :
                 BackOffPoller(forget, attempt, keeps_turn)
           \/ \E p \in Priorities : PriorityChangepoint(forget, p)
    PROVE  Carries(suspended')
<1> DEFINE Ms == {commit_tentative_pop(rq, forget),
                  commit_tentative_pop_yield(rq, forget),
                  commit_tentative_pop_completed_turn(rq, forget),
                  end_yield_epoch(commit_tentative_pop(rq, forget))}
           Pushed(m, p, n) ==
               rq' \in {push_back(m, Selected, p), push_front(m, Selected, p),
                        push_eager_io_repoll(m, Selected), push_poller(m, Selected, p, n)}
           Yielded(m, p) ==
               rq' \in {push_yielded(m, Selected, p), push_yielded_into_epoch(m, Selected, p)}
<1>1. Room /\ ~CanMutate(rq) /\ suspended' = suspended
  BY DEF CompleteTurn, CompleteYield, CompleteChaosYield, BackOffPoller, PriorityChangepoint
<1>2. Selected \in Tids /\ priorities[Selected] \in Priorities
  BY <1>1, SelectedIsThread DEF KInv
<1>3. \E m \in Ms : \E p \in Priorities : Yielded(m, p) \/ \E n : Pushed(m, p, n)
  <2>1. CASE CompleteTurn(forget)
    BY <1>2, <2>1 DEF CompleteTurn
  <2>2. CASE CompleteYield(forget)
    BY <1>2, <2>2 DEF CompleteYield
  <2>3. CASE CompleteChaosYield(forget)
    BY <1>2, <2>3 DEF CompleteChaosYield
  <2>4. ASSUME NEW attempt \in PollAttempts, NEW keeps_turn \in BOOLEAN,
               BackOffPoller(forget, attempt, keeps_turn)
        PROVE  \E n : Pushed(commit_tentative_pop(rq, forget), priorities[Selected], n)
    BY <2>4 DEF BackOffPoller
  <2>5. ASSUME NEW p \in Priorities, PriorityChangepoint(forget, p)
        PROVE  \E n : Pushed(end_yield_epoch(commit_tentative_pop(rq, forget)), p, n)
    BY <2>5 DEF PriorityChangepoint
  <2> QED BY <1>2, <2>1, <2>2, <2>3, <2>4, <2>5
<1>4. PICK m \in Ms : \E p \in Priorities : Yielded(m, p) \/ \E n : Pushed(m, p, n)
  BY <1>3
<1>5. QueueOK(m) /\ Shrinks(rq, m) /\ Selected \notin tids(m)
  BY <1>1, CommitsShrink
<1> HIDE DEF Ms
<1>6. PICK p \in Priorities : Yielded(m, p) \/ \E n : Pushed(m, p, n)
  BY <1>4
<1>7. CASE Yielded(m, p)
  <2>1. PICK a : QueueOK(a) /\ Shrinks(m, a) /\ tids(a) = tids(m)
                 /\ rq' = push_back(a, Selected, p)
    BY <1>2, <1>5, <1>7, YieldPushes, SMT
  <2>2. Shrinks(rq, a) /\ Selected \notin tids(a)
    BY <1>5, <2>1, ShrinksTwice
  <2> QED BY <1>1, <1>2, <2>1, <2>2, ShrinkAndPush
<1>8. ASSUME NEW n, Pushed(m, p, n)
      PROVE  Carries(suspended')
  BY <1>1, <1>2, <1>5, <1>8, ShrinkAndPush, SMT
<1> QED BY <1>6, <1>7, <1>8, SMT

\* The turns that leave it off the queue, or where it was.
LEMMA OffTurnsKeyed ==
    ASSUME KInv, BlockTurn \/ BackgroundTurn \/ AbortTurn
    PROVE  Carries(suspended')
<1> DEFINE u == undo_tentative_pop(rq)
           m == remove_tid(u, Selected)
           d == consume_yield_exclusion(m)
           b == end_yield_epoch(d)
<1>1. ~CanMutate(rq) /\ rq' \in {u, m, b} /\ suspended' = suspended
  BY DEF BlockTurn, BackgroundTurn, AbortTurn
<1>2. Selected \in Tids
  BY <1>1, SelectedIsThread DEF KInv
<1>3. QueueOK(u) /\ u \in RunQueueState /\ Shrinks(rq, u)
  BY KInvHolds, UndoKeeps, BookkeepingShrinks DEF QueueOK
<1> HIDE DEF u
<1>4. QueueOK(m) /\ m \in RunQueueState /\ Shrinks(u, m)
  BY <1>2, <1>3, RemoveTakes, BookkeepingShrinks DEF QueueOK
<1> HIDE DEF m
<1>5. QueueOK(d) /\ d \in RunQueueState /\ Shrinks(m, d)
  BY <1>4, ConsumeKeeps, BookkeepingShrinks DEF QueueOK
<1> HIDE DEF d
<1>6. Shrinks(d, b)
  BY <1>5, BookkeepingShrinks
<1> HIDE DEF b
<1>7. Shrinks(rq, rq')
  BY <1>1, <1>3, <1>4, <1>5, <1>6, ShrinksTwice, SMT
<1> QED BY <1>1, <1>7, ShrinkCarries

\* The keys' invariant holds for ever.
LEMMA KeysInvariance == Spec => []KInv
<1>1. Init => KInv
  <2>1. ASSUME Init PROVE Keyed(rq, suspended)
    BY <2>1, EnvironmentAssumption, SMT DEF Init, new, Keyed, turn_counter
  <2> QED BY <2>1, InitGood DEF KInv
<1>2. KInv /\ [Next]_vars => Keyed(rq', suspended')
  <2> USE DEF Carries
  <2>1. ASSUME KInv, OpenStep PROVE Keyed(rq', suspended')
    BY <2>1, PushesKeyed, RemoveKeyed, RequeuesKeyed, PollersKeyed,
       BeginObservationKeyed, ResumeKeyed, PeeksKeyed DEF OpenStep
  <2>2. ASSUME KInv, ClosingStep PROVE Keyed(rq', suspended')
    <3>1. Draws \subseteq BOOLEAN
      BY DEF Draws
    <3> QED BY <2>2, <3>1, CompletionsKeyed, OffTurnsKeyed DEF ClosingStep
  <2>3. ASSUME KInv, UNCHANGED vars PROVE Keyed(rq', suspended')
    BY <2>3 DEF KInv, vars
  <2> QED BY <2>1, <2>2, <2>3, NextSplits
<1>3. KInv /\ [Next]_vars /\ IInv' => KInv'
  BY <1>2 DEF KInv
<1> QED BY <1>1, <1>3, Invariance, PTL DEF Spec

\* Without observation gates nothing is ever set aside, and no step leaves an
\* overlooked entry behind.
LEMMA PollsInvariance ==
    Spec => [](~ControlledSignals => suspended = {} /\ Polled(rq))
<1> DEFINE P == ~ControlledSignals => suspended = {} /\ Polled(rq)
<1>1. Init => P
  <2>1. ASSUME Init PROVE suspended = {} /\ rq.queue = {}
    BY <2>1 DEF Init, new
  <2> QED BY <2>1 DEF Polled
<1>2. KInv /\ P /\ [Next]_vars => P'
  <2> SUFFICES ASSUME KInv, [Next]_vars, ~ControlledSignals, suspended = {}, Polled(rq)
               PROVE  suspended' = {} /\ Polled(rq')
    OBVIOUS
  <2>1. CASE OpenStep
    <3>1. \A t \in Tids : ~BeginObservation(t)
      BY DEF BeginObservation
    <3>2. Carries(suspended')
      BY <2>1, <3>1, PushesKeyed, RemoveKeyed, RequeuesKeyed, PollersKeyed, PeeksKeyed
         DEF OpenStep
    <3>3. suspended' \subseteq suspended
      BY <2>1, <3>1 DEF OpenStep, PushBack, PushFront, ReadmitReady, Remove,
         RequeueWithNewPriority, RequeueBehind, RestorePoller, UpgradeOnTime,
         PeekNext, PeekExact
    <3> QED BY <3>2, <3>3 DEF Carries
  <2>2. CASE ClosingStep
    <3>1. Draws \subseteq BOOLEAN
      BY DEF Draws
    <3>2. Carries(suspended')
      BY <2>2, <3>1, CompletionsKeyed, OffTurnsKeyed DEF ClosingStep
    <3>3. suspended' = suspended
      BY <2>2 DEF ClosingStep, CompleteTurn, CompleteYield, CompleteChaosYield,
         BackOffPoller, PriorityChangepoint, BlockTurn, BackgroundTurn, AbortTurn
    <3> QED BY <3>2, <3>3 DEF Carries
  <2>3. CASE UNCHANGED vars
    BY <2>3 DEF vars
  <2> QED BY <2>1, <2>2, <2>3, NextSplits
<1> QED BY <1>1, <1>2, KeysInvariance, PTL DEF Spec

-----------------------------------------------------------------------------
(* The theorems.                                                           *)

\* Every insertion finds its key free: the assertions of push_inner,
\* do_poll_upgrade, restore_poller_priority, order_by_run_time and restore
\* hold, whatever upgrades, gates and run times come between.
THEOREM KeysAreDistinct == Spec => []DistinctKeys
<1>1. KInv => DistinctKeys
  BY DEF KInv, Keyed, DistinctKeys
<1> QED BY <1>1, KeysInvariance, PTL

\* Only an ordinary entry ever has a turn of the run-time order.
THEOREM RunTimeTurnsAreOrdinary == Spec => []RunTimeTurnsAreRoundRobin
<1>1. KInv => RunTimeTurnsAreRoundRobin
  <2> SUFFICES ASSUME KInv, NEW e \in rq.queue, e.turn >= RUN_TIME_TURNS
               PROVE  is_non_polling(e) /\ e.priority \in Priorities
    BY DEF RunTimeTurnsAreRoundRobin
  <2>1. e.turn \in Int /\ Issued(rq, e)
    BY KInvHolds DEF RunQueueState, Entry, Keyed
  <2> QED BY <2>1, PriorityAssumption, SMT DEF Issued, Counted
<1> QED BY <1>1, KeysInvariance, PTL

\* A poller that the starvation bound does not count was queued within the last
\* POLLING_UPGRADE_INTERVAL pushes at the back, on a backend without gates.
THEOREM UpgradesReachPollers == Spec => []PollersAreUpgraded
<1>1. ASSUME KInv, ~ControlledSignals => suspended = {} /\ Polled(rq)
      PROVE  PollersAreUpgraded
  <2> SUFFICES ASSUME ~ControlledSignals, NEW e \in rq.queue,
                      ~can_be_passed_over(rq, e.tid)
               PROVE  rq.last_back_turn - e.turn < POLLING_UPGRADE_INTERVAL
    BY DEF PollersAreUpgraded
  <2> DEFINE k == POLLING_UPGRADE_INTERVAL
             n == turn_counter(rq)
  <2>1. /\ rq.last_back_turn \in Nat /\ rq.last_front_turn \in Int
        /\ rq.last_front_turn <= 0 /\ e.turn \in Int /\ k \in Nat \ {0}
    BY KInvHolds, <1>1, PriorityAssumption DEF QueueOK, RunQueueState, Entry
  <2>2. Overlooked(e)
    BY DEF Overlooked, can_be_passed_over
  <2>3. rq.last_back_turn - e.turn <= n % k
    BY <1>1, <2>2 DEF Polled
  <2>4. n \in Nat
    BY <2>1, SMT DEF turn_counter
  <2>5. n % k \in 0..k - 1
    BY <2>1, <2>4, Remainders
  <2> HIDE DEF n, k
  <2>6. rq.last_back_turn - e.turn < k
    BY <2>1, <2>3, <2>5, SMT
  <2> QED BY <2>6 DEF k
<1> QED BY <1>1, KeysInvariance, PollsInvariance, PTL

\* What a restored poller counts as.
LEMMA RestoredCounts ==
    ASSUME NEW e \in Entry, e.poll_upgrade # NoUpgrade,
           e.deadline_restored => e.poll_upgrade = NoUpgrade, NEW n \in Int
    PROVE  counts_as_poller(RestoredEntry(e, n)) <=> counts_as_poller(e)
<1> DEFINE f == RestoredEntry(e, n)
<1>1. (e.priority >= LAST_PRIORITY) \in BOOLEAN
  BY SMT
<1>2. /\ f.poll_upgrade = NoUpgrade
      /\ f.deadline_restored = (e.priority >= LAST_PRIORITY)
  BY <1>1 DEF RestoredEntry, Entry
<1> HIDE DEF f
<1>3. counts_as_poller(f) <=> e.priority >= LAST_PRIORITY
  BY <1>2 DEF counts_as_poller, is_fully_backed_off_poller
<1>4. counts_as_poller(e) <=> e.priority >= LAST_PRIORITY
  BY DEF counts_as_poller, is_fully_backed_off_poller
<1> QED BY <1>3, <1>4 DEF f

\* Restoring one keeps its class, but for an upgrade that falls due.
LEMMA RestoreKeepsClass ==
    ASSUME KInv, NEW t \in Tids, RestorePoller(t),
           turn_counter(rq') % POLLING_UPGRADE_INTERVAL # 0
    PROVE  holds_work(rq', t) <=> holds_work(rq, t)
<1> DEFINE e == EntryOf(rq, t)
           b == rq.last_back_turn + 1
           f == RestoredEntry(e, b)
           m == [rq EXCEPT !.last_back_turn = @ + 1, !.queue = (@ \ {e}) \cup {f}]
<1>1. QueueOK(rq) /\ rq \in RunQueueState /\ t \in tids(rq) /\ e.poll_upgrade # NoUpgrade
  BY KInvHolds, ContainsIsMember DEF RestorePoller
<1>2. e \in rq.queue /\ e.tid = t /\ e \in Entry /\ b \in Int
  BY <1>1, EntryOfQueued, SMT DEF RunQueueState
<1>3. rq' = check_poll_upgrade(m)
  BY <1>1 DEF RestorePoller, restore_poller_priority
<1>4. e.deadline_restored => e.poll_upgrade = NoUpgrade
  BY <1>2, KInvHolds DEF Keyed, Issued
<1>5. counts_as_poller(f) <=> counts_as_poller(e)
  BY <1>1, <1>2, <1>4, RestoredCounts
<1> HIDE DEF e, b
<1>6. f.tid = t
  BY <1>2 DEF RestoredEntry, Entry
<1> HIDE DEF f
<1>7. m.queue = (rq.queue \ {e}) \cup {f}
  BY <1>1 DEF RunQueueState
<1>8. turn_counter(do_poll_upgrade(m)) = turn_counter(m)
  BY <1>1 DEF do_poll_upgrade, turn_counter, RunQueueState
<1> HIDE DEF m
<1>9. rq' = m
  BY <1>3, <1>8 DEF check_poll_upgrade
<1>10. \A g \in rq.queue : g.tid = t => g = e
  BY <1>1, <1>2 DEF QueueOK, Single
<1> QED BY <1>2, <1>5, <1>6, <1>7, <1>9, <1>10 DEF holds_work

\* Issue 3952: a poller whose deadline passed is work after its restoration
\* exactly if it was before, unless the move completes an upgrade interval.
THEOREM RestoresKeepTheirClass == Spec => RestoreKeepsGateClass
<1> DEFINE Keeps == \A t \in Tids :
             RestorePoller(t) /\ turn_counter(rq') % POLLING_UPGRADE_INTERVAL # 0
                => holds_work(rq', t) = holds_work(rq, t)
<1>1. ASSUME KInv PROVE Keeps
  <2> SUFFICES ASSUME NEW t \in Tids, RestorePoller(t),
                      turn_counter(rq') % POLLING_UPGRADE_INTERVAL # 0
               PROVE  holds_work(rq', t) = holds_work(rq, t)
    OBVIOUS
  <2>1. holds_work(rq', t) <=> holds_work(rq, t)
    BY <1>1, RestoreKeepsClass
  <2> QED BY <2>1 DEF holds_work
<1>2. KInv => [Keeps]_vars
  BY <1>1
<1>3. Spec => [][Keeps]_vars
  BY <1>2, KeysInvariance, PTL
<1> QED BY <1>3 DEF RestoreKeepsGateClass
=============================================================================
