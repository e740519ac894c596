---------------------------- MODULE MCRunQueue ----------------------------
(* RunQueue for TLC: the bounds and the view of its runs.                  *)
EXTENDS RunQueue, TLC

\* No run-time order: one pair is enough, it is never read.
NoRunTimes == {<<0, 0>>}

\* Equal pairs, and pairs whose run times and last selections disagree.
TwoRunTimes == {<<0, 1>>, <<1, 0>>}

\* Only the run-time order compares thread ids.
TidSymmetry == Permutations(Tids)

\* Without the run-time order a turn is only ever compared with other turns,
\* every push takes one past all of them, and turn_counter is only tested
\* modulo the upgrade interval.  Two states that agree on the ranks of their
\* turns and on that remainder are therefore bisimilar, and with MaxPushes out
\* of reach TLC covers the queue's whole life, not its first few pushes.  The
\* pushes since an entry that waits for an upgrade are kept for
\* PollersAreUpgraded.
RankedView ==
    LET turns     == {e.turn : e \in rq.queue} \cup {s.entry.turn : s \in suspended}
        Ranked(e) == [e EXCEPT !.turn = Cardinality({n \in turns : n < @})]
        waiting   == {e \in rq.queue : ~can_be_passed_over(rq, e.tid)}
    IN  <<[rq EXCEPT !.queue = {Ranked(e) : e \in @},
                     !.last_back_turn = turn_counter(rq) % POLLING_UPGRADE_INTERVAL,
                     !.last_front_turn = 0],
          priorities,
          {[s EXCEPT !.entry = Ranked(@)] : s \in suspended},
          {<<e.tid, rq.last_back_turn - e.turn>> : e \in waiting}>>
=============================================================================
