------------------------- MODULE MCChildExitSigchld -------------------------
(***************************************************************************)
(* Three setups: ptrace, with a kill of two children and a reset of the    *)
(* disposition; ptrace, with threads that block outside the schedule and   *)
(* an untracked child; SaBRe, with a parent of one thread.                 *)
(***************************************************************************)
EXTENDS ChildExitSigchld

CONSTANT t2

Ptrace ==
    [models |-> TRUE, publication |-> TRUE, children |-> {1, 2, 3},
     threads |-> {Leader, t2}, untracked |-> {}, killed |-> {1, 2},
     sends |-> 1, flushes |-> TRUE, outside |-> FALSE]
Outside ==
    [Ptrace EXCEPT !.children = {1, 2}, !.untracked = {2}, !.killed = {}, !.sends = 0,
                   !.flushes = FALSE, !.outside = TRUE]
SaBRe ==
    [Ptrace EXCEPT !.models = FALSE, !.publication = FALSE, !.threads = {Leader},
                   !.killed = {}, !.flushes = FALSE]
ThreeSetups == {Ptrace, Outside, SaBRe}
=============================================================================
