---------------------------- MODULE ThreadQueues ----------------------------
(***************************************************************************)
(* Sequences of thread ids and maps keyed by them, as the modules about    *)
(* the run queue's order use them.  Sorted and Without are defined from    *)
(* first principles, so that what they contain can be proved.              *)
(***************************************************************************)
EXTENDS Integers, Sequences, FiniteSetsExt

\* The numbers of S in ascending order.
Sorted(S) ==
    CHOOSE s \in [1..Cardinality(S) -> S] :
        \A i, j \in DOMAIN s : i < j => s[i] < s[j]

\* s from its last element to its first.
Backwards(s) == [i \in 1..Len(s) |-> s[(Len(s) - i) + 1]]

\* A readmission goes to the absolute front, so the last one pushed is first.
PushedFront(S, q) == Backwards(Sorted(S)) \o q

\* q less the threads of S, in its order.
Without(q, S) ==
    LET keep[n \in 0..Len(q)] ==
          IF n = 0 THEN <<>>
          ELSE IF q[n] \in S THEN keep[n - 1] ELSE Append(keep[n - 1], q[n])
    IN  keep[Len(q)]

Limited(f, S) == [x \in DOMAIN f \ S |-> f[x]]

Bind(f, x, y) == [z \in DOMAIN f \cup {x} |-> IF z = x THEN y ELSE f[z]]
=============================================================================
