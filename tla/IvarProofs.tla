----------------------------- MODULE IvarProofs -----------------------------
(***************************************************************************)
(* One value for all, of Ivar, for any number of tasks that await the cell *)
(* and of tasks that put into it, whether or not several may await it.     *)
(***************************************************************************)
EXTENDS Ivar, FiniteSetTheorems, TLAPS

\* A writer that succeeded left its value in the cell and was the only one.
\* That the cell is never emptied again is what carries it from step to step.
IInv ==
    /\ contents \in {None} \cup Values
    /\ writer \in [Writers -> {"ready", "refused", "panicked"} \cup Values]
    /\ result \in [Readers -> {None} \cup Values]
    /\ \A r \in Readers : result[r] # None => result[r] = contents
    /\ \A w \in Writers : writer[w] \in Values => writer[w] = contents
    /\ \A w, u \in Writers : writer[w] \in Values /\ writer[u] \in Values => w = u

\* A set with at most one element, whatever its superset, has cardinality at
\* most one.
LEMMA AtMostOne ==
    ASSUME NEW S, \A x, y \in S : x = y
    PROVE  Cardinality(S) <= 1
<1>1. CASE S = {}
  BY <1>1, FS_EmptySet
<1>2. CASE S # {}
  <2>1. PICK x : x \in S
    BY <1>2
  <2>2. S = {x}
    BY <2>1
  <2> QED BY <2>2, FS_Singleton
<1> QED BY <1>1, <1>2

\* Ivar::new and Ivar::full
LEMMA InitOne == Init => IInv
BY CellAssumption DEF Init, IInv

\* put and try_put: only the empty cell takes a value.
LEMMA PutKeeps ==
    ASSUME IInv, NEW w \in Writers, NEW v \in Values, put(w, v) \/ try_put(w, v)
    PROVE  IInv'
<1>1. CASE contents = None
  <2>1. /\ contents' = v
        /\ writer' = [writer EXCEPT ![w] = v]
        /\ result' = result
    BY <1>1 DEF put, try_put, Filled
  <2>2. \A u \in Writers : writer[u] \notin Values
    BY <1>1, CellAssumption DEF IInv
  <2>3. \A r \in Readers : result[r] = None
    BY <1>1 DEF IInv
  <2> QED BY <2>1, <2>2, <2>3 DEF IInv
<1>2. CASE contents # None
  <2>1. /\ contents' = contents /\ result' = result
        /\ \/ writer' = [writer EXCEPT ![w] = "panicked"]
           \/ writer' = [writer EXCEPT ![w] = "refused"]
    BY <1>2 DEF put, try_put
  <2>2. writer'[w] \notin Values
    BY <2>1, CellAssumption DEF IInv
  <2> QED BY <2>1, <2>2 DEF IInv
<1> QED BY <1>1, <1>2

\* Polls read what the cell holds, and a dropped future reads nothing.
LEMMA ReadersKeep ==
    ASSUME IInv, NEW r \in Readers, poll(r) \/ Drop(r)
    PROVE  IInv'
<1>1. CASE Drop(r)
  BY <1>1 DEF IInv, Drop
<1>2. CASE poll(r) /\ contents = None
  BY <1>2 DEF IInv, poll
<1>3. CASE poll(r) /\ contents # None
  <2>1. /\ result' = [result EXCEPT ![r] = contents]
        /\ contents' = contents /\ writer' = writer
    BY <1>3 DEF poll
  <2> QED BY <2>1 DEF IInv
<1> QED BY <1>1, <1>2, <1>3

\* Every step of a cell keeps the invariant.
LEMMA NextOne == IInv /\ [Next]_vars => IInv'
<1> SUFFICES ASSUME IInv, [Next]_vars PROVE IInv'
  OBVIOUS
<1>1. CASE UNCHANGED vars
  BY <1>1 DEF IInv, vars
<1>2. CASE Next
  BY <1>2, PutKeeps, ReadersKeep DEF Next
<1> QED BY <1>1, <1>2

\* The invariant implies that all readers see one value.
LEMMA IInvIsOneValue == IInv => OneValueForAll
<1> SUFFICES ASSUME IInv PROVE OneValueForAll
  OBVIOUS
<1> DEFINE S == {w \in Writers : writer[w] \in Values}
<1>1. \A x, y \in S : x = y
  BY DEF IInv
<1>2. Cardinality(S) <= 1
  BY <1>1, AtMostOne
<1> QED BY <1>2 DEF IInv, OneValueForAll

\* Whatever puts and polls race, one writer at most succeeds and every read
\* returns its value: an Ivar "can only be filled once".
THEOREM FilledOnce == Spec => []OneValueForAll
BY InitOne, NextOne, IInvIsOneValue, PTL DEF Spec
=============================================================================
