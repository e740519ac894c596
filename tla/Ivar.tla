-------------------------------- MODULE Ivar --------------------------------
(***************************************************************************)
(* The write-once cell between guest threads and the scheduler,            *)
(* detcore/src/ivar.rs: each method takes the cell's own mutex once and is *)
(* one action.  Readers are tasks that await the cell; a task may also be  *)
(* polled for another reason, or drop its future, as the select of         *)
(* until_backend_failure does.                                             *)
(***************************************************************************)
EXTENDS Integers, FiniteSets

CONSTANTS
    Readers,    \* tasks that await the cell
    Writers,    \* tasks that put into it, or try to, once each
    Values,
    None,       \* of Option<T> and Option<Waker>
    Shared      \* whether several tasks may await the cell at a time

ASSUME CellAssumption ==
    /\ None \notin Readers \cup Values
    /\ Values \cap {"ready", "refused", "panicked"} = {}
    /\ Shared \in BOOLEAN

VARIABLES
    contents,   \* Shared::contents
    waiter,     \* Shared::waiter: the task its Waker wakes
    reader,     \* per reader: "idle", "waiting" or "done"
    woken,      \* the readers that were woken and not polled since
    result,     \* what each reader read
    writer      \* per writer: "ready", the value it put, "refused", "panicked"

vars == <<contents, waiter, reader, woken, result, writer>>

\* Ivar::new and Ivar::full
Init ==
    /\ contents \in {None} \cup Values
    /\ waiter = None
    /\ reader = [r \in Readers |-> "idle"]
    /\ woken = {}
    /\ result = [r \in Readers |-> None]
    /\ writer = [w \in Writers |-> "ready"]

\* Mutant of Filled: the waker is taken and not woken.
Filled_silently(w, v) ==
    /\ contents' = v
    /\ waiter' = None
    /\ writer' = [writer EXCEPT ![w] = v]
    /\ UNCHANGED woken

\* The empty cell is filled, and wake_on_put wakes the task stored in it.
Filled(w, v) ==
    /\ contents' = v
    /\ waiter' = None
    /\ woken' = woken \cup ({waiter} \ {None})
    /\ writer' = [writer EXCEPT ![w] = v]

\* Ivar::put of a filled cell panics.
put(w, v) ==
    /\ writer[w] = "ready"
    /\ IF contents = None
       THEN Filled(w, v)
       ELSE /\ writer' = [writer EXCEPT ![w] = "panicked"]
            /\ UNCHANGED <<contents, waiter, woken>>
    /\ UNCHANGED <<reader, result>>

\* Mutant of try_put: it does not look first.
try_put_overwrites(w, v) ==
    /\ writer[w] = "ready"
    /\ Filled(w, v)
    /\ UNCHANGED <<reader, result>>

\* Ivar::try_put gives the value back.
try_put(w, v) ==
    /\ writer[w] = "ready"
    /\ IF contents = None
       THEN Filled(w, v)
       ELSE /\ writer' = [writer EXCEPT ![w] = "refused"]
            /\ UNCHANGED <<contents, waiter, woken>>
    /\ UNCHANGED <<reader, result>>

\* Whether the executor polls r: at its first await, or because it was woken.
MustPoll(r) ==
    \/ /\ reader[r] = "idle"
       /\ Shared \/ \A q \in Readers : reader[q] # "waiting"
    \/ reader[r] = "waiting" /\ r \in woken

\* Future::poll, which stores the most recent Waker only.
poll(r) ==
    /\ MustPoll(r) \/ reader[r] = "waiting"
    /\ woken' = woken \ {r}
    /\ IF contents = None
       THEN /\ waiter' = r
            /\ reader' = [reader EXCEPT ![r] = "waiting"]
            /\ UNCHANGED result
       ELSE /\ reader' = [reader EXCEPT ![r] = "done"]
            /\ result' = [result EXCEPT ![r] = contents]
            /\ UNCHANGED waiter
    /\ UNCHANGED <<contents, writer>>

\* until_backend_failure: the task gives up and drops its future; its Waker
\* stays stored.
Drop(r) ==
    /\ reader[r] = "waiting"
    /\ reader' = [reader EXCEPT ![r] = "idle"]
    /\ woken' = woken \ {r}
    /\ UNCHANGED <<contents, waiter, result, writer>>

Next ==
    \/ \E w \in Writers, v \in Values : put(w, v) \/ try_put(w, v)
    \/ \E r \in Readers : poll(r) \/ Drop(r)

\* The executor polls a task that was woken.
Spec ==
    /\ Init /\ [][Next]_vars
    /\ \A r \in Readers : WF_vars(MustPoll(r) /\ reader[r] = "waiting" /\ poll(r))

-----------------------------------------------------------------------------

\* "Can only be filled once": whatever puts race, one writer at most succeeds,
\* and every read returns its value.
OneValueForAll ==
    /\ Cardinality({w \in Writers : writer[w] \in Values}) <= 1
    /\ \A r \in Readers : result[r] # None => result[r] = contents
    /\ \A w \in Writers : writer[w] \in Values => writer[w] = contents

\* "Any blocked readers will wake up and receive a value": a task that awaits
\* a cell when it is filled reads it, or gives up by itself.
BlockedReadersWake ==
    \A r \in Readers :
        (contents # None /\ reader[r] = "waiting") ~> reader[r] # "waiting"
=============================================================================
