---------------------------- MODULE DeadlineTable ----------------------------
(***************************************************************************)
(* What the timed events promise their callers, without the index that     *)
(* implements it: a table with at most one deadline per source, child      *)
(* exits that are reported once, and a pop that reports the least of all   *)
(* pending deadlines and leaves the others alone.                          *)
(***************************************************************************)
EXTENDS Integers

CONSTANTS
    Sources,          \* threads, alarms and POSIX timers, with their order
    Exits,            \* child exits
    Times, NoTime,    \* deadlines, and none
    NoPop,            \* no pop in this step
    EndOfTime,        \* where re-arming saturates
    Owner(_),         \* the process of a timer source
    Before(_, _)      \* the order of events that share a deadline

VARIABLES
    due,      \* [Sources -> Times \cup {NoTime}]
    exits,    \* pending child exits with their times
    popped    \* what the last step popped

vars == <<due, exits, popped>>

Init ==
    /\ due = [s \in Sources |-> NoTime]
    /\ exits = {}
    /\ popped = NoPop

Pending ==
    {[time |-> due[s], event |-> s] : s \in {x \in Sources : due[x] # NoTime}}
        \cup exits

Least(p) ==
    \A q \in Pending \ {p} :
        \/ p.time < q.time
        \/ p.time = q.time /\ Before(p.event, q.event)

\* A source gets a deadline, another one, or none.
Set(s) ==
    /\ popped' = NoPop
    /\ due' = [due EXCEPT ![s] = due'[s]]
    /\ UNCHANGED exits

\* An exec or a process's end takes deadlines away from that process only.
Cancel(p) ==
    /\ popped' = NoPop
    /\ due' = [s \in Sources |->
                 IF Owner(s) = p /\ due'[s] = NoTime THEN NoTime ELSE due[s]]
    /\ UNCHANGED exits

Exit(x) ==
    /\ popped' = NoPop
    /\ exits' = exits \cup {x}
    /\ UNCHANGED due

\* The least pending event is reported.  A timer comes back strictly later or
\* at the end of time, everything else is gone.
Pop ==
    /\ popped' # NoPop
    /\ popped' \in Pending /\ Least(popped')
    /\ LET source == popped'.event
       IN  IF source \in Sources
           THEN /\ due' = [due EXCEPT ![source] = due'[source]]
                /\ \/ due'[source] \in {NoTime, EndOfTime}
                   \/ due'[source] > popped'.time
                /\ UNCHANGED exits
           ELSE exits' = exits \ {popped'} /\ UNCHANGED due

Next ==
    \/ \E s \in Sources : Set(s) \/ Cancel(Owner(s))
    \/ \E x \in [time : Times, event : Exits] : Exit(x)
    \/ Pop

Spec == Init /\ [][Next]_vars
=============================================================================
