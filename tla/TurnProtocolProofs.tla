------------------------- MODULE TurnProtocolProofs -------------------------
(***************************************************************************)
(* The safety of the turn protocol, for any number of threads and execs,   *)
(* and for backends that cancel the requests of a killed thread and those  *)
(* that do not: the inductive invariant, that every action keeps it, and   *)
(* what follows from it.                                                   *)
(***************************************************************************)
EXTENDS TurnProtocol, TLAPS

USE ZenonT(30)

-----------------------------------------------------------------------------
(* The inductive invariant.                                                *)

Doing == {"none", "starting", "running", "execing", "calling", "stopped", "background", "exiting"}

Places == {"top", "step1", "quiesce", "step2", "await", "done", "stopped"}

Turns == {"none", "empty"} \cup Filed

SetTypes ==
    /\ queue \subseteq Tids /\ admissions \subseteq Tids /\ killed \subseteq Tids
    /\ futex_waiters \subseteq Tids /\ timed_waiters \subseteq Tids /\ external_io \subseteq Tids

MapTypes ==
    /\ next_turns \in [Tids -> Turns]
    /\ removals \in [Tids -> Dispositions]
    /\ guest \in [Tids -> Doing]
    /\ mm \in [Tids -> Nat]

CallTypes == rpc \subseteq [tid : Tids, mm : Nat, call : Calls]

ExecTypes ==
    teardown \in [caller : Tids \cup {NoTid}, siblings : SUBSET Tids, observed : SUBSET Tids]

Daemons ==
    [at : Places, tid : Tids \cup {NoTid}, iv : Turns \cup {"exited"}, live : BOOLEAN]

TypeInv ==
    /\ SetTypes /\ MapTypes /\ CallTypes /\ ExecTypes
    /\ daemon \in Daemons
    /\ selected \in Tids \cup {NoTid}
    /\ failed \in BOOLEAN /\ terminal \in BOOLEAN

\* A thread's request is empty while the thread runs or has a call on its way,
\* and filled while it is stopped.  Only a dead sibling of an exec has an entry
\* and no guest thread.
ThreadInv ==
    \A t \in Tids :
       /\ guest[t] \notin {"none", "stopped"} => next_turns[t] = "empty"
       /\ guest[t] = "stopped" => next_turns[t] \in Filed
       /\ guest[t] = "none" => next_turns[t] = "none" \/ t \in teardown.observed
       /\ next_turns[t] = "none" => guest[t] = "none"
       /\ t \in killed => next_turns[t] = "none"
       /\ removals[t] = "Retire" => next_turns[t] = "none"

\* A thread has at most one request that a handler would admit, and only while
\* its entry awaits one; the thread is then in that call, or died in it as the
\* sibling of an exec.
CallInv ==
    /\ ~CancelsKilledRpcs => killed = {}
    /\ \A c \in rpc :
          /\ c.mm <= mm[c.tid]
          /\ ~IsStale(c) =>
                /\ next_turns[c.tid] = "empty"
                /\ guest[c.tid] = "calling" \/ c.tid \in teardown.observed
                /\ \A d \in rpc : d.tid = c.tid /\ ~IsStale(d) => d = c

\* The exec under way froze all the other threads of the process, and its caller
\* is still in the system call.
ExecInv ==
    /\ teardown.caller = NoTid => teardown = NoTeardown
    /\ teardown.caller # NoTid =>
          /\ guest[teardown.caller] = "execing"
          /\ teardown.siblings = Registered \ {teardown.caller}
    /\ teardown.observed \subseteq teardown.siblings
    /\ \A t \in teardown.observed : guest[t] = "none"
    /\ \A t \in Tids : guest[t] = "execing" => teardown.caller = t

\* The thread holds the grant.
Holds(t) ==
    \/ guest[t] \in {"running", "execing", "exiting"}
    \/ \E c \in rpc : c.tid = t /\ ~IsStale(c) /\ c.call \notin {"start", "continue"}

\* One thread holds the grant, it is queued, and the daemon is not past its check
\* that nobody does.
GrantInv ==
    /\ \A t, u \in Tids : Holds(t) /\ Holds(u) => t = u
    /\ ~failed =>
          \A t \in Tids : Holds(t) =>
             /\ InQueue(t)
             /\ daemon.at \notin {"step2", "await"}

\* A selection is open exactly while the daemon awaits its thread's request, in
\* a run that has not failed.  The Ivar it awaits is the one of the entry, for as
\* long as there is an entry.
DaemonInv ==
    /\ selected # NoTid => daemon.at = "await" /\ ~failed
    /\ daemon.at = "await" /\ ~failed =>
          /\ selected = daemon.tid /\ selected \in queue
          /\ next_turns[selected] # "none" => daemon.iv = next_turns[selected]
          /\ \A t \in Tids : removals[t] # "ReplaceThenAdmit"
    /\ EndsWithNobodyLeft

\* The blocked pools hold registered threads with the requests they wait on, and
\* the run queue holds nobody else that is not about to be removed.
PoolInv ==
    /\ \A t \in futex_waiters : next_turns[t] = "futex"
    /\ \A t \in timed_waiters \ futex_waiters : next_turns[t] \in {"sleep", "pause"}
    /\ \A t \in external_io :
          next_turns[t] # "none" /\ t \notin futex_waiters \cup timed_waiters
    /\ \A t \in queue : next_turns[t] # "none" \/ removals[t] # "none"

IInv ==
    /\ TypeInv /\ ThreadInv /\ CallInv /\ ExecInv /\ GrantInv /\ DaemonInv /\ PoolInv
    /\ HandoverIsPaired /\ EveryThreadIsSomewhere

-----------------------------------------------------------------------------
(* Frames: what a step that leaves its variables alone does not disturb.   *)

\* The types.
LEMMA TypeFrames ==
    /\ SetTypes /\ UNCHANGED <<queue, admissions, killed, futex_waiters, timed_waiters, external_io>>
          => SetTypes'
    /\ MapTypes /\ UNCHANGED <<next_turns, removals, guest, mm>> => MapTypes'
    /\ CallTypes /\ UNCHANGED rpc => CallTypes'
    /\ ExecTypes /\ UNCHANGED teardown => ExecTypes'
BY DEF SetTypes, MapTypes, CallTypes, ExecTypes

\* The threads' own invariant.
LEMMA ThreadFrame ==
    ThreadInv /\ UNCHANGED <<guest, next_turns, killed, removals, teardown>> => ThreadInv'
BY DEF ThreadInv

\* Whether a request is stale depends on the dead and on the images alone.
LEMMA SameStale ==
    ASSUME UNCHANGED <<killed, mm>>, NEW c
    PROVE  IsStale(c)' <=> IsStale(c)
BY DEF IsStale

\* Who holds the turn depends on the guests and their requests besides.
LEMMA SameHolders ==
    ASSUME UNCHANGED <<killed, mm, guest, rpc>>, NEW t
    PROVE  Holds(t)' <=> Holds(t)
BY SameStale DEF Holds

\* The invariant of requests.
LEMMA CallFrame ==
    CallInv /\ UNCHANGED <<killed, mm, rpc, next_turns, guest, teardown>> => CallInv'
BY SameStale DEF CallInv

\* The invariant of an exec's teardown.
LEMMA ExecFrame ==
    ExecInv /\ UNCHANGED <<teardown, guest, next_turns>> => ExecInv'
BY DEF ExecInv, Registered

\* The invariant of the blocked pools.
LEMMA PoolFrame ==
    PoolInv /\ UNCHANGED <<queue, removals, next_turns, futex_waiters, timed_waiters, external_io>>
       => PoolInv'
BY DEF PoolInv

\* The pairing of handovers.
LEMMA HandoverFrame ==
    HandoverIsPaired /\ UNCHANGED <<removals, next_turns, admissions, killed>> => HandoverIsPaired'
BY DEF HandoverIsPaired, Registered

\* The place of every thread.
LEMMA PlaceFrame ==
    /\ EveryThreadIsSomewhere
    /\ UNCHANGED <<failed, queue, removals, next_turns, admissions, futex_waiters, timed_waiters,
                   external_io>>
    => EveryThreadIsSomewhere'
BY SMT DEF EveryThreadIsSomewhere, Registered, InQueue, InPool

\* A step of the daemon alone.
LEMMA DaemonFrame ==
    ASSUME IInv,
           UNCHANGED <<queue, next_turns, buffers, pools, lives, verdicts, guests>>
    PROVE  /\ SetTypes' /\ MapTypes' /\ CallTypes' /\ ExecTypes'
           /\ ThreadInv' /\ CallInv' /\ ExecInv' /\ PoolInv'
           /\ HandoverIsPaired' /\ EveryThreadIsSomewhere'
           /\ \A t : Holds(t)' <=> Holds(t)
           /\ Registered' = Registered
<1>1. UNCHANGED <<queue, next_turns, removals, admissions, futex_waiters, timed_waiters, external_io,
                  killed, mm, teardown, failed, guest, rpc>>
  BY DEF buffers, pools, lives, verdicts, guests
<1>2. SetTypes' /\ MapTypes' /\ CallTypes' /\ ExecTypes'
  BY <1>1, TypeFrames DEF IInv, TypeInv
<1>3. ThreadInv' /\ CallInv' /\ ExecInv'
  BY <1>1, ThreadFrame, CallFrame, ExecFrame DEF IInv
<1>4. PoolInv' /\ HandoverIsPaired' /\ EveryThreadIsSomewhere'
  BY <1>1, PoolFrame, HandoverFrame, PlaceFrame DEF IInv
<1>5. (\A t : Holds(t)' <=> Holds(t)) /\ Registered' = Registered
  BY <1>1, SameHolders DEF Registered
<1> QED BY <1>2, <1>3, <1>4, <1>5

-----------------------------------------------------------------------------
(* Where the daemon may be.                                                *)

\* A daemon at a place that awaits nothing.
LEMMA AtIsADaemon ==
    ASSUME NEW place \in Places
    PROVE  At(place) \in Daemons /\ At(place).at = place
BY DEF At, Turns, Daemons

\* A daemon that awaits a thread's turn.
LEMMA AwaitsIsADaemon ==
    ASSUME NEW place \in Places, NEW t \in Tids, NEW iv \in Turns
    PROVE  Awaits(place, t, iv) \in Daemons /\ Awaits(place, t, iv).at = place
BY DEF Awaits, Daemons

-----------------------------------------------------------------------------
(* Steps that move only the daemon.                                        *)

\* sched_loop_inner
LEMMA LoopTopKeeps ==
    ASSUME IInv, LoopTop
    PROVE  IInv'
<1>1. /\ daemon' \in Daemons /\ daemon'.at \in {"stopped", "done", "step1"}
      /\ daemon'.at = "done" => IsIdle /\ ~failed
      /\ UNCHANGED <<queue, next_turns, buffers, pools, lives, verdicts, guests>>
      /\ selected' = selected /\ daemon.at = "top"
  BY AtIsADaemon DEF LoopTop, Places, queue_vars
<1>2. UNCHANGED <<removals, failed, terminal>>
  BY <1>1 DEF buffers, verdicts
<1>3. TypeInv'
  BY <1>1, <1>2, DaemonFrame DEF IInv, TypeInv
<1>4. GrantInv'
  BY <1>1, <1>2, DaemonFrame DEF IInv, GrantInv, InQueue
<1>5. DaemonInv'
  <2>1. IsIdle /\ ~failed => Registered = {}
    BY DEF IInv, IsIdle, EveryThreadIsSomewhere, InQueue, InPool
  <2> QED BY <1>1, <1>2, <2>1, DaemonFrame DEF IInv, DaemonInv, EndsWithNobodyLeft
<1> QED BY <1>1, <1>3, <1>4, <1>5, DaemonFrame DEF IInv

\* step1_check_quiescence: nobody that holds the grant is overlooked.
LEMMA Step1Keeps ==
    ASSUME IInv, Step1
    PROVE  IInv'
<1>1. /\ daemon' \in Daemons
      /\ \/ daemon'.at \in {"top", "quiesce"}
         \/ daemon'.at = "step2" /\ Outstanding = {}
  <2>1. \A t \in Outstanding : t \in Tids
    BY DEF Outstanding, IInv, TypeInv, SetTypes
  <2>2. {"top", "quiesce", "step2"} \subseteq Places /\ "empty" \in Turns
    BY DEF Places, Turns
  <2> QED BY <2>1, <2>2, AtIsADaemon, AwaitsIsADaemon, SMT DEF Step1
<1>2. /\ UNCHANGED <<queue, next_turns, buffers, pools, lives, verdicts, guests>>
      /\ selected' = selected /\ daemon.at = "step1"
  BY DEF Step1, queue_vars
<1>3. UNCHANGED <<removals, failed, terminal>>
  BY <1>2 DEF buffers, verdicts
<1>4. TypeInv'
  BY <1>1, <1>2, <1>3, DaemonFrame DEF IInv, TypeInv
<1>5. GrantInv'
  <2>1. ~failed => \A t \in Tids : Holds(t) => t \in Outstanding
    BY SMT DEF IInv, GrantInv, InQueue, ThreadInv, CallInv, Holds, Outstanding
  <2> QED BY <1>1, <1>2, <1>3, <2>1, DaemonFrame DEF IInv, GrantInv, InQueue
<1>6. DaemonInv'
  BY <1>1, <1>2, <1>3, DaemonFrame DEF IInv, DaemonInv, EndsWithNobodyLeft
<1> QED BY <1>2, <1>4, <1>5, <1>6, DaemonFrame DEF IInv

\* The end of its wait, and a turn that is not taken: back to the loop.
LEMMA BackToTheLoop ==
    ASSUME IInv, Step1Resumes \/ AbandonTurn
    PROVE  IInv'
<1>1. /\ daemon' \in Daemons /\ daemon'.at \in {"top", "step1"}
      /\ UNCHANGED <<queue, next_turns, buffers, pools, lives, verdicts, guests>>
  BY AtIsADaemon DEF Step1Resumes, AbandonTurn, Places, queue_vars
<1>2. UNCHANGED <<removals, failed, terminal>>
  BY <1>1 DEF buffers, verdicts
<1>3. selected' = NoTid
  BY DEF Step1Resumes, AbandonTurn, queue_vars, IInv, DaemonInv
<1>4. TypeInv'
  BY <1>1, <1>2, <1>3, DaemonFrame DEF IInv, TypeInv
<1>5. GrantInv'
  BY <1>1, <1>2, DaemonFrame DEF IInv, GrantInv, InQueue
<1>6. DaemonInv'
  BY <1>1, <1>3 DEF DaemonInv, EndsWithNobodyLeft
<1> QED BY <1>1, <1>4, <1>5, <1>6, DaemonFrame DEF IInv

\* report_backend_failure
LEMMA BackendFailsKeeps ==
    ASSUME IInv, BackendFails
    PROVE  IInv'
<1>1. /\ failed' = TRUE /\ selected' = NoTid
      /\ UNCHANGED <<queue, next_turns, removals, admissions, futex_waiters, timed_waiters,
                     external_io, killed, mm, teardown, terminal, daemon, guest, rpc>>
  BY DEF BackendFails, buffers, pools, lives, guests
<1>2. TypeInv'
  BY <1>1, TypeFrames DEF IInv, TypeInv
<1>3. ThreadInv' /\ CallInv' /\ ExecInv' /\ PoolInv' /\ HandoverIsPaired'
  BY <1>1, ThreadFrame, CallFrame, ExecFrame, PoolFrame, HandoverFrame DEF IInv
<1>4. GrantInv'
  BY <1>1, SameHolders DEF IInv, GrantInv
<1>5. DaemonInv'
  BY <1>1 DEF IInv, DaemonInv, EndsWithNobodyLeft, Registered
<1>6. EveryThreadIsSomewhere'
  BY <1>1 DEF EveryThreadIsSomewhere
<1> QED BY <1>2, <1>3, <1>4, <1>5, <1>6 DEF IInv

-----------------------------------------------------------------------------
(* Guests and the handlers of their requests.                              *)

\* Who holds the grant has an empty request.
LEMMA HolderIsAwaited ==
    ASSUME IInv, NEW t \in Tids, Holds(t)
    PROVE  next_turns[t] = "empty"
BY DEF IInv, ThreadInv, CallInv, Holds

\* A request names a thread, an image and a call.
LEMMA CallsAreTyped ==
    ASSUME IInv, NEW c \in rpc
    PROVE  c.tid \in Tids /\ c.mm \in Nat /\ c.call \in Calls
BY DEF IInv, TypeInv, CallTypes

\* The thread of an admissible request is no dead thread.
LEMMA CallerIsAlive ==
    ASSUME IInv, NEW c \in rpc, ~IsStale(c)
    PROVE  c.tid \notin killed
BY DEF IInv, CallInv, IsStale

\* A handler of a call that needs the grant runs for its holder, outside the
\* daemon's critical steps and with no exec under way.
HandlesForHolder(c) ==
    /\ c.tid \in Tids /\ Holds(c.tid) /\ InQueue(c.tid)
    /\ \A t \in Tids : Holds(t) => t = c.tid
    /\ next_turns[c.tid] = "empty" /\ guest[c.tid] = "calling"
    /\ c.tid \notin killed /\ c.tid \notin admissions /\ ~InPool(c.tid)
    /\ daemon.at \notin {"step2", "await", "done"} /\ selected = NoTid
    /\ teardown = NoTeardown
    /\ ~failed /\ ~IsStale(c)

\* The caller of any other request holds the turn: nothing is selected and the
\* daemon is not choosing.
LEMMA CallerHolds ==
    ASSUME IInv, NEW c \in rpc, Handles(c), c.call \notin {"start", "continue"}
    PROVE  HandlesForHolder(c)
<1>1. c.tid \in Tids /\ ~failed /\ ~IsStale(c) /\ Holds(c.tid)
  BY CallsAreTyped DEF Handles, Holds
<1>2. /\ InQueue(c.tid) /\ daemon.at \notin {"step2", "await"}
      /\ \A t \in Tids : Holds(t) => t = c.tid
  BY <1>1 DEF IInv, GrantInv
<1>3. /\ selected = NoTid /\ next_turns[c.tid] = "empty" /\ c.tid \notin killed
      /\ c.tid \in Registered /\ daemon.at # "done"
  BY <1>1, <1>2, HolderIsAwaited, CallerIsAlive DEF IInv, DaemonInv, EndsWithNobodyLeft, Registered
<1>4. teardown.caller = NoTid
  <2> SUFFICES ASSUME teardown.caller # NoTid PROVE FALSE
    OBVIOUS
  <2>1. teardown.caller \in Tids /\ guest[teardown.caller] = "execing"
    BY DEF IInv, ExecInv, TypeInv, ExecTypes
  <2>2. teardown.caller = c.tid
    BY <1>2, <2>1 DEF Holds
  <2>3. c.tid \in teardown.observed
    BY <1>1, <2>1, <2>2 DEF IInv, CallInv
  <2> QED BY <2>1, <2>2, <2>3 DEF IInv, ExecInv
<1>5. teardown = NoTeardown /\ guest[c.tid] = "calling"
  BY <1>1, <1>4, SMT DEF IInv, ExecInv, CallInv, NoTeardown
<1>6. c.tid \notin admissions /\ ~InPool(c.tid)
  BY <1>1, <1>2, <1>3 DEF IInv, EveryThreadIsSomewhere
<1> QED BY <1>1, <1>2, <1>3, <1>5, <1>6 DEF HandlesForHolder

\* A request of a thread that is gone.
LEMMA DropStaleKeeps ==
    ASSUME IInv, NEW c \in rpc, DropStale(c)
    PROVE  IInv'
<1>1. /\ rpc' = rpc \ {c}
      /\ UNCHANGED <<queue, selected, next_turns, removals, admissions, futex_waiters, timed_waiters,
                     external_io, killed, mm, teardown, failed, terminal, daemon, guest>>
  BY DEF DropStale, queue_vars, buffers, pools, lives, verdicts
<1>2. TypeInv'
  BY <1>1, TypeFrames DEF IInv, TypeInv, CallTypes
<1>3. ThreadInv' /\ ExecInv' /\ PoolInv' /\ HandoverIsPaired' /\ EveryThreadIsSomewhere'
  BY <1>1, ThreadFrame, ExecFrame, PoolFrame, HandoverFrame, PlaceFrame DEF IInv
<1>4. CallInv'
  BY <1>1, SameStale DEF IInv, CallInv
<1>5. GrantInv'
  <2>1. \A t \in Tids : Holds(t)' => Holds(t)
    BY <1>1, SameStale DEF Holds
  <2> QED BY <1>1, <2>1 DEF IInv, GrantInv, InQueue
<1>6. DaemonInv'
  BY <1>1 DEF IInv, DaemonInv, EndsWithNobodyLeft, Registered
<1> QED BY <1>2, <1>3, <1>4, <1>5, <1>6 DEF IInv

\* A guest thread sends a request: it had none on its way.
LEMMA SendKeeps ==
    ASSUME IInv, NEW t \in Tids, NEW call \in Calls, Send(t, call)
    PROVE  IInv'
<1> DEFINE c == [tid |-> t, mm |-> mm[t], call |-> call]
<1>1. /\ guest[t] \in {"starting", "background", "running"}
      /\ call \notin {"start", "continue"} => guest[t] = "running"
      /\ guest' = [guest EXCEPT ![t] = "calling"]
      /\ rpc' = rpc \cup {c}
      /\ UNCHANGED <<queue, selected, next_turns, removals, admissions, futex_waiters, timed_waiters,
                     external_io, killed, mm, teardown, failed, terminal, daemon>>
  BY DEF Send, queue_vars, buffers, pools, lives, verdicts
<1>2. /\ c \in [tid : Tids, mm : Nat, call : Calls]
      /\ c.tid = t /\ c.mm = mm[t] /\ c.call = call /\ mm[t] \in Nat
  BY DEF IInv, TypeInv, MapTypes
<1> HIDE DEF c
<1>3. /\ next_turns[t] = "empty"
      /\ \A d \in rpc : d.tid = t => IsStale(d)
      /\ guest \in [Tids -> Doing]
  BY <1>1 DEF IInv, TypeInv, MapTypes, ThreadInv, CallInv, ExecInv
<1>4. TypeInv'
  <2>1. MapTypes' /\ CallTypes'
    BY <1>1, <1>2 DEF IInv, TypeInv, MapTypes, CallTypes, Doing
  <2> QED BY <1>1, <2>1, TypeFrames DEF IInv, TypeInv
<1>5. ThreadInv'
  BY <1>1, <1>3 DEF IInv, ThreadInv
<1>6. CallInv'
  BY <1>1, <1>2, <1>3, SameStale, SMT DEF IInv, CallInv
<1>7. ExecInv'
  BY <1>1, <1>3, SMT DEF IInv, ExecInv, Registered
<1>8. GrantInv'
  <2>1. \A u \in Tids : Holds(u)' => Holds(u)
    BY <1>1, <1>2, <1>3, SameStale DEF Holds
  <2> QED BY <1>1, <2>1 DEF IInv, GrantInv, InQueue
<1>9. DaemonInv'
  BY <1>1 DEF IInv, DaemonInv, EndsWithNobodyLeft, Registered
<1>10. PoolInv' /\ HandoverIsPaired' /\ EveryThreadIsSomewhere'
  BY <1>1, PoolFrame, HandoverFrame, PlaceFrame DEF IInv
<1> QED BY <1>4, <1>5, <1>6, <1>7, <1>8, <1>9, <1>10 DEF IInv

\* The daemon stays where it is when a request is filled.
LEMMA FilledStays ==
    ASSUME TypeInv, NEW t \in Tids, NEW v \in Turns
    PROVE  /\ Filled({t}, v) \in Daemons
           /\ Filled({t}, v).at = daemon.at
           /\ Filled({t}, v).tid = daemon.tid
           /\ Filled({t}, v).iv = IF Waiting /\ daemon.tid = t /\ daemon.iv = "empty"
                                  THEN v ELSE daemon.iv
BY DEF TypeInv, Daemons, Filled

\* request_put: the sender stops with its request filled.
LEMMA request_putKeeps ==
    ASSUME IInv, NEW c \in rpc, request_put(c)
    PROVE  IInv'
<1> DEFINE t == c.tid
           r == IF c.call = "start" THEN "go" ELSE c.call
<1>1. t \in Tids /\ r \in Filed /\ ~failed /\ ~IsStale(c)
  BY CallsAreTyped DEF request_put, Filed, Requests, Handles
<1>2. /\ next_turns[t] = "empty" /\ t \notin killed
      /\ guest[t] = "calling" \/ (guest[t] = "none" /\ t \in teardown.observed)
      /\ \A d \in rpc \ {c} : d.tid = t => IsStale(d)
  BY <1>1, CallerIsAlive DEF request_put, IInv, CallInv, ExecInv
<1>3. /\ next_turns' = [next_turns EXCEPT ![t] = r]
      /\ guest' = IF guest[t] = "calling" THEN [guest EXCEPT ![t] = "stopped"] ELSE guest
      /\ rpc' = rpc \ {c}
      /\ daemon' = Filled({t}, r)
      /\ UNCHANGED <<queue, selected, removals, admissions, futex_waiters, timed_waiters, external_io,
                     killed, mm, teardown, failed, terminal>>
  BY DEF request_put, Answered, queue_vars, buffers, pools, lives, verdicts
<1> HIDE DEF t, r
<1>4. /\ r \in Turns /\ r \notin {"none", "empty"}
      /\ next_turns \in [Tids -> Turns] /\ guest \in [Tids -> Doing]
  BY <1>1 DEF Turns, Filed, Requests, IInv, TypeInv, MapTypes
<1>5. TypeInv'
  <2>1. MapTypes'
    BY <1>1, <1>3, <1>4 DEF IInv, TypeInv, MapTypes, Doing
  <2>2. CallTypes'
    BY <1>3 DEF IInv, TypeInv, CallTypes
  <2> QED BY <1>1, <1>3, <1>4, <2>1, <2>2, TypeFrames, FilledStays DEF IInv, TypeInv
<1>6. ThreadInv'
  BY <1>1, <1>2, <1>3, <1>4 DEF IInv, ThreadInv
<1>7. CallInv'
  BY <1>1, <1>2, <1>3, <1>4, SameStale, CallsAreTyped DEF IInv, CallInv
<1>8. Registered' = Registered
  BY <1>1, <1>2, <1>3, <1>4 DEF Registered
<1>9. ExecInv'
  <2>1. \A u \in Tids : /\ guest'[u] = "execing" <=> guest[u] = "execing"
                        /\ guest[u] = "none" => guest'[u] = "none"
    <3>1. guest \in [Tids -> Doing] /\ t \in Tids
      BY <1>1, <1>4
    <3>2. CASE guest[t] = "calling" /\ guest' = [guest EXCEPT ![t] = "stopped"]
      BY <3>1, <3>2
    <3>3. CASE guest' = guest
      BY <3>3
    <3> QED BY <1>3, <3>2, <3>3
  <2>2. teardown.caller \in Tids \cup {NoTid} /\ teardown.observed \subseteq Tids
    BY DEF IInv, TypeInv, ExecTypes
  <2>3. UNCHANGED teardown /\ Registered' = Registered
    BY <1>3, <1>8
  <2> QED BY <2>1, <2>2, <2>3 DEF IInv, ExecInv
<1>10. GrantInv'
  <2>1. \A u \in Tids : Holds(u)' => Holds(u)
    BY <1>1, <1>3, <1>4, SameStale DEF Holds
  <2> QED BY <1>1, <1>3, <1>4, <2>1, FilledStays DEF IInv, GrantInv, InQueue
<1>11. DaemonInv'
  <2>1. daemon'.at = daemon.at /\ daemon'.tid = daemon.tid
    BY <1>1, <1>3, <1>4, FilledStays DEF IInv
  <2>2. daemon.at = "await" /\ daemon.tid = t /\ daemon.iv = "empty" => daemon'.iv = r
    BY <1>1, <1>3, <1>4, FilledStays DEF IInv, Waiting
  <2>3. daemon.tid # t => daemon'.iv = daemon.iv
    BY <1>1, <1>3, <1>4, FilledStays DEF IInv
  <2>4. ASSUME daemon'.at = "await", ~failed', next_turns'[selected] # "none"
        PROVE  daemon'.iv = next_turns'[selected]
    <3>1. daemon.at = "await" /\ selected = daemon.tid /\ selected \in queue /\ selected \in Tids
      BY <1>3, <2>1, <2>4 DEF IInv, DaemonInv, TypeInv, SetTypes
    <3>2. next_turns[selected] # "none" => daemon.iv = next_turns[selected]
      BY <1>3, <2>4, <3>1 DEF IInv, DaemonInv
    <3>3. CASE selected = t
      BY <1>2, <1>3, <1>4, <2>2, <3>1, <3>2, <3>3
    <3>4. CASE selected # t
      BY <1>3, <1>4, <2>3, <2>4, <3>1, <3>2, <3>4
    <3> QED BY <3>3, <3>4
  <2>5. daemon'.at = "await" /\ ~failed' =>
           /\ selected' = daemon'.tid /\ selected' \in queue'
           /\ \A u \in Tids : removals'[u] # "ReplaceThenAdmit"
    BY <1>3, <2>1 DEF IInv, DaemonInv
  <2>6. EndsWithNobodyLeft'
    BY <1>8, <2>1 DEF IInv, DaemonInv, EndsWithNobodyLeft
  <2>7. selected' # NoTid => daemon'.at = "await" /\ ~failed'
    BY <1>3, <2>1 DEF IInv, DaemonInv
  <2> QED BY <1>3, <2>4, <2>5, <2>6, <2>7 DEF DaemonInv
<1>12. PoolInv'
  BY <1>1, <1>2, <1>3, <1>4, SMT DEF IInv, PoolInv
<1>13. HandoverIsPaired' /\ EveryThreadIsSomewhere'
  BY <1>3, <1>8 DEF IInv, HandoverIsPaired, EveryThreadIsSomewhere, InQueue, InPool
<1> QED BY <1>5, <1>6, <1>7, <1>9, <1>10, <1>11, <1>12, <1>13 DEF IInv

\* recv_futex_action, a wait: the holder leaves the run queue for the pool.
LEMMA FutexWaitKeeps ==
    ASSUME IInv, NEW c \in rpc, FutexWait(c)
    PROVE  IInv'
<1> DEFINE t == c.tid
<1>1. HandlesForHolder(c)
  BY CallerHolds DEF FutexWait
<1>2. /\ next_turns' = [next_turns EXCEPT ![t] = "futex"]
      /\ guest' = [guest EXCEPT ![t] = "stopped"]
      /\ rpc' = rpc \ {c}
      /\ queue' = queue \ {t}
      /\ futex_waiters' = futex_waiters \cup {t}
      /\ timed_waiters' \in {timed_waiters, timed_waiters \cup {t}}
      /\ daemon' = Filled({t}, "futex")
      /\ UNCHANGED <<selected, removals, admissions, external_io, killed, mm, teardown, failed,
                     terminal>>
  BY <1>1 DEF HandlesForHolder, FutexWait, Answered, buffers, lives, verdicts
<1>3. /\ t \in Tids /\ next_turns[t] = "empty" /\ t \notin killed /\ guest[t] = "calling"
      /\ InQueue(t) /\ t \notin admissions /\ ~InPool(t)
      /\ teardown = NoTeardown /\ selected = NoTid /\ daemon.at \notin {"step2", "await", "done"}
      /\ \A u \in Tids : Holds(u) => u = t
  BY <1>1 DEF HandlesForHolder
<1>4. \A d \in rpc \ {c} : d.tid = t => IsStale(d)
  BY <1>1 DEF HandlesForHolder, IInv, CallInv
<1> HIDE DEF t
<1>5. /\ next_turns \in [Tids -> Turns] /\ guest \in [Tids -> Doing]
      /\ "futex" \in Turns /\ "futex" \in Filed /\ "stopped" \in Doing
  BY DEF IInv, TypeInv, MapTypes, Turns, Filed, Doing
<1>6. daemon' \in Daemons /\ daemon'.at = daemon.at
  BY <1>2, <1>3, <1>5, FilledStays DEF IInv
<1>7. TypeInv'
  <2>1. MapTypes' /\ SetTypes'
    BY <1>2, <1>3, <1>5 DEF IInv, TypeInv, MapTypes, SetTypes
  <2>2. CallTypes'
    BY <1>2 DEF IInv, TypeInv, CallTypes
  <2> QED BY <1>2, <1>6, <2>1, <2>2, TypeFrames DEF IInv, TypeInv
<1>8. ThreadInv'
  BY <1>2, <1>3, <1>5 DEF IInv, ThreadInv
<1>9. CallInv'
  BY <1>2, <1>3, <1>4, <1>5, SameStale, CallsAreTyped DEF IInv, CallInv
<1>10. Registered' = Registered
  BY <1>2, <1>3, <1>5 DEF Registered
<1>11. ExecInv'
  <2>1. \A u \in Tids : guest'[u] = "execing" => teardown.caller = u
    BY <1>2, <1>3, <1>5 DEF IInv, ExecInv
  <2> QED BY <1>2, <1>3, <2>1 DEF ExecInv, NoTeardown
<1>12. GrantInv'
  <2>1. \A u \in Tids : ~Holds(u)'
    BY <1>2, <1>3, <1>4, <1>5, SameStale DEF Holds
  <2> QED BY <2>1 DEF GrantInv
<1>13. DaemonInv'
  BY <1>2, <1>3, <1>6 DEF DaemonInv, EndsWithNobodyLeft
<1>14. PoolInv'
  <2>1. next_turns'[t] = "futex" /\ \A u \in Tids \ {t} : next_turns'[u] = next_turns[u]
    BY <1>2, <1>3, <1>5
  <2>2. t \notin futex_waiters \cup timed_waiters \cup external_io
    BY <1>3 DEF InPool
  <2>3. \A u \in futex_waiters' : next_turns'[u] = "futex"
    BY <1>2, <2>1, <2>2 DEF IInv, PoolInv, TypeInv, SetTypes
  <2>4. \A u \in timed_waiters' \ futex_waiters' : next_turns'[u] \in {"sleep", "pause"}
    BY <1>2, <2>1, <2>2 DEF IInv, PoolInv, TypeInv, SetTypes
  <2>5. \A u \in external_io' : next_turns'[u] # "none" /\ u \notin futex_waiters' \cup timed_waiters'
    BY <1>2, <2>1, <2>2 DEF IInv, PoolInv, TypeInv, SetTypes
  <2>6. \A u \in queue' : next_turns'[u] # "none" \/ removals'[u] # "none"
    BY <1>2, <2>1 DEF IInv, PoolInv, TypeInv, SetTypes
  <2> QED BY <2>3, <2>4, <2>5, <2>6 DEF PoolInv
<1>15. HandoverIsPaired'
  BY <1>2, <1>10 DEF IInv, HandoverIsPaired
<1>16. EveryThreadIsSomewhere'
  BY <1>2, <1>3, <1>10 DEF IInv, EveryThreadIsSomewhere, InQueue, InPool
<1> QED BY <1>7, <1>8, <1>9, <1>11, <1>12, <1>13, <1>14, <1>15, <1>16 DEF IInv

\* recv_futex_action, a wake: whoever is woken goes from the pool to the queue.
LEMMA FutexWakeKeeps ==
    ASSUME IInv, NEW c \in rpc, FutexWake(c)
    PROVE  IInv'
<1> DEFINE t == c.tid
<1>1. HandlesForHolder(c)
  BY CallerHolds DEF FutexWake
<1>2. PICK woken \in SUBSET futex_waiters :
         /\ futex_waiters' = futex_waiters \ woken
         /\ timed_waiters' = timed_waiters \ woken
         /\ queue' = queue \cup woken
  BY DEF FutexWake
<1>3. /\ guest' = [guest EXCEPT ![t] = "running"]
      /\ rpc' = rpc \ {c}
      /\ UNCHANGED <<selected, next_turns, removals, admissions, external_io, killed, mm, teardown,
                     failed, terminal, daemon>>
  BY <1>1 DEF HandlesForHolder, FutexWake, Answered, buffers, lives, verdicts
<1>4. /\ t \in Tids /\ next_turns[t] = "empty" /\ t \notin killed /\ guest[t] = "calling"
      /\ InQueue(t) /\ t \notin admissions /\ ~InPool(t)
      /\ teardown = NoTeardown /\ selected = NoTid /\ daemon.at \notin {"step2", "await", "done"}
      /\ \A u \in Tids : Holds(u) => u = t
      /\ ~failed
  BY <1>1 DEF HandlesForHolder
<1>5. \A d \in rpc \ {c} : d.tid = t => IsStale(d)
  BY <1>1 DEF HandlesForHolder, IInv, CallInv
<1> HIDE DEF t
<1>6. /\ guest \in [Tids -> Doing] /\ "running" \in Doing
      /\ \A u \in woken : /\ u \in Tids /\ u \in Registered /\ u \notin admissions
                          /\ u \notin external_io /\ removals[u] = "none"
  <2>1. ASSUME NEW u \in woken
        PROVE  u \in Tids /\ next_turns[u] = "futex" /\ u \notin external_io
    BY <1>2 DEF IInv, TypeInv, SetTypes, PoolInv
  <2>2. ASSUME NEW u \in woken
        PROVE  u \in Registered /\ u \notin admissions
    BY <1>2, <1>4, <2>1 DEF Registered, IInv, EveryThreadIsSomewhere, InPool
  <2>3. ASSUME NEW u \in woken
        PROVE  removals[u] = "none"
    <3>1. removals[u] \in Dispositions
      BY <2>1 DEF IInv, TypeInv, MapTypes
    <3> QED BY <2>1, <2>2, <3>1 DEF IInv, ThreadInv, HandoverIsPaired, Dispositions
  <2> QED BY <2>1, <2>2, <2>3 DEF IInv, TypeInv, MapTypes, Doing
<1>7. TypeInv'
  <2>1. MapTypes'
    BY <1>3, <1>4, <1>6 DEF IInv, TypeInv, MapTypes
  <2>2. SetTypes'
    BY <1>2, <1>3, <1>6 DEF IInv, TypeInv, SetTypes
  <2>3. CallTypes'
    BY <1>3 DEF IInv, TypeInv, CallTypes
  <2> QED BY <1>3, <2>1, <2>2, <2>3, TypeFrames DEF IInv, TypeInv
<1>8. ThreadInv'
  BY <1>3, <1>4, <1>6 DEF IInv, ThreadInv
<1>9. CallInv'
  BY <1>3, <1>4, <1>5, <1>6, SameStale, CallsAreTyped DEF IInv, CallInv
<1>10. Registered' = Registered
  BY <1>3 DEF Registered
<1>11. ExecInv'
  <2>1. \A u \in Tids : guest'[u] = "execing" => teardown.caller = u
    BY <1>3, <1>4, <1>6 DEF IInv, ExecInv
  <2> QED BY <1>3, <1>4, <2>1 DEF ExecInv, NoTeardown
<1>12. GrantInv'
  <2>1. \A u \in Tids : Holds(u)' => u = t
    BY <1>3, <1>4, <1>5, <1>6, SameStale DEF Holds
  <2> QED BY <1>2, <1>3, <1>4, <2>1 DEF GrantInv, InQueue
<1>13. DaemonInv'
  BY <1>3, <1>4 DEF DaemonInv, EndsWithNobodyLeft
<1>14. PoolInv'
  BY <1>2, <1>3, <1>6 DEF IInv, PoolInv, Registered
<1>15. HandoverIsPaired'
  BY <1>3, <1>10 DEF IInv, HandoverIsPaired
<1>16. EveryThreadIsSomewhere'
  BY <1>2, <1>3, <1>6, <1>10 DEF IInv, EveryThreadIsSomewhere, InQueue, InPool
<1> QED BY <1>7, <1>8, <1>9, <1>11, <1>12, <1>13, <1>14, <1>15, <1>16 DEF IInv

\* recv_create_child_thread: the child is registered with its admission.
LEMMA CreateChildKeeps ==
    ASSUME IInv, NEW c \in rpc, NEW child \in Tids, CreateChild(c, child)
    PROVE  IInv'
<1> DEFINE t == c.tid
           go == [c EXCEPT !.call = "go"]
<1>1. HandlesForHolder(c)
  BY CallerHolds DEF CreateChild
<1>2. /\ next_turns' = [next_turns EXCEPT ![child] = "empty"]
      /\ admissions' = admissions \cup {child}
      /\ guest' = [guest EXCEPT ![child] = "starting"]
      /\ rpc' = (rpc \ {c}) \cup {go}
      /\ UNCHANGED <<queue, selected, removals, futex_waiters, timed_waiters, external_io, killed,
                     mm, teardown, failed, terminal, daemon>>
  BY DEF CreateChild, queue_vars, pools, verdicts
<1>3. /\ t \in Tids /\ next_turns[t] = "empty" /\ t \notin killed /\ guest[t] = "calling"
      /\ InQueue(t)
      /\ teardown = NoTeardown /\ selected = NoTid /\ daemon.at \notin {"step2", "await", "done"}
      /\ \A u \in Tids : Holds(u) => u = t
      /\ ~failed /\ ~IsStale(c)
  BY <1>1 DEF HandlesForHolder
<1>4. \A d \in rpc \ {c} : d.tid = t => IsStale(d)
  BY <1>1 DEF HandlesForHolder, IInv, CallInv
<1>5. go \in [tid : Tids, mm : Nat, call : Calls] /\ go.tid = t /\ go.mm = c.mm
  BY DEF IInv, TypeInv, CallTypes, Calls, Requests
<1>6. ~IsStale(go)
  BY <1>3, <1>5 DEF IsStale
<1> HIDE DEF t, go
<1>7. /\ child # t /\ child \notin killed
      /\ next_turns[child] = "none" /\ removals[child] = "none"
      /\ guest[child] = "none" /\ child \notin queue
  BY <1>3 DEF CreateChild, FreeTids, Registered, IInv, ThreadInv, PoolInv
<1>8. /\ next_turns \in [Tids -> Turns] /\ guest \in [Tids -> Doing]
      /\ "empty" \in Turns /\ "starting" \in Doing
  BY DEF IInv, TypeInv, MapTypes, Turns, Doing
<1>9. child \notin futex_waiters \cup timed_waiters \cup external_io
  BY <1>7 DEF IInv, PoolInv
<1>10. TypeInv'
  <2>1. MapTypes' /\ SetTypes'
    BY <1>2, <1>8 DEF IInv, TypeInv, MapTypes, SetTypes
  <2>2. CallTypes'
    BY <1>2, <1>5 DEF IInv, TypeInv, CallTypes
  <2> QED BY <1>2, <2>1, <2>2, TypeFrames DEF IInv, TypeInv
<1>11. ThreadInv'
  BY <1>2, <1>3, <1>7, <1>8 DEF IInv, ThreadInv
<1>12. CallInv'
  <2>1. \A d \in rpc' : IsStale(d)' <=> IsStale(d)
    BY <1>2, SameStale
  <2>2. \A d \in rpc : d.tid = child => IsStale(d)
    BY <1>7 DEF IInv, CallInv
  <2>3. c.mm <= mm[t]
    BY DEF IInv, CallInv, t
  <2>4. \A d \in rpc : d.tid \in Tids
    BY CallsAreTyped
  <2>5. ~CancelsKilledRpcs => killed' = {}
    BY <1>2 DEF IInv, CallInv
  <2>6. \A d \in rpc' : d.mm <= mm'[d.tid]
    BY <1>2, <1>5, <2>3 DEF IInv, CallInv
  <2>7. \A d \in rpc' : ~IsStale(d) =>
           /\ next_turns'[d.tid] = "empty"
           /\ guest'[d.tid] = "calling" \/ d.tid \in teardown'.observed
    BY <1>2, <1>3, <1>5, <1>7, <1>8, <2>2, <2>4 DEF IInv, CallInv
  <2>8. \A d, e \in rpc' : ~IsStale(d) /\ ~IsStale(e) /\ d.tid = e.tid => d = e
    BY <1>2, <1>4, <1>5 DEF IInv, CallInv
  <2> QED BY <2>1, <2>5, <2>6, <2>7, <2>8 DEF CallInv
<1>13. ExecInv'
  BY <1>2, <1>3, <1>8 DEF IInv, ExecInv, NoTeardown
<1>14. GrantInv'
  <2>1. \A u \in Tids : Holds(u)' => u = t
    BY <1>2, <1>3, <1>5, <1>8, SameStale DEF Holds
  <2> QED BY <1>2, <1>3, <2>1 DEF GrantInv, InQueue
<1>15. DaemonInv'
  BY <1>2, <1>3 DEF DaemonInv, EndsWithNobodyLeft
<1>16. PoolInv'
  <2>1. \A u \in Tids \ {child} : next_turns'[u] = next_turns[u]
    BY <1>2, <1>8
  <2>2. \A u \in queue \cup futex_waiters \cup timed_waiters \cup external_io :
           u \in Tids \ {child}
    BY <1>7, <1>9 DEF IInv, TypeInv, SetTypes
  <2> QED BY <1>2, <2>1, <2>2 DEF IInv, PoolInv
<1>17. Registered' = Registered \cup {child}
  BY <1>2, <1>8 DEF Registered
<1>18. HandoverIsPaired'
  BY <1>2, <1>17 DEF IInv, HandoverIsPaired
<1>19. EveryThreadIsSomewhere'
  BY <1>2, <1>7, <1>9, <1>17 DEF IInv, EveryThreadIsSomewhere, InQueue, InPool
<1> QED BY <1>10, <1>11, <1>12, <1>13, <1>14, <1>15, <1>16, <1>18, <1>19 DEF IInv

\* prepare_exec_teardown: the holder keeps the grant, in the system call.
LEMMA PrepareExecKeeps ==
    ASSUME IInv, NEW c \in rpc, PrepareExec(c)
    PROVE  IInv'
<1> DEFINE t == c.tid
<1>1. HandlesForHolder(c)
  BY CallerHolds DEF PrepareExec
<1>2. /\ teardown' = [caller |-> t, siblings |-> Registered \ {t}, observed |-> {}]
      /\ guest' = [guest EXCEPT ![t] = "execing"]
      /\ rpc' = rpc \ {c}
      /\ UNCHANGED <<queue, selected, next_turns, removals, admissions, futex_waiters, timed_waiters,
                     external_io, killed, mm, failed, terminal, daemon>>
  BY <1>1 DEF HandlesForHolder, PrepareExec, Answered, queue_vars, buffers, pools, verdicts
<1>3. /\ t \in Tids /\ next_turns[t] = "empty" /\ t \notin killed /\ guest[t] = "calling"
      /\ InQueue(t)
      /\ teardown = NoTeardown /\ selected = NoTid /\ daemon.at \notin {"step2", "await", "done"}
      /\ \A u \in Tids : Holds(u) => u = t
  BY <1>1 DEF HandlesForHolder
<1>4. \A d \in rpc \ {c} : d.tid = t => IsStale(d)
  BY <1>1 DEF HandlesForHolder, IInv, CallInv
<1> HIDE DEF t
<1>5. /\ guest \in [Tids -> Doing] /\ "execing" \in Doing
      /\ Registered' = Registered /\ Registered \subseteq Tids
  BY <1>2 DEF IInv, TypeInv, MapTypes, Doing, Registered
<1>6. /\ teardown'.caller = t /\ teardown'.siblings = Registered \ {t} /\ teardown'.observed = {}
      /\ teardown.caller = NoTid /\ teardown.observed = {} /\ t # NoTid
  BY <1>2, <1>3, ProcessAssumption DEF NoTeardown
<1>7. TypeInv'
  <2>1. MapTypes' /\ ExecTypes'
    BY <1>2, <1>3, <1>5 DEF IInv, TypeInv, MapTypes, ExecTypes
  <2>2. CallTypes'
    BY <1>2 DEF IInv, TypeInv, CallTypes
  <2> QED BY <1>2, <2>1, <2>2, TypeFrames DEF IInv, TypeInv
<1>8. ThreadInv'
  BY <1>2, <1>3, <1>5, <1>6 DEF IInv, ThreadInv
<1>9. CallInv'
  BY <1>2, <1>3, <1>4, <1>5, <1>6, SameStale, CallsAreTyped DEF IInv, CallInv
<1>10. ExecInv'
  <2>1. \A u \in Tids : guest[u] # "execing"
    BY <1>6, ProcessAssumption DEF IInv, ExecInv
  <2>2. guest'[t] = "execing" /\ \A u \in Tids : guest'[u] = "execing" => u = t
    BY <1>2, <1>3, <1>5, <2>1
  <2> QED BY <1>5, <1>6, <2>2 DEF ExecInv
<1>11. GrantInv'
  <2>1. \A u \in Tids : Holds(u)' => u = t
    BY <1>2, <1>3, <1>4, <1>5, SameStale DEF Holds
  <2> QED BY <1>2, <1>3, <2>1 DEF GrantInv, InQueue
<1>12. DaemonInv'
  BY <1>2, <1>3 DEF DaemonInv, EndsWithNobodyLeft
<1>13. PoolInv' /\ HandoverIsPaired' /\ EveryThreadIsSomewhere'
  BY <1>2, PoolFrame, HandoverFrame, PlaceFrame DEF IInv
<1> QED BY <1>7, <1>8, <1>9, <1>10, <1>11, <1>12, <1>13 DEF IInv

-----------------------------------------------------------------------------
(* Deaths and execs.                                                       *)

\* The daemon stays where it is when threads die, and awaits the same thread.
LEMMA OrphanedStays ==
    ASSUME TypeInv, NEW T \in SUBSET Tids
    PROVE  /\ Orphaned(T) \in Daemons
           /\ Orphaned(T).at = daemon.at
           /\ Orphaned(T).tid = daemon.tid
           /\ daemon.tid \notin T => Orphaned(T) = daemon
BY DEF TypeInv, Daemons, Orphaned, Filled, Waiting

\* No request of a dead thread is admitted any more, and none becomes admissible.
LEMMA KilledCalls ==
    ASSUME IInv, NEW T \in SUBSET Tids, NEW c \in KilledRpcs(T),
           killed' = KilledSet(T) \/ (killed' = KilledSet(T) \ {Leader} /\ mm' # mm),
           mm' \in {mm, [mm EXCEPT ![Leader] = @ + 1]}
    PROVE  /\ c \in rpc /\ c.mm <= mm'[c.tid]
           /\ ~IsStale(c)' => ~IsStale(c) /\ c.tid \notin T /\ (mm' # mm => c.tid # Leader)
<1>1. c \in rpc /\ c.tid \in Tids /\ c.mm \in Nat
  BY CallsAreTyped DEF KilledRpcs
<1>2. c.mm <= mm[c.tid] /\ mm[c.tid] \in Nat /\ mm \in [Tids -> Nat]
  BY <1>1 DEF IInv, TypeInv, MapTypes, CallInv
<1>3. mm'[c.tid] = mm[c.tid] \/ (mm'[c.tid] = mm[c.tid] + 1 /\ c.tid = Leader)
  BY <1>1, <1>2
<1>4. c.mm <= mm'[c.tid]
  BY <1>1, <1>2, <1>3, SMT
<1>5. ASSUME ~IsStale(c)'
      PROVE  mm'[c.tid] = mm[c.tid] /\ (mm' # mm => c.tid # Leader)
  <2>1. mm'[c.tid] = c.mm
    BY <1>5 DEF IsStale
  <2>2. mm'[c.tid] = mm[c.tid]
    BY <1>1, <1>2, <1>3, <2>1, SMT
  <2> QED BY <1>1, <1>2, <2>2, SMT
<1>6. ASSUME ~IsStale(c)'
      PROVE  ~IsStale(c) /\ c.tid \notin T
  BY <1>1, <1>5, <1>6 DEF IsStale, KilledRpcs, KilledSet
<1> QED BY <1>1, <1>4, <1>5, <1>6

\* logically_kill_thread of the threads of T, at the end of an exec attempt or
\* outside one; a caller that lives on goes back to its program.
Kills(T, W) ==
    /\ remove_blocking_entries(T, W)
    /\ queue' = KilledQueue(W)
    /\ removals' = KilledRemovals(T)
    /\ admissions' = KilledAdmissions(T, W)
    /\ killed' = KilledSet(T)
    /\ next_turns' = Set(next_turns, T, "none")
    /\ daemon' = Orphaned(T)
    /\ rpc' = KilledRpcs(T)
    /\ teardown' = NoTeardown
    /\ guest' = [t \in Tids |-> IF t \in T THEN "none"
                                ELSE IF guest[t] = "execing" THEN "running" ELSE guest[t]]
    /\ mm' \in {mm, [mm EXCEPT ![Leader] = @ + 1]}
    /\ UNCHANGED <<selected, failed, terminal>>

\* logically_kill_thread of a set of threads keeps the invariant.
LEMMA KillKeeps ==
    ASSUME IInv, NEW T \in SUBSET Registered, NEW W \in ExitWakes(T),
           teardown.observed \subseteq T, Kills(T, W)
    PROVE  IInv'
<1>1. T \subseteq Tids /\ W \subseteq futex_waiters \ T /\ W \subseteq Tids
  BY DEF Registered, ExitWakes, IInv, TypeInv, SetTypes
<1>2. /\ futex_waiters' = futex_waiters \ (T \cup W)
      /\ timed_waiters' = timed_waiters \ (T \cup W)
      /\ external_io' = external_io \ T
      /\ queue' = IF failed THEN queue \cup W ELSE queue
      /\ admissions' = IF failed THEN admissions \ T ELSE (admissions \ T) \cup W
      /\ killed' = IF CancelsKilledRpcs THEN killed \cup T ELSE killed
      /\ rpc' \subseteq rpc
      /\ UNCHANGED <<selected, failed, terminal>>
      /\ teardown' = NoTeardown
  BY DEF Kills, remove_blocking_entries, KilledQueue, KilledAdmissions, KilledSet, KilledRpcs
<1>3. /\ \A t \in Tids : /\ removals'[t] = IF t \in T THEN "Retire" ELSE removals[t]
                         /\ next_turns'[t] = IF t \in T THEN "none" ELSE next_turns[t]
                         /\ guest'[t] = IF t \in T THEN "none"
                                        ELSE IF guest[t] = "execing" THEN "running" ELSE guest[t]
      /\ teardown'.caller = NoTid /\ teardown'.siblings = {} /\ teardown'.observed = {}
  BY DEF Kills, KilledRemovals, Set, NoTeardown
<1>4. /\ daemon' \in Daemons
      /\ daemon'.at = daemon.at /\ daemon'.tid = daemon.tid
      /\ daemon.tid \notin T => daemon' = daemon
  BY <1>1, OrphanedStays DEF IInv, Kills
<1>5. \A c \in rpc' : /\ ~IsStale(c)' => ~IsStale(c) /\ c.tid \notin T
                      /\ c.mm <= mm'[c.tid]
  BY <1>1, KilledCalls DEF Kills
<1>6. TypeInv'
  <2>1. SetTypes'
    BY <1>1, <1>2 DEF IInv, TypeInv, SetTypes
  <2>2. removals' \in [Tids -> Dispositions] /\ next_turns' \in [Tids -> Turns]
    BY DEF Kills, KilledRemovals, Set, IInv, TypeInv, MapTypes, Dispositions, Turns
  <2>3. guest' \in [Tids -> Doing]
    BY DEF Kills, IInv, TypeInv, MapTypes, Doing
  <2>4. mm' \in [Tids -> Nat]
    <3>1. mm \in [Tids -> Nat] /\ mm' \in {mm, [mm EXCEPT ![Leader] = @ + 1]}
      BY DEF Kills, IInv, TypeInv, MapTypes
    <3> QED BY <3>1, ProcessAssumption, SMT
  <2>5. CallTypes' /\ ExecTypes'
    BY <1>2 DEF IInv, TypeInv, CallTypes, ExecTypes, NoTeardown
  <2> QED BY <1>2, <1>4, <2>1, <2>2, <2>3, <2>4, <2>5 DEF IInv, TypeInv, MapTypes
<1>7. ThreadInv'
  <2>1. ASSUME NEW t \in Tids, t \in T
        PROVE  guest'[t] = "none" /\ next_turns'[t] = "none"
    BY <1>3, <2>1
  <2>2. ASSUME NEW t \in Tids, t \notin T
        PROVE  /\ next_turns'[t] = next_turns[t] /\ removals'[t] = removals[t]
               /\ t \in killed' => t \in killed
               /\ t \notin teardown.observed
               /\ guest'[t] = guest[t] \/ (guest[t] = "execing" /\ guest'[t] = "running")
    BY <1>2, <1>3, <2>2
  <2> QED BY <2>1, <2>2 DEF IInv, ThreadInv
<1>8. CallInv'
  <2>1. ASSUME NEW c \in rpc', ~IsStale(c)'
        PROVE  /\ next_turns'[c.tid] = "empty" /\ guest'[c.tid] = "calling"
               /\ \A d \in rpc' : d.tid = c.tid /\ ~IsStale(d)' => d = c
    <3>1. c \in rpc /\ c.tid \in Tids /\ ~IsStale(c) /\ c.tid \notin T
      BY <1>2, <1>5, <2>1, CallsAreTyped
    <3>2. /\ next_turns[c.tid] = "empty" /\ guest[c.tid] = "calling"
          /\ \A d \in rpc : d.tid = c.tid /\ ~IsStale(d) => d = c
      BY <3>1 DEF IInv, CallInv
    <3> QED BY <1>2, <1>3, <1>5, <3>1, <3>2
  <2>2. ~CancelsKilledRpcs => killed' = {}
    BY <1>2 DEF IInv, CallInv
  <2> QED BY <1>5, <2>1, <2>2 DEF CallInv
<1>9. ExecInv'
  BY <1>2, <1>3 DEF ExecInv
<1>10. GrantInv'
  <2>1. \A t \in Tids : Holds(t)' => Holds(t) /\ t \notin T
    <3> SUFFICES ASSUME NEW t \in Tids, Holds(t)' PROVE Holds(t) /\ t \notin T
      OBVIOUS
    <3>1. CASE guest'[t] \in {"running", "execing", "exiting"}
      BY <1>3, <3>1 DEF Holds
    <3>2. CASE \E c \in rpc' : c.tid = t /\ ~IsStale(c)' /\ c.call \notin {"start", "continue"}
      BY <1>2, <1>5, <3>2 DEF Holds
    <3> QED BY <3>1, <3>2 DEF Holds
  <2> QED BY <1>2, <1>3, <1>4, <2>1 DEF IInv, GrantInv, InQueue
<1>11. Registered' = Registered \ T
  BY <1>1, <1>3 DEF Registered
<1>12. DaemonInv'
  <2>1. EndsWithNobodyLeft'
    BY <1>4, <1>11 DEF IInv, DaemonInv, EndsWithNobodyLeft
  <2>2. selected' # NoTid => daemon'.at = "await" /\ ~failed'
    BY <1>2, <1>4 DEF IInv, DaemonInv
  <2>3. ASSUME daemon'.at = "await", ~failed'
        PROVE  /\ selected' = daemon'.tid /\ selected' \in queue'
               /\ next_turns'[selected'] # "none" => daemon'.iv = next_turns'[selected']
               /\ \A t \in Tids : removals'[t] # "ReplaceThenAdmit"
    <3>1. /\ selected = daemon.tid /\ selected \in queue /\ selected \in Tids
          /\ next_turns[selected] # "none" => daemon.iv = next_turns[selected]
          /\ \A t \in Tids : removals[t] # "ReplaceThenAdmit"
      BY <1>2, <1>4, <2>3 DEF IInv, DaemonInv, TypeInv, SetTypes
    <3> QED BY <1>2, <1>3, <1>4, <3>1
  <2> QED BY <2>1, <2>2, <2>3 DEF DaemonInv
<1>13. PoolInv'
  <2>1. \A t \in queue' : next_turns'[t] # "none" \/ removals'[t] # "none"
    BY <1>1, <1>2, <1>3 DEF IInv, PoolInv, TypeInv, SetTypes
  <2>2. /\ \A t \in futex_waiters' : next_turns'[t] = "futex"
        /\ \A t \in timed_waiters' \ futex_waiters' : next_turns'[t] \in {"sleep", "pause"}
        /\ \A t \in external_io' : next_turns'[t] # "none"
                                   /\ t \notin futex_waiters' \cup timed_waiters'
    BY <1>1, <1>2, <1>3 DEF IInv, PoolInv, TypeInv, SetTypes
  <2> QED BY <2>1, <2>2 DEF PoolInv
<1>14. HandoverIsPaired'
  BY <1>1, <1>2, <1>3, <1>11 DEF IInv, HandoverIsPaired
<1>15. EveryThreadIsSomewhere'
  <2> SUFFICES ASSUME NEW t \in Registered', ~failed
               PROVE  /\ InQueue(t)' \/ t \in admissions' \/ InPool(t)'
                      /\ ~ (InQueue(t)' /\ t \in admissions')
                      /\ ~ (InQueue(t)' /\ InPool(t)')
                      /\ ~ (t \in admissions' /\ InPool(t)')
    BY <1>2 DEF EveryThreadIsSomewhere
  <2>1. t \in Registered /\ t \notin T /\ t \in Tids /\ removals'[t] = removals[t]
    BY <1>3, <1>11 DEF Registered
  <2>2. /\ InQueue(t) \/ t \in admissions \/ InPool(t)
        /\ ~ (InQueue(t) /\ t \in admissions)
        /\ ~ (InQueue(t) /\ InPool(t))
        /\ ~ (t \in admissions /\ InPool(t))
    BY <2>1 DEF IInv, EveryThreadIsSomewhere
  <2>3. t \in W => t \notin external_io
    BY <1>1 DEF IInv, PoolInv
  <2> QED BY <1>1, <1>2, <2>1, <2>2, <2>3 DEF InQueue, InPool
<1> QED BY <1>6, <1>7, <1>8, <1>9, <1>10, <1>12, <1>13, <1>14, <1>15 DEF IInv

\* retire_deregistered_thread of a sibling of an exec, which is only noted.
LEMMA NotedKeeps ==
    ASSUME IInv, NEW t \in teardown.siblings,
           teardown' = [teardown EXCEPT !.observed = @ \cup {t}],
           guest' = [guest EXCEPT ![t] = "none"],
           rpc' = KilledRpcs({t}),
           UNCHANGED <<queue, next_turns, buffers, pools, killed, daemon, selected, mm, verdicts>>
    PROVE  IInv'
<1>1. /\ teardown \in [caller : Tids \cup {NoTid}, siblings : SUBSET Tids, observed : SUBSET Tids]
      /\ t \in Tids
  BY DEF IInv, TypeInv, ExecTypes
<1>2. /\ ExecTypes'
      /\ teardown'.caller = teardown.caller /\ teardown'.siblings = teardown.siblings
      /\ teardown'.observed = teardown.observed \cup {t}
  BY <1>1 DEF ExecTypes
<1>3. /\ rpc' \subseteq rpc
      /\ UNCHANGED <<queue, selected, next_turns, removals, admissions, futex_waiters, timed_waiters,
                     external_io, killed, mm, failed, terminal, daemon>>
  BY DEF KilledRpcs, buffers, pools, verdicts
<1>4. /\ teardown.caller # NoTid /\ t # teardown.caller /\ teardown.caller \in Tids
      /\ Registered' = Registered /\ t \in Registered
      /\ guest[teardown.caller] = "execing"
  BY <1>1, <1>3, SMT DEF IInv, ExecInv, Registered, NoTeardown
<1>5. /\ guest \in [Tids -> Doing] /\ "none" \in Doing
      /\ guest'[t] = "none" /\ \A u \in Tids \ {t} : guest'[u] = guest[u]
  BY <1>1 DEF IInv, TypeInv, MapTypes, Doing
<1>6. TypeInv'
  <2>1. MapTypes'
    BY <1>1, <1>3, <1>5 DEF IInv, TypeInv, MapTypes
  <2>2. CallTypes'
    BY <1>3 DEF IInv, TypeInv, CallTypes
  <2> QED BY <1>2, <1>3, <2>1, <2>2, TypeFrames DEF IInv, TypeInv
<1>7. ThreadInv'
  BY <1>2, <1>3, <1>5 DEF IInv, ThreadInv
<1>8. CallInv'
  BY <1>2, <1>3, <1>5, SameStale, CallsAreTyped DEF IInv, CallInv
<1>9. ExecInv'
  BY <1>1, <1>2, <1>4, <1>5 DEF IInv, ExecInv
<1>10. GrantInv'
  <2>1. \A u \in Tids : Holds(u)' => Holds(u)
    BY <1>3, <1>5, SameStale DEF Holds
  <2> QED BY <1>3, <2>1 DEF IInv, GrantInv, InQueue
<1>11. DaemonInv'
  BY <1>3, <1>4 DEF IInv, DaemonInv, EndsWithNobodyLeft
<1>12. PoolInv' /\ HandoverIsPaired' /\ EveryThreadIsSomewhere'
  BY <1>3, PoolFrame, HandoverFrame, PlaceFrame DEF IInv
<1> QED BY <1>6, <1>7, <1>8, <1>9, <1>10, <1>11, <1>12 DEF IInv

\* retire_deregistered_thread and retire_exited_leader
LEMMA DeregisterKeeps ==
    ASSUME IInv, NEW t \in Tids, Deregister(t)
    PROVE  IInv'
<1>1. CASE t \in teardown.siblings
  BY <1>1, NotedKeeps DEF Deregister
<1>2. CASE t \notin teardown.siblings
  <2> DEFINE T == {t} \cup (IF t = teardown.caller THEN teardown.observed ELSE {})
  <2>1. t \in Registered
    BY DEF Deregister, MayDie
  <2>2. teardown.caller \in {t, NoTid} /\ t # NoTid
    BY <1>2, <2>1, ProcessAssumption DEF IInv, ExecInv
  <2>3. T \in SUBSET Registered /\ teardown.observed \subseteq T
    <3>1. teardown.caller = NoTid => teardown.observed = {}
      <4>1. teardown.caller = NoTid => teardown = NoTeardown
        BY DEF IInv, ExecInv
      <4> QED BY <4>1, SMT DEF NoTeardown
    <3>2. teardown.caller = t => teardown.observed \subseteq Registered
      BY <2>2 DEF IInv, ExecInv
    <3> QED BY <2>1, <2>2, <3>1, <3>2
  <2>4. teardown' = NoTeardown /\ logically_kill_thread(T)
        /\ UNCHANGED <<selected, mm, failed, terminal>>
    <3>1. /\ teardown' = IF t = teardown.caller THEN NoTeardown ELSE teardown
          /\ logically_kill_thread(T)
          /\ UNCHANGED <<selected, mm, failed, terminal>>
      BY <1>2 DEF Deregister, verdicts
    <3>2. teardown.caller = NoTid => teardown = NoTeardown
      BY DEF IInv, ExecInv
    <3> QED BY <2>2, <3>1, <3>2
  <2>5. \A u \in Tids : guest[u] = "execing" => u \in T
    BY <2>2, ProcessAssumption DEF IInv, ExecInv
  <2> HIDE DEF T
  <2>6. PICK W \in ExitWakes(T) :
           /\ remove_blocking_entries(T, W)
           /\ queue' = KilledQueue(W)
           /\ removals' = KilledRemovals(T)
           /\ admissions' = KilledAdmissions(T, W)
           /\ killed' = KilledSet(T)
           /\ next_turns' = Set(next_turns, T, "none")
           /\ daemon' = Orphaned(T)
           /\ guest' = Set(guest, T, "none")
           /\ rpc' = KilledRpcs(T)
    BY <2>4 DEF logically_kill_thread
  <2>7. guest' = [u \in Tids |-> IF u \in T THEN "none"
                                 ELSE IF guest[u] = "execing" THEN "running" ELSE guest[u]]
    BY <2>5, <2>6 DEF Set
  <2>8. Kills(T, W)
    BY <2>4, <2>6, <2>7 DEF Kills
  <2> QED BY <2>3, <2>8, KillKeeps
<1> QED BY <1>1, <1>2

\* The caller of the exec under way holds the grant, and nothing is selected.
LEMMA ExecCaller ==
    ASSUME IInv, ~failed, teardown.caller # NoTid
    PROVE  /\ teardown.caller \in Registered /\ Holds(teardown.caller)
           /\ teardown.siblings = Registered \ {teardown.caller}
           /\ teardown.observed \subseteq Registered \ {teardown.caller}
           /\ daemon.at \notin {"step2", "await"} /\ selected = NoTid
           /\ guest[teardown.caller] = "execing"
           /\ \A t \in Tids : guest[t] = "execing" => t = teardown.caller
<1>1. teardown.caller \in Tids /\ Holds(teardown.caller)
  BY DEF IInv, TypeInv, ExecTypes, ExecInv, Holds
<1>2. daemon.at \notin {"step2", "await"} /\ selected = NoTid
  BY <1>1 DEF IInv, GrantInv, DaemonInv
<1> QED BY <1>1, <1>2, HolderIsAwaited DEF IInv, ExecInv, Registered

\* finish_exec_teardown of a failed attempt
LEMMA ExecFailsKeeps ==
    ASSUME IInv, ExecFails
    PROVE  IInv'
<1> DEFINE T == teardown.observed
<1>1. /\ ~failed /\ teardown.caller # NoTid /\ teardown' = NoTeardown
      /\ UNCHANGED <<queue, selected, mm, failed, terminal>>
  BY DEF ExecFails, queue_vars, verdicts
<1>2. /\ teardown.caller \in Tids /\ teardown.caller \notin T
      /\ T \in SUBSET Registered
      /\ guest[teardown.caller] = "execing"
      /\ \A t \in Tids : guest[t] = "execing" => t = teardown.caller
  BY <1>1, ExecCaller DEF Registered
<1>3. PICK W \in ExitWakes(T) :
         /\ remove_blocking_entries(T, W)
         /\ removals' = KilledRemovals(T)
         /\ admissions' = KilledAdmissions(T, W)
         /\ killed' = KilledSet(T)
         /\ next_turns' = Set(next_turns, T, "none")
         /\ daemon' = Orphaned(T)
         /\ guest' = [Set(guest, T, "none") EXCEPT ![teardown.caller] = "running"]
         /\ rpc' = KilledRpcs(T)
  BY DEF ExecFails
<1>4. teardown.observed \subseteq T
  OBVIOUS
<1> HIDE DEF T
<1>5. guest' = [t \in Tids |-> IF t \in T THEN "none"
                               ELSE IF guest[t] = "execing" THEN "running" ELSE guest[t]]
  BY <1>2, <1>3 DEF Set
<1>6. Kills(T, W)
  BY <1>1, <1>3, <1>5 DEF Kills, KilledQueue
<1> QED BY <1>2, <1>4, <1>6, KillKeeps

\* reconnect_exec of the leader: its siblings are gone.
LEMMA LeaderReconnects ==
    ASSUME IInv, NEW refused \in BOOLEAN, reconnect_exec(refused), teardown.caller = Leader
    PROVE  IInv'
<1> DEFINE T == teardown.siblings
<1>1. /\ ~failed /\ teardown.caller # NoTid /\ teardown' = NoTeardown
      /\ mm' = [mm EXCEPT ![Leader] = @ + 1]
      /\ UNCHANGED <<queue, selected, failed>>
  BY DEF reconnect_exec, queue_vars
<1>2. terminal' = terminal
  BY DEF reconnect_exec, IInv, TypeInv
<1>3. /\ Leader \in Tids /\ Leader \notin T
      /\ T \in SUBSET Registered
      /\ guest[Leader] = "execing"
      /\ \A t \in Tids : guest[t] = "execing" => t = Leader
  BY <1>1, ExecCaller DEF Registered
<1>4. teardown.observed \subseteq T
  BY <1>1, ExecCaller
<1>5. PICK W \in ExitWakes(T) :
         /\ remove_blocking_entries(T, W)
         /\ removals' = [KilledRemovals(T) EXCEPT ![Leader] = @]
         /\ admissions' = KilledAdmissions(T, W) \cup {}
  BY DEF reconnect_exec
<1>6. /\ killed' = KilledSet(T)
      /\ next_turns' = [Set(next_turns, T, "none") EXCEPT ![Leader] = @]
      /\ daemon' = Orphaned(T)
      /\ guest' = [Set(guest, T, "none") EXCEPT ![Leader] = "running"]
      /\ rpc' = KilledRpcs(T)
  BY DEF reconnect_exec
<1> HIDE DEF T
<1>7. guest' = [t \in Tids |-> IF t \in T THEN "none"
                               ELSE IF guest[t] = "execing" THEN "running" ELSE guest[t]]
  BY <1>3, <1>6 DEF Set
<1>8. next_turns' = Set(next_turns, T, "none")
  BY <1>3, <1>6 DEF Set
<1>9. removals' = KilledRemovals(T) /\ queue' = KilledQueue(W)
      /\ admissions' = KilledAdmissions(T, W)
  BY <1>1, <1>3, <1>5 DEF KilledRemovals, KilledQueue, Set
<1>10. Kills(T, W)
  BY <1>1, <1>2, <1>5, <1>6, <1>7, <1>8, <1>9 DEF Kills
<1> QED BY <1>3, <1>4, <1>10, KillKeeps

\* reconnect_exec of another thread, which takes the leader's id: nobody else is
\* left, and the new leader's hand-over is whole.
LEMMA AnotherReconnects ==
    ASSUME IInv, NEW refused \in BOOLEAN, reconnect_exec(refused), teardown.caller # Leader
    PROVE  IInv'
<1> DEFINE T == teardown.siblings \cup {teardown.caller}
<1>1. /\ ~failed /\ teardown.caller # NoTid /\ teardown' = NoTeardown
      /\ mm' = [mm EXCEPT ![Leader] = @ + 1]
      /\ terminal' \in BOOLEAN
      /\ UNCHANGED <<queue, selected, failed>>
  BY DEF reconnect_exec, queue_vars
<1>2. /\ Leader \in Tids /\ T = Registered /\ Registered \subseteq Tids /\ Registered # {}
      /\ daemon.at \notin {"step2", "await"} /\ selected = NoTid
  BY <1>1, ExecCaller, ProcessAssumption DEF Registered
<1>3. PICK W \in ExitWakes(T) :
         /\ remove_blocking_entries(T, W)
         /\ removals' = [KilledRemovals(T) EXCEPT
                           ![Leader] = IF ~ (/\ Leader \in exits
                                             /\ KilledRemovals(T)[Leader] = "none"
                                             /\ Leader \notin queue)
                                       THEN "ReplaceThenAdmit" ELSE @]
         /\ admissions' = KilledAdmissions(T, W) \cup {Leader}
  BY DEF reconnect_exec
<1>4. /\ killed' = KilledSet(T) \ {Leader}
      /\ next_turns' = [Set(next_turns, T, "none") EXCEPT ![Leader] = "empty"]
      /\ daemon' = Orphaned(T)
      /\ guest' = [Set(guest, T, "none") EXCEPT ![Leader] = "starting"]
      /\ rpc' = KilledRpcs(T)
  BY DEF reconnect_exec
<1> HIDE DEF T
<1>5. \A t \in Tids \ T : next_turns[t] = "none" /\ guest[t] = "none"
  BY <1>2 DEF IInv, ThreadInv, Registered
<1>6. futex_waiters \subseteq T /\ timed_waiters \subseteq T /\ external_io \subseteq T
  BY <1>2 DEF IInv, TypeInv, SetTypes, PoolInv, Registered
<1>7. /\ futex_waiters' = {} /\ timed_waiters' = {} /\ external_io' = {}
      /\ admissions' = (admissions \ T) \cup {Leader}
  <2>1. W = {}
    BY <1>6 DEF ExitWakes
  <2> QED BY <1>1, <1>3, <1>6, <2>1 DEF remove_blocking_entries, KilledAdmissions
<1>8. /\ next_turns' = [t \in Tids |-> IF t = Leader THEN "empty" ELSE "none"]
      /\ guest' = [t \in Tids |-> IF t = Leader THEN "starting" ELSE "none"]
  BY <1>2, <1>4, <1>5 DEF Set
<1>9. Registered' = {Leader}
  BY <1>2, <1>8 DEF Registered
<1>10. removals \in [Tids -> Dispositions]
  BY DEF IInv, TypeInv, MapTypes
<1>11. /\ removals' \in [Tids -> Dispositions]
       /\ removals'[Leader] = "ReplaceThenAdmit" \/ (removals'[Leader] = "none" /\ Leader \notin queue)
       /\ \A t \in T \ {Leader} : removals'[t] = "Retire"
       /\ \A t \in Tids \ (T \cup {Leader}) : removals'[t] = removals[t]
  BY <1>2, <1>3, <1>10 DEF KilledRemovals, Set, Dispositions
<1>12. daemon' \in Daemons /\ daemon'.at = daemon.at
  BY <1>2, <1>4, OrphanedStays DEF IInv
<1>13. mm \in [Tids -> Nat] /\ mm' \in [Tids -> Nat] /\ mm # mm'
  <2>1. mm \in [Tids -> Nat]
    BY DEF IInv, TypeInv, MapTypes
  <2>2. mm'[Leader] = mm[Leader] + 1 /\ mm[Leader] \in Nat
    BY <1>1, <1>2, <2>1
  <2> QED BY <1>1, <1>2, <2>1, <2>2, SMT
<1>14. rpc' \subseteq rpc /\ \A c \in rpc' : IsStale(c)' /\ c.mm <= mm'[c.tid]
  <2> SUFFICES ASSUME NEW c \in rpc' PROVE c \in rpc /\ IsStale(c)' /\ c.mm <= mm'[c.tid]
    OBVIOUS
  <2>1. /\ c \in rpc /\ c.mm <= mm'[c.tid]
        /\ ~IsStale(c)' => ~IsStale(c) /\ c.tid \notin T
    BY <1>1, <1>2, <1>4, <1>13, KilledCalls
  <2>2. IsStale(c) \/ c.tid \in T
    BY <1>5, <2>1, CallsAreTyped DEF IInv, CallInv
  <2> QED BY <2>1, <2>2
<1>15. killed' \subseteq Tids \ {Leader} /\ (~CancelsKilledRpcs => killed' = {})
  BY <1>2, <1>4 DEF KilledSet, IInv, TypeInv, SetTypes, CallInv
<1>16. TypeInv'
  <2>1. SetTypes'
    BY <1>1, <1>2, <1>7, <1>15 DEF IInv, TypeInv, SetTypes
  <2>2. MapTypes'
    BY <1>8, <1>11, <1>13 DEF MapTypes, Turns, Doing
  <2>3. CallTypes' /\ ExecTypes'
    BY <1>1, <1>14 DEF IInv, TypeInv, CallTypes, ExecTypes, NoTeardown
  <2> QED BY <1>1, <1>12, <2>1, <2>2, <2>3 DEF IInv, TypeInv
<1>17. ThreadInv'
  BY <1>8, <1>11, <1>15 DEF ThreadInv
<1>18. CallInv'
  BY <1>14, <1>15 DEF CallInv
<1>19. ExecInv'
  BY <1>1, <1>8 DEF ExecInv, NoTeardown
<1>20. GrantInv' /\ DaemonInv'
  <2>1. \A t \in Tids : ~Holds(t)'
    BY <1>8, <1>14 DEF Holds
  <2>2. daemon'.at # "done"
    BY <1>2, <1>12 DEF IInv, DaemonInv, EndsWithNobodyLeft
  <2> QED BY <1>1, <1>2, <1>12, <2>1, <2>2 DEF GrantInv, DaemonInv, EndsWithNobodyLeft
<1>21. PoolInv'
  <2> SUFFICES ASSUME NEW t \in queue PROVE next_turns'[t] # "none" \/ removals'[t] # "none"
    BY <1>1, <1>7 DEF PoolInv
  <2>1. t \in Tids /\ (next_turns[t] # "none" \/ removals[t] # "none")
    BY DEF IInv, TypeInv, SetTypes, PoolInv
  <2> QED BY <1>5, <1>8, <1>11, <2>1
<1>22. HandoverIsPaired'
  <2>1. \A t \in Tids \ T : removals[t] # "ReplaceThenAdmit"
    BY <1>2 DEF IInv, HandoverIsPaired
  <2> QED BY <1>7, <1>9, <1>11, <1>15, <2>1 DEF HandoverIsPaired
<1>23. EveryThreadIsSomewhere'
  BY <1>1, <1>7, <1>9, <1>11 DEF EveryThreadIsSomewhere, InQueue, InPool
<1> QED BY <1>16, <1>17, <1>18, <1>19, <1>20, <1>21, <1>22, <1>23 DEF IInv

-----------------------------------------------------------------------------
(* The daemon's turn.                                                      *)

\* A pass of step 2 that a terminal verdict ends: sleepers may have moved from the
\* queue to the timed waiters.
LEMMA Step2EndsKeeps ==
    ASSUME IInv, Step2Ends
    PROVE  IInv'
<1> DEFINE S == IF failed THEN {} ELSE QueuedSleeps(queue)
<1>1. /\ queue' = queue \ S /\ timed_waiters' = timed_waiters \cup S
      /\ daemon' = At("top")
      /\ UNCHANGED <<selected, next_turns, removals, admissions, futex_waiters, external_io, killed, mm,
                     teardown, failed, terminal, guest, rpc>>
  BY DEF Step2Ends, buffers, lives, verdicts, guests
<1>2. \A t \in S : /\ ~failed /\ t \in queue /\ removals[t] = "none" /\ next_turns[t] = "sleep"
                   /\ t \in Tids
  BY DEF QueuedSleeps, IInv, TypeInv, SetTypes
<1> HIDE DEF S
<1>3. \A t \in S : /\ t \in Registered /\ t \notin admissions
                   /\ t \notin futex_waiters \cup timed_waiters \cup external_io
  BY <1>2 DEF Registered, IInv, EveryThreadIsSomewhere, InQueue, InPool
<1>4. "top" \in Places /\ daemon'.at = "top" /\ daemon' \in Daemons /\ daemon.at = "step2"
  BY <1>1, AtIsADaemon DEF Places, Step2Ends
<1>5. TypeInv'
  <2>1. SetTypes'
    BY <1>1, <1>2 DEF IInv, TypeInv, SetTypes
  <2> QED BY <1>1, <1>4, <2>1, TypeFrames DEF IInv, TypeInv
<1>6. ThreadInv' /\ CallInv' /\ ExecInv' /\ HandoverIsPaired'
  BY <1>1, ThreadFrame, CallFrame, ExecFrame, HandoverFrame DEF IInv
<1>7. GrantInv'
  BY <1>1, <1>4, SameHolders DEF IInv, GrantInv
<1>8. DaemonInv'
  BY <1>1, <1>4 DEF IInv, DaemonInv, EndsWithNobodyLeft
<1>9. PoolInv'
  BY <1>1, <1>2, <1>3 DEF IInv, PoolInv
<1>10. EveryThreadIsSomewhere'
  <2>1. Registered' = Registered
    BY <1>1 DEF Registered
  <2> QED BY <1>1, <1>2, <1>3, <2>1 DEF IInv, EveryThreadIsSomewhere, InQueue, InPool
<1> QED BY <1>5, <1>6, <1>7, <1>8, <1>9, <1>10 DEF IInv

\* A turn that is taken finds its thread queued and stopped at the request, and
\* nobody with the grant.
LEMMA TakenTurn ==
    ASSUME IInv, NEW t \in Tids, NEW r \in Filed, Takes(t, r)
    PROVE  /\ ~failed /\ selected' = NoTid
           /\ daemon' \in Daemons /\ daemon'.at = "top"
           /\ next_turns[t] = r /\ guest[t] = "stopped"
           /\ InQueue(t) /\ t \notin admissions /\ ~InPool(t) /\ t \notin killed
           /\ \A u \in Tids : ~Holds(u)
           /\ teardown = NoTeardown
           /\ \A c \in rpc : c.tid = t => IsStale(c)
<1>1. /\ daemon.at = "await" /\ ~failed /\ selected' = NoTid /\ daemon' = At("top")
      /\ daemon.tid = t /\ daemon.iv = r /\ next_turns[t] # "none"
  BY DEF Takes
<1>2. daemon' \in Daemons /\ daemon'.at = "top"
  BY <1>1, AtIsADaemon DEF Places
<1>3. /\ t \in queue /\ next_turns[t] = r /\ removals[t] # "ReplaceThenAdmit"
  BY <1>1 DEF IInv, DaemonInv
<1>4. r # "empty" /\ r # "none"
  BY DEF Filed, Requests
<1>5. removals[t] = "none" /\ t \notin killed
  <2>1. removals[t] \in Dispositions
    BY DEF IInv, TypeInv, MapTypes
  <2> QED BY <1>1, <1>3, <2>1 DEF IInv, ThreadInv, Dispositions
<1>6. \A u \in Tids : ~Holds(u)
  BY <1>1 DEF IInv, GrantInv
<1>7. teardown = NoTeardown
  <2>1. teardown.caller \in Tids \cup {NoTid}
    BY DEF IInv, TypeInv, ExecTypes
  <2> QED BY <1>6, <2>1 DEF IInv, ExecInv, Holds
<1>8. guest[t] = "stopped"
  <2>1. teardown.observed = {}
    BY <1>7 DEF NoTeardown
  <2> QED BY <1>3, <1>4, <2>1 DEF IInv, ThreadInv
<1>9. t \notin admissions /\ ~InPool(t) /\ InQueue(t)
  BY <1>1, <1>3, <1>5 DEF IInv, EveryThreadIsSomewhere, InQueue, Registered
<1>10. \A c \in rpc : c.tid = t => IsStale(c)
  BY <1>3, <1>4 DEF IInv, CallInv
<1> QED BY <1>1, <1>2, <1>3, <1>5, <1>6, <1>7, <1>8, <1>9, <1>10

\* A turn leaves its thread running with an empty request or stopped at one, and
\* in the queue, among the timed waiters or in the background.
TurnLeaves(t, v, g) ==
    /\ next_turns' = [next_turns EXCEPT ![t] = v]
    /\ guest' = [guest EXCEPT ![t] = g]
    /\ \/ g = "stopped" /\ v \in Filed
       \/ g \in {"running", "exiting", "background"} /\ v = "empty"
    /\ \/ /\ g # "background"
          /\ UNCHANGED <<queue, timed_waiters, external_io>>
       \/ /\ v \in {"sleep", "pause"}
          /\ queue' = queue \ {t} /\ timed_waiters' = timed_waiters \cup {t}
          /\ external_io' = external_io
       \/ /\ g = "background"
          /\ queue' = queue \ {t} /\ external_io' = external_io \cup {t}
          /\ timed_waiters' = timed_waiters
    /\ UNCHANGED <<removals, admissions, futex_waiters, killed, mm, teardown, failed, terminal, rpc>>

\* A turn that ends in one of these ways keeps the invariant.
LEMMA TurnKeeps ==
    ASSUME IInv, NEW t \in Tids, NEW r \in Filed, Takes(t, r), NEW v, NEW g, TurnLeaves(t, v, g)
    PROVE  IInv'
<1>1. /\ ~failed /\ selected' = NoTid
      /\ daemon' \in Daemons /\ daemon'.at = "top"
      /\ next_turns[t] = r /\ guest[t] = "stopped"
      /\ InQueue(t) /\ t \notin admissions /\ ~InPool(t) /\ t \notin killed
      /\ \A u \in Tids : ~Holds(u)
      /\ teardown = NoTeardown
      /\ \A c \in rpc : c.tid = t => IsStale(c)
  BY TakenTurn
<1>2. /\ next_turns' = [next_turns EXCEPT ![t] = v]
      /\ guest' = [guest EXCEPT ![t] = g]
      /\ \/ g = "stopped" /\ v \in Filed
         \/ g \in {"running", "exiting", "background"} /\ v = "empty"
      /\ UNCHANGED <<removals, admissions, futex_waiters, killed, mm, teardown, failed, terminal, rpc>>
  BY DEF TurnLeaves
<1>3. \/ g # "background" /\ UNCHANGED <<queue, timed_waiters, external_io>>
      \/ /\ v \in {"sleep", "pause"}
         /\ queue' = queue \ {t} /\ timed_waiters' = timed_waiters \cup {t}
         /\ external_io' = external_io
      \/ /\ g = "background"
         /\ queue' = queue \ {t} /\ external_io' = external_io \cup {t}
         /\ timed_waiters' = timed_waiters
  BY DEF TurnLeaves
<1>4. v \in Turns /\ g \in Doing /\ v # "none" /\ g \notin {"none", "calling", "execing"} /\ r # "none"
  BY <1>2 DEF Turns, Filed, Requests, Doing
<1>5. next_turns \in [Tids -> Turns] /\ guest \in [Tids -> Doing]
  BY DEF IInv, TypeInv, MapTypes
<1>6. /\ next_turns'[t] = v /\ guest'[t] = g
      /\ \A u \in Tids \ {t} : next_turns'[u] = next_turns[u] /\ guest'[u] = guest[u]
  BY <1>2, <1>5
<1>7. TypeInv'
  <2>1. SetTypes'
    BY <1>2, <1>3 DEF IInv, TypeInv, SetTypes
  <2>2. MapTypes'
    BY <1>2, <1>4, <1>5 DEF IInv, TypeInv, MapTypes
  <2> QED BY <1>1, <1>2, <2>1, <2>2, TypeFrames DEF IInv, TypeInv
<1>8. ThreadInv'
  <2>1. removals[t] = "none"
    BY <1>1 DEF InQueue
  <2>2. /\ g \notin {"none", "stopped"} => v = "empty"
        /\ g = "stopped" => v \in Filed
    BY <1>2
  <2>3. ASSUME NEW u \in Tids \ {t}
        PROVE  next_turns'[u] = next_turns[u] /\ guest'[u] = guest[u] /\ removals'[u] = removals[u]
    BY <1>2, <1>6
  <2>4. /\ guest'[t] \notin {"none", "stopped"} => next_turns'[t] = "empty"
        /\ guest'[t] = "stopped" => next_turns'[t] \in Filed
        /\ guest'[t] # "none" /\ next_turns'[t] # "none"
        /\ t \notin killed' /\ removals'[t] # "Retire"
    BY <1>1, <1>2, <1>4, <1>6, <2>1, <2>2
  <2>5. UNCHANGED <<killed, teardown>>
    BY <1>2
  <2> QED BY <2>3, <2>4, <2>5 DEF IInv, ThreadInv
<1>9. CallInv'
  BY <1>1, <1>2, <1>6, SameStale, CallsAreTyped DEF IInv, CallInv
<1>10. Registered' = Registered
  BY <1>1, <1>4, <1>6 DEF Registered
<1>11. ExecInv'
  <2>1. \A u \in Tids : guest'[u] # "execing"
    BY <1>1, <1>4, <1>6 DEF Holds
  <2> QED BY <1>1, <1>2, <2>1 DEF ExecInv, NoTeardown
<1>12. GrantInv'
  <2>1. \A u \in Tids : Holds(u)' => u = t /\ g \in {"running", "exiting"}
    BY <1>1, <1>2, <1>4, <1>6, SameStale DEF Holds
  <2>2. g \in {"running", "exiting"} => UNCHANGED queue
    BY <1>2, <1>3
  <2> QED BY <1>1, <1>2, <2>1, <2>2 DEF GrantInv, InQueue
<1>13. DaemonInv'
  BY <1>1 DEF DaemonInv, EndsWithNobodyLeft
<1>14. PoolInv'
  <2>1. t \notin futex_waiters \cup timed_waiters \cup external_io
    BY <1>1 DEF InPool
  <2>2. \A u \in queue' : next_turns'[u] # "none" \/ removals'[u] # "none"
    BY <1>2, <1>3, <1>4, <1>6 DEF IInv, PoolInv, TypeInv, SetTypes
  <2>3. \A u \in futex_waiters' : next_turns'[u] = "futex"
    BY <1>2, <1>6, <2>1 DEF IInv, PoolInv, TypeInv, SetTypes
  <2>4. \A u \in timed_waiters' \ futex_waiters' : next_turns'[u] \in {"sleep", "pause"}
    BY <1>2, <1>3, <1>6, <2>1 DEF IInv, PoolInv, TypeInv, SetTypes
  <2>5. \A u \in external_io' : next_turns'[u] # "none" /\ u \notin futex_waiters' \cup timed_waiters'
    <3>1. \A u \in external_io : /\ u \in Tids /\ next_turns[u] # "none"
                                 /\ u \notin futex_waiters \cup timed_waiters
      BY DEF IInv, PoolInv, TypeInv, SetTypes
    <3>2. next_turns'[t] # "none" /\ \A u \in external_io : next_turns'[u] # "none" /\ u # t
      BY <1>4, <1>6, <2>1, <3>1
    <3>3. external_io' \subseteq external_io \cup {t}
      BY <1>3
    <3>4. t \in external_io' => timed_waiters' = timed_waiters
      BY <1>2, <1>3, <2>1
    <3>5. timed_waiters' \subseteq timed_waiters \cup {t} /\ futex_waiters' = futex_waiters
      BY <1>2, <1>3
    <3> QED BY <2>1, <3>1, <3>2, <3>3, <3>4, <3>5
  <2> QED BY <2>2, <2>3, <2>4, <2>5 DEF PoolInv
<1>15. HandoverIsPaired'
  BY <1>2, <1>10 DEF IInv, HandoverIsPaired
<1>16. EveryThreadIsSomewhere'
  BY <1>1, <1>2, <1>3, <1>10 DEF IInv, EveryThreadIsSomewhere, InQueue, InPool
<1> QED BY <1>7, <1>8, <1>9, <1>11, <1>12, <1>13, <1>14, <1>15, <1>16 DEF IInv

\* finish_selected_turn: a poll is retried, a sleep is parked, a call goes to the
\* background, a request is granted.
LEMMA FinishKeeps ==
    ASSUME IInv, NEW t \in Tids, NEW r \in Filed,
           BackOff(t) \/ Park(t) \/ RunInBackground(t) \/ Grant(t, r)
    PROVE  IInv'
<1> USE DEF queue_vars, buffers, pools, lives, verdicts, guests
<1>1. next_turns \in [Tids -> Turns] /\ guest \in [Tids -> Doing]
      /\ {"poll", "sleep", "pause", "io", "go"} \subseteq Filed
  BY DEF IInv, TypeInv, MapTypes, Filed, Requests
<1>2. CASE BackOff(t)
  <2>1. Takes(t, "poll") /\ guest[t] = "stopped"
    BY <1>1, <1>2, TakenTurn DEF BackOff
  <2>2. TurnLeaves(t, "go", "stopped")
    BY <1>1, <1>2, <2>1 DEF BackOff, TurnLeaves
  <2> QED BY <1>1, <2>1, <2>2, TurnKeeps
<1>3. CASE Park(t)
  <2>1. PICK q \in {"sleep", "pause"} : Takes(t, q)
    BY <1>3 DEF Park
  <2>2. q \in Filed /\ next_turns[t] = q /\ guest[t] = "stopped"
    BY <1>1, <2>1, TakenTurn
  <2>3. TurnLeaves(t, q, "stopped")
    BY <1>1, <1>3, <2>2 DEF Park, TurnLeaves
  <2> QED BY <2>1, <2>2, <2>3, TurnKeeps
<1>4. CASE RunInBackground(t)
  <2>1. TurnLeaves(t, "empty", "background")
    BY <1>4 DEF RunInBackground, TurnLeaves
  <2> QED BY <1>1, <1>4, <2>1, TurnKeeps DEF RunInBackground
<1>5. CASE Grant(t, r)
  <2>1. TurnLeaves(t, "empty", IF r = "exit" THEN "exiting" ELSE "running")
    BY <1>5 DEF Grant, TurnLeaves
  <2> QED BY <1>5, <2>1, TurnKeeps DEF Grant
<1> QED BY <1>2, <1>3, <1>4, <1>5

-----------------------------------------------------------------------------
(* Step 2 and 3.                                                           *)

\* After the drains: the threads in the queue, those of them that are awake, and
\* the waiters with a deadline.
Arrived == Drained(queue \ QueuedSleeps(queue))

Awake == {t \in Arrived : ~ (RegistersQueuedSleeps /\ next_turns[t] = "sleep")}

Sleeping == timed_waiters \cup QueuedSleeps(queue) \cup (Arrived \ Awake)

\* The drains lose no thread and leave each of them in one place.
LEMMA DrainsPartition ==
    ASSUME IInv, ~failed
    PROVE  /\ Registered = Awake \cup Sleeping \cup futex_waiters \cup external_io
           /\ Awake \cap (Sleeping \cup futex_waiters \cup external_io) = {}
           /\ external_io \cap (Sleeping \cup futex_waiters) = {}
           /\ \A t \in Sleeping \ futex_waiters : next_turns[t] \in {"sleep", "pause"}
<1>1. QueuedSleeps(queue) = {t \in QueuedSleeps(queue) :
                                t \in Registered /\ InQueue(t) /\ next_turns[t] = "sleep"}
  BY DEF QueuedSleeps, InQueue, Registered, IInv, TypeInv, SetTypes
<1>2. Arrived = {t \in Registered : (InQueue(t) \/ t \in admissions) /\ t \notin QueuedSleeps(queue)}
  <2> SUFFICES ASSUME NEW t
               PROVE  t \in Arrived <=> /\ t \in Registered
                                        /\ InQueue(t) \/ t \in admissions
                                        /\ t \notin QueuedSleeps(queue)
    OBVIOUS
  <2>1. t \in Arrived <=> /\ t \in Tids
                          /\ \/ InQueue(t) /\ t \notin QueuedSleeps(queue)
                             \/ t \in admissions /\ removals[t] # "Retire" /\ t \in Registered
    BY DEF Arrived, Drained, InQueue, IInv, TypeInv, SetTypes, Registered
  <2>2. t \in Tids /\ InQueue(t) => t \in Registered
    BY DEF InQueue, Registered, IInv, PoolInv
  <2>3. t \in Registered => t \in Tids /\ removals[t] # "Retire"
    BY DEF Registered, IInv, ThreadInv
  <2>4. t \in Registered /\ t \in admissions => t \notin QueuedSleeps(queue)
    BY <1>1 DEF IInv, EveryThreadIsSomewhere
  <2> QED BY <2>1, <2>2, <2>3, <2>4
<1>3. Awake \subseteq Arrived /\ \A t \in Arrived \ Awake : next_turns[t] = "sleep"
  BY DEF Awake
<1>4. /\ futex_waiters \cup timed_waiters \cup external_io \subseteq Registered
      /\ external_io \cap (futex_waiters \cup timed_waiters) = {}
      /\ \A t \in timed_waiters \ futex_waiters : next_turns[t] \in {"sleep", "pause"}
  BY DEF IInv, TypeInv, SetTypes, PoolInv, Registered
<1>5. \A t \in Registered :
         /\ InQueue(t) \/ t \in admissions \/ t \in futex_waiters \cup timed_waiters \cup external_io
         /\ ~ ((InQueue(t) \/ t \in admissions) /\ t \in futex_waiters \cup timed_waiters \cup external_io)
  BY DEF IInv, EveryThreadIsSomewhere, InPool
<1>6. QueuedSleeps(queue) \subseteq Registered
      /\ \A t \in QueuedSleeps(queue) : InQueue(t) /\ next_turns[t] = "sleep"
  BY <1>1
<1> HIDE DEF Arrived
<1> QED BY <1>2, <1>3, <1>4, <1>5, <1>6 DEF Sleeping

\* What a pass does: D falls due, R returns from the background.
Pass(D, R) ==
    /\ futex_waiters' = futex_waiters \ D
    /\ timed_waiters' = Sleeping \ D
    /\ external_io' = external_io \ R
    /\ next_turns' = [t \in Tids |-> IF t \in D \ futex_waiters THEN "due" ELSE next_turns[t]]
    /\ queue' = Awake \cup D \cup R
    /\ \/ selected' = NoTid /\ daemon' = At("top")
       \/ selected' \in queue' /\ daemon' = Awaits("await", selected', next_turns'[selected'])

\* step2 and step3 make such a pass.
LEMMA Step2IsAPass ==
    ASSUME IInv, Step2And3
    PROVE  \E D \in SUBSET Sleeping, R \in SUBSET external_io : Pass(D, R)
<1>1. PICK due \in {{}} \cup {{t} : t \in Finite(Sleeping)},
           ready \in SUBSET {t \in external_io : next_turns[t] = "continue"} :
         /\ external_io' = external_io \ ready
         /\ \/ /\ wake_timed_event(due, Sleeping \ due)
               /\ queue' = Awake \cup due \cup ready
               /\ \E t \in Awake \cup due \cup ready :
                     selected' = t /\ daemon' = Awaits("await", t, next_turns'[t])
            \/ /\ Awake \cup due \cup ready = {}
               /\ selected' = NoTid /\ daemon' = At("top")
               /\ \/ \E t \in Finite(Sleeping \ due) :
                        /\ wake_timed_event({t}, (Sleeping \ due) \ {t})
                        /\ queue' = {t}
                  \/ /\ wake_timed_event({}, Sleeping \ due)
                     /\ queue' = {}
  BY DEF Step2And3, Sleeping, Awake, Arrived
<1>2. due \in SUBSET Sleeping /\ ready \in SUBSET external_io /\ \A S : Finite(S) \subseteq S
  BY DEF Finite
<1>3. CASE /\ wake_timed_event(due, Sleeping \ due)
           /\ queue' = Awake \cup due \cup ready
           /\ \E t \in Awake \cup due \cup ready :
                 selected' = t /\ daemon' = Awaits("await", t, next_turns'[t])
  <2>1. Pass(due, ready)
    BY <1>1, <1>3 DEF Pass, wake_timed_event, Set
  <2> QED BY <1>2, <2>1
<1>4. ASSUME Awake \cup due \cup ready = {}, selected' = NoTid, daemon' = At("top"),
             NEW t \in Finite(Sleeping \ due),
             wake_timed_event({t}, (Sleeping \ due) \ {t}), queue' = {t}
      PROVE  \E D \in SUBSET Sleeping, R \in SUBSET external_io : Pass(D, R)
  <2>1. due = {} /\ ready = {} /\ Awake = {} /\ t \in Sleeping
    BY <1>2, <1>4
  <2>2. wake_timed_event({t}, Sleeping \ {t})
    BY <1>4, <2>1
  <2>3. Pass({t}, {})
    BY <1>1, <1>4, <2>1, <2>2 DEF Pass, wake_timed_event, Set
  <2> QED BY <2>1, <2>3
<1>5. CASE /\ Awake \cup due \cup ready = {}
           /\ selected' = NoTid /\ daemon' = At("top")
           /\ wake_timed_event({}, Sleeping \ due)
           /\ queue' = {}
  <2>1. Pass({}, ready)
    BY <1>1, <1>5 DEF Pass, wake_timed_event, Set
  <2> QED BY <1>2, <2>1
<1> QED BY <1>1, <1>3, <1>4, <1>5

\* step2_process_blocked and step3_peek
LEMMA Step2And3Keeps ==
    ASSUME IInv, Step2And3
    PROVE  IInv'
<1>1. /\ daemon.at = "step2" /\ ~failed /\ ~terminal
      /\ removals' = [t \in Tids |-> "none"] /\ admissions' = {}
      /\ UNCHANGED <<killed, mm, teardown, failed, guest, rpc>>
  BY DEF Step2And3, lives, guests
<1>2. terminal' \in BOOLEAN
  BY <1>1 DEF Step2And3, IsDeadlocked, IInv, TypeInv
<1>3. teardown = NoTeardown /\ \A t \in Tids : ~Holds(t)
  <2>1. \A t \in Tids : ~Holds(t)
    BY <1>1 DEF IInv, GrantInv
  <2>2. teardown.caller \in Tids \cup {NoTid}
    BY DEF IInv, TypeInv, ExecTypes
  <2> QED BY <2>1, <2>2 DEF IInv, ExecInv, Holds
<1>4. PICK D \in SUBSET Sleeping, R \in SUBSET external_io : Pass(D, R)
  BY Step2IsAPass
<1>5. /\ futex_waiters' = futex_waiters \ D
      /\ timed_waiters' = Sleeping \ D
      /\ external_io' = external_io \ R
      /\ queue' = Awake \cup D \cup R
      /\ \A t \in Tids : next_turns'[t] = IF t \in D \ futex_waiters THEN "due" ELSE next_turns[t]
  BY <1>4 DEF Pass
<1>6. /\ Registered = Awake \cup Sleeping \cup futex_waiters \cup external_io
      /\ Registered \subseteq Tids
      /\ Awake \cap (Sleeping \cup futex_waiters \cup external_io) = {}
      /\ external_io \cap (Sleeping \cup futex_waiters) = {}
      /\ \A t \in Sleeping \ futex_waiters : next_turns[t] \in {"sleep", "pause"}
  BY <1>1, DrainsPartition DEF Registered
<1>7. /\ \A t \in D \ futex_waiters : t \in Tids /\ next_turns[t] \in {"sleep", "pause"}
      /\ \A t \in Tids \ (D \ futex_waiters) : next_turns'[t] = next_turns[t]
      /\ \A t \in D \ futex_waiters : next_turns'[t] = "due"
  BY <1>4, <1>5, <1>6
<1>8. Registered' = Registered
  BY <1>7 DEF Registered
<1>9. TypeInv'
  <2>1. SetTypes'
    BY <1>1, <1>4, <1>5, <1>6 DEF IInv, TypeInv, SetTypes
  <2>2. next_turns' \in [Tids -> Turns]
    BY <1>4 DEF Pass, IInv, TypeInv, MapTypes, Turns, Filed, Requests
  <2>3. MapTypes'
    BY <1>1, <2>2 DEF IInv, TypeInv, MapTypes, Dispositions
  <2>4. "top" \in Places /\ "await" \in Places
    BY DEF Places
  <2>5. CASE selected' = NoTid /\ daemon' = At("top")
    BY <1>1, <1>2, <2>1, <2>3, <2>4, <2>5, AtIsADaemon, TypeFrames DEF IInv, TypeInv
  <2>6. CASE selected' \in queue' /\ daemon' = Awaits("await", selected', next_turns'[selected'])
    <3>1. selected' \in Tids /\ next_turns'[selected'] \in Turns
      BY <2>1, <2>2, <2>6 DEF SetTypes
    <3> QED BY <1>1, <1>2, <2>1, <2>3, <2>4, <2>6, <3>1, AwaitsIsADaemon, TypeFrames DEF IInv, TypeInv
  <2> QED BY <1>4, <2>5, <2>6 DEF Pass
<1>10. ThreadInv'
  <2>1. \A t \in D \ futex_waiters : guest[t] = "stopped" /\ t \notin killed
    <3>1. teardown.observed = {}
      BY <1>3 DEF NoTeardown
    <3> QED BY <1>7, <3>1 DEF IInv, ThreadInv
  <2>2. "due" \in Filed
    BY DEF Filed, Requests
  <2> QED BY <1>1, <1>7, <2>1, <2>2 DEF IInv, ThreadInv
<1>11. CallInv'
  <2>1. \A t \in Tids : next_turns[t] = "empty" => next_turns'[t] = "empty"
    BY <1>7
  <2> QED BY <1>1, <2>1, SameStale, CallsAreTyped DEF IInv, CallInv
<1>12. ExecInv'
  BY <1>1, <1>8 DEF IInv, ExecInv
<1>13. GrantInv'
  BY <1>1, <1>3, SameHolders DEF GrantInv
<1>14. DaemonInv'
  <2>1. CASE selected' = NoTid /\ daemon' = At("top")
    BY <2>1 DEF DaemonInv, At, EndsWithNobodyLeft
  <2>2. CASE selected' \in queue' /\ daemon' = Awaits("await", selected', next_turns'[selected'])
    BY <1>1, <2>2 DEF DaemonInv, Awaits, EndsWithNobodyLeft
  <2> QED BY <1>4, <2>1, <2>2 DEF Pass
<1>15. PoolInv'
  <2>1. \A t \in futex_waiters' : next_turns'[t] = "futex"
    BY <1>5, <1>6 DEF IInv, PoolInv
  <2>2. \A t \in timed_waiters' \ futex_waiters' : next_turns'[t] \in {"sleep", "pause"}
    BY <1>5, <1>6
  <2>3. \A t \in external_io' :
           next_turns'[t] # "none" /\ t \notin futex_waiters' \cup timed_waiters'
    BY <1>4, <1>5, <1>6, <1>8 DEF Registered
  <2>4. \A t \in queue' : next_turns'[t] # "none"
    BY <1>4, <1>5, <1>6, <1>8 DEF Registered
  <2> QED BY <2>1, <2>2, <2>3, <2>4 DEF PoolInv
<1>16. HandoverIsPaired'
  BY <1>1 DEF HandoverIsPaired
<1>17. EveryThreadIsSomewhere'
  BY <1>1, <1>4, <1>5, <1>6, <1>8 DEF EveryThreadIsSomewhere, InQueue, InPool
<1> QED BY <1>9, <1>10, <1>11, <1>12, <1>13, <1>14, <1>15, <1>16, <1>17 DEF IInv

-----------------------------------------------------------------------------
(* The invariant holds.                                                    *)

\* The initial state has the invariant.
LEMMA InitKeeps == Init => IInv
<1> SUFFICES ASSUME Init PROVE IInv
  OBVIOUS
<1>1. TypeInv
  <2>1. SetTypes /\ CallTypes /\ ExecTypes
    BY ProcessAssumption DEF Init, SetTypes, CallTypes, ExecTypes, NoTeardown
  <2>2. MapTypes
    BY DEF Init, MapTypes, Turns, Dispositions, Doing
  <2> QED BY <2>1, <2>2, AtIsADaemon DEF Init, TypeInv, Places
<1>2. ThreadInv /\ CallInv /\ ExecInv
  BY DEF Init, ThreadInv, CallInv, ExecInv, NoTeardown
<1>3. GrantInv /\ DaemonInv /\ PoolInv
  BY DEF Init, GrantInv, Holds, DaemonInv, At, EndsWithNobodyLeft, PoolInv
<1>4. HandoverIsPaired /\ EveryThreadIsSomewhere
  BY DEF Init, HandoverIsPaired, EveryThreadIsSomewhere, InQueue, InPool, Registered
<1> QED BY <1>1, <1>2, <1>3, <1>4 DEF IInv

\* A stuttering step keeps it.
LEMMA StutterKeeps ==
    ASSUME IInv, UNCHANGED vars
    PROVE  IInv'
<1>1. /\ UNCHANGED <<queue, next_turns, buffers, pools, lives, verdicts, guests>>
      /\ UNCHANGED <<selected, daemon, removals, failed, terminal>>
  BY DEF vars, queue_vars, buffers, verdicts
<1>2. TypeInv'
  BY <1>1, DaemonFrame DEF IInv, TypeInv
<1>3. GrantInv'
  BY <1>1, DaemonFrame DEF IInv, GrantInv, InQueue
<1>4. DaemonInv'
  BY <1>1, DaemonFrame DEF IInv, DaemonInv, EndsWithNobodyLeft
<1> QED BY <1>1, <1>2, <1>3, <1>4, DaemonFrame DEF IInv

\* Every step keeps it.
LEMMA NextKeeps == IInv /\ [Next]_vars => IInv'
<1> SUFFICES ASSUME IInv, [Next]_vars PROVE IInv'
  OBVIOUS
<1>1. ASSUME NEW t \in Tids, NEW call \in Calls, Send(t, call) PROVE IInv'
  BY <1>1, SendKeeps
<1>2. ASSUME NEW c \in rpc, Handle(c) PROVE IInv'
  BY <1>2, DropStaleKeeps, request_putKeeps, FutexWaitKeeps, FutexWakeKeeps, CreateChildKeeps,
     PrepareExecKeeps DEF Handle
<1>3. ASSUME NEW t \in Tids, Deregister(t) PROVE IInv'
  BY <1>3, DeregisterKeeps
<1>4. CASE Exec
  BY <1>4, ExecFailsKeeps, LeaderReconnects, AnotherReconnects DEF Exec
<1>5. CASE BackendFails
  BY <1>5, BackendFailsKeeps
<1>6. CASE Finish
  <2>1. CASE AbandonTurn
    BY <2>1, BackToTheLoop
  <2>2. ASSUME NEW t \in Tids, BackOff(t) \/ Park(t) \/ RunInBackground(t)
        PROVE  IInv'
    <3>1. "go" \in Filed
      BY DEF Filed, Requests
    <3> QED BY <2>2, <3>1, FinishKeeps
  <2>3. ASSUME NEW t \in Tids, NEW r \in Filed, Grant(t, r)
        PROVE  IInv'
    BY <2>3, FinishKeeps
  <2> QED BY <1>6, <2>1, <2>2, <2>3 DEF Finish
<1>7. CASE Daemon
  BY <1>6, <1>7, LoopTopKeeps, Step1Keeps, BackToTheLoop, Step2EndsKeeps, Step2And3Keeps DEF Daemon
<1>8. CASE UNCHANGED vars
  BY <1>8, StutterKeeps
<1> QED BY <1>1, <1>2, <1>3, <1>4, <1>5, <1>7, <1>8 DEF Next

\* The inductive invariant holds throughout.
LEMMA IInvHolds == Spec => []IInv
BY InitKeeps, NextKeeps, PTL DEF Spec

-----------------------------------------------------------------------------
(* Invariants.                                                             *)

\* At most one guest thread holds the grant, whatever dies, execs or fails while
\* it does (finish_selected_turn against the request handlers).
THEOREM Sequentialized == Spec => []OneGuestRuns
<1>1. IInv => OneGuestRuns
  BY DEF IInv, GrantInv, Holds, OneGuestRuns
<1> QED BY <1>1, IInvHolds, PTL

\* While the run goes on each registered thread is in exactly one of the run
\* queue, the admissions to come and the blocked pools: no wake is lost.
THEOREM NoThreadIsLost == Spec => []EveryThreadIsSomewhere
<1>1. IInv => EveryThreadIsSomewhere
  BY DEF IInv
<1> QED BY <1>1, IInvHolds, PTL

\* The assertions of drain_pending_run_queue_removals hold.
THEOREM HandoversAreWhole == Spec => []HandoverIsPaired
<1>1. IInv => HandoverIsPaired
  BY DEF IInv
<1> QED BY <1>1, IInvHolds, PTL

\* No handler panics for want of an entry or at a second put: a request that is
\* admitted finds its sender's entry awaiting it (request_put).
THEOREM NoRequestPanics == Spec => []AdmittedRequestsAreAwaited
<1>1. IInv => AdmittedRequestsAreAwaited
  BY DEF IInv, CallInv, AdmittedRequestsAreAwaited
<1> QED BY <1>1, IInvHolds, PTL

\* The scheduler's loop ends by itself only when no thread is left.
THEOREM LeavesNobodyBehind == Spec => []EndsWithNobodyLeft
<1>1. IInv => EndsWithNobodyLeft
  BY DEF IInv, DaemonInv
<1> QED BY <1>1, IInvHolds, PTL

-----------------------------------------------------------------------------
(* Action properties.                                                      *)

\* An id that is registered again is admitted, with an empty request, and is not
\* the one selected.
LEMMA NewEntriesAreAdmitted ==
    ASSUME IInv, Next, NEW t \in Tids, next_turns[t] = "none", next_turns'[t] # "none"
    PROVE  next_turns'[t] = "empty" /\ t \in admissions' /\ t # selected'
<1>1. CASE \E c \in rpc, child \in Tids : CreateChild(c, child)
  <2>1. PICK c \in rpc, child \in Tids : CreateChild(c, child)
    BY <1>1
  <2>2. selected = NoTid
    BY <2>1, CallerHolds DEF CreateChild, HandlesForHolder
  <2>3. next_turns' = [next_turns EXCEPT ![child] = "empty"] /\ next_turns \in [Tids -> Turns]
        /\ admissions' = admissions \cup {child} /\ selected' = selected
    BY <2>1 DEF CreateChild, queue_vars, IInv, TypeInv, MapTypes
  <2> QED BY <2>2, <2>3, ProcessAssumption
<1>2. CASE \E refused \in BOOLEAN : reconnect_exec(refused)
  <2>1. PICK refused \in BOOLEAN : reconnect_exec(refused)
    BY <1>2
  <2>2. selected = NoTid
    BY <2>1, ExecCaller DEF reconnect_exec
  <2>3. /\ t = Leader /\ teardown.caller # Leader /\ next_turns'[t] = "empty"
        /\ Leader \in admissions' /\ selected' = selected
    BY <2>1, ProcessAssumption DEF reconnect_exec, Set, queue_vars
  <2> QED BY <2>2, <2>3, ProcessAssumption
<1>3. CASE Step2And3
  <2>1. PICK D \in SUBSET Sleeping, R \in SUBSET external_io : Pass(D, R)
    BY <1>3, Step2IsAPass
  <2>2. t \notin Sleeping
    BY <1>3, DrainsPartition DEF Step2And3, Registered
  <2> QED BY <2>1, <2>2 DEF Pass
<1>4. CASE ExecFails \/ Deregister(t)
  BY <1>4 DEF ExecFails, Deregister, logically_kill_thread, Set
<1>5. ASSUME NEW u \in Tids, Deregister(u) PROVE FALSE
  BY <1>5 DEF Deregister, logically_kill_thread, Set
<1>6. ASSUME NEW c \in rpc, DropStale(c) \/ request_put(c) \/ FutexWait(c) \/ FutexWake(c) \/ PrepareExec(c)
      PROVE  FALSE
  BY <1>6 DEF DropStale, request_put, FutexWait, FutexWake, PrepareExec, IInv, TypeInv, MapTypes
<1>7. ASSUME NEW u \in Tids, BackOff(u) \/ Park(u) \/ RunInBackground(u) \/ \E r \in Filed : Grant(u, r)
      PROVE  FALSE
  BY <1>7 DEF BackOff, Park, RunInBackground, Grant, Takes, IInv, TypeInv, MapTypes
<1>8. CASE \/ \E u \in Tids, call \in Calls : Send(u, call)
           \/ BackendFails \/ LoopTop \/ Step1 \/ Step1Resumes \/ Step2Ends \/ AbandonTurn
  BY <1>8 DEF Send, BackendFails, LoopTop, Step1, Step1Resumes, Step2Ends, AbandonTurn
<1> QED BY <1>1, <1>2, <1>3, <1>4, <1>5, <1>6, <1>7, <1>8 DEF Next, Handle, Exec, Daemon, Finish

\* A retired thread is never given a turn: only a registration, by a clone or an
\* exec, brings its id back.
THEOREM TheDeadStayDead == Spec => NoTurnForTheDead
<1>1. IInv /\ [Next]_vars =>
         [\A t \in Tids :
             (next_turns[t] = "none" /\ next_turns'[t] # "none") =>
                /\ next_turns'[t] = "empty"
                /\ t \in admissions'
                /\ t # selected']_vars
  BY NewEntriesAreAdmitted
<1> QED BY <1>1, IInvHolds, PTL DEF Spec, NoTurnForTheDead

\* The verdict of a pass is about a run that is stuck.
LEMMA VerdictIsReal ==
    ASSUME IInv, Step2And3, terminal', NEW t \in Registered
    PROVE  /\ guest[t] = "stopped"
           /\ \/ t \in futex_waiters' \ timed_waiters'
              \/ t \in timed_waiters' /\ next_turns[t] = "pause"
<1>1. /\ Awake = {} /\ external_io = {} /\ Finite(Sleeping) = {}
      /\ timed_waiters' = Sleeping /\ futex_waiters' = futex_waiters
      /\ ~failed /\ daemon.at = "step2"
  <2>1. PICK due \in {{}} \cup {{u} : u \in Finite(Sleeping)},
             ready \in SUBSET {u \in external_io : next_turns[u] = "continue"} :
           /\ external_io' = external_io \ ready
           /\ Awake \cup due \cup ready = {}
           /\ Finite(Sleeping \ due) = {}
           /\ wake_timed_event({}, Sleeping \ due)
           /\ terminal' = IsDeadlocked(Sleeping \ due, external_io')
    BY DEF Step2And3, Sleeping, Awake, Arrived
  <2>2. due = {} /\ ready = {} /\ Sleeping \ due = Sleeping /\ external_io' = external_io
    BY <2>1
  <2> QED BY <2>1, <2>2 DEF IsDeadlocked, wake_timed_event, Step2And3
<1>2. t \in Tids /\ t \in Sleeping \cup futex_waiters
  BY <1>1, DrainsPartition DEF Registered
<1>3. t \in Sleeping => next_turns[t] = "pause"
  BY <1>1 DEF Finite
<1>4. t \in futex_waiters => next_turns[t] = "futex"
  BY DEF IInv, PoolInv
<1>5. guest[t] = "stopped"
  <2>1. teardown = NoTeardown
    BY <1>1 DEF IInv, TypeInv, ExecTypes, GrantInv, ExecInv, Holds
  <2>2. next_turns[t] \in {"pause", "futex"}
    BY <1>2, <1>3, <1>4
  <2> QED BY <1>2, <2>1, <2>2 DEF IInv, ThreadInv, NoTeardown
<1> QED BY <1>1, <1>2, <1>3, <1>4, <1>5

\* The scheduler declares a guest deadlock only when every thread waits for a
\* wake or a signal that no thread is left to give (step2d_decide_empty_queue).
THEOREM DeadlocksAreReal == Spec => DeadlockIsReal
<1>1. ASSUME IInv, Next, daemon.at = "step2", ~terminal, terminal' PROVE Step2And3
  <2>1. ASSUME NEW refused \in BOOLEAN, reconnect_exec(refused) PROVE FALSE
    BY <1>1, <2>1, ExecCaller DEF reconnect_exec
  <2>2. CASE ExecFails \/ \E t \in Tids : Deregister(t)
    BY <1>1, <2>2 DEF ExecFails, Deregister, verdicts
  <2>3. CASE \E c \in rpc : Handle(c)
    BY <1>1, <2>3 DEF Handle, DropStale, request_put, FutexWait, FutexWake, CreateChild, PrepareExec,
       verdicts
  <2>4. CASE BackendFails \/ (\E t \in Tids, call \in Calls : Send(t, call))
    BY <1>1, <2>4 DEF BackendFails, Send, verdicts
  <2>5. CASE LoopTop \/ Step1 \/ Step1Resumes \/ Step2Ends \/ Finish
    BY <1>1, <2>5 DEF LoopTop, Step1, Step1Resumes, Step2Ends, Finish, AbandonTurn, BackOff, Park,
       RunInBackground, Grant, Takes, verdicts
  <2> QED BY <1>1, <2>1, <2>2, <2>3, <2>4, <2>5 DEF Next, Exec, Daemon
<1>2. IInv /\ [Next]_vars =>
         [daemon.at = "step2" /\ ~terminal /\ terminal' =>
            \A t \in Registered :
               /\ guest[t] = "stopped"
               /\ \/ t \in futex_waiters' \ timed_waiters'
                  \/ t \in timed_waiters' /\ next_turns[t] = "pause"]_vars
  BY <1>1, VerdictIsReal
<1> QED BY <1>2, IInvHolds, PTL DEF Spec, DeadlockIsReal

-----------------------------------------------------------------------------
(* The contract of the run queue's selection.                              *)

\* A step that leaves the selection closed, or closes it.
LockStep == [Lock!Unlocked \/ Lock!Close]_<<queue, selected>>

\* The request handlers.
LEMMA HandlersKeepTheLock ==
    ASSUME IInv, NEW c \in rpc, Handle(c)
    PROVE  LockStep
<1>1. CASE FutexWait(c) \/ FutexWake(c)
  <2>1. selected = NoTid /\ selected' = NoTid /\ queue' \subseteq Tids
    BY <1>1, CallerHolds DEF FutexWait, FutexWake, HandlesForHolder, IInv, TypeInv, SetTypes
  <2> QED BY <2>1 DEF LockStep, Lock!Unlocked
<1>2. CASE DropStale(c) \/ request_put(c) \/ PrepareExec(c) \/ \E child \in Tids : CreateChild(c, child)
  BY <1>2 DEF DropStale, request_put, PrepareExec, CreateChild, queue_vars, LockStep
<1> QED BY <1>1, <1>2 DEF Handle

\* Deaths are deferred to the drain, unless the run failed and nothing is selected.
LEMMA DeathsKeepTheLock ==
    ASSUME IInv, Exec \/ BackendFails \/ \E t \in Tids : Deregister(t)
    PROVE  LockStep
<1>1. CASE Exec
  BY <1>1 DEF Exec, ExecFails, reconnect_exec, queue_vars, LockStep
<1>2. CASE BackendFails
  BY <1>2 DEF BackendFails, LockStep, Lock!Close, Lock!Unlocked
<1>3. ASSUME NEW t \in Tids, Deregister(t) PROVE LockStep
  <2>1. selected' = selected /\ (queue' = queue \/ failed)
    BY <1>3 DEF Deregister, logically_kill_thread, KilledQueue
  <2>2. IInv' /\ (failed => selected = NoTid)
    BY <1>3, DeregisterKeeps DEF IInv, DaemonInv
  <2> QED BY <2>1, <2>2 DEF LockStep, Lock!Unlocked, IInv, TypeInv, SetTypes
<1> QED BY <1>1, <1>2, <1>3

\* The daemon closes the selection and opens it again when the turn is over.
LEMMA TheDaemonKeepsTheLock ==
    ASSUME IInv, Daemon
    PROVE  LockStep
<1>1. CASE LoopTop \/ Step1 \/ Step1Resumes
  BY <1>1 DEF LoopTop, Step1, Step1Resumes, queue_vars, LockStep
<1>2. CASE Step2Ends
  BY <1>2 DEF Step2Ends, IInv, TypeInv, SetTypes, DaemonInv, LockStep, Lock!Unlocked
<1>3. CASE Step2And3
  <2>1. selected = NoTid /\ IInv'
    BY <1>3, Step2And3Keeps DEF Step2And3, IInv, DaemonInv
  <2>2. selected' \in queue' \cup {NoTid}
    BY <1>3, Step2IsAPass DEF Pass
  <2> QED BY <2>1, <2>2 DEF LockStep, Lock!Unlocked, IInv, TypeInv, SetTypes
<1>4. CASE AbandonTurn
  BY <1>4 DEF AbandonTurn, IInv, DaemonInv, LockStep, Lock!Close
<1>5. ASSUME NEW t \in Tids, BackOff(t) \/ Park(t) \/ RunInBackground(t) \/ \E r \in Filed : Grant(t, r)
      PROVE  LockStep
  <2>1. selected = t /\ selected' = NoTid
    BY <1>5 DEF BackOff, Park, RunInBackground, Grant, Takes, IInv, DaemonInv
  <2>2. queue' \in {queue, queue \ {t}}
    BY <1>5 DEF BackOff, Park, RunInBackground, Grant
  <2> QED BY <2>1, <2>2, ProcessAssumption DEF LockStep, Lock!Close
<1> QED BY <1>1, <1>2, <1>3, <1>4, <1>5 DEF Daemon, Finish

\* The daemon and the handlers together keep the run queue's contract: while a
\* selection is open, nothing but its end changes the queue.
THEOREM LockRefinement == Spec => ImplementsSelectionLock
<1>1. Init => Lock!Init
  BY DEF Init, Lock!Init
<1>2. IInv /\ [Next]_vars => [Lock!Unlocked \/ Lock!Close]_<<queue, selected>>
  <2> SUFFICES ASSUME IInv, [Next]_vars PROVE LockStep
    BY DEF LockStep
  <2>1. CASE \E t \in Tids, call \in Calls : Send(t, call)
    BY <2>1 DEF Send, queue_vars, LockStep
  <2>2. CASE UNCHANGED vars
    BY <2>2 DEF vars, queue_vars, LockStep
  <2> QED BY <2>1, <2>2, HandlersKeepTheLock, DeathsKeepTheLock, TheDaemonKeepsTheLock DEF Next
<1> QED BY <1>1, <1>2, IInvHolds, PTL DEF Spec, ImplementsSelectionLock, Lock!Spec

=============================================================================
