---------------------------- MODULE TurnProtocol ----------------------------
(***************************************************************************)
(* The turn loop of the scheduler daemon (detcore/src/scheduler.rs,        *)
(* do_ordinary_turn_blocking and finish_selected_turn) racing the request  *)
(* handlers of detcore/src/tool_global.rs, which run on backend workers    *)
(* under the same mutex.  One action is one critical section: the daemon   *)
(* releases the mutex after step 1, and while it awaits the selected       *)
(* thread's request.                                                       *)
(*                                                                         *)
(* One process is modelled: its leader, which the process starts with, and *)
(* the threads it clones.  The run queue is its set of threads and the     *)
(* open selection (RunQueue models its order); time is the choice of which *)
(* deadlines have passed.                                                  *)
(***************************************************************************)
EXTENDS Integers, FiniteSets

CONSTANTS
    Tids,                   \* the DetTids of the process
    Leader,                 \* the thread group leader's
    NoTid,
    CancelsKilledRpcs,      \* backend.needs_killed_thread_rpc_cancellation
    RegistersQueuedSleeps,  \* queued_sleeps_registered_at_first_pass
    MaxExecs                \* bound: successful execs

ASSUME ProcessAssumption ==
    /\ Leader \in Tids
    /\ NoTid \notin Tids
    /\ {CancelsKilledRpcs, RegistersQueuedSleeps} \subseteq BOOLEAN
    /\ MaxExecs \in Nat

VARIABLES
    queue,          \* run_queue: the threads in it
    selected,       \* run_queue.tentative_selection
    next_turns,     \* per thread: "none", or its entry's request Ivar
    removals,       \* pending_run_queue_removals
    admissions,     \* pending_run_queue_admissions
    futex_waiters, timed_waiters, timed_out, external_io,  \* blocked
    killed,         \* logically_killed_threads
    exits,          \* committed_exits
    mm,             \* exec_incarnations: which image a thread's id names
    teardown,       \* exec_teardowns, of this process
    failed,         \* backend_failed()
    terminal,       \* terminal_deadlock.is_some()
    daemon,         \* where the daemon is, and the Ivar it awaits, live
                    \* while that is the one of the thread's entry
    guest,          \* what each guest thread is doing
    rpc             \* requests sent and not handled yet

queue_vars == <<queue, selected>>
buffers    == <<removals, admissions>>
pools      == <<futex_waiters, timed_waiters, timed_out, external_io>>
lives      == <<killed, exits, mm, teardown>>
verdicts   == <<failed, terminal>>
guests     == <<guest, rpc>>
vars == <<queue_vars, next_turns, buffers, pools, lives, verdicts, daemon,
          guests>>

-----------------------------------------------------------------------------
(* Values.                                                                 *)

\* The requests a guest files for its next turn: one that is always granted,
\* a retry of a poll, a sleep before and after its deadline, one without, a
\* call to run in the background, an exit.
Requests == {"go", "poll", "sleep", "due", "pause", "io", "exit"}

\* A filled request: also a futex wait and a background call's continuation.
Filed == Requests \cup {"futex", "continue"}

Calls == Requests \cup {"start", "continue", "wait", "timed wait", "wake",
                        "clone", "exec"}

Dispositions == {"none", "Retire", "ReplaceThenAdmit"}

\* guest[t]: "none", or "starting" (will send StartNewThread), "running" (holds
\* the grant), "execing" (holds it in an exec system call), "calling" (has a
\* request on its way), "stopped" (waits for its response), "background" (runs
\* outside the schedule) or "exiting" (was granted its exit).
\* daemon.at: "top" of the loop, step 1's check ("step1") and wait ("quiesce"),
\* the gap before step 2 ("step2"), the wait for the selected request ("await");
\* "done", the loop ended with no thread left; "stopped", at a failure or a
\* terminal verdict.

NoTeardown == [caller |-> NoTid, siblings |-> {}, observed |-> {}]

Registered == {t \in Tids : next_turns[t] # "none"}

\* f with the threads of T mapped to v.
Set(f, T, v) == [t \in Tids |-> IF t \in T THEN v ELSE f[t]]

Waiting == daemon.at \in {"quiesce", "await"}

\* The daemon after the Ivars of the threads of T were filled with v: it
\* sees that on the one it awaits.
Filled(T, v) ==
    IF Waiting /\ daemon.tid \in T /\ daemon.iv = "empty"
    THEN [daemon EXCEPT !.iv = v] ELSE daemon

\* The daemon after the threads of T lost their entries: their requests, if
\* still empty, became ThreadExited, and the Ivar it awaits may be an orphan.
Orphaned(T) ==
    IF Waiting /\ daemon.tid \in T
    THEN [Filled(T, "exited") EXCEPT !.live = FALSE] ELSE daemon

At(place) == [at |-> place, tid |-> NoTid, iv |-> "empty", live |-> FALSE]

Awaits(place, t, iv) ==
    [at |-> place, tid |-> t, iv |-> iv, live |-> TRUE]

-----------------------------------------------------------------------------
(* Guests: what a thread that holds the grant may ask for.                 *)

\* external: the thread ids Linux may give a new thread.  An id is not used
\* again before the scheduler's next drain.
FreeTids ==
    {t \in Tids : t \notin killed \cup Registered /\ removals[t] = "none"}

\* external: the guest thread t sends call.
Send(t, call) ==
    /\ \/ guest[t] = "starting"   /\ call = "start"
       \/ guest[t] = "background" /\ call = "continue"
       \/ guest[t] = "running"    /\ call \notin {"start", "continue"}
    /\ call = "clone" => FreeTids # {}
    /\ guest' = [guest EXCEPT ![t] = "calling"]
    /\ rpc' = rpc \cup {[tid |-> t, mm |-> mm[t], call |-> call]}
    /\ UNCHANGED <<queue_vars, next_turns, buffers, pools, lives, verdicts,
                   daemon>>

\* Mutant of IsStale: no tombstones.
IsStale_without_tombstones(c) == mm[c.tid] # c.mm

\* What admits a request to a handler: rpc_incarnation_matches and the
\* tombstone of a killed thread.
IsStale(c) ==
    \/ CancelsKilledRpcs /\ c.tid \in killed
    \/ mm[c.tid] # c.mm

\* A request of a thread that is gone is answered ThreadExited, or EINTR.
DropStale(c) ==
    /\ ~failed
    /\ IsStale(c)
    /\ rpc' = rpc \ {c}
    /\ UNCHANGED <<queue_vars, next_turns, buffers, pools, lives, verdicts,
                   daemon, guest>>

\* The guest threads once t's request was handled; a thread that died with
\* its request on the way does not notice.
Answered(t, g) ==
    IF guest[t] = "calling" THEN [guest EXCEPT ![t] = g] ELSE guest

\* lock_rpc_scheduler and the checks at the head of each handler.
Handles(c) == ~failed /\ ~IsStale(c)

\* request_put, from recv_resources_with_origin, recv_start_new_thread and a
\* background call's first request when it is done.
request_put(c) ==
    LET t == c.tid
        r == IF c.call = "start" THEN "go" ELSE c.call
    IN  /\ Handles(c)
        /\ c.call \in Requests \cup {"start", "continue"}
        /\ next_turns[t] = "empty"
        /\ next_turns' = [next_turns EXCEPT ![t] = r]
        /\ daemon' = Filled({t}, r)
        /\ guest' = Answered(t, "stopped")
        /\ rpc' = rpc \ {c}
        /\ UNCHANGED <<queue_vars, buffers, pools, lives, verdicts>>

\* recv_futex_action, WaitRequest: sleep_futex_waiter files the request,
\* joins the pool, with its timeout in timed_waiters, and the handler takes
\* the waiter out of the run queue.
FutexWait(c) ==
    LET t == c.tid
    IN  /\ Handles(c)
        /\ c.call \in {"wait", "timed wait"}
        /\ next_turns[t] # "none"
        /\ next_turns' = [next_turns EXCEPT ![t] = "futex"]
        /\ daemon' = Filled({t}, "futex")
        /\ futex_waiters' = futex_waiters \cup {t}
        /\ timed_waiters' = IF c.call = "timed wait"
                            THEN timed_waiters \cup {t} ELSE timed_waiters
        /\ queue' = queue \ {t}
        /\ guest' = Answered(t, "stopped")
        /\ rpc' = rpc \ {c}
        /\ UNCHANGED <<selected, buffers, timed_out, external_io, lives,
                       verdicts>>

\* recv_futex_action, WakeRequest: wake_futex_waiter pushes the threads woken,
\* at most as many as asked for; the waker runs on.
FutexWake(c) ==
    /\ Handles(c)
    /\ c.call = "wake"
    /\ next_turns[c.tid] # "none"
    /\ \E woken \in SUBSET futex_waiters :
          /\ Cardinality(woken) <= 1
          /\ futex_waiters' = futex_waiters \ woken
          /\ timed_waiters' = timed_waiters \ woken
          /\ queue' = queue \cup woken
    /\ guest' = Answered(c.tid, "running")
    /\ rpc' = rpc \ {c}
    /\ UNCHANGED <<selected, next_turns, buffers, timed_out, external_io,
                   lives, verdicts, daemon>>

\* recv_create_child_thread: register the child, record its admission, and
\* only then file the parent's ParentContinue, in a second critical section.
CreateChild(c, child) ==
    /\ Handles(c)
    /\ c.call = "clone"
    /\ child \in FreeTids
    /\ next_turns' = [next_turns EXCEPT ![child] = "empty"]
    /\ exits' = exits \ {child}
    /\ admissions' = admissions \cup {child}
    /\ guest' = [guest EXCEPT ![child] = "starting"]
    /\ rpc' = (rpc \ {c}) \cup {[c EXCEPT !.call = "go"]}
    /\ UNCHANGED <<queue_vars, removals, pools, killed, mm, teardown,
                   verdicts, daemon>>

-----------------------------------------------------------------------------
(* Deaths.                                                                 *)

\* Which futex waiters the deaths of T may wake: one for each thread's
\* cleared child id.
ExitWakes(T) ==
    {W \in SUBSET (futex_waiters \ T) : Cardinality(W) <= Cardinality(T)}

\* Mutants of the operators below: a woken thread is pushed at once; its wake
\* is lost; a pending hand-over is not overridden.
KilledQueue_at_once(W) == queue \cup W

KilledAdmissions_lost(T, W) == admissions \ T

KilledRemovals_first_wins(T) ==
    [t \in Tids |-> IF t \in T /\ removals[t] = "none" THEN "Retire"
                    ELSE removals[t]]

\* logically_kill_thread of every thread of T, waking W: the run queue's part
\* is deferred, except that a failed run never drains and admits at once.
\* The request of a registered thread becomes ThreadExited if it was empty.
KilledQueue(W)         == IF failed THEN queue \cup W ELSE queue
KilledAdmissions(T, W) == (admissions \ T) \cup (IF failed THEN {} ELSE W)
KilledRemovals(T)      == Set(removals, T, "Retire")
KilledSet(T)           == IF CancelsKilledRpcs THEN killed \cup T ELSE killed
KilledRpcs(T)          == IF CancelsKilledRpcs THEN rpc
                          ELSE {c \in rpc : c.tid \notin T}

\* Mutant of remove_blocking_entries: the timer of a dead waiter stays.
remove_blocking_entries_keeps_timers(T, W) ==
    /\ futex_waiters' = futex_waiters \ (T \cup W)
    /\ timed_waiters' = timed_waiters \ W
    /\ timed_out' = timed_out \ T
    /\ external_io' = external_io \ T

remove_blocking_entries(T, W) ==
    /\ futex_waiters' = futex_waiters \ (T \cup W)
    /\ timed_waiters' = timed_waiters \ (T \cup W)
    /\ timed_out' = timed_out \ T
    /\ external_io' = external_io \ T

logically_kill_thread(T) ==
    \E W \in ExitWakes(T) :
       /\ remove_blocking_entries(T, W)
       /\ queue' = KilledQueue(W)
       /\ removals' = KilledRemovals(T)
       /\ admissions' = KilledAdmissions(T, W)
       /\ killed' = KilledSet(T)
       /\ next_turns' = Set(next_turns, T, "none")
       /\ daemon' = Orphaned(T)
       /\ guest' = Set(guest, T, "none")
       /\ rpc' = KilledRpcs(T)

\* Whether the death of t may be reported while the group lives on: a leader
\* leaves before its last thread only by its own exit (retire_exited_leader).
MayDie(t) ==
    /\ t \in Registered
    /\ t = Leader => Registered = {t} \/ guest[t] = "exiting"

\* retire_deregistered_thread, and retire_exited_leader: a sibling of a
\* thread in an exec is only noted; the exec's own caller ends its attempt.
Deregister(t) ==
    /\ MayDie(t)
    /\ \/ /\ t \in teardown.siblings
          /\ teardown' = [teardown EXCEPT !.observed = @ \cup {t}]
          /\ guest' = [guest EXCEPT ![t] = "none"]
          /\ rpc' = KilledRpcs({t})
          /\ UNCHANGED <<queue, next_turns, buffers, pools, killed, daemon>>
       \/ /\ t \notin teardown.siblings
          /\ teardown' = IF t = teardown.caller THEN NoTeardown ELSE teardown
          /\ logically_kill_thread(
                {t} \cup (IF t = teardown.caller THEN teardown.observed
                          ELSE {}))
    /\ UNCHANGED <<selected, exits, mm, verdicts>>

-----------------------------------------------------------------------------
(* Exec.                                                                   *)

\* prepare_exec_teardown: freeze the live siblings, and let the caller exec.
PrepareExec(c) ==
    /\ Handles(c)
    /\ c.call = "exec"
    /\ next_turns[c.tid] # "none"
    /\ teardown.caller = NoTid
    /\ teardown' = [caller |-> c.tid, siblings |-> Registered \ {c.tid},
                    observed |-> {}]
    /\ guest' = Answered(c.tid, "execing")
    /\ rpc' = rpc \ {c}
    /\ UNCHANGED <<queue_vars, next_turns, buffers, pools, killed, exits, mm,
                   verdicts, daemon>>

\* finish_exec_teardown of a failed attempt: only the siblings that died
\* meanwhile are retired.
ExecFails ==
    LET caller == teardown.caller
        T == teardown.observed
    IN  /\ ~failed
        /\ caller # NoTid
        /\ guest[caller] = "execing"
        /\ teardown' = NoTeardown
        /\ \E W \in ExitWakes(T) :
              /\ remove_blocking_entries(T, W)
              /\ removals' = KilledRemovals(T)
              /\ admissions' = KilledAdmissions(T, W)
              /\ killed' = KilledSet(T)
              /\ next_turns' = Set(next_turns, T, "none")
              /\ daemon' = Orphaned(T)
              /\ guest' = [Set(guest, T, "none") EXCEPT ![caller] = "running"]
              /\ rpc' = KilledRpcs(T)
        /\ UNCHANGED <<queue_vars, exits, mm, verdicts>>

\* reconnect_exec: every sibling goes.  A caller that is not the leader takes
\* the leader's id: the leader is registered anew, its old place in the run
\* queue handed over, and the caller retired last.  With happens-before
\* constraints the changed identity may be refused.
reconnect_exec(refused) ==
    LET caller == teardown.caller
        moves  == caller # Leader
        T      == teardown.siblings \cup (IF moves THEN {caller} ELSE {})
        drained == /\ Leader \in exits
                   /\ KilledRemovals(T)[Leader] = "none"
                   /\ Leader \notin queue
    IN  /\ ~failed
        /\ caller # NoTid
        /\ guest[caller] = "execing"
        /\ mm[Leader] < MaxExecs
        /\ teardown' = NoTeardown
        /\ mm' = [mm EXCEPT ![Leader] = @ + 1]
        /\ exits' = IF moves THEN exits \ {Leader} ELSE exits
        /\ refused => moves
        /\ terminal' = (terminal \/ refused)
        /\ \E W \in ExitWakes(T) :
              /\ remove_blocking_entries(T, W)
              /\ removals' = [KilledRemovals(T) EXCEPT
                                ![Leader] = IF moves /\ ~drained
                                            THEN "ReplaceThenAdmit" ELSE @]
              /\ admissions' = KilledAdmissions(T, W)
                                  \cup (IF moves THEN {Leader} ELSE {})
        /\ killed' = IF moves THEN KilledSet(T) \ {Leader} ELSE KilledSet(T)
        /\ next_turns' = [Set(next_turns, T, "none") EXCEPT
                             ![Leader] = IF moves THEN "empty" ELSE @]
        /\ daemon' = Orphaned(T)
        /\ guest' = [Set(guest, T, "none") EXCEPT
                        ![Leader] = IF moves THEN "starting" ELSE "running"]
        /\ rpc' = KilledRpcs(T)
        /\ UNCHANGED <<queue_vars, failed>>

\* report_backend_failure: the open selection is closed here, and only here.
BackendFails ==
    /\ ~failed
    /\ failed' = TRUE
    /\ selected' = NoTid
    /\ UNCHANGED <<queue, next_turns, buffers, pools, lives, terminal, daemon,
                   guests>>

-----------------------------------------------------------------------------
(* The daemon.                                                             *)

\* Mutant of IsIdle: background calls are overlooked.
IsIdle_ignores_background ==
    /\ queue = {}
    /\ futex_waiters \cup timed_waiters = {}
    /\ admissions = {}
    /\ \A t \in Tids : removals[t] = "none"

\* The loop's end: nothing queued, blocked or buffered.
IsIdle ==
    /\ queue = {}
    /\ futex_waiters \cup timed_waiters \cup external_io = {}
    /\ admissions = {}
    /\ \A t \in Tids : removals[t] = "none"

\* sched_loop_inner: after a failed turn or a terminal verdict the loop ends.
LoopTop ==
    /\ daemon.at = "top"
    /\ daemon' = At(IF failed \/ terminal THEN "stopped"
                    ELSE IF IsIdle THEN "done" ELSE "step1")
    /\ UNCHANGED <<queue_vars, next_turns, buffers, pools, lives, verdicts,
                   guests>>

\* Mutant of Outstanding: nobody is awaited.
Outstanding_none == {}

\* are_all_quiesced: a queued thread whose request is still to come.
Outstanding ==
    {t \in queue : removals[t] = "none" /\ next_turns[t] = "empty"}

\* step1_check_quiescence: await an outstanding request, or go on.
Step1 ==
    /\ daemon.at = "step1"
    /\ IF failed THEN daemon' = At("top")
       ELSE \/ /\ Outstanding = {}
               /\ daemon' = At("step2")
            \/ \E t \in Outstanding :
                  daemon' = Awaits("quiesce", t, "empty")
    /\ UNCHANGED <<queue_vars, next_turns, buffers, pools, lives, verdicts,
                   guests>>

\* Mutant of Step1Resumes: a failure does not end the wait.
Step1Resumes_waits_on ==
    /\ daemon.at = "quiesce"
    /\ daemon.iv # "empty"
    /\ daemon' = At(IF failed THEN "top" ELSE "step1")
    /\ UNCHANGED <<queue_vars, next_turns, buffers, pools, lives, verdicts,
                   guests>>

\* until_backend_failure: the awaited request was filled, or the run failed.
Step1Resumes ==
    /\ daemon.at = "quiesce"
    /\ failed \/ daemon.iv # "empty"
    /\ daemon' = At(IF failed THEN "top" ELSE "step1")
    /\ UNCHANGED <<queue_vars, next_turns, buffers, pools, lives, verdicts,
                   guests>>

\* step2_register_queued_sleeps: the threads of q that are taken for it.
QueuedSleeps(q) ==
    IF RegistersQueuedSleeps
    THEN {t \in q : removals[t] = "none" /\ next_turns[t] = "sleep"}
    ELSE {}

\* drain_pending_run_queue_removals and _admissions, of the queue q.
Drained(q) ==
    LET kept == admissions \ {t \in Tids : removals[t] = "Retire"}
    IN  (q \ {t \in Tids : removals[t] # "none"}) \cup (kept \cap Registered)

\* A pass of step 2 that a terminal verdict ends before the drains.
Step2Ends ==
    /\ daemon.at = "step2"
    /\ failed \/ terminal
    /\ daemon' = At("top")
    /\ IF failed THEN UNCHANGED <<queue, timed_waiters>>
       ELSE /\ queue' = queue \ QueuedSleeps(queue)
            /\ timed_waiters' = timed_waiters \cup QueuedSleeps(queue)
    /\ UNCHANGED <<selected, next_turns, buffers, futex_waiters, timed_out,
                   external_io, lives, verdicts, guests>>

\* The waiters whose deadline can be reached: pause(2) waits for a signal.
Finite(S) == {t \in S : next_turns[t] # "pause"}

\* wake_timed_event of the waiters `due` (at most one), which leaves `left`.
wake_timed_event(due, left) ==
    LET expired == due \cap futex_waiters
    IN  /\ timed_waiters' = left
        /\ futex_waiters' = futex_waiters \ expired
        /\ timed_out' = timed_out \cup expired
        /\ next_turns' = Set(next_turns, due \ expired, "due")

\* Mutant of IsDeadlocked: background calls are overlooked.
IsDeadlocked_ignores_background(left, io) == futex_waiters \cup left # {}

\* step2d_decide_empty_queue's verdict, when nobody can run, no reachable
\* deadline is left and io is still in the background.
IsDeadlocked(left, io) == io = {} /\ futex_waiters \cup left # {}

\* step2_process_blocked and step3_peek, one critical section: register
\* sleeps, drain, register the sleeps admitted, pop at most one due event,
\* readmit finished background calls, select.  With nobody to select, the
\* next deadline is brought forward, or the run is stuck, or it waits.
Step2And3 ==
    LET early   == queue \ QueuedSleeps(queue)
        drained == Drained(early)
        awake   == {t \in drained : ~ (/\ RegistersQueuedSleeps
                                       /\ next_turns[t] = "sleep")}
        sleeping == timed_waiters \cup QueuedSleeps(queue)
                       \cup (drained \ awake)
    IN  /\ daemon.at = "step2"
        /\ ~failed /\ ~terminal
        /\ removals' = [t \in Tids |-> "none"]
        /\ admissions' = {}
        /\ \E due \in {{}} \cup {{t} : t \in Finite(sleeping)},
              ready \in SUBSET {t \in external_io :
                                   next_turns[t] = "continue"} :
              LET runnable == awake \cup due \cup ready
                  left     == sleeping \ due
              IN  /\ external_io' = external_io \ ready
                  /\ \/ /\ runnable # {}
                        /\ wake_timed_event(due, left)
                        /\ queue' = runnable
                        /\ \E t \in runnable :
                              /\ selected' = t
                              /\ daemon' = Awaits("await", t, next_turns'[t])
                        /\ UNCHANGED terminal
                     \/ /\ runnable = {}
                        /\ selected' = NoTid
                        /\ daemon' = At("top")
                        /\ \/ \E t \in Finite(left) :
                                 /\ wake_timed_event({t}, left \ {t})
                                 /\ queue' = {t}
                                 /\ UNCHANGED terminal
                           \/ /\ Finite(left) = {}
                              /\ wake_timed_event({}, left)
                              /\ queue' = {}
                              /\ terminal' = IsDeadlocked(left, external_io')
        /\ UNCHANGED <<lives, failed, guests>>

\* finish_selected_turn when the turn is not taken: the run failed, which
\* closed the selection, or the selected thread exited, or its entry is gone,
\* or a terminal verdict came meanwhile.
AbandonTurn ==
    /\ daemon.at = "await"
    /\ \/ failed
       \/ daemon.iv = "exited"
       \/ /\ daemon.iv # "empty"
          /\ next_turns[daemon.tid] = "none" \/ terminal
    /\ selected' = IF failed THEN selected ELSE NoTid
    /\ daemon' = At("top")
    /\ UNCHANGED <<queue, next_turns, buffers, pools, lives, verdicts, guests>>

\* The conditions under which finish_selected_turn reaches step 4 with the
\* request r.
Takes(t, r) ==
    /\ daemon.at = "await"
    /\ ~failed /\ ~terminal
    /\ daemon.tid = t
    /\ daemon.iv = r
    /\ next_turns[t] # "none"
    /\ selected' = NoTid
    /\ daemon' = At("top")

\* Step 4, a poll retry: back off, and run the retry next time.
BackOff(t) ==
    /\ Takes(t, "poll")
    /\ next_turns' = [next_turns EXCEPT ![t] = "go"]
    /\ UNCHANGED <<queue, buffers, pools, lives, verdicts, guests>>

\* Step 4, SleepUntil a time not reached: register, and skip_turn_blocked.
Park(t) ==
    /\ Takes(t, "sleep") \/ Takes(t, "pause")
    /\ timed_waiters' = timed_waiters \cup {t}
    /\ queue' = queue \ {t}
    /\ UNCHANGED <<next_turns, buffers, futex_waiters, timed_out, external_io,
                   lives, verdicts, guests>>

\* Step 4, BlockingExternalIO: out of the queue, and unblocked to run in the
\* background.
RunInBackground(t) ==
    /\ Takes(t, "io")
    /\ queue' = queue \ {t}
    /\ next_turns' = [next_turns EXCEPT ![t] = "empty"]
    /\ external_io' = external_io \cup {t}
    /\ timed_out' = timed_out \ {t}
    /\ guest' = [guest EXCEPT ![t] = "background"]
    /\ UNCHANGED <<buffers, futex_waiters, timed_waiters, lives, verdicts,
                   rpc>>

\* Steps 4 to 6 of a request that is granted, a sleep that has fallen due in
\* the queue among them: unblock_guest clears the Ivars for the next turn,
\* step6_reenquue keeps the thread queued.
Grant(t, r) ==
    /\ r \in {"go", "sleep", "due", "exit", "futex", "continue"}
    /\ Takes(t, r)
    /\ next_turns' = [next_turns EXCEPT ![t] = "empty"]
    /\ timed_out' = timed_out \ {t}
    /\ exits' = IF r = "exit" THEN exits \cup {t} ELSE exits
    /\ guest' = [guest EXCEPT ![t] = IF r = "exit" THEN "exiting"
                                     ELSE "running"]
    /\ UNCHANGED <<queue, buffers, futex_waiters, timed_waiters, external_io,
                   killed, mm, teardown, verdicts, rpc>>

-----------------------------------------------------------------------------
(* Specification.                                                          *)

Init ==
    /\ queue = {}
    /\ selected = NoTid
    /\ next_turns = [t \in Tids |-> IF t = Leader THEN "empty" ELSE "none"]
    /\ removals = [t \in Tids |-> "none"]
    /\ admissions = {Leader}
    /\ futex_waiters = {} /\ timed_waiters = {}
    /\ timed_out = {} /\ external_io = {}
    /\ killed = {}
    /\ exits = {}
    /\ mm = [t \in Tids |-> 0]
    /\ teardown = NoTeardown
    /\ failed = FALSE
    /\ terminal = FALSE
    /\ daemon = At("top")
    /\ guest = [t \in Tids |-> IF t = Leader THEN "starting" ELSE "none"]
    /\ rpc = {}

\* A handler of request c.
Handle(c) ==
    \/ DropStale(c)
    \/ request_put(c)
    \/ FutexWait(c)
    \/ FutexWake(c)
    \/ \E child \in Tids : CreateChild(c, child)
    \/ PrepareExec(c)

Exec == ExecFails \/ \E refused \in BOOLEAN : reconnect_exec(refused)

Finish ==
    \/ AbandonTurn
    \/ \E t \in Tids : \/ BackOff(t)
                       \/ Park(t)
                       \/ RunInBackground(t)
                       \/ \E r \in Filed : Grant(t, r)

Daemon == LoopTop \/ Step1 \/ Step1Resumes \/ Step2Ends \/ Step2And3 \/ Finish

Next ==
    \/ \E t \in Tids, call \in Calls : Send(t, call)
    \/ \E c \in rpc : Handle(c)
    \/ \E t \in Tids : Deregister(t)
    \/ Exec
    \/ BackendFails
    \/ Daemon

Spec == Init /\ [][Next]_vars

\* The daemon's task is polled, a request that arrives is handled, an exec
\* returns, a granted exit is reported, and a guest thread that holds the
\* grant files a request again and again: its slice ends.  Nothing makes a
\* background call return or a blocked thread wake.
Fairness ==
    /\ WF_vars(Daemon)
    /\ WF_vars(Exec)
    /\ \A t \in Tids :
          /\ WF_vars(\E c \in rpc : c.tid = t /\ Handle(c))
          /\ WF_vars(guest[t] = "exiting" /\ Deregister(t))
          /\ WF_vars(guest[t] = "starting" /\ Send(t, "start"))
          /\ SF_vars(Send(t, "go"))

FairSpec == Spec /\ Fairness

-----------------------------------------------------------------------------
(* Properties.                                                             *)

\* The guest's threads are sequentialized: at most one of them holds the
\* grant, from the grant of its turn until its next request is filed,
\* whatever dies, execs or fails meanwhile.  Background calls are the one
\* exception, and are not counted.
OneGuestRuns ==
    LET holders == {t \in Tids : \/ guest[t] \in {"running", "execing", "exiting"}
                                 \/ \E c \in rpc : /\ c.tid = t /\ ~IsStale(c)
                                                   /\ c.call \notin {"start", "continue"}}
    IN  \A t, u \in holders : t = u

\* Where a registered thread waits for its next turn.
InQueue(t) == t \in queue /\ removals[t] = "none"
InPool(t)  == t \in futex_waiters \cup timed_waiters \cup external_io

\* No wake is lost and none comes twice: while the run goes on, each
\* registered thread is in exactly one of the run queue, the admissions to
\* come and the blocked pools.  A thread in none would never run again.
EveryThreadIsSomewhere ==
    ~failed =>
       \A t \in Registered :
          /\ InQueue(t) \/ t \in admissions \/ InPool(t)
          /\ ~ (InQueue(t) /\ t \in admissions)
          /\ ~ (InQueue(t) /\ InPool(t))
          /\ ~ (t \in admissions /\ InPool(t))

\* An exec's hand-over of the leader's id reaches the drain whole: the new
\* leader is registered, its admission is buffered, and it is not dead (the
\* assertions of drain_pending_run_queue_removals).
HandoverIsPaired ==
    \A t \in Tids : removals[t] = "ReplaceThenAdmit" =>
       t \in Registered /\ t \in admissions /\ t \notin killed

\* A request that passes the admission checks finds the sender's entry with
\* an empty request: otherwise the handler panics, for want of an entry or at
\* the second put of an Ivar.
AdmittedRequestsAreAwaited ==
    \A c \in rpc : ~IsStale(c) => next_turns[c.tid] = "empty"

\* The loop ends by itself only when no thread is left: a thread overlooked
\* there would hang with no scheduler.
EndsWithNobodyLeft == daemon.at = "done" => Registered = {}

\* While a selection is open nobody else changes the run queue, though
\* handlers run whenever the daemon has let go of the mutex.
Lock == INSTANCE SelectionLock WITH queued <- queue

ImplementsSelectionLock == Lock!Spec

\* A thread that was retired is never given a turn: only a registration, by
\* a clone or an exec, brings its id back.
NoTurnForTheDead ==
    [][\A t \in Tids :
          (next_turns[t] = "none" /\ next_turns'[t] # "none") =>
             /\ next_turns'[t] = "empty"
             /\ t \in admissions'
             /\ t # selected']_vars

\* The scheduler declares a guest deadlock only of a run that is stuck: every
\* thread then waits for a wake or a signal that no thread is left to give,
\* and none runs, is queued, is about to start or is in a background call.
DeadlockIsReal ==
    [][daemon.at = "step2" /\ ~terminal /\ terminal' =>
          \A t \in Registered :
             /\ guest[t] = "stopped"
             /\ \/ t \in futex_waiters' \ timed_waiters'
                \/ t \in timed_waiters' /\ next_turns[t] = "pause"]_vars

\* The daemon always comes back to the top of its loop: no death, exec or
\* failure leaves it waiting for ever in the middle of a turn.
TurnsEnd == []<>(daemon.at \in {"top", "done", "stopped"})
=============================================================================
