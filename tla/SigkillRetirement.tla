------------------------- MODULE SigkillRetirement -------------------------
(***************************************************************************)
(* Retiring a SIGKILL's victims at the kill turn, on ptrace.  The sender   *)
(* reserves the victims, sends, and commits: the scheduler drops them all  *)
(* at that point, and selects no turn until each one's physical exit is    *)
(* accounted and published.  Deaths, exit callbacks, deregistrations and   *)
(* publications arrive in whatever order the host chooses.                 *)
(*                                                                         *)
(* A thread is a number; a process is named by its leader.  A running      *)
(* thread keeps the turn until it files its next request or is retired.    *)
(***************************************************************************)
EXTENDS Integers, Sequences, FiniteSets, Functions

CONSTANTS
    Threads,        \* thread ids
    ProcessOf,      \* [Threads -> Threads], each thread's process (its leader)
    Unborn,         \* the threads that are only created during the run
    Owners,         \* the threads whose robust list has a waiter to wake
    Sends,          \* the sets of processes a SIGKILL may target
    Killers,        \* the threads that send SIGKILLs
    MaxKills,       \* bound on the SIGKILLs sent
    Exits,          \* the threads that may exit: a raw exit, or exit_group
    Faults,         \* the threads that may take a fatal signal
    HostKilled,     \* the processes the host may kill
    MayLose,        \* whether a publication report may never arrive
    NoThread

ASSUME SigkillAssumption ==
    /\ Threads \subseteq Nat /\ NoThread \notin Threads
    /\ ProcessOf \in [Threads -> Threads]
    /\ \A t \in Threads : ProcessOf[ProcessOf[t]] = ProcessOf[t]
    /\ Unborn \cap {ProcessOf[t] : t \in Threads} = {}
    /\ Unborn \cup Owners \cup Killers \cup Exits \cup Faults \subseteq Threads
    /\ Sends \subseteq SUBSET {ProcessOf[t] : t \in Threads}
    /\ MaxKills \in Nat /\ MayLose \in BOOLEAN

\* There are finitely many threads.
ASSUME FiniteThreads == \A ts \in SUBSET Threads : Cardinality(ts) \in Nat

Processes == {ProcessOf[t] : t \in Threads}
Of(p) == {t \in Threads : ProcessOf[t] = p}

VARIABLES
    live,           \* next_turns: the registered threads
    want,           \* the request each thread filed: "turn", "exit", "exit_group", "selfkill"
    running,        \* the thread whose next request the scheduler waits for
    at,             \* where that thread is: "guest", "reserved", "sent", "failed",
                    \* "waiting", "granted", "committed", "leaving"
    call,           \* the processes each thread's kill(2) targets
    awaited,        \* the victims the running sender's kill(2) waits for
    granted,        \* thread_tree.granted_exits
    reservations,   \* the open reservations: [sender, victims]
    held,           \* held_receipts
    unaccounted,
    accounted,
    unpublished,    \* victims' holds in child_exit_publications_pending
    completed,      \* child_exit_publications_completed
    retained,       \* the victims with a retained wake batch
    phys,           \* each thread in the kernel: "unborn", "alive", "doomed", "dead"
    wakesSent,      \* the threads whose exit callback has sent its wakes
    deregistered,   \* the threads whose deregistration arrived
    published,      \* the processes whose publication was reported, or lost
    lost,           \* those whose report was lost
    refused,        \* sigkill_fence_refusal
    kills,          \* the SIGKILLs sent so far
    woken,          \* history: the owners whose wakes ran, in order
    committed       \* history: the victims of committed kills

sched == <<live, want, running, at, call, awaited, granted>>
ledger == <<reservations, held, unaccounted, accounted, unpublished, completed, retained>>
kernel == <<phys, wakesSent, deregistered, published, lost>>
vars == <<sched, ledger, kernel, refused, kills, woken, committed>>

Reserved == UNION {r.victims : r \in reservations}

Init ==
    /\ live = Threads \ Unborn
    /\ want = [t \in Threads |-> "turn"]
    /\ running = NoThread /\ at = "guest"
    /\ call = [t \in Threads |-> {}] /\ awaited = {}
    /\ granted = {} /\ reservations = {}
    /\ held = {} /\ unaccounted = {} /\ accounted = {}
    /\ unpublished = {} /\ completed = {} /\ retained = {}
    /\ phys = [t \in Threads |-> IF t \in Unborn THEN "unborn" ELSE "alive"]
    /\ wakesSent = {} /\ deregistered = {} /\ published = {} /\ lost = {}
    /\ refused = FALSE /\ kills = 0
    /\ woken = <<>> /\ committed = {}

-----------------------------------------------------------------------------
\* logically_kill_thread of the threads ts: the scheduler stops waiting for one
\* that runs, and a leader's publication report is forgotten.
Retire(ts) ==
    /\ live' = live \ ts
    /\ running' = IF running \in ts THEN NoThread ELSE running
Forgotten(ts) == {p \in Processes : p \in ts}

\* run_retained_wakes_of, in (victim, position) order.
InOrder(ts) == {s \in [1..Cardinality(ts) -> ts] :
    Range(s) = ts /\ \A i, j \in DOMAIN s : i < j => s[i] < s[j]}
RunWakes(ts) == \E s \in InOrder(ts) : woken' = woken \o s

\* SIGKILL reaches the kernel: every living thread of the targets dies.
Doomed(ps) == [t \in Threads |->
    IF ProcessOf[t] \in ps /\ phys[t] = "alive" THEN "doomed" ELSE phys[t]]

-----------------------------------------------------------------------------
\* Mutant of FenceHolds: the fence waits only for the exit publications.
FenceHolds_published == unpublished # {}

\* sigkill_fence_holds
FenceHolds == unaccounted # {} \/ unpublished # {}

\* A pass that selects thread t: step2_drain_prefix runs the retained wakes, and
\* t's request is granted.  An exit_group's grant retires the siblings.
Grant(t) ==
    /\ running = NoThread /\ ~FenceHolds /\ ~refused
    /\ t \in live
    /\ RunWakes(retained)
    /\ retained' = {}
    /\ running' = t
    /\ at' = CASE want[t] = "turn" -> "guest"
               [] want[t] = "selfkill" -> "granted"
               [] OTHER -> "leaving"
    /\ granted' = IF want[t] \in {"exit_group", "selfkill"} \/
                     (want[t] = "exit" /\ live \cap Of(ProcessOf[t]) = {t})
                  THEN granted \cup {ProcessOf[t]} ELSE granted
    /\ LET siblings == IF want[t] \in {"exit_group", "selfkill"}
                       THEN Of(ProcessOf[t]) \ {t} ELSE {}
       IN  /\ live' = live \ siblings
           /\ completed' = completed \ Forgotten(siblings)
    /\ phys' = CASE want[t] = "exit_group" -> Doomed({ProcessOf[t]})
                 [] want[t] = "exit" /\ phys[t] = "alive" -> [phys EXCEPT ![t] = "doomed"]
                 [] OTHER -> phys
    /\ UNCHANGED <<want, call, awaited, reservations, held, unaccounted, accounted,
                   unpublished, wakesSent, deregistered, published, lost, refused, kills, committed>>

\* The guest code of the running thread.
Guest(t) == running = t /\ at = "guest" /\ phys[t] = "alive" /\ ~refused

\* It files its next request, which ends its turn.
Files(t, request) ==
    /\ Guest(t)
    /\ \/ request = "turn"
       \/ request = "exit_group" /\ t \in Exits
       \/ request = "exit" /\ t \in Exits /\ t # ProcessOf[t]
    /\ want' = [want EXCEPT ![t] = request]
    /\ running' = NoThread
    /\ UNCHANGED <<live, at, call, awaited, granted, ledger, kernel, refused, kills, woken, committed>>

\* It creates thread c of its process.
Clone(t, c) ==
    /\ Guest(t)
    /\ phys[c] = "unborn" /\ ProcessOf[c] = ProcessOf[t]
    /\ phys' = [phys EXCEPT ![c] = "alive"]
    /\ live' = live \cup {c}
    /\ UNCHANGED <<want, running, at, call, awaited, granted, ledger, wakesSent, deregistered,
                   published, lost, refused, kills, woken, committed>>

-----------------------------------------------------------------------------
\* The processes a kill(2) of `targets' finds, and its victims: the other live
\* threads of those whose exit was not granted before (kill_victims).
Members(targets) == {p \in targets : live \cap Of(p) # {}}
Victims(t, targets) == {v \in live : ProcessOf[v] \in targets \ granted} \ {t}

\* Why reserve_sigkill_processes refuses: nothing is found, or a victim is
\* reserved by another open send.
Refuses(t, targets) ==
    Members(targets) = {} \/ Victims(t, targets) \cap Reserved # {}

\* A kill(2) that is reserved.  One that includes the sender's own process is
\* committed at the sender's Exit grant, so the sender files that request; any
\* other is sent in this turn.
Reserve(t, targets) ==
    LET own == ProcessOf[t] \in targets \ granted
    IN  /\ Guest(t) /\ t \in Killers /\ kills < MaxKills
        /\ ~Refuses(t, targets)
        /\ kills' = kills + 1
        /\ reservations' = reservations \cup
             {[sender |-> t, victims |-> Victims(t, targets)]}
        /\ call' = [call EXCEPT ![t] = targets]
        /\ IF own
           THEN /\ want' = [want EXCEPT ![t] = "selfkill"]
                /\ running' = NoThread
                /\ UNCHANGED at
           ELSE at' = "reserved" /\ UNCHANGED <<want, running>>
        /\ UNCHANGED <<live, awaited, granted, held, unaccounted, accounted,
                       unpublished, completed, retained, kernel, refused, woken, committed>>

\* A refused one keeps the ordinary path: its victims leave at their receipts.
SendUnreserved(t, targets) ==
    /\ Guest(t) /\ t \in Killers /\ kills < MaxKills
    /\ Refuses(t, targets)
    /\ kills' = kills + 1
    /\ phys' = Doomed(targets)
    /\ UNCHANGED <<sched, ledger, wakesSent, deregistered, published, lost,
                   refused, woken, committed>>

\* The physical send, when the sender survives it; it fails when every target
\* is gone.
Send(t) ==
    /\ running = t /\ at = "reserved"
    /\ IF \A v \in Threads : ProcessOf[v] \in call[t] => phys[v] \in {"unborn", "dead"}
       THEN at' \in {"sent", "failed"} /\ UNCHANGED phys
       ELSE at' = "sent" /\ phys' = Doomed(call[t])
    /\ UNCHANGED <<live, want, running, call, awaited, granted, ledger, wakesSent,
                   deregistered, published, lost, refused, kills, woken, committed>>

\* A send that includes the sender's process, after its commit.
SendOwn(t) ==
    /\ running = t /\ at = "committed"
    /\ at' = "leaving"
    /\ phys' = Doomed(call[t])
    /\ UNCHANGED <<live, want, running, call, awaited, granted, ledger, wakesSent,
                   deregistered, published, lost, refused, kills, woken, committed>>

-----------------------------------------------------------------------------
\* Mutant of Holds: the victims' publication reports are forgotten with them.
Holds_forgotten(r) == {ProcessOf[v] : v \in r.victims} \ granted

\* The victim processes a commit holds for: not those whose exit was granted
\* (their parent was notified then), nor those already reported published.  The
\* processes of the model have a parent that is notified with SIGCHLD; for
\* another own_killed_child_notification returns without a hold.
Holds(r) == {ProcessOf[v] : v \in r.victims} \ (granted \cup completed)

\* commit_sigkill of a send that succeeded.
Committed(r) ==
    /\ reservations' = reservations \ {r}
    /\ held' = held \ r.victims
    /\ unaccounted' = unaccounted \cup (r.victims \ held)
    /\ granted' = granted \cup {ProcessOf[v] : v \in r.victims}
    /\ unpublished' = unpublished \cup Holds(r)
    /\ completed' = completed \ {ProcessOf[v] : v \in r.victims}
    /\ Retire(r.victims)
    /\ committed' = committed \cup r.victims
    /\ UNCHANGED <<want, accounted, retained, kernel, refused, kills, woken>>

\* commit_sigkill of one that failed: what arrived meanwhile takes its ordinary path.
Unwound(r) ==
    /\ reservations' = reservations \ {r}
    /\ RunWakes(retained \cap r.victims)
    /\ retained' = retained \ r.victims
    /\ held' = held \ r.victims
    /\ Retire(held \cap r.victims)
    /\ completed' = completed \ Forgotten(held \cap r.victims)
    /\ UNCHANGED <<want, granted, unaccounted, accounted, unpublished, kernel,
                   refused, kills, committed>>

\* CommitSigkill: the sender waits for its victims, unless it dies with them.
Commit(r) ==
    /\ r \in reservations /\ running = r.sender
    /\ \/ at = "sent" /\ Committed(r) /\ at' = "waiting" /\ awaited' = r.victims
       \/ at = "failed" /\ Unwound(r) /\ at' = "guest" /\ UNCHANGED awaited
       \/ at = "granted" /\ Committed(r) /\ at' = "committed" /\ UNCHANGED awaited
    /\ UNCHANGED call

\* sigkill_settled: the sender's kill(2) returns.
Settled ==
    /\ awaited \cap unaccounted = {}
    /\ {ProcessOf[v] : v \in awaited} \cap unpublished = {}
Return(t) ==
    /\ running = t /\ at = "waiting" /\ Settled
    /\ at' = "guest"
    /\ UNCHANGED <<live, want, running, call, awaited, granted, ledger, kernel,
                   refused, kills, woken, committed>>

\* A fatal signal's delivery to the running thread (commit_fatal_delivery): the
\* other threads of its process are committed victims, unless one is reserved.
FatalDelivery(t) ==
    LET others == (live \cap Of(ProcessOf[t])) \ {t}
        victims == IF others \cap Reserved = {} THEN others ELSE {}
    IN  /\ Guest(t) /\ t \in Faults
        /\ at' = "leaving"
        /\ unaccounted' = unaccounted \cup victims
        /\ Retire(victims)
        /\ completed' = completed \ Forgotten(victims)
        /\ phys' = Doomed({ProcessOf[t]})
        /\ committed' = committed \cup victims
        /\ UNCHANGED <<want, call, awaited, granted, reservations, held, accounted,
                       unpublished, retained, wakesSent, deregistered, published,
                       lost, refused, kills, woken>>

-----------------------------------------------------------------------------
\* The host kills process p.
HostKill(p) ==
    /\ p \in HostKilled
    /\ Doomed({p}) # phys
    /\ phys' = Doomed({p})
    /\ UNCHANGED <<sched, ledger, wakesSent, deregistered, published, lost,
                   refused, kills, woken, committed>>

\* A doomed thread exits, the leader last.
Die(t) ==
    /\ phys[t] = "doomed"
    /\ t = ProcessOf[t] => \A s \in Of(t) \ {t} : phys[s] \in {"unborn", "dead"}
    /\ phys' = [phys EXCEPT ![t] = "dead"]
    /\ UNCHANGED <<sched, ledger, wakesSent, deregistered, published, lost,
                   refused, kills, woken, committed>>

\* Mutant of Retains: a victim's wakes are retained only after the commit.
Retains_committed(t) == t \in unaccounted

\* retain_sigkill_victim_wakes
Retains(t) == t \in Reserved \/ t \in unaccounted

\* Its exit callback sends the owner-death wakes of its robust list.
RobustListWakes(t) ==
    /\ phys[t] = "dead" /\ t \in Owners \ wakesSent
    /\ wakesSent' = wakesSent \cup {t}
    /\ IF Retains(t)
       THEN retained' = retained \cup {t} /\ UNCHANGED woken
       ELSE woken' = Append(woken, t) /\ UNCHANGED retained
    /\ UNCHANGED <<sched, reservations, held, unaccounted, accounted, unpublished,
                   completed, phys, deregistered, published, lost, refused, kills,
                   committed>>

\* Its deregistration (account_deregistered_thread, route_sigkill_receipt): a
\* reserved victim's is held, a committed one's accounted; any other retires it.
\* The leader's comes last.
Deregister(t) ==
    /\ phys[t] = "dead" /\ t \notin deregistered /\ (t \in Owners => t \in wakesSent)
    /\ t = ProcessOf[t] => \A s \in Of(t) \ {t} : phys[s] = "unborn" \/ s \in deregistered
    /\ deregistered' = deregistered \cup {t}
    /\ IF t \in Reserved
       THEN /\ held' = held \cup {t}
            /\ accounted' = accounted \cup {t}
            /\ UNCHANGED <<unaccounted, completed, live, running>>
       ELSE IF t \in unaccounted
       THEN /\ unaccounted' = unaccounted \ {t}
            /\ accounted' = accounted \cup {t}
            /\ UNCHANGED <<held, completed, live, running>>
       ELSE /\ Retire({t})
            /\ completed' = completed \ Forgotten({t})
            /\ UNCHANGED <<held, unaccounted, accounted>>
    /\ UNCHANGED <<want, at, call, awaited, granted, reservations, unpublished,
                   retained, phys, wakesSent, published, lost, refused, kills,
                   woken, committed>>

\* complete_child_exit_publication: the report releases a hold, or is kept.
Publish(p) ==
    /\ \A t \in Of(p) : phys[t] \in {"unborn", "dead"}
    /\ phys[p] = "dead" /\ p \notin published
    /\ published' = published \cup {p}
    /\ unpublished' = unpublished \ {p}
    /\ completed' = IF p \in unpublished THEN completed ELSE completed \cup {p}
    /\ UNCHANGED <<sched, reservations, held, unaccounted, accounted, retained, phys,
                   wakesSent, deregistered, lost, refused, kills, woken, committed>>

\* The report is lost.
Lose(p) ==
    /\ MayLose
    /\ phys[p] = "dead" /\ p \notin published
    /\ published' = published \cup {p} /\ lost' = lost \cup {p}
    /\ UNCHANGED <<sched, ledger, phys, wakesSent, deregistered, refused, kills,
                   woken, committed>>

\* Mutant of ValveExpires: a waiting sender's kill(2) has no valve.
ValveExpires_fence == running = NoThread /\ FenceHolds

\* The fence, or the sender's own wait, has lasted past SIGKILL_FENCE_VALVE.
ValveExpires ==
    \/ running = NoThread /\ FenceHolds
    \/ running # NoThread /\ at = "waiting" /\ ~Settled

\* The backend's reports take less than the valve.
BackendIdle ==
    \A t \in Threads : /\ phys[t] # "doomed"
                       /\ phys[t] = "dead" => t \in deregistered /\ ProcessOf[t] \in published

\* refuse_unsettled_sigkill: the run ends.
Refuse ==
    /\ ~refused /\ BackendIdle /\ ValveExpires
    /\ refused' = TRUE
    /\ UNCHANGED <<sched, ledger, kernel, kills, woken, committed>>

-----------------------------------------------------------------------------
Turn(t) ==
    \/ Grant(t)
    \/ \E request \in {"turn", "exit", "exit_group"} : Files(t, request)
    \/ \E c \in Unborn : Clone(t, c)
    \/ \E targets \in Sends : Reserve(t, targets) \/ SendUnreserved(t, targets)
    \/ FatalDelivery(t)

Completes ==
    \/ \E t \in Threads : Send(t) \/ SendOwn(t) \/ Return(t)
    \/ \E r \in reservations : Commit(r)

Backend(t) == Die(t) \/ RobustListWakes(t) \/ Deregister(t)
Reports(p) == Publish(p) \/ Lose(p)

Next ==
    \/ \E t \in Threads : Turn(t) \/ Backend(t)
    \/ \E p \in Processes : HostKill(p) \/ Reports(p)
    \/ Completes
    \/ Refuse

\* Each thread keeps being scheduled, a running one files its request (its
\* timeslice ends), the kernel ends what it has killed and reports it or
\* loses the report, and the valve expires.
Fairness ==
    /\ WF_vars(Completes) /\ WF_vars(Refuse)
    /\ \A t \in Threads : WF_vars(Backend(t)) /\ SF_vars(Grant(t)) /\ SF_vars(Files(t, "turn"))
    /\ \A p \in Processes : WF_vars(Reports(p))

Spec == Init /\ [][Next]_vars
FairSpec == Spec /\ Fairness

-----------------------------------------------------------------------------
\* While any thread runs guest code, no thread of a process that a committed
\* kill ended is left in the kernel or the scheduler, and its robust lists' wakes
\* have run or wait for the next pass: host timing decides how long the pause
\* lasts, never what a turn can see.
KillsAreSettled ==
    \A t \in Threads : Guest(t) =>
        \A v \in committed :
            /\ v \in Owners => v \in Range(woken) \cup retained
            /\ \A s \in Of(ProcessOf[v]) : phys[s] \in {"unborn", "dead"} /\ s \notin live

\* The owner-death wakes of a send's victims run together and in tid order,
\* whatever order the exit callbacks came in and whether they came before or
\* after the commit: after a step that runs one, no victim's wakes are left to
\* run.  A send that failed gives its victims' wakes their ordinary path.
WakesRunTogether == [][
    LET ran == SubSeq(woken', Len(woken) + 1, Len(woken'))
        cohort == (committed \cup Reserved) \cap Owners
    IN  Range(ran) \cap cohort # {} =>
            /\ \A i, j \in 1..Len(ran) : i < j => ran[i] < ran[j]
            /\ at = "failed" \/ cohort \subseteq Range(woken')]_vars

\* The valve refuses the run only for reports that really never came: every
\* victim is accounted, and no hold waits for a report that has been given.
RefusesOnlyTheLost ==
    refused => unaccounted = {} /\ unpublished # {} /\ unpublished \subseteq lost

\* A sender's kill(2) returns, or the run is refused.
KillsReturn == at = "waiting" ~> (at # "waiting" \/ refused)
=============================================================================
