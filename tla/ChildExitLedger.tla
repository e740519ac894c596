-------------------------- MODULE ChildExitLedger --------------------------
(***************************************************************************)
(* The ledger of child-exit SIGCHLDs of one parent process,                *)
(* detcore/src/scheduler/child_exit_sigchld.rs, as pure operators on a     *)
(* record.  A child is its pid.  A siginfo is the copy it describes: the   *)
(* kernel's copy for a child (the siginfo Linux gives the parent), the     *)
(* scheduler's own (from the tracer), a thread-directed one, or another.   *)
(***************************************************************************)
EXTENDS Integers, Sequences, SequencesExt

CONSTANT NoThread

\* The backend and the process, which a run does not change.
VARIABLE setup

Children == setup.children          \* the pids of the parent's children
Threads == setup.threads            \* the threads of the parent
Models == setup.models              \* models_signal_targets
Publication == setup.publication    \* child_exit_publication().is_ok()

\* DequeuedCopy
KernelCopy(c) == [kind |-> "kernel", child |-> c]
SchedulerCopy == [kind |-> "scheduler", child |-> 0]
OtherCopy == [kind |-> "other", child |-> 0]
ThreadCopy == [kind |-> "thread", child |-> 0]
NoCopy == [kind |-> "none", child |-> 0]

\* WindowSend: Child(c), or a send of the scheduler, of a dying parent, of a guest.
ChildSend(c) == [from |-> "child", child |-> c]
OtherSend(from) == [from |-> from, child |-> 0]

\* ChildExitSigchldLedger::default.  An Unsent or Sent state holds the siginfo
\* of its own child.
NewLedger ==
    [owned |-> [c \in Children |-> "none"],
     sent |-> <<>>,
     cohort |-> {},
     window |-> <<>>,
     attributed |-> {},
     private_sent |-> {},
     outside_taker |-> FALSE,
     thread_directed |-> [c \in Children |-> NoThread]]

Owns(L, c) == L.owned[c] # "none"
Outstanding(L, c) == L.owned[c] \in {"Unsent", "Sent"}

\* own, of a child that reported its exit status
Own(L, c) ==
    [L EXCEPT !.owned[c] = "Unsent", !.thread_directed[c] = NoThread]

Forget(L, c) ==
    [L EXCEPT !.owned[c] = "none", !.cohort = @ \ {c}, !.thread_directed[c] = NoThread]

\* timer, of an Unsent child: TimerSend::Send
TimerSend(L, c) == [L EXCEPT !.owned[c] = "Sent", !.sent = Append(@, c)]

\* stand_in
StandIn(L, c) == IF Owns(L, c) THEN [L EXCEPT !.owned[c] = "Delivered"] ELSE L

\* What a kernel copy delivered for an outstanding child makes of its state.
ByKernel(L, c) ==
    [L EXCEPT !.owned[c] =
        IF @ = "Unsent" THEN "DeliveredBeforeSend" ELSE "DeliveredWhileSent"]

\* What becomes of a taken copy: the ledger after, and the copy as delivered.
Kept(L, copy) == [ledger |-> L, copy |-> copy]
Dropped(L) == [ledger |-> L, copy |-> NoCopy]

\* claim_for_cohort: the members for which no SIGCHLD was delivered.
CohortOutstanding(L, c) ==
    IF c \in L.cohort THEN {m \in L.cohort : Outstanding(L, m)} ELSE {}
Lowest(S) == CHOOSE c \in S : \A d \in S : c <= d

\* claim
Claim(L, c) ==
    CASE Outstanding(L, c) -> Kept(ByKernel(L, c), KernelCopy(c))
      [] L.owned[c] = "Delivered" -> Dropped(Forget(L, c))
      [] OTHER -> Kept(L, KernelCopy(c))

\* drop_kernel_copy_of_thread_directed
DropsKernelCopy(L, c, taker) ==
    /\ L.thread_directed[c] = taker
    /\ \A i \in DOMAIN L.sent :
         L.owned[L.sent[i]] = "Sent" => L.thread_directed[L.sent[i]] # NoThread

\* claim_kernel_copy.  Without publication an outstanding child's copy is
\* delivered with the ledger's siginfo, which names the same child.
ClaimKernelCopy(L, c, taker) ==
    CASE DropsKernelCopy(L, c, taker) ->
           Dropped(IF L.owned[c] = "Delivered" THEN Forget(L, c) ELSE L)
      [] ~DropsKernelCopy(L, c, taker) /\ CohortOutstanding(L, c) # {} ->
           LET member == Lowest(CohortOutstanding(L, c))
           IN  Kept(ByKernel(L, member), KernelCopy(member))
      [] OTHER -> Claim(L, c)

\* take_own: the oldest sent child in state s, if any.
SentIn(L, s) == SelectSeq(L.sent, LAMBDA c : L.owned[c] = s)

\* take_own
TakeOwn(L) ==
    CASE SentIn(L, "Sent") # <<>> ->
           LET c == Head(SentIn(L, "Sent"))
           IN  Kept([L EXCEPT !.owned[c] = "Delivered", !.sent = Remove(@, c)], KernelCopy(c))
      [] SentIn(L, "Sent") = <<>> /\ SentIn(L, "DeliveredWhileSent") # <<>> ->
           LET c == Head(SentIn(L, "DeliveredWhileSent"))
           IN  Dropped([Forget(L, c) EXCEPT !.sent = Remove(@, c)])
      [] OTHER -> Kept(L, SchedulerCopy)

\* settle_sends, of the whole window: the children sent in it are notified.
Settled(L) ==
    LET sends == {s.child : s \in {s \in ToSet(L.window) : s.from = "child"}}
        done == {c \in sends : L.owned[c] \in {"Sent", "DeliveredWhileSent"}}
    IN  [L EXCEPT
           !.owned = [c \in Children |->
               IF c \in done
               THEN IF @[c] = "Sent" THEN "Delivered" ELSE "none"
               ELSE @[c]],
           !.cohort = {c \in @ : c \notin done \/ L.owned[c] = "Sent"},
           !.thread_directed = [c \in Children |->
               IF c \in done /\ L.owned[c] # "Sent" THEN NoThread ELSE @[c]],
           !.sent = SelectSeq(@, LAMBDA c : c \notin done),
           !.window = <<>>]
OldestSend(L) ==
    SelectSeq(L.window, LAMBDA s : s.from = "child" /\ L.owned[s.child] = "Sent")

\* Mutant of TakeWindow: a kernel copy at the front of the queue is judged by
\* its own child, as before the window.
TakeWindow_absorbed(L, copy) ==
    LET after == Settled(L)
    IN  IF copy.kind = "kernel" /\ L.owned[copy.child] = "Delivered"
        THEN Dropped(Forget(after, copy.child))
        ELSE IF OldestSend(L) = <<>> THEN Kept(after, copy)
             ELSE Kept(after, KernelCopy(Head(OldestSend(L)).child))

\* take_window: the taken copy holds every send of the window, and its siginfo
\* is the oldest child's unless the first send keeps its own.
TakeWindow(L, copy) ==
    LET after == Settled(L)
        absorbed == /\ copy.kind = "kernel"
                    /\ ChildSend(copy.child) \notin ToSet(L.window)
                    /\ copy.child \notin after.cohort
                    /\ after.owned[copy.child] = "Delivered"
        keeps == Head(L.window).from \in {"guest", "parent_death"}
        ledger == IF absorbed THEN Forget(after, copy.child) ELSE after
    IN  IF keeps \/ OldestSend(L) = <<>>
        THEN Kept(ledger, copy)
        ELSE Kept(ledger, KernelCopy(Head(OldestSend(L)).child))

\* flush; Flushed also clears the private copies' records.
Flush(L) == [Settled(L) EXCEPT !.private_sent = {}]

\* Mutant of WindowUsable: the window is used though a thread may take its
\* SIGCHLD outside the schedule.
WindowUsable_always(L) == TRUE

\* sigchld_window_usable
WindowUsable(L) == ~L.outside_taker

\* note_send, note_guest_send, note_parent_death_send, where the window is used.
NoteSend(L, send) ==
    IF Models /\ WindowUsable(L) THEN [L EXCEPT !.window = Append(@, send)] ELSE L

\* dequeue_sigchld: what the ledger makes of `copy', taken by thread t at a
\* delivery stop (admits) or by a synchronous wait; `ready' is whether the
\* delivery is marked for its turn.
DequeueSigchld(L0, t, copy, admits) ==
    LET L1 == [L0 EXCEPT !.attributed = @ \ {t}]
        L == IF WindowUsable(L1) THEN L1 ELSE [L1 EXCEPT !.window = <<>>]
        byWindow == Models /\ copy # ThreadCopy /\ L.window # <<>>
        taken == CASE byWindow -> TakeWindow(L, copy)
                   [] ~byWindow /\ copy.kind = "kernel" -> ClaimKernelCopy(L, copy.child, t)
                   [] ~byWindow /\ copy = SchedulerCopy -> TakeOwn(L)
                   [] OTHER -> Kept(L, copy)
        attributed == \/ byWindow
                      \/ copy.kind = "kernel" /\ Owns(L, copy.child) /\ taken.copy # NoCopy
                      \/ copy = SchedulerCopy /\ taken.copy.kind = "kernel"
    IN  IF t \in L1.private_sent
        THEN [ledger |-> [L1 EXCEPT !.private_sent = @ \ {t}], copy |-> copy, ready |-> admits]
        ELSE [ledger |-> [taken.ledger EXCEPT
                            !.attributed = IF admits /\ attributed THEN @ \cup {t} ELSE @],
              copy |-> taken.copy,
              ready |-> admits /\ byWindow]
=============================================================================
