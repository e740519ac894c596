-------------------------- MODULE RealItimerProofs --------------------------
(***************************************************************************)
(* Both implementations of ITIMER_REAL take only steps of Linux's timer,   *)
(* and a traced timer waits only for a dequeue the scheduler will see.     *)
(***************************************************************************)
EXTENDS RealItimer, TLAPS

-----------------------------------------------------------------------------
\* The traced timer: what holds between its steps.  A copy the scheduler counts
\* on is in the queue, or was delivered to a thread that has not gone on yet; an
\* expiry is deferred only under the exec barrier.
TracedInv ==
    /\ at \in {"turn", "stopped", "pass"}
    /\ phase \in {"none", "active", "inactive"}
    /\ copy \in BOOLEAN /\ periodic \in BOOLEAN
    /\ visible \in BOOLEAN /\ unobservable \in BOOLEAN
    /\ barrier \in BOOLEAN /\ deferred \in BOOLEAN
    /\ queue \in {"none", "copy", "phantom"}
    /\ disp \in Traced!Dispositions /\ blocked \in BOOLEAN
    /\ phase = "inactive" => periodic
    /\ phase = "none" => ~periodic
    /\ deferred => barrier /\ phase = "inactive"
    /\ at = "stopped" => ~barrier
    /\ copy => phase = "inactive" /\ (queue = "copy" \/ (queue = "none" /\ at = "stopped"))
    /\ phase = "inactive" /\ queue = "copy" /\ ~deferred /\ ~unobservable => copy
    /\ at = "pass" /\ phase = "inactive" /\ ~barrier => Traced!Observable

\* What a traced step promises.
TracedStep ==
    Traced!Observable /\ Traced!Observable' =>
        Traced!Linux!Next \/ UNCHANGED Traced!Linux!vars

\* The traced timer starts as the abstract one does.
LEMMA TracedInit == Traced!Init => TracedInv /\ Traced!Linux!Init
BY DEF Traced!Init, TracedInv, Traced!Dispositions, Traced!Linux!Init,
   Traced!Linux!Dispositions,
   Traced!LinuxTimer

\* setitimer
LEMMA TSetItimer ==
    ASSUME TracedInv, NEW value \in BOOLEAN, NEW interval \in BOOLEAN, Traced!SetItimer(value, interval)
    PROVE  TracedInv' /\ TracedStep
<1>1. TracedInv'
  BY DEF TracedInv, Traced!Observable, Traced!Dispositions, Traced!SetItimer, Traced!Runs,
     Traced!Rearms, Traced!Checked, Traced!CommitsObservability
<1>2. TracedStep
  BY DEF TracedInv, TracedStep, Traced!Observable, Traced!Dispositions, Traced!SetItimer,
     Traced!Runs, Traced!Rearms, Traced!Checked, Traced!CommitsObservability,
     Traced!LinuxTimer, Traced!Linux!Next, Traced!Linux!SetItimer, Traced!Linux!Remaining
<1> QED BY <1>1, <1>2

\* getitimer
LEMMA TGetItimer ==
    ASSUME TracedInv, Traced!GetItimer
    PROVE  TracedInv' /\ TracedStep
<1>1. TracedInv'
  BY DEF TracedInv, Traced!Observable, Traced!Dispositions, Traced!GetItimer, Traced!Runs,
     Traced!Reconcile, Traced!Rearms, Traced!Checked, Traced!CommitsObservability
<1>2. TracedStep
  BY DEF TracedInv, TracedStep, Traced!Observable, Traced!Dispositions, Traced!GetItimer,
     Traced!Runs, Traced!Reconcile, Traced!Rearms, Traced!Checked,
     Traced!CommitsObservability,
     Traced!LinuxTimer, Traced!Linux!Next, Traced!Linux!GetItimer, Traced!Linux!Remaining
<1> QED BY <1>1, <1>2

\* a synchronous read
LEMMA TTake ==
    ASSUME TracedInv, Traced!Take
    PROVE  TracedInv' /\ TracedStep
<1>1. TracedInv'
  BY DEF TracedInv, Traced!Observable, Traced!Dispositions, Traced!Take, Traced!Runs,
     Traced!Reconcile, Traced!Rearms, Traced!Checked, Traced!CommitsObservability
<1>2. TracedStep
  BY DEF TracedInv, TracedStep, Traced!Observable, Traced!Dispositions, Traced!Take,
     Traced!Runs, Traced!Reconcile, Traced!Rearms, Traced!Checked,
     Traced!CommitsObservability,
     Traced!LinuxTimer, Traced!Linux!Next, Traced!Linux!Dequeue, Traced!Linux!vars
<1> QED BY <1>1, <1>2

\* a delivery
LEMMA TDeliver ==
    ASSUME TracedInv, Traced!Deliver
    PROVE  TracedInv' /\ TracedStep
<1>1. TracedInv'
  BY DEF TracedInv, Traced!Observable, Traced!Dispositions, Traced!Deliver, Traced!Runs,
     Traced!alarm
<1>2. TracedStep
  BY DEF TracedInv, TracedStep, Traced!Observable, Traced!Dispositions, Traced!Deliver,
     Traced!Runs, Traced!alarm,
     Traced!LinuxTimer, Traced!Linux!Next, Traced!Linux!Dequeue, Traced!Linux!vars
<1> QED BY <1>1, <1>2

\* a send
LEMMA TSend ==
    ASSUME TracedInv, Traced!Send
    PROVE  TracedInv' /\ TracedStep
<1>1. TracedInv'
  BY DEF TracedInv, Traced!Observable, Traced!Dispositions, Traced!Send, Traced!NoteSigalrm,
     Traced!Sent, Traced!Ignores
<1>2. TracedStep
  BY DEF TracedInv, TracedStep, Traced!Observable, Traced!Dispositions, Traced!Send,
     Traced!NoteSigalrm, Traced!Sent, Traced!Ignores,
     Traced!LinuxTimer, Traced!Linux!Next, Traced!Linux!Send, Traced!Linux!Ignored,
     Traced!Linux!IgnoredWith
<1> QED BY <1>1, <1>2

\* an unclassified send
LEMMA TSendUnclassified ==
    ASSUME TracedInv, Traced!SendUnclassified
    PROVE  TracedInv' /\ TracedStep
<1>1. TracedInv'
  BY DEF TracedInv, Traced!Observable, Traced!Dispositions, Traced!SendUnclassified,
     Traced!Sent, Traced!Ignores, Traced!alarm
<1>2. TracedStep
  BY DEF TracedInv, TracedStep, Traced!Observable, Traced!Dispositions,
     Traced!SendUnclassified, Traced!Sent, Traced!Ignores, Traced!alarm,
     Traced!LinuxTimer, Traced!Linux!Next, Traced!Linux!Send, Traced!Linux!Ignored,
     Traced!Linux!IgnoredWith
<1> QED BY <1>1, <1>2

\* sigaction
LEMMA TSigaction ==
    ASSUME TracedInv, NEW d \in Traced!Dispositions, Traced!Sigaction(d)
    PROVE  TracedInv' /\ TracedStep
<1>1. TracedInv'
  BY DEF TracedInv, Traced!Observable, Traced!Dispositions, Traced!Sigaction, Traced!Runs,
     Traced!NoteDisposition
<1>2. TracedStep
  BY DEF TracedInv, TracedStep, Traced!Observable, Traced!Dispositions, Traced!Sigaction,
     Traced!Runs, Traced!NoteDisposition,
     Traced!LinuxTimer, Traced!Linux!Next, Traced!Linux!Sigaction, Traced!Linux!Dispositions
<1> QED BY <1>1, <1>2

\* the leader's mask
LEMMA TMask ==
    ASSUME TracedInv, NEW b \in BOOLEAN, Traced!Mask(b)
    PROVE  TracedInv' /\ TracedStep
<1>1. TracedInv'
  BY DEF TracedInv, Traced!Observable, Traced!Dispositions, Traced!Mask, Traced!Runs,
     Traced!alarm
<1>2. TracedStep
  BY DEF TracedInv, TracedStep, Traced!Observable, Traced!Dispositions, Traced!Mask,
     Traced!Runs, Traced!alarm,
     Traced!LinuxTimer, Traced!Linux!Next, Traced!Linux!Mask
<1> QED BY <1>1, <1>2

\* the conditions of observability
LEMMA THide ==
    ASSUME TracedInv, NEW b \in BOOLEAN, Traced!Hide(b)
    PROVE  TracedInv' /\ TracedStep
<1>1. TracedInv'
  BY DEF TracedInv, Traced!Observable, Traced!Dispositions, Traced!Hide, Traced!alarm
<1>2. TracedStep
  BY DEF TracedInv, TracedStep, Traced!Observable, Traced!Dispositions, Traced!Hide,
     Traced!alarm,
     Traced!LinuxTimer, Traced!Linux!Next, Traced!Linux!vars
<1> QED BY <1>1, <1>2

\* a quiesced boundary
LEMMA TBoundary ==
    ASSUME TracedInv, Traced!Boundary
    PROVE  TracedInv' /\ TracedStep
<1>1. TracedInv'
  BY DEF TracedInv, Traced!Observable, Traced!Dispositions, Traced!Boundary,
     Traced!Reconcile, Traced!Rearms, Traced!Checked, Traced!CommitsObservability
<1>2. TracedStep
  BY DEF TracedInv, TracedStep, Traced!Observable, Traced!Dispositions, Traced!Boundary,
     Traced!Reconcile, Traced!Rearms, Traced!Checked, Traced!CommitsObservability,
     Traced!LinuxTimer, Traced!Linux!Next, Traced!Linux!vars
<1> QED BY <1>1, <1>2

\* a grant
LEMMA TGrant ==
    ASSUME TracedInv, Traced!Grant
    PROVE  TracedInv' /\ TracedStep
<1>1. TracedInv'
  BY DEF TracedInv, Traced!Observable, Traced!Dispositions, Traced!Grant, Traced!alarm
<1>2. TracedStep
  BY DEF TracedInv, TracedStep, Traced!Observable, Traced!Dispositions, Traced!Grant,
     Traced!alarm,
     Traced!LinuxTimer, Traced!Linux!Next, Traced!Linux!vars
<1> QED BY <1>1, <1>2

\* an expiry
LEMMA TPop ==
    ASSUME TracedInv, Traced!Pop
    PROVE  TracedInv' /\ TracedStep
<1>1. TracedInv'
  <2> USE DEF TracedInv, Traced!Observable, Traced!Dispositions, Traced!Pop
  <2>1. CASE ~periodic
    BY <2>1 DEF Traced!Sent
  <2>2. CASE periodic /\ barrier
    BY <2>2
  <2>3. CASE periodic /\ ~barrier /\ ~Traced!Observable
    <3>1. UNCHANGED <<phase, copy, deferred>> /\ unobservable' \in BOOLEAN
      BY <2>3 DEF Traced!CommitsObservability
    <3>2. queue' \in {"none", "copy", "phantom"}
      BY <2>3 DEF Traced!Sent
    <3> QED BY <3>1, <3>2
  <2>4. CASE periodic /\ ~barrier /\ Traced!Observable
    <3>1. CASE /\ phase' = "inactive"
               /\ copy' = ~Traced!Ignores(disp, blocked)
               /\ queue' = IF Traced!Ignores(disp, blocked) THEN Traced!Discarded(queue) ELSE "copy"
               /\ UNCHANGED <<unobservable, deferred>>
      BY <2>4, <3>1 DEF Traced!Discarded, Traced!Ignores
    <3>2. CASE /\ unobservable' = TRUE
               /\ queue' = Traced!Sent(queue, Traced!Ignores(disp, blocked))
               /\ UNCHANGED <<phase, copy, deferred>>
      BY <2>4, <3>2 DEF Traced!Sent
    <3> QED BY <2>4, <3>1, <3>2
  <2> QED BY <2>1, <2>2, <2>3, <2>4
<1>2. TracedStep
  BY DEF TracedInv, TracedStep, Traced!Observable, Traced!Dispositions, Traced!Pop,
     Traced!Sent, Traced!Ignores, Traced!Discarded, Traced!CommitsObservability,
     Traced!LinuxTimer, Traced!Linux!Next, Traced!Linux!Expire, Traced!Linux!Stopped,
     Traced!Linux!Ignored, Traced!Linux!IgnoredWith, Traced!Linux!vars
<1> QED BY <1>1, <1>2

\* execve begins
LEMMA TExecStarts ==
    ASSUME TracedInv, Traced!ExecStarts
    PROVE  TracedInv' /\ TracedStep
<1>1. TracedInv'
  BY DEF TracedInv, Traced!Observable, Traced!Dispositions, Traced!ExecStarts, Traced!Runs,
     Traced!alarm
<1>2. TracedStep
  BY DEF TracedInv, TracedStep, Traced!Observable, Traced!Dispositions, Traced!ExecStarts,
     Traced!Runs, Traced!alarm,
     Traced!LinuxTimer, Traced!Linux!Next, Traced!Linux!vars
<1> QED BY <1>1, <1>2

\* execve ends
LEMMA TExecEnds ==
    ASSUME TracedInv, NEW succeeded \in BOOLEAN, NEW b \in BOOLEAN, Traced!ExecEnds(succeeded, b)
    PROVE  TracedInv' /\ TracedStep
<1>1. TracedInv'
  BY DEF TracedInv, Traced!Observable, Traced!Dispositions, Traced!ExecEnds,
     Traced!FinishExecAlarm, Traced!Sent, Traced!Ignores, Traced!Discarded,
     Traced!Reconcile, Traced!Rearms, Traced!Checked, Traced!CommitsObservability
<1>2. TracedStep
  <2> DEFINE d == IF succeeded /\ disp = "caught" THEN "dfl" ELSE disp
  <2> SUFFICES ASSUME Traced!Observable, Traced!Observable'
               PROVE  Traced!Linux!Exec(d, b)
    BY DEF TracedInv, TracedStep, Traced!Dispositions, Traced!Linux!Next,
       Traced!Linux!Dispositions
  <2> USE DEF TracedInv, Traced!Observable, Traced!Dispositions, Traced!ExecEnds, Traced!FinishExecAlarm,
          Traced!Ignores, Traced!LinuxTimer, Traced!Linux!Exec, Traced!Linux!Stopped,
          Traced!Linux!IgnoredWith
  <2>1. CASE deferred /\ ~Traced!Ignores(d, b)
    BY <2>1
  <2>2. CASE deferred /\ Traced!Ignores(d, b)
    BY <2>2 DEF Traced!Discarded, Traced!Reconcile, Traced!Rearms
  <2>3. CASE ~deferred
    BY <2>3 DEF Traced!Discarded, Traced!Reconcile, Traced!Rearms
  <2> QED BY <2>1, <2>2, <2>3
<1> QED BY <1>1, <1>2

-----------------------------------------------------------------------------
Reports ==
    [life : Controlled!Lives, seq : Nat \ {0}, alarm : BOOLEAN, read : BOOLEAN]

\* The controlled timer: what holds between its steps.  The report under way is
\* the current process's next dequeue or its latest; a late report is another
\* process's, or one of a process that is gone.
ControlledInv ==
    /\ at \in {"turn", "reporting", "stopped", "pass"}
    /\ phase \in {"disarmed", "active", "inactive", "dequeued"}
    /\ periodic \in BOOLEAN /\ queue \in BOOLEAN
    /\ retired \in BOOLEAN /\ failed \in BOOLEAN
    /\ disp \in Controlled!Dispositions /\ blocked \in BOOLEAN
    /\ life \in Controlled!Lives
    /\ sequence \in [Controlled!Lives -> Nat] /\ last = sequence
    /\ late \subseteq Reports
    /\ \A r \in late : r.life # life \/ retired
    /\ at = "reporting" =>
          /\ ~retired
          /\ report \in Reports /\ report.life = life
          /\ report.seq \in {sequence[life], sequence[life] + 1}
    /\ \A r \in late : r.life <= life
    /\ phase = "dequeued" => periodic
    /\ phase = "disarmed" => ~periodic
    /\ retired => phase = "disarmed" /\ ~queue /\ answer = "zero" /\ life < MaxLives

ControlledStep == Controlled!Linux!Next \/ UNCHANGED Controlled!Linux!vars

\* The controlled timer starts as the abstract one does.
LEMMA ControlledInit == Controlled!Init => ControlledInv /\ Controlled!Linux!Init
<1> SUFFICES ASSUME Controlled!Init PROVE ControlledInv /\ Controlled!Linux!Init
  OBVIOUS
<1>1. Controlled!Linux!Init
  BY DEF Controlled!Init, Controlled!Dispositions, Controlled!Linux!Init,
     Controlled!Linux!Dispositions, Controlled!LinuxTimer
<1>2. life \in Controlled!Lives /\ sequence \in [Controlled!Lives -> Nat] /\ last = sequence
  BY ItimerAssumption DEF Controlled!Init, Controlled!Lives
<1> QED BY <1>1, <1>2 DEF Controlled!Init, ControlledInv

\* setitimer
LEMMA CSetItimer ==
    ASSUME ControlledInv, NEW value \in BOOLEAN, NEW interval \in BOOLEAN, Controlled!SetItimer(value, interval)
    PROVE  ControlledInv' /\ ControlledStep
<1>1. ControlledInv'
  BY ItimerAssumption DEF ControlledInv, Reports, Controlled!Lives,
     Controlled!Dispositions, Controlled!backend, Controlled!guest, Controlled!SetItimer,
     Controlled!Runs, Controlled!Reconciled
<1>2. ControlledStep
  BY DEF ControlledInv, ControlledStep, Reports, Controlled!backend, Controlled!guest,
     Controlled!SetItimer, Controlled!Runs, Controlled!Reconciled, Controlled!LinuxTimer,
     Controlled!Linux!Next, Controlled!Linux!SetItimer, Controlled!Linux!Remaining
<1> QED BY <1>1, <1>2

\* getitimer
LEMMA CGetItimer ==
    ASSUME ControlledInv, Controlled!GetItimer
    PROVE  ControlledInv' /\ ControlledStep
<1>1. ControlledInv'
  BY ItimerAssumption DEF ControlledInv, Reports, Controlled!Lives,
     Controlled!Dispositions, Controlled!backend, Controlled!guest, Controlled!GetItimer,
     Controlled!Runs, Controlled!Reconciled
<1>2. ControlledStep
  BY DEF ControlledInv, ControlledStep, Reports, Controlled!backend, Controlled!guest,
     Controlled!GetItimer, Controlled!Runs, Controlled!Reconciled, Controlled!LinuxTimer,
     Controlled!Linux!Next, Controlled!Linux!GetItimer, Controlled!Linux!Remaining
<1> QED BY <1>1, <1>2

\* a send
LEMMA CSend ==
    ASSUME ControlledInv, Controlled!Send
    PROVE  ControlledInv' /\ ControlledStep
<1>1. ControlledInv'
  BY ItimerAssumption DEF ControlledInv, Reports, Controlled!Lives,
     Controlled!Dispositions, Controlled!backend, Controlled!guest, Controlled!Send,
     Controlled!Ignores
<1>2. ControlledStep
  BY DEF ControlledInv, ControlledStep, Reports, Controlled!backend, Controlled!guest,
     Controlled!Send, Controlled!Ignores, Controlled!LinuxTimer, Controlled!Linux!Next,
     Controlled!Linux!Send, Controlled!Linux!Ignored, Controlled!Linux!IgnoredWith
<1> QED BY <1>1, <1>2

\* sigaction
LEMMA CSigaction ==
    ASSUME ControlledInv, NEW d \in Controlled!Dispositions, Controlled!Sigaction(d)
    PROVE  ControlledInv' /\ ControlledStep
<1>1. ControlledInv'
  BY ItimerAssumption DEF ControlledInv, Reports, Controlled!Lives,
     Controlled!Dispositions, Controlled!backend, Controlled!guest, Controlled!Sigaction,
     Controlled!Runs, Controlled!Dispositions
<1>2. ControlledStep
  BY DEF ControlledInv, ControlledStep, Reports, Controlled!backend, Controlled!guest,
     Controlled!Sigaction, Controlled!Runs, Controlled!Dispositions,
     Controlled!LinuxTimer, Controlled!Linux!Next, Controlled!Linux!Sigaction,
     Controlled!Linux!Dispositions
<1> QED BY <1>1, <1>2

\* the leader's mask
LEMMA CMask ==
    ASSUME ControlledInv, NEW b \in BOOLEAN, Controlled!Mask(b)
    PROVE  ControlledInv' /\ ControlledStep
<1>1. ControlledInv'
  BY ItimerAssumption DEF ControlledInv, Reports, Controlled!Lives,
     Controlled!Dispositions, Controlled!backend, Controlled!guest, Controlled!Mask,
     Controlled!Runs
<1>2. ControlledStep
  BY DEF ControlledInv, ControlledStep, Reports, Controlled!backend, Controlled!guest,
     Controlled!Mask, Controlled!Runs, Controlled!LinuxTimer, Controlled!Linux!Next,
     Controlled!Linux!Mask
<1> QED BY <1>1, <1>2

\* an expiry
LEMMA CPop ==
    ASSUME ControlledInv, Controlled!Pop
    PROVE  ControlledInv' /\ ControlledStep
<1>1. ControlledInv'
  BY ItimerAssumption DEF ControlledInv, Reports, Controlled!Lives,
     Controlled!Dispositions, Controlled!backend, Controlled!guest, Controlled!Pop,
     Controlled!Ignores
<1>2. ControlledStep
  BY DEF ControlledInv, ControlledStep, Reports, Controlled!backend, Controlled!guest,
     Controlled!Pop, Controlled!Ignores, Controlled!LinuxTimer, Controlled!Linux!Next,
     Controlled!Linux!Expire, Controlled!Linux!Stopped, Controlled!Linux!Ignored,
     Controlled!Linux!IgnoredWith
<1> QED BY <1>1, <1>2

\* a dequeue that is about to be reported
LEMMA CDequeue ==
    ASSUME ControlledInv, NEW alarm \in BOOLEAN, NEW read \in BOOLEAN, Controlled!Dequeue(alarm, read)
    PROVE  ControlledInv' /\ ControlledStep
<1>1. ControlledInv'
  BY ItimerAssumption DEF ControlledInv, Reports, Controlled!Lives,
     Controlled!Dispositions, Controlled!backend, Controlled!guest, Controlled!Dequeue,
     Controlled!Runs
<1>2. ControlledStep
  BY DEF ControlledInv, ControlledStep, Reports, Controlled!backend, Controlled!guest,
     Controlled!Dequeue, Controlled!Runs, Controlled!LinuxTimer, Controlled!Linux!Next,
     Controlled!Linux!Dequeue, Controlled!Linux!vars
<1> QED BY <1>1, <1>2

\* a report arrives, perhaps again
LEMMA CReport ==
    ASSUME ControlledInv, Controlled!Report
    PROVE  ControlledInv' /\ ControlledStep
<1>0. /\ at = "reporting"
      /\ UNCHANGED <<at, life, retired, periodic, report, late, queue, disp, blocked, answer>>
  BY DEF Controlled!Report, Controlled!backend, Controlled!guest
<1>a. report \in Reports /\ report.life = life /\ life \in Controlled!Lives /\ ~retired
  BY <1>0 DEF ControlledInv
<1>b. /\ phase' = phase \/ (phase' = "dequeued" /\ phase = "inactive" /\ periodic)
      /\ failed' \in BOOLEAN
  BY DEF ControlledInv, Controlled!Report, Controlled!Apply, Controlled!Restarts
<1>c. /\ sequence' \in [Controlled!Lives -> Nat] /\ last' = sequence'
      /\ report.seq \in {sequence'[life], sequence'[life] + 1}
  BY <1>0, <1>a DEF ControlledInv, Reports, Controlled!Report, Controlled!Apply
<1>1. ControlledInv'
  BY <1>0, <1>a, <1>b, <1>c DEF ControlledInv
<1>2. ControlledStep
  BY DEF ControlledInv, ControlledStep, Reports, Controlled!backend, Controlled!guest,
     Controlled!Report, Controlled!Apply, Controlled!Restarts, Controlled!LinuxTimer,
     Controlled!Linux!Next, Controlled!Linux!vars
<1> QED BY <1>1, <1>2

\* its acknowledgment
LEMMA CAcknowledged ==
    ASSUME ControlledInv, Controlled!Acknowledged
    PROVE  ControlledInv' /\ ControlledStep
<1>1. ControlledInv'
  BY ItimerAssumption DEF ControlledInv, Reports, Controlled!Lives,
     Controlled!Dispositions, Controlled!backend, Controlled!guest,
     Controlled!Acknowledged, Controlled!Reconciled
<1>2. ControlledStep
  BY DEF ControlledInv, ControlledStep, Reports, Controlled!backend, Controlled!guest,
     Controlled!Acknowledged, Controlled!Reconciled, Controlled!LinuxTimer,
     Controlled!Linux!Next, Controlled!Linux!vars
<1> QED BY <1>1, <1>2

\* a quiesced boundary
LEMMA CBoundary ==
    ASSUME ControlledInv, Controlled!Boundary
    PROVE  ControlledInv' /\ ControlledStep
<1>1. ControlledInv'
  BY ItimerAssumption DEF ControlledInv, Reports, Controlled!Lives,
     Controlled!Dispositions, Controlled!backend, Controlled!guest, Controlled!Boundary,
     Controlled!Reconciled
<1>2. ControlledStep
  BY DEF ControlledInv, ControlledStep, Reports, Controlled!backend, Controlled!guest,
     Controlled!Boundary, Controlled!Reconciled, Controlled!LinuxTimer,
     Controlled!Linux!Next, Controlled!Linux!vars
<1> QED BY <1>1, <1>2

\* a grant
LEMMA CGrant ==
    ASSUME ControlledInv, Controlled!Grant
    PROVE  ControlledInv' /\ ControlledStep
<1>1. ControlledInv'
  BY ItimerAssumption DEF ControlledInv, Reports, Controlled!Lives,
     Controlled!Dispositions, Controlled!backend, Controlled!guest, Controlled!Grant
<1>2. ControlledStep
  BY DEF ControlledInv, ControlledStep, Reports, Controlled!backend, Controlled!guest,
     Controlled!Grant, Controlled!LinuxTimer, Controlled!Linux!Next, Controlled!Linux!vars
<1> QED BY <1>1, <1>2

\* the process is gone
LEMMA CRetire ==
    ASSUME ControlledInv, Controlled!Retire
    PROVE  ControlledInv' /\ ControlledStep
<1>1. ControlledInv'
  <2>1. late' \subseteq Reports /\ \A r \in late' : r.life <= life
    BY DEF Controlled!Retire, ControlledInv, Controlled!Lives
  <2> QED BY <2>1 DEF Controlled!Retire, ControlledInv
<1>2. ControlledStep
  BY DEF ControlledInv, ControlledStep, Reports, Controlled!backend, Controlled!guest,
     Controlled!Retire, Controlled!LinuxTimer, Controlled!Linux!Next,
     Controlled!Linux!Replaced, Controlled!Linux!Dispositions, Controlled!Dispositions
<1> QED BY <1>1, <1>2

\* another process has its pid
LEMMA CBind ==
    ASSUME ControlledInv, Controlled!Bind
    PROVE  ControlledInv' /\ ControlledStep
<1>1. ControlledInv'
  <2>1. life' \in Controlled!Lives
    BY ItimerAssumption DEF Controlled!Bind, ControlledInv, Controlled!Lives
  <2>2. \A r \in late : r.life <= life' /\ r.life # life'
    BY DEF Controlled!Bind, ControlledInv, Reports, Controlled!Lives
  <2> QED BY <2>1, <2>2 DEF Controlled!Bind, ControlledInv, Controlled!backend
<1>2. ControlledStep
  BY DEF ControlledInv, ControlledStep, Reports, Controlled!backend, Controlled!guest,
     Controlled!Bind, Controlled!LinuxTimer, Controlled!Linux!Next,
     Controlled!Linux!Replaced, Controlled!Linux!Dispositions, Controlled!Dispositions
<1> QED BY <1>1, <1>2

\* a late report changes no timer
LEMMA CLateReport ==
    ASSUME ControlledInv, NEW r \in late, Controlled!LateReport(r)
    PROVE  ControlledInv' /\ ControlledStep
<1>1. ControlledInv'
  <2>1. ~Controlled!Restarts(r)
    BY DEF ControlledInv, Controlled!Restarts
  <2>2. /\ r \in Reports /\ r.life \in Controlled!Lives /\ r.seq \in Nat
        /\ r.life # life \/ retired
    BY DEF ControlledInv, Reports
  <2>3. /\ phase' = phase /\ failed' \in BOOLEAN
        /\ sequence' \in [Controlled!Lives -> Nat] /\ last' = sequence'
        /\ retired \/ sequence'[life] = sequence[life]
    BY <2>1, <2>2 DEF ControlledInv, Controlled!LateReport, Controlled!Apply
  <2>4. UNCHANGED <<at, life, retired, periodic, queue, disp, blocked, answer, report, late>>
    BY DEF Controlled!LateReport, Controlled!backend, Controlled!guest
  <2> QED BY <2>3, <2>4 DEF ControlledInv
<1>2. ControlledStep
  BY DEF ControlledInv, ControlledStep, Reports, Controlled!backend, Controlled!guest,
     Controlled!LateReport, Controlled!Apply, Controlled!Restarts, Controlled!LinuxTimer,
     Controlled!Linux!Next, Controlled!Linux!vars
<1> QED BY <1>1, <1>2

-----------------------------------------------------------------------------
\* Whichever implementation the process has keeps its invariant.
IInv ==
    /\ signal_control \in BOOLEAN
    /\ ~signal_control => TracedInv
    /\ signal_control => ControlledInv

\* Both timers start in the invariant.
LEMMA InitKeeps ==
    Init =>
        /\ IInv
        /\ ~signal_control => Traced!Linux!Init
        /\ signal_control => Controlled!Linux!Init
BY TracedInit, ControlledInit DEF Init, IInv

\* Every step of the composition is a step of the traced timer or leaves it alone.
LEMMA TracedNext ==
    ASSUME TracedInv, Traced!Next
    PROVE  TracedInv' /\ TracedStep
BY TSetItimer, TGetItimer, TTake, TDeliver, TSend, TSendUnclassified, TSigaction, TMask, THide,
   TBoundary, TGrant, TPop, TExecStarts, TExecEnds DEF Traced!Next

\* Every step of the composition is a step of the controlled timer or leaves it
\* alone.
LEMMA ControlledNext ==
    ASSUME ControlledInv, Controlled!Next
    PROVE  ControlledInv' /\ ControlledStep
BY CSetItimer, CGetItimer, CSend, CSigaction, CMask, CPop, CDequeue, CReport, CAcknowledged,
   CBoundary, CGrant, CRetire, CBind, CLateReport DEF Controlled!Next

\* A step of the process is a step of its implementation.
LEMMA NextKeeps ==
    ASSUME IInv, [Next]_vars
    PROVE  /\ IInv'
           /\ [~signal_control => TracedStep]_vars
           /\ [signal_control => ControlledStep]_vars
<1>1. CASE UNCHANGED vars
  <2>1. TracedInv => TracedInv'
    <3>1. UNCHANGED <<at, phase, copy, periodic, visible, unobservable, barrier, deferred, queue,
                      disp, blocked>>
      BY <1>1 DEF vars, traced
    <3>2. Traced!Observable' <=> Traced!Observable
      BY <3>1 DEF Traced!Observable
    <3> QED BY <3>1, <3>2 DEF TracedInv
  <2>2. ControlledInv => ControlledInv'
    BY <1>1 DEF vars, traced, controlled, ControlledInv
  <2> QED BY <1>1, <2>1, <2>2 DEF IInv, vars
<1>2. CASE Next /\ ~signal_control
  BY <1>2, TracedNext DEF Next, IInv
<1>3. CASE Next /\ signal_control
  BY <1>3, ControlledNext DEF Next, IInv
<1> QED BY <1>1, <1>2, <1>3 DEF IInv

\* At a pass a traced timer waits only for a dequeue the scheduler will see: no
\* timer whose copy was taken, or whose process ran outside the schedule, waits
\* for ever (reconcile_inactive_alarms).
THEOREM NoTimerIsStuck == Spec => []WaitsForADequeue
<1>1. IInv => WaitsForADequeue
  BY DEF IInv, TracedInv, WaitsForADequeue
<1>2. IInv /\ [Next]_vars => IInv'
  BY NextKeeps
<1> QED BY <1>1, <1>2, InitKeeps, PTL DEF Spec

\* While its dequeues can be observed, every step of a traced timer is a step of
\* Linux's, for a namespace's init and for any other process.
THEOREM TracedRefinement == Spec => TracedImplementsLinux
<1>1. IInv /\ [Next]_vars => IInv'
  BY NextKeeps
<1>2. IInv /\ [Next]_vars
        => [~signal_control /\ Traced!Observable /\ Traced!Observable'
              => Traced!Linux!Next \/ UNCHANGED Traced!Linux!vars]_vars
  BY NextKeeps DEF TracedStep
<1> QED BY <1>1, <1>2, InitKeeps, PTL DEF Spec, TracedImplementsLinux

\* Every step of a controlled timer is a step of Linux's, however many processes
\* have had the pid, however many dequeues they report and however often.
THEOREM ControlledRefinement == Spec => ControlledImplementsLinux
<1>1. IInv /\ [Next]_vars => IInv'
  BY NextKeeps
<1>2. IInv /\ [Next]_vars
        => [signal_control
              => Controlled!Linux!Next \/ UNCHANGED Controlled!Linux!vars]_vars
  BY NextKeeps DEF ControlledStep
<1> QED BY <1>1, <1>2, InitKeeps, PTL DEF Spec, ControlledImplementsLinux
=============================================================================
