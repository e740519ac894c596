--------------------------- MODULE SigkillProofs ---------------------------
(***************************************************************************)
(* Retiring the victims of SIGKILLs, for any number of threads, processes  *)
(* and kills: while a guest runs no committed kill is half done, and the   *)
(* valve refuses a run only for a report that was lost.                    *)
(***************************************************************************)
EXTENDS SigkillRetirement, TLAPS

USE ZenonT(30)

Requests == {"turn", "exit", "exit_group", "selfkill"}

Stages == {"guest", "reserved", "sent", "failed", "waiting", "granted",
           "committed", "leaving"}

Types ==
    /\ live \subseteq Threads /\ running \in Threads \cup {NoThread}
    /\ want \in [Threads -> Requests] /\ at \in Stages
    /\ call \in [Threads -> SUBSET Processes] /\ awaited \subseteq Threads
    /\ reservations \subseteq [sender : Threads, victims : SUBSET Threads]
    /\ held \subseteq Threads /\ unaccounted \subseteq Threads
    /\ granted \subseteq Processes /\ unpublished \subseteq Processes
    /\ retained \subseteq Threads /\ wakesSent \subseteq Threads
    /\ phys \in [Threads -> {"unborn", "alive", "doomed", "dead"}]
    /\ deregistered \subseteq Threads /\ committed \subseteq Threads
    /\ published \subseteq Processes /\ woken \in Seq(Threads)

\* What the kernel and the backend have done: a leader dies and deregisters
\* last, and a deregistered thread's wakes have run or are retained.
KernelInv ==
    /\ live \cap {t \in Threads : phys[t] = "unborn"} = {}
    /\ \A t \in deregistered : phys[t] = "dead" /\ (t \in Owners => t \in wakesSent)
    /\ \A t \in Threads : phys[ProcessOf[t]] = "dead" => phys[t] \in {"unborn", "dead"}
    /\ \A t \in Threads :
          ProcessOf[t] \in deregistered => phys[t] = "unborn" \/ t \in deregistered
    /\ wakesSent \subseteq Range(woken) \cup retained
    /\ \A p \in published : phys[p] = "dead"

\* The open reservations: each has its sender and its victims for itself, and a
\* victim's leader is a victim or the sender.
ReservationInv ==
    /\ \A r \in reservations :
          /\ phys[r.sender] # "unborn" /\ r.sender \notin r.victims
          /\ \A v \in r.victims :
                phys[v] # "unborn" /\ ProcessOf[v] \in r.victims \cup {r.sender}
    /\ \A r, q \in reservations : r.sender = q.sender => r = q
    /\ \A r, q \in reservations : r.victims \cap q.victims # {} => r = q

\* Where the sender of an open reservation is.
SenderInv ==
    \A r \in reservations :
       LET k == r.sender IN
       \/ running = k /\ at = "granted"
       \/ /\ running = k /\ at \in {"reserved", "sent", "failed"}
          /\ \A v \in r.victims : ProcessOf[v] # ProcessOf[k]
       \/ running # k /\ (k \in live => want[k] = "selfkill")

\* The ledger: a reserved victim's receipt is held, and a committed victim is
\* gone from the scheduler and unaccounted until its receipt comes.
LedgerInv ==
    /\ held = Reserved \cap deregistered
    /\ deregistered \cap live \subseteq held
    /\ unaccounted = committed \ deregistered
    /\ committed \cap (live \cup Reserved) = {}
    /\ \A v \in committed : phys[v] # "unborn"

\* A live thread's leader is live, unless its end is under way; and the leader
\* of a committed victim is one too, or is the sender or the thread whose fatal
\* signal ended them, which no other thread follows before it is retired.
LeaderInv ==
    /\ \A v \in live : \/ ProcessOf[v] \in live \cup unaccounted \cup deregistered
                       \/ ProcessOf[v] \in granted
    /\ \A v \in committed :
          \/ ProcessOf[v] \in committed
          \/ running = ProcessOf[v] /\ at \in {"committed", "leaving"}
          \/ ProcessOf[v] \in deregistered \ (live \cup Reserved)

\* After a process's exit was granted, the thread that runs its exit is the
\* only one left, or the kill's receipts are awaited.
GrantedInv ==
    \A p \in granted :
       \/ p \in unaccounted \cup deregistered
       \/ \A t \in live : ProcessOf[t] = p =>
             running = t /\ at \in {"granted", "committed", "leaving"}

\* The running thread, and what the fence makes true while it runs.
StageInv ==
    running # NoThread =>
       /\ running \in live
       /\ at \in {"guest", "reserved", "sent", "failed", "granted"} => unaccounted = {}
       /\ at = "waiting" => unaccounted \subseteq awaited
       /\ at = "granted" => ProcessOf[running] \in granted

IInv == /\ Types /\ KernelInv /\ ReservationInv /\ SenderInv /\ LedgerInv
        /\ LeaderInv /\ GrantedInv /\ StageInv

\* A sender's death leaves no send open: reservations end only in commit_sigkill.
NoSendIsAbandoned == \A r \in reservations : r.sender \notin deregistered

Settles == NoSendIsAbandoned => KillsAreSettled

\* Nothing but its own send ends a sender's process.
SafeSenders ==
    \A k \in Killers :
       /\ Of(ProcessOf[k]) \cap (Exits \cup Faults) = {}
       /\ ProcessOf[k] \notin HostKilled
       /\ \A j \in Killers \ {k}, targets \in Sends : ProcessOf[k] \notin targets

\* A thread asks to exit only where it may.
WantsInv == \A t \in Threads : want[t] \in {"exit", "exit_group"} => t \in Exits

\* A reservation is for the victims its sender's kill(2) targets.
CallsInv ==
    \A r \in reservations : /\ r.sender \in Killers /\ call[r.sender] \in Sends
                            /\ \A v \in r.victims : ProcessOf[v] \in call[r.sender]

\* A sender lives until its own send, after which it does no more than leave.
SparedInv ==
    \A k \in Killers :
       \/ phys[k] = "alive"
       \/ /\ k \notin live \/ (running = k /\ at = "leaving")
          /\ \A r \in reservations : r.sender # k

\* The thread in a send is a sender.
SendingInv ==
    running # NoThread =>
       /\ at \in {"reserved", "sent", "committed"} =>
             running \in Killers /\ call[running] \in Sends
       /\ at = "reserved" => ProcessOf[running] \notin call[running]
       /\ at = "committed" => phys[running] = "alive"

SafeInv == WantsInv /\ CallsInv /\ SparedInv /\ SendingInv

\* The commit holds for victims, until they are reported or the report is lost.
HoldsInv ==
    /\ unpublished \subseteq committed
    /\ lost \subseteq published
    /\ published \cap unpublished \subseteq lost

\* A process reported published that can still become a victim is known to be.
ReportsInv == published \cap (live \cup Reserved) \subseteq lost \cup completed \cup granted

\* The send ends its victims: those of a kill that ends its own sender after
\* the commit, all others before it.
EndedInv ==
    /\ \A v \in unaccounted : phys[v] = "alive" =>
          running # NoThread /\ at = "committed" /\ ProcessOf[v] \in call[running]
    /\ \A r \in reservations : running = r.sender /\ at = "sent" =>
          \A v \in r.victims : phys[v] # "alive"

\* A refused run commits nothing more.
RefusedInv == /\ refused => running = NoThread \/ at \in {"waiting", "guest"}
              /\ RefusesOnlyTheLost

RefusalInv == HoldsInv /\ ReportsInv /\ EndedInv /\ RefusedInv

-----------------------------------------------------------------------------
(* What the operators do.                                                  *)

\* An appended element is in the sequence.
LEMMA RangeAppend ==
    ASSUME NEW T, NEW s \in Seq(T), NEW x \in T
    PROVE  Append(s, x) \in Seq(T) /\ Range(Append(s, x)) = Range(s) \cup {x}
<1> DEFINE r == Append(s, x)
<1>1. /\ r \in Seq(T) /\ DOMAIN r = 1..Len(s) + 1 /\ DOMAIN s = 1..Len(s) /\ Len(s) \in Nat
      /\ r[Len(s) + 1] = x /\ \A i \in 1..Len(s) : r[i] = s[i]
  BY SMT
<1> HIDE DEF r
<1>2. \A y : y \in Range(r) <=> \E i \in 1..Len(s) + 1 : y = r[i]
  BY <1>1 DEF Range
<1>3. \A y : y \in Range(s) <=> \E i \in 1..Len(s) : y = s[i]
  BY <1>1 DEF Range
<1>4. \A i : i \in 1..Len(s) + 1 <=> i \in 1..Len(s) \/ i = Len(s) + 1
  BY <1>1, SMT
<1>5. Range(r) = Range(s) \cup {x}
  BY <1>1, <1>2, <1>3, <1>4, SMT
<1> QED BY <1>1, <1>5 DEF r

\* A concatenation contains what its parts do.
LEMMA RangeConcat ==
    ASSUME NEW T, NEW s \in Seq(T), NEW t \in Seq(T)
    PROVE  s \o t \in Seq(T) /\ Range(s \o t) = Range(s) \cup Range(t)
<1> DEFINE r == s \o t
<1>1. /\ r \in Seq(T) /\ Len(s) \in Nat /\ Len(t) \in Nat
      /\ DOMAIN r = 1..Len(s) + Len(t) /\ DOMAIN s = 1..Len(s) /\ DOMAIN t = 1..Len(t)
      /\ \A i \in 1..Len(s) : r[i] = s[i]
      /\ \A i \in 1..Len(t) : r[Len(s) + i] = t[i]
  BY SMT
<1> HIDE DEF r
<1>2. \A y : y \in Range(r) <=> \E i \in 1..Len(s) + Len(t) : y = r[i]
  BY <1>1 DEF Range
<1>3. \A y : y \in Range(s) <=> \E i \in 1..Len(s) : y = s[i]
  BY <1>1 DEF Range
<1>4. \A y : y \in Range(t) <=> \E i \in 1..Len(t) : y = t[i]
  BY <1>1 DEF Range
<1>5. \A i \in 1..Len(s) + Len(t) :
         i \in 1..Len(s) \/ (i - Len(s) \in 1..Len(t) /\ i = Len(s) + (i - Len(s)))
  BY <1>1, SMT
<1>6. /\ \A i \in 1..Len(s) : i \in 1..Len(s) + Len(t)
      /\ \A i \in 1..Len(t) : Len(s) + i \in 1..Len(s) + Len(t)
  BY <1>1, SMT
<1>7. ASSUME NEW y \in Range(r) PROVE y \in Range(s) \cup Range(t)
  <2>1. PICK i \in 1..Len(s) + Len(t) : y = r[i]
    BY <1>2, <1>7
  <2>2. CASE i \in 1..Len(s)
    BY <1>1, <1>3, <2>1, <2>2
  <2>3. CASE i - Len(s) \in 1..Len(t) /\ i = Len(s) + (i - Len(s))
    BY <1>1, <1>4, <2>1, <2>3
  <2> QED BY <1>5, <2>2, <2>3
<1>8. Range(s) \cup Range(t) \subseteq Range(r)
  BY <1>1, <1>2, <1>3, <1>4, <1>6, SMT
<1> QED BY <1>1, <1>7, <1>8 DEF r

\* A batch of wakes is added to those that ran.
LEMMA RunWakesFacts ==
    ASSUME IInv, NEW S \in SUBSET Threads, RunWakes(S)
    PROVE  woken' \in Seq(Threads) /\ Range(woken') = Range(woken) \cup S
<1>1. PICK s \in InOrder(S) : woken' = woken \o s
  BY DEF RunWakes
<1>2. Cardinality(S) \in Nat
  BY FiniteThreads
<1>3. s \in [1..Cardinality(S) -> Threads] /\ Range(s) = S
  BY DEF InOrder
<1>4. s \in Seq(Threads) /\ woken \in Seq(Threads)
  BY <1>2, <1>3, SMT DEF IInv, Types
<1> QED BY <1>1, <1>3, <1>4, RangeConcat, SMT

\* Who is reserved.
LEMMA ReservedBy == \A v : v \in Reserved <=> \E r \in reservations : v \in r.victims
BY DEF Reserved

\* A SIGKILL neither creates nor ends a thread at once.
LEMMA DoomedFacts ==
    ASSUME Types, NEW ps
    PROVE  /\ Doomed(ps) \in [Threads -> {"unborn", "alive", "doomed", "dead"}]
           /\ \A t \in Threads : /\ Doomed(ps)[t] = "unborn" <=> phys[t] = "unborn"
                                 /\ Doomed(ps)[t] = "dead" <=> phys[t] = "dead"
BY DEF Doomed, Types

\* A process is a thread, its own leader.
LEMMA LeaderFacts ==
    /\ Processes \subseteq Threads
    /\ \A t \in Threads : ProcessOf[t] \in Processes
    /\ \A p \in Processes : ProcessOf[p] = p /\ p \notin Unborn
BY SigkillAssumption, SMT DEF Processes

\* A guest's process is not ending, and its leader is registered.
LEMMA GuestFacts ==
    ASSUME IInv, NEW t \in Threads, Guest(t)
    PROVE  /\ t \in live /\ unaccounted = {}
           /\ ProcessOf[t] \notin granted /\ ProcessOf[t] \notin deregistered
           /\ ProcessOf[t] \in live
           /\ \A r \in reservations : r.sender # t
<1>1. running = t /\ running # NoThread /\ at = "guest" /\ phys[t] = "alive"
  BY SigkillAssumption DEF Guest
<1>2. t \in live /\ unaccounted = {}
  BY <1>1 DEF IInv, StageInv
<1>3. ProcessOf[t] \notin deregistered
  <2>1. t \notin deregistered
    BY <1>1 DEF IInv, KernelInv
  <2> QED BY <1>1, <2>1 DEF IInv, KernelInv
<1>4. ProcessOf[t] \notin granted
  BY <1>1, <1>2, <1>3 DEF IInv, GrantedInv
<1>5. ProcessOf[t] \in live
  BY <1>2, <1>3, <1>4 DEF IInv, LeaderInv
<1>6. \A r \in reservations : r.sender # t
  BY <1>1 DEF IInv, SenderInv
<1> QED BY <1>2, <1>3, <1>4, <1>5, <1>6


-----------------------------------------------------------------------------
(* What the parts of the invariant read.                                   *)

\* No thread is created.
Born == \A t \in Threads : phys'[t] = "unborn" <=> phys[t] = "unborn"

\* No thread is created, and none exits.
Same == Born /\ \A t \in Threads : phys'[t] = "dead" <=> phys[t] = "dead"

\* A step that ends no thread, deregisters none and drops no wake.
LEMMA KernelFrame ==
    ASSUME IInv, Same, live' \subseteq live,
           UNCHANGED <<wakesSent, deregistered, published>>,
           Range(woken) \cup retained \subseteq Range(woken') \cup retained'
    PROVE  KernelInv'
<1>1. Processes \subseteq Threads /\ \A t \in Threads : ProcessOf[t] \in Threads
  BY LeaderFacts
<1>2. /\ live \subseteq Threads /\ deregistered \subseteq Threads
      /\ published \subseteq Threads
  BY <1>1 DEF IInv, Types
<1> QED BY <1>1, <1>2 DEF IInv, KernelInv, Same, Born

\* A step that opens no reservation and creates no thread.
LEMMA ReservationFrame ==
    ASSUME IInv, Born, reservations' \subseteq reservations
    PROVE  ReservationInv'
<1>1. \A r \in reservations : r.sender \in Threads /\ r.victims \subseteq Threads
  BY DEF IInv, Types
<1> QED BY <1>1 DEF IInv, ReservationInv, Born

\* A step that leaves the ledger alone and registers no thread.
LEMMA LedgerFrame ==
    ASSUME IInv, Born, live' \subseteq live,
           UNCHANGED <<reservations, held, unaccounted, deregistered, committed>>
    PROVE  LedgerInv' /\ Reserved' = Reserved
<1>1. Reserved' = Reserved
  BY DEF Reserved
<1>2. committed \subseteq Threads
  BY DEF IInv, Types
<1> QED BY <1>1, <1>2 DEF IInv, LedgerInv, Born

\* A step that leaves the scheduler and the ledger alone.
LEMMA QuietKeeps ==
    ASSUME IInv, Types', KernelInv', Born,
           UNCHANGED <<live, want, running, at, awaited, granted, reservations, held,
                       unaccounted, deregistered, committed>>
    PROVE  IInv'
<1>1. ReservationInv'
  BY ReservationFrame
<1>2. LedgerInv' /\ Reserved' = Reserved
  BY LedgerFrame
<1>3. SenderInv'
  BY DEF IInv, SenderInv
<1>4. LeaderInv'
  BY <1>2 DEF IInv, LeaderInv
<1>5. GrantedInv'
  BY DEF IInv, GrantedInv
<1>6. StageInv'
  BY DEF IInv, StageInv
<1> QED BY <1>1, <1>2, <1>3, <1>4, <1>5, <1>6 DEF IInv

-----------------------------------------------------------------------------
(* The steps that leave the scheduler and the ledger alone.                *)

\* A send without a reservation only ends threads in the kernel.
LEMMA SendUnreservedKeeps ==
    ASSUME IInv, NEW t \in Threads, NEW targets \in Sends, SendUnreserved(t, targets)
    PROVE  IInv'
<1>1. /\ phys' = Doomed(targets) /\ UNCHANGED <<sched, ledger, woken, committed>>
      /\ UNCHANGED <<wakesSent, deregistered, published>>
  BY DEF SendUnreserved
<1>2. Same /\ Types'
  BY <1>1, DoomedFacts DEF IInv, Types, Same, Born, sched, ledger
<1>3. KernelInv'
  BY <1>1, <1>2, KernelFrame DEF sched, ledger
<1> QED BY <1>1, <1>2, <1>3, QuietKeeps DEF Same, sched, ledger

\* So does the host's kill.
LEMMA HostKillKeeps ==
    ASSUME IInv, NEW p \in Processes, HostKill(p)
    PROVE  IInv'
<1>1. /\ phys' = Doomed({p}) /\ UNCHANGED <<sched, ledger, woken, committed>>
      /\ UNCHANGED <<wakesSent, deregistered, published>>
  BY DEF HostKill
<1>2. Same /\ Types'
  BY <1>1, DoomedFacts DEF IInv, Types, Same, Born, sched, ledger
<1>3. KernelInv'
  BY <1>1, <1>2, KernelFrame DEF sched, ledger
<1> QED BY <1>1, <1>2, <1>3, QuietKeeps DEF Same, sched, ledger

\* A thread dies after the others of its process, if it is the leader.
LEMMA DieKeeps ==
    ASSUME IInv, NEW t \in Threads, Die(t)
    PROVE  IInv'
<1>1. /\ phys[t] = "doomed" /\ phys' = [phys EXCEPT ![t] = "dead"]
      /\ t = ProcessOf[t] => \A s \in Of(t) \ {t} : phys[s] \in {"unborn", "dead"}
      /\ UNCHANGED <<sched, ledger, wakesSent, deregistered, published, woken, committed>>
  BY DEF Die
<1>2. Types'
  BY <1>1 DEF IInv, Types, sched, ledger
<1>3. Born
  BY <1>1 DEF IInv, Types, Born
<1>4. \A s \in Threads : phys'[s] = IF s = t THEN "dead" ELSE phys[s]
  BY <1>1 DEF IInv, Types
<1>5. \A s \in Threads : phys'[ProcessOf[s]] = "dead" => phys'[s] \in {"unborn", "dead"}
  BY <1>1, <1>4, LeaderFacts, SMT DEF IInv, KernelInv, Of
<1>6. KernelInv'
  BY <1>1, <1>3, <1>4, <1>5, LeaderFacts, SMT DEF IInv, KernelInv, Types, Born, sched, ledger
<1> QED BY <1>1, <1>2, <1>3, <1>6, QuietKeeps DEF sched, ledger

\* A callback's wakes run or are retained.
LEMMA RobustListWakesKeeps ==
    ASSUME IInv, NEW t \in Threads, RobustListWakes(t)
    PROVE  IInv'
<1>1. /\ wakesSent' = wakesSent \cup {t}
      /\ UNCHANGED <<sched, reservations, held, unaccounted, unpublished, phys,
                     deregistered, published, committed>>
  BY DEF RobustListWakes
<1>2. woken \in Seq(Threads) /\ retained \subseteq Threads
  BY DEF IInv, Types
<1>3. /\ woken' \in Seq(Threads) /\ retained' \subseteq Threads
      /\ Range(woken) \cup retained \cup {t} \subseteq Range(woken') \cup retained'
  <2>1. CASE retained' = retained \cup {t} /\ woken' = woken
    BY <1>2, <2>1
  <2>2. CASE retained' = retained /\ woken' = Append(woken, t)
    BY <1>2, <2>2, RangeAppend, SMT
  <2> QED BY <2>1, <2>2 DEF RobustListWakes
<1>4. Types'
  BY <1>1, <1>3 DEF IInv, Types, sched
<1>5. KernelInv'
  BY <1>1, <1>3 DEF IInv, KernelInv, sched
<1> QED BY <1>1, <1>4, <1>5, QuietKeeps DEF Born, sched

\* A report, or its loss, is of a dead process.
LEMMA PublishKeeps ==
    ASSUME IInv, NEW p \in Processes, Publish(p) \/ Lose(p)
    PROVE  IInv'
<1>1. /\ phys[p] = "dead" /\ published' = published \cup {p}
      /\ unpublished' \subseteq unpublished
      /\ UNCHANGED <<sched, reservations, held, unaccounted, retained, phys, wakesSent,
                     deregistered, woken, committed>>
  BY DEF Publish, Lose, ledger
<1>2. Types'
  BY <1>1 DEF IInv, Types, sched
<1>3. KernelInv'
  BY <1>1 DEF IInv, KernelInv, sched
<1> QED BY <1>1, <1>2, <1>3, QuietKeeps DEF Born, sched

\* The refusal changes nothing the invariant reads.
LEMMA StutterKeeps ==
    ASSUME IInv, Refuse \/ UNCHANGED vars
    PROVE  IInv'
<1>1. UNCHANGED <<sched, ledger, kernel, woken, committed>>
  BY DEF Refuse, vars
<1>2. Types' /\ KernelInv'
  BY <1>1 DEF IInv, Types, KernelInv, sched, ledger, kernel
<1> QED BY <1>1, <1>2, QuietKeeps DEF Born, sched, ledger, kernel

-----------------------------------------------------------------------------
(* The steps of a guest.                                                   *)

\* A request ends the turn of a thread that has no send open.
LEMMA FilesKeeps ==
    ASSUME IInv, NEW t \in Threads,
           NEW request \in {"turn", "exit", "exit_group"}, Files(t, request)
    PROVE  IInv'
<1>1. /\ running = t /\ running # NoThread /\ at = "guest" /\ running' = NoThread
      /\ want' = [want EXCEPT ![t] = request]
      /\ UNCHANGED <<live, at, call, awaited, granted, ledger, kernel, refused, kills,
                     woken, committed>>
  BY SigkillAssumption DEF Files, Guest
<1>2. Types'
  BY <1>1 DEF IInv, Types, ledger, kernel, Requests
<1>3. KernelInv'
  BY <1>1 DEF IInv, KernelInv, kernel, ledger
<1>4. ReservationInv' /\ Reserved' = Reserved
  BY <1>1 DEF IInv, ReservationInv, Reserved, kernel, ledger
<1>5. SenderInv'
  <2>1. \A r \in reservations : r.sender # t /\ r.sender \in Threads
    BY GuestFacts DEF IInv, Types, Files
  <2>2. \A s \in Threads \ {t} : want'[s] = want[s]
    BY <1>1 DEF IInv, Types
  <2>3. UNCHANGED <<reservations, live>>
    BY <1>1 DEF ledger
  <2> QED BY <1>1, <2>1, <2>2, <2>3, SigkillAssumption, SMT DEF IInv, SenderInv
<1>6. LedgerInv'
  BY <1>1, <1>4 DEF IInv, LedgerInv, ledger, kernel
<1>7. LeaderInv'
  BY <1>1, <1>4 DEF IInv, LeaderInv, ledger, kernel
<1>8. GrantedInv'
  BY <1>1 DEF IInv, GrantedInv, ledger, kernel
<1>9. StageInv'
  BY <1>1 DEF StageInv
<1> QED BY <1>2, <1>3, <1>4, <1>5, <1>6, <1>7, <1>8, <1>9 DEF IInv


\* A new thread has a registered leader whose end is not under way.
LEMMA CloneKeeps ==
    ASSUME IInv, NEW t \in Threads, NEW c \in Unborn, Clone(t, c)
    PROVE  IInv'
<1>1. /\ Guest(t) /\ running = t /\ running # NoThread /\ at = "guest" /\ phys[t] = "alive"
      /\ phys[c] = "unborn" /\ ProcessOf[c] = ProcessOf[t] /\ c \in Threads
      /\ phys' = [phys EXCEPT ![c] = "alive"] /\ live' = live \cup {c}
      /\ UNCHANGED <<want, running, at, call, awaited, granted, ledger, wakesSent,
                     deregistered, published, woken, committed>>
  BY SigkillAssumption DEF Clone, Guest
<1>2. /\ t \in live /\ ProcessOf[t] \notin granted /\ ProcessOf[t] \notin deregistered
      /\ ProcessOf[t] \in live
  BY <1>1, GuestFacts
<1>3. /\ phys' \in [Threads -> {"unborn", "alive", "doomed", "dead"}]
      /\ \A s \in Threads : phys'[s] = IF s = c THEN "alive" ELSE phys[s]
  BY <1>1 DEF IInv, Types
<1>4. Types'
  BY <1>1, <1>3 DEF IInv, Types, ledger
<1>5. c \notin live \cup deregistered \cup committed \cup published
  BY <1>1 DEF IInv, KernelInv, LedgerInv
<1>6. KernelInv'
  <2>1. phys[ProcessOf[t]] # "dead" /\ ProcessOf[t] # c
    BY <1>1, <1>2, <1>5 DEF IInv, KernelInv
  <2>2. \A s \in Threads : phys'[ProcessOf[s]] = "dead" => phys'[s] \in {"unborn", "dead"}
    BY <1>1, <1>3, <2>1, LeaderFacts, SMT DEF IInv, KernelInv
  <2>3. \A s \in Threads :
           ProcessOf[s] \in deregistered' => phys'[s] = "unborn" \/ s \in deregistered'
    BY <1>1, <1>2, <1>3 DEF IInv, KernelInv
  <2>4. live' \cap {s \in Threads : phys'[s] = "unborn"} = {}
    BY <1>1, <1>3 DEF IInv, KernelInv
  <2> QED BY <1>1, <1>3, <1>5, <2>2, <2>3, <2>4, LeaderFacts, SMT DEF IInv, KernelInv, Types, ledger
<1>7. \A r \in reservations : /\ r.sender \in Threads /\ r.victims \subseteq Threads
                              /\ c # r.sender /\ c \notin r.victims
  BY <1>1 DEF IInv, Types, ReservationInv
<1>8. ReservationInv'
  BY <1>1, <1>3, <1>7, SMT DEF IInv, ReservationInv, ledger
<1>9. SenderInv'
  BY <1>1, <1>7 DEF IInv, SenderInv, ledger
<1>10. Reserved' = Reserved
  BY <1>1 DEF Reserved, ledger
<1>11. LedgerInv'
  BY <1>1, <1>3, <1>5, <1>10 DEF IInv, LedgerInv, Types, ledger
<1>12. LeaderInv'
  BY <1>1, <1>2, <1>5, <1>10 DEF IInv, LeaderInv, ledger
<1>13. GrantedInv'
  BY <1>1, <1>2 DEF IInv, GrantedInv, ledger
<1>14. StageInv'
  BY <1>1 DEF IInv, StageInv, ledger
<1> QED BY <1>4, <1>6, <1>8, <1>9, <1>11, <1>12, <1>13, <1>14 DEF IInv

\* The victims of a reservation: registered threads that no other send has
\* reserved, with their leaders.
LEMMA VictimFacts ==
    ASSUME IInv, NEW t \in Threads, NEW targets \in Sends, Guest(t), ~Refuses(t, targets)
    PROVE  LET V == Victims(t, targets)
           IN  /\ V \subseteq live \ {t} /\ V \cap Reserved = {} /\ V \cap deregistered = {}
               /\ \A v \in V : /\ ProcessOf[v] \in V \cup {t}
                               /\ ProcessOf[v] \in targets \ granted
<1> DEFINE V == Victims(t, targets)
<1>1. V \cap Reserved = {}
  BY DEF Refuses
<1>2. /\ V \subseteq live \ {t} /\ \A v \in V : ProcessOf[v] \in targets \ granted
      /\ \A v \in live : v # t /\ ProcessOf[v] \in targets \ granted => v \in V
  BY DEF Victims
<1> HIDE DEF V
<1>3. V \cap deregistered = {}
  BY <1>1, <1>2 DEF IInv, LedgerInv
<1>4. unaccounted = {} /\ live \subseteq Threads
  BY GuestFacts DEF IInv, Types
<1>5. ASSUME NEW v \in V PROVE ProcessOf[v] \in V \cup {t}
  <2>1. v \in Threads /\ v \in live /\ v \notin deregistered /\ phys[v] # "unborn"
    BY <1>2, <1>3, <1>4 DEF IInv, KernelInv
  <2>2. ProcessOf[v] \notin deregistered
    BY <2>1 DEF IInv, KernelInv
  <2>3. ProcessOf[v] \in live
    BY <1>2, <1>4, <2>1, <2>2 DEF IInv, LeaderInv
  <2>4. ProcessOf[ProcessOf[v]] = ProcessOf[v]
    BY <2>1, LeaderFacts
  <2> QED BY <1>2, <2>3, <2>4
<1>6. QED BY <1>1, <1>2, <1>3, <1>5 DEF V

\* A new reservation takes its victims with their leaders.
LEMMA ReserveKeeps ==
    ASSUME IInv, NEW t \in Threads, NEW targets \in Sends, Reserve(t, targets)
    PROVE  IInv'
<1> DEFINE V == Victims(t, targets)
           r0 == [sender |-> t, victims |-> V]
<1>1. /\ Guest(t) /\ running = t /\ running # NoThread /\ at = "guest" /\ phys[t] = "alive"
      /\ reservations' = reservations \cup {r0}
      /\ call' = [call EXCEPT ![t] = targets]
      /\ UNCHANGED <<live, awaited, granted, held, unaccounted, accounted, unpublished,
                     completed, retained, kernel, woken, committed>>
      /\ \/ want' = [want EXCEPT ![t] = "selfkill"] /\ running' = NoThread /\ at' = at
         \/ /\ ProcessOf[t] \notin targets \ granted /\ at' = "reserved"
            /\ want' = want /\ running' = running
  BY SigkillAssumption DEF Reserve, Guest
<1>2. /\ V \subseteq live \ {t} /\ V \cap Reserved = {} /\ V \cap deregistered = {}
      /\ \A v \in V : ProcessOf[v] \in V \cup {t} /\ ProcessOf[v] \in targets \ granted
  BY VictimFacts DEF Reserve
<1> HIDE DEF V
<1>3. t \in live /\ unaccounted = {} /\ \A r \in reservations : r.sender # t
  BY <1>1, GuestFacts
<1>4. live \subseteq Threads /\ V \subseteq Threads
  BY <1>2 DEF IInv, Types
<1>5. r0 \in [sender : Threads, victims : SUBSET Threads] /\ r0.sender = t /\ r0.victims = V
  BY <1>4
<1> HIDE DEF r0
<1>6. Types'
  <2>1. targets \subseteq Processes
    BY SigkillAssumption DEF Processes
  <2>2. call' \in [Threads -> SUBSET Processes]
    BY <1>1, <2>1 DEF IInv, Types
  <2>3. want' \in [Threads -> Requests] /\ at' \in Stages /\ running' \in Threads \cup {NoThread}
    BY <1>1 DEF IInv, Types, Requests, Stages
  <2>4. reservations' \subseteq [sender : Threads, victims : SUBSET Threads]
    BY <1>1, <1>5 DEF IInv, Types
  <2> QED BY <1>1, <2>2, <2>3, <2>4 DEF IInv, Types, kernel
<1>7. KernelInv'
  BY <1>1 DEF IInv, KernelInv, kernel
<1>8. \A v : v \in Reserved' <=> v \in Reserved \/ v \in V
  BY <1>1, <1>5 DEF Reserved
<1>9. \A r \in reservations : r.victims \cap V = {}
  BY <1>2, ReservedBy
<1>10. ReservationInv'
  <2>1. \A v \in V : phys[v] # "unborn"
    BY <1>2, <1>4 DEF IInv, KernelInv
  <2>2. \A r \in reservations' : r = r0 \/ r \in reservations
    BY <1>1
  <2>3. \A r, q \in reservations' : r.sender = q.sender => r = q
    BY <1>3, <1>5, <2>2 DEF IInv, ReservationInv
  <2>4. \A r, q \in reservations' : r.victims \cap q.victims # {} => r = q
    BY <1>5, <1>9, <2>2 DEF IInv, ReservationInv
  <2>5. ASSUME NEW r \in reservations'
        PROVE  /\ phys'[r.sender] # "unborn" /\ r.sender \notin r.victims
               /\ \A v \in r.victims :
                     phys'[v] # "unborn" /\ ProcessOf[v] \in r.victims \cup {r.sender}
    <3>1. phys' = phys
      BY <1>1 DEF kernel
    <3>2. CASE r = r0
      BY <1>1, <1>2, <1>5, <2>1, <3>1, <3>2
    <3>3. CASE r \in reservations
      BY <3>1, <3>3 DEF IInv, ReservationInv
    <3> QED BY <2>2, <3>2, <3>3
  <2> QED BY <2>3, <2>4, <2>5 DEF ReservationInv
<1>11. SenderInv'
  <2> SUFFICES ASSUME NEW r \in reservations'
               PROVE  \/ running' = r.sender /\ at' = "granted"
                      \/ /\ running' = r.sender /\ at' \in {"reserved", "sent", "failed"}
                         /\ \A v \in r.victims : ProcessOf[v] # ProcessOf[r.sender]
                      \/ running' # r.sender /\ (r.sender \in live' => want'[r.sender] = "selfkill")
    BY DEF SenderInv
  <2>1. CASE r = r0
    BY <1>1, <1>2, <1>5, <2>1 DEF IInv, Types
  <2>2. CASE r \in reservations
    <3>1. r.sender # t /\ r.sender \in Threads
      BY <1>3, <2>2 DEF IInv, Types
    <3>2. r.sender \in live => want[r.sender] = "selfkill"
      BY <1>1, <2>2, <3>1 DEF IInv, SenderInv
    <3> QED BY <1>1, <3>1, <3>2, SigkillAssumption, SMT DEF IInv, Types
  <2> QED BY <1>1, <2>1, <2>2
<1>12. LedgerInv'
  BY <1>1, <1>2, <1>8 DEF IInv, LedgerInv, kernel
<1>13. LeaderInv'
  BY <1>1, <1>2, <1>8 DEF IInv, LeaderInv, kernel
<1>14. GrantedInv'
  BY <1>1 DEF IInv, GrantedInv, kernel
<1>15. StageInv'
  BY <1>1, <1>3 DEF StageInv
<1> QED BY <1>6, <1>7, <1>10, <1>11, <1>12, <1>13, <1>14, <1>15 DEF IInv

-----------------------------------------------------------------------------
(* The sender's steps between its reservation and its return.              *)

\* A send ends its targets in the kernel only.
LEMMA SendKeeps ==
    ASSUME IInv, NEW t \in Threads, Send(t)
    PROVE  IInv'
<1>1. /\ running = t /\ at = "reserved" /\ at' \in {"sent", "failed"}
      /\ running # NoThread
      /\ UNCHANGED <<live, want, running, call, awaited, granted, ledger, wakesSent,
                     deregistered, published, woken, committed>>
      /\ phys' = phys \/ phys' = Doomed(call[t])
  BY SigkillAssumption DEF Send
<1>2. Same /\ Types'
  BY <1>1, DoomedFacts, SMT DEF IInv, Types, Same, Born, ledger, Stages
<1>3. KernelInv'
  BY <1>1, <1>2, KernelFrame DEF ledger
<1>4. ReservationInv'
  BY <1>1, <1>2, ReservationFrame DEF Same, ledger
<1>5. LedgerInv' /\ Reserved' = Reserved
  BY <1>1, <1>2, LedgerFrame DEF Same, ledger
<1>6. SenderInv'
  BY <1>1 DEF IInv, SenderInv, ledger
<1>7. LeaderInv'
  BY <1>1, <1>5 DEF IInv, LeaderInv, ledger
<1>8. GrantedInv'
  BY <1>1 DEF IInv, GrantedInv, ledger
<1>9. StageInv'
  BY <1>1 DEF IInv, StageInv, ledger
<1> QED BY <1>2, <1>3, <1>4, <1>5, <1>6, <1>7, <1>8, <1>9 DEF IInv

\* So does one that ends its sender, which then leaves.
LEMMA SendOwnKeeps ==
    ASSUME IInv, NEW t \in Threads, SendOwn(t)
    PROVE  IInv'
<1>1. /\ running = t /\ at = "committed" /\ at' = "leaving"
      /\ running # NoThread
      /\ UNCHANGED <<live, want, running, call, awaited, granted, ledger, wakesSent,
                     deregistered, published, woken, committed>>
      /\ phys' = Doomed(call[t])
  BY SigkillAssumption DEF SendOwn
<1>2. Same /\ Types'
  BY <1>1, DoomedFacts DEF IInv, Types, Same, Born, ledger, Stages
<1>3. KernelInv'
  BY <1>1, <1>2, KernelFrame DEF ledger
<1>4. ReservationInv'
  BY <1>1, <1>2, ReservationFrame DEF Same, ledger
<1>5. LedgerInv' /\ Reserved' = Reserved
  BY <1>1, <1>2, LedgerFrame DEF Same, ledger
<1>6. SenderInv'
  BY <1>1 DEF IInv, SenderInv, ledger
<1>7. LeaderInv'
  BY <1>1, <1>5 DEF IInv, LeaderInv, ledger
<1>8. GrantedInv'
  BY <1>1 DEF IInv, GrantedInv, ledger
<1>9. StageInv'
  BY <1>1 DEF IInv, StageInv, ledger
<1> QED BY <1>2, <1>3, <1>4, <1>5, <1>6, <1>7, <1>8, <1>9 DEF IInv

\* A kill(2) returns when its victims are accounted.
LEMMA ReturnKeeps ==
    ASSUME IInv, NEW t \in Threads, Return(t)
    PROVE  IInv'
<1>1. /\ running = t /\ at = "waiting" /\ at' = "guest" /\ Settled
      /\ running # NoThread
      /\ UNCHANGED <<live, want, running, call, awaited, granted, ledger, kernel,
                     woken, committed>>
  BY SigkillAssumption DEF Return
<1>2. Same /\ Types'
  BY <1>1 DEF IInv, Types, Same, Born, ledger, kernel, Stages
<1>3. KernelInv'
  BY <1>1, <1>2, KernelFrame DEF ledger, kernel
<1>4. ReservationInv'
  BY <1>1, <1>2, ReservationFrame DEF Same, ledger
<1>5. LedgerInv' /\ Reserved' = Reserved
  BY <1>1, <1>2, LedgerFrame DEF Same, ledger, kernel
<1>6. SenderInv'
  BY <1>1 DEF IInv, SenderInv, ledger
<1>7. LeaderInv'
  BY <1>1, <1>5 DEF IInv, LeaderInv, ledger, kernel
<1>8. GrantedInv'
  BY <1>1 DEF IInv, GrantedInv, ledger, kernel
<1>9. StageInv'
  BY <1>1 DEF IInv, StageInv, ledger, Settled
<1> QED BY <1>2, <1>3, <1>4, <1>5, <1>6, <1>7, <1>8, <1>9 DEF IInv

-----------------------------------------------------------------------------
(* The commit and the unwinding of a send, and a fatal delivery.           *)

\* A reservation that closes takes its own victims, and no other's.
LEMMA ClosedReservation ==
    ASSUME IInv, NEW r \in reservations, reservations' = reservations \ {r}
    PROVE  \A v : v \in Reserved' <=> v \in Reserved /\ v \notin r.victims
BY SMT DEF IInv, ReservationInv, Reserved

\* A commit moves its victims from the scheduler to the ledger.
LEMMA CommittedKeeps ==
    ASSUME IInv, NEW r \in reservations, running = r.sender, Committed(r), call' = call,
           \/ at = "sent" /\ at' = "waiting" /\ awaited' = r.victims
           \/ at = "granted" /\ at' = "committed" /\ awaited' = awaited
    PROVE  IInv'
<1> DEFINE V == r.victims
           P == {ProcessOf[v] : v \in V}
<1>1. /\ reservations' = reservations \ {r} /\ held' = held \ V
      /\ unaccounted' = unaccounted \cup (V \ held) /\ granted' = granted \cup P
      /\ unpublished' = unpublished \cup Holds(r)
      /\ live' = live \ V /\ running' = IF running \in V THEN NoThread ELSE running
      /\ committed' = committed \cup V
      /\ UNCHANGED <<want, retained, kernel, woken>>
  BY DEF Committed, Retire
<1>2. /\ r.sender \in Threads /\ V \subseteq Threads /\ r.sender \notin V
      /\ \A v \in V : phys[v] # "unborn" /\ ProcessOf[v] \in V \cup {r.sender}
  BY DEF IInv, Types, ReservationInv
<1>3. V \subseteq Reserved
  BY ReservedBy
<1>4. P \subseteq Processes /\ \A v \in V : ProcessOf[v] \in P
  BY <1>2, LeaderFacts
<1>5. \A p \in P : p \in V \cup {r.sender} /\ ProcessOf[p] = p
  BY <1>2, <1>4, LeaderFacts
<1>6. running' = running /\ running # NoThread /\ running \in live /\ unaccounted = {}
  BY <1>1, <1>2, SigkillAssumption DEF IInv, StageInv
<1>7. at = "sent" => \A v \in V : ProcessOf[v] # ProcessOf[r.sender]
  BY DEF IInv, SenderInv
<1>8. at = "granted" => ProcessOf[r.sender] \in granted
  BY <1>6 DEF IInv, StageInv
<1> HIDE DEF P
<1>9. Types'
  <2>1. Holds(r) \subseteq P
    BY DEF Holds, P
  <2> QED BY <1>1, <1>2, <1>4, <1>6, <2>1 DEF IInv, Types, Stages, kernel
<1>10. KernelInv'
  BY <1>1, KernelFrame DEF Same, Born, kernel
<1>11. ReservationInv'
  BY <1>1, ReservationFrame DEF Born, kernel
<1>12. \A v : v \in Reserved' <=> v \in Reserved /\ v \notin V
  BY <1>1, ClosedReservation
<1>13. LedgerInv'
  BY <1>1, <1>2, <1>3, <1>6, <1>12 DEF IInv, LedgerInv, kernel
<1>14. SenderInv'
  <2>1. \A q \in reservations' : q \in reservations /\ q.sender # r.sender
    BY <1>1 DEF IInv, ReservationInv
  <2> QED BY <1>1, <1>6, <2>1 DEF IInv, SenderInv
<1>15. LeaderInv'
  <2>1. ASSUME NEW v \in live'
        PROVE  \/ ProcessOf[v] \in live' \cup unaccounted' \cup deregistered'
               \/ ProcessOf[v] \in granted'
    <3>1. v \in live /\ v \in Threads
      BY <1>1 DEF IInv, Types
    <3>2. CASE ProcessOf[v] \in V
      <4>1. ProcessOf[ProcessOf[v]] = ProcessOf[v]
        BY <3>1, LeaderFacts
      <4> QED BY <1>1, <1>4, <3>2, <4>1
    <3>3. CASE ProcessOf[v] \notin V
      BY <1>1, <3>1, <3>3 DEF IInv, LeaderInv, kernel
    <3> QED BY <3>2, <3>3
  <2>2. ASSUME NEW v \in committed'
        PROVE  \/ ProcessOf[v] \in committed'
               \/ running' = ProcessOf[v] /\ at' \in {"committed", "leaving"}
               \/ ProcessOf[v] \in deregistered' \ (live' \cup Reserved')
    <3>1. CASE v \in V
      <4>1. CASE ProcessOf[v] \in V
        BY <1>1, <4>1
      <4>2. CASE ProcessOf[v] = r.sender
        <5>1. ProcessOf[r.sender] = ProcessOf[v]
          BY <1>2, <3>1, <4>2, LeaderFacts
        <5> QED BY <1>6, <1>7, <3>1, <4>2, <5>1
      <4> QED BY <1>2, <3>1, <4>1, <4>2
    <3>2. CASE v \in committed
      BY <1>1, <1>12, <3>2 DEF IInv, LeaderInv, kernel
    <3> QED BY <1>1, <3>1, <3>2
  <2> QED BY <2>1, <2>2 DEF LeaderInv
<1>16. GrantedInv'
  <2> SUFFICES ASSUME NEW p \in granted'
               PROVE  \/ p \in unaccounted' \cup deregistered'
                      \/ \A t \in live' : ProcessOf[t] = p =>
                            running' = t /\ at' \in {"granted", "committed", "leaving"}
    BY DEF GrantedInv
  <2>1. CASE p \in granted
    BY <1>1, <1>6, <2>1 DEF IInv, GrantedInv, kernel
  <2>2. CASE p \in V
    BY <1>1, <1>3, <2>2 DEF IInv, LedgerInv, kernel
  <2>3. CASE p \in P /\ p = r.sender
    <3>1. at = "granted"
      BY <1>5, <1>7, <2>3 DEF P
    <3> QED BY <1>5, <1>8, <2>1, <2>3, <3>1
  <2> QED BY <1>1, <1>5, <2>1, <2>2, <2>3
<1>17. StageInv'
  BY <1>1, <1>2, <1>6 DEF StageInv
<1> QED BY <1>9, <1>10, <1>11, <1>13, <1>14, <1>15, <1>16, <1>17 DEF IInv

\* A failed send retires the victims that deregistered meanwhile.
LEMMA UnwoundKeeps ==
    ASSUME IInv, NEW r \in reservations, running = r.sender, Unwound(r), call' = call,
           at = "failed", at' = "guest", awaited' = awaited
    PROVE  IInv'
<1> DEFINE V == r.victims
<1>1. /\ reservations' = reservations \ {r} /\ held' = held \ V
      /\ RunWakes(retained \cap V) /\ retained' = retained \ V
      /\ live' = live \ (held \cap V)
      /\ running' = IF running \in held \cap V THEN NoThread ELSE running
      /\ UNCHANGED <<want, granted, unaccounted, unpublished, kernel, committed>>
  BY DEF Unwound, Retire
<1>2. r.sender \in Threads /\ V \subseteq Threads /\ r.sender \notin V
  BY DEF IInv, Types, ReservationInv
<1>3. V \subseteq Reserved
  BY ReservedBy
<1>4. running' = running /\ running # NoThread /\ running \in live /\ unaccounted = {}
  BY <1>1, <1>2, SigkillAssumption DEF IInv, StageInv
<1>5. woken' \in Seq(Threads) /\ Range(woken') = Range(woken) \cup (retained \cap V)
  BY <1>1, <1>2, RunWakesFacts DEF IInv, Types
<1>6. Types'
  BY <1>1, <1>2, <1>4, <1>5 DEF IInv, Types, Stages, kernel
<1>7. KernelInv'
  BY <1>1, <1>5, KernelFrame DEF Same, Born, kernel
<1>8. ReservationInv'
  BY <1>1, ReservationFrame DEF Born, kernel
<1>9. \A v : v \in Reserved' <=> v \in Reserved /\ v \notin V
  BY <1>1, ClosedReservation
<1>10. LedgerInv'
  BY <1>1, <1>3, <1>9 DEF IInv, LedgerInv, kernel
<1>11. SenderInv'
  <2>1. \A q \in reservations' : q \in reservations /\ q.sender # r.sender
    BY <1>1 DEF IInv, ReservationInv
  <2> QED BY <1>1, <1>4, <2>1 DEF IInv, SenderInv
<1>12. LeaderInv'
  <2>1. held \subseteq deregistered
    BY DEF IInv, LedgerInv
  <2> QED BY <1>1, <1>4, <1>9, <2>1 DEF IInv, LeaderInv, kernel
<1>13. GrantedInv'
  BY <1>1, <1>4 DEF IInv, GrantedInv, kernel
<1>14. StageInv'
  BY <1>1, <1>2, <1>4 DEF StageInv
<1> QED BY <1>6, <1>7, <1>8, <1>10, <1>11, <1>12, <1>13, <1>14 DEF IInv

\* CommitSigkill, either way.
LEMMA CommitKeeps ==
    ASSUME IInv, NEW r \in reservations, Commit(r)
    PROVE  IInv'
BY CommittedKeeps, UnwoundKeeps DEF Commit

\* A fatal signal makes the process's other threads committed victims.
LEMMA FatalDeliveryKeeps ==
    ASSUME IInv, NEW t \in Threads, FatalDelivery(t)
    PROVE  IInv'
<1> DEFINE others == (live \cap Of(ProcessOf[t])) \ {t}
           W == IF others \cap Reserved = {} THEN others ELSE {}
<1>1. /\ Guest(t) /\ running = t /\ running # NoThread /\ at = "guest" /\ at' = "leaving"
      /\ unaccounted' = unaccounted \cup W /\ live' = live \ W
      /\ running' = IF running \in W THEN NoThread ELSE running
      /\ phys' = Doomed({ProcessOf[t]}) /\ committed' = committed \cup W
      /\ UNCHANGED <<want, call, awaited, granted, reservations, held, unpublished,
                     retained, wakesSent, deregistered, published, woken>>
  BY SigkillAssumption DEF FatalDelivery, Guest, Retire
<1>2. W \subseteq live /\ t \notin W /\ W \cap Reserved = {}
  OBVIOUS
<1>3. live \subseteq Threads
  BY DEF IInv, Types
<1>4. \A w \in W : ProcessOf[w] = ProcessOf[t]
  BY DEF Of
<1>5. /\ t \in live /\ unaccounted = {} /\ ProcessOf[t] \in live
      /\ \A r \in reservations : r.sender # t
  BY <1>1, GuestFacts
<1>6. \A w \in W : ProcessOf[t] \in W \cup {t}
  <2>1. ProcessOf[t] \in others \cup {t}
    BY <1>3, <1>5, LeaderFacts DEF Of
  <2> QED BY <2>1
<1> HIDE DEF W, others
<1>7. running' = running
  BY <1>1, <1>2
<1>8. W \cap deregistered = {} /\ \A w \in W : phys[w] # "unborn"
  BY <1>2, <1>3 DEF IInv, LedgerInv, KernelInv
<1>9. Same /\ Types'
  <2>1. Same /\ phys' \in [Threads -> {"unborn", "alive", "doomed", "dead"}]
    BY <1>1, DoomedFacts DEF IInv, Same, Born
  <2> QED BY <1>1, <1>2, <1>3, <1>7, <2>1 DEF IInv, Types, Stages
<1>10. KernelInv'
  BY <1>1, <1>9, KernelFrame
<1>11. ReservationInv' /\ Reserved' = Reserved
  BY <1>1, <1>9, ReservationFrame DEF Same, Reserved
<1>12. LedgerInv'
  BY <1>1, <1>2, <1>3, <1>5, <1>8, <1>9, <1>11 DEF IInv, LedgerInv, Types, Same, Born
<1>13. SenderInv'
  BY <1>1, <1>5, <1>7 DEF IInv, SenderInv
<1>14. LeaderInv'
  <2>1. ASSUME NEW v \in live'
        PROVE  \/ ProcessOf[v] \in live' \cup unaccounted' \cup deregistered'
               \/ ProcessOf[v] \in granted'
    BY <1>1 DEF IInv, LeaderInv
  <2>2. ASSUME NEW v \in committed'
        PROVE  \/ ProcessOf[v] \in committed'
               \/ running' = ProcessOf[v] /\ at' \in {"committed", "leaving"}
               \/ ProcessOf[v] \in deregistered' \ (live' \cup Reserved')
    <3>1. CASE v \in W
      BY <1>1, <1>4, <1>6, <1>7, <3>1
    <3>2. CASE v \in committed
      BY <1>1, <1>11, <3>2 DEF IInv, LeaderInv
    <3> QED BY <1>1, <3>1, <3>2
  <2> QED BY <2>1, <2>2 DEF LeaderInv
<1>15. GrantedInv'
  BY <1>1 DEF IInv, GrantedInv
<1>16. StageInv'
  BY <1>1, <1>2, <1>5, <1>7 DEF StageInv
<1> QED BY <1>9, <1>10, <1>11, <1>12, <1>13, <1>14, <1>15, <1>16 DEF IInv

-----------------------------------------------------------------------------
(* A grant, and a deregistration.                                          *)

\* A pass selects a thread only when no victim is unaccounted.
LEMMA GrantKeeps ==
    ASSUME IInv, NEW t \in Threads, Grant(t)
    PROVE  IInv'
<1> DEFINE group == want[t] \in {"exit_group", "selfkill"}
           S == IF group THEN Of(ProcessOf[t]) \ {t} ELSE {}
<1>1. /\ running = NoThread /\ unaccounted = {} /\ t \in live
      /\ RunWakes(retained) /\ retained' = {} /\ running' = t
      /\ at' = CASE want[t] = "turn" -> "guest"
                 [] want[t] = "selfkill" -> "granted"
                 [] OTHER -> "leaving"
      /\ granted' = IF group \/ (want[t] = "exit" /\ live \cap Of(ProcessOf[t]) = {t})
                    THEN granted \cup {ProcessOf[t]} ELSE granted
      /\ live' = live \ S
      /\ phys' = CASE want[t] = "exit_group" -> Doomed({ProcessOf[t]})
                   [] want[t] = "exit" /\ phys[t] = "alive" -> [phys EXCEPT ![t] = "doomed"]
                   [] OTHER -> phys
      /\ UNCHANGED <<want, call, awaited, reservations, held, unaccounted, unpublished,
                     wakesSent, deregistered, published, committed>>
  BY DEF Grant, FenceHolds
<1>2. want[t] \in Requests
  BY DEF IInv, Types
<1>3. /\ want[t] = "turn" => at' = "guest" /\ granted' = granted
      /\ want[t] = "selfkill" => at' = "granted"
      /\ want[t] \in {"exit", "exit_group"} => at' = "leaving"
  BY <1>1, <1>2 DEF Requests
<1>4. granted' # granted =>
         /\ at' \in {"granted", "leaving"} /\ granted' = granted \cup {ProcessOf[t]}
         /\ \A s \in live' : ProcessOf[s] = ProcessOf[t] => s = t
  BY <1>1, <1>2, <1>3 DEF Requests, Of, IInv, Types
<1>5. /\ t \notin S /\ (group => ProcessOf[t] \in granted')
      /\ \A s \in S : s \in Threads /\ ProcessOf[s] = ProcessOf[t] /\ ProcessOf[t] \in granted'
  BY <1>1 DEF Of
<1> HIDE DEF S
<1>6. Same /\ phys' \in [Threads -> {"unborn", "alive", "doomed", "dead"}]
  <2>1. CASE want[t] = "exit_group"
    BY <1>1, <2>1, DoomedFacts DEF IInv, Same, Born
  <2>2. CASE want[t] = "exit" /\ phys[t] = "alive"
    <3>1. phys' = [phys EXCEPT ![t] = "doomed"]
      BY <1>1, <2>2
    <3> QED BY <2>2, <3>1 DEF IInv, Types, Same, Born
  <2>3. CASE want[t] # "exit_group" /\ ~(want[t] = "exit" /\ phys[t] = "alive")
    BY <1>1, <2>3 DEF IInv, Types, Same, Born
  <2> QED BY <2>1, <2>2, <2>3
<1>7. woken' \in Seq(Threads) /\ Range(woken') = Range(woken) \cup retained
  BY <1>1, RunWakesFacts DEF IInv, Types
<1>8. at' \in {"guest", "granted", "leaving"}
  BY <1>2, <1>3 DEF Requests
<1>9. granted' = granted \/ granted' = granted \cup {ProcessOf[t]}
  BY <1>4
<1>10. Types'
  BY <1>1, <1>6, <1>7, <1>8, <1>9, LeaderFacts DEF IInv, Types, Stages
<1>11. KernelInv'
  BY <1>1, <1>6, <1>7, KernelFrame
<1>12. ReservationInv'
  BY <1>1, <1>6, ReservationFrame DEF Same
<1>13. LedgerInv' /\ Reserved' = Reserved
  BY <1>1, <1>6, LedgerFrame DEF Same
<1>14. SenderInv'
  <2>1. \A r \in reservations :
           r.sender \in Threads /\ (r.sender \in live => want[r.sender] = "selfkill")
    BY <1>1, SigkillAssumption, SMT DEF IInv, Types, SenderInv
  <2> QED BY <1>1, <1>3, <2>1 DEF SenderInv
<1>15. LeaderInv'
  <2>1. ASSUME NEW v \in live'
        PROVE  \/ ProcessOf[v] \in live' \cup unaccounted' \cup deregistered'
               \/ ProcessOf[v] \in granted'
    <3>1. v \in live /\ v \in Threads
      BY <1>1 DEF IInv, Types
    <3>2. CASE ProcessOf[v] \in S
      <4>1. ProcessOf[ProcessOf[v]] = ProcessOf[v]
        BY <3>1, LeaderFacts
      <4> QED BY <1>5, <3>2, <4>1
    <3>3. CASE ProcessOf[v] \notin S
      BY <1>1, <1>9, <3>1, <3>3 DEF IInv, LeaderInv
    <3> QED BY <3>2, <3>3
  <2>2. \A v \in committed' :
          \/ ProcessOf[v] \in committed'
          \/ ProcessOf[v] \in deregistered' \ (live' \cup Reserved')
    <3>1. \A v \in committed : ProcessOf[v] # NoThread
      BY LeaderFacts, SigkillAssumption, SMT DEF IInv, Types
    <3> QED BY <1>1, <1>13, <3>1 DEF IInv, LeaderInv
  <2> QED BY <2>1, <2>2 DEF LeaderInv
<1>16. GrantedInv'
  <2> SUFFICES ASSUME NEW p \in granted'
               PROVE  \/ p \in unaccounted' \cup deregistered'
                      \/ \A s \in live' : ProcessOf[s] = p =>
                            running' = s /\ at' \in {"granted", "committed", "leaving"}
    BY DEF GrantedInv
  <2>1. CASE p \in granted
    <3>1. NoThread \notin live
      BY SigkillAssumption DEF IInv, Types
    <3> QED BY <1>1, <2>1, <3>1 DEF IInv, GrantedInv
  <2>2. CASE p \notin granted
    BY <1>1, <1>4, <2>2
  <2> QED BY <2>1, <2>2
<1>17. StageInv'
  <2>1. at' = "granted" => ProcessOf[t] \in granted'
    BY <1>2, <1>3, <1>5 DEF Requests
  <2>2. running' = t /\ unaccounted' = {} /\ live' = live \ S /\ t \in live
    BY <1>1
  <2>3. t \in live'
    BY <1>5, <2>2
  <2> QED BY <2>3, <1>8, <2>1, <2>2 DEF StageInv
<1> QED BY <1>10, <1>11, <1>12, <1>13, <1>14, <1>15, <1>16, <1>17 DEF IInv

\* A deregistration is held, accounted, or retires the thread.
LEMMA DeregisterKeeps ==
    ASSUME IInv, NEW t \in Threads, Deregister(t)
    PROVE  IInv'
<1>1. /\ phys[t] = "dead" /\ t \notin deregistered /\ (t \in Owners => t \in wakesSent)
      /\ t = ProcessOf[t] => \A s \in Of(t) \ {t} : phys[s] = "unborn" \/ s \in deregistered
      /\ deregistered' = deregistered \cup {t}
      /\ UNCHANGED <<want, at, call, awaited, granted, reservations, unpublished,
                     retained, phys, wakesSent, published, woken, committed>>
  BY DEF Deregister
<1>2. \/ /\ t \in Reserved /\ held' = held \cup {t}
         /\ UNCHANGED <<unaccounted, live, running>>
      \/ /\ t \notin Reserved /\ t \in unaccounted /\ unaccounted' = unaccounted \ {t}
         /\ UNCHANGED <<held, live, running>>
      \/ /\ t \notin Reserved /\ t \notin unaccounted
         /\ live' = live \ {t} /\ running' = (IF running = t THEN NoThread ELSE running)
         /\ UNCHANGED <<held, unaccounted>>
  BY DEF Deregister, Retire
<1>3. Types'
  BY <1>1, <1>2 DEF IInv, Types
<1>4. live' \subseteq live /\ Reserved' = Reserved
  BY <1>1, <1>2 DEF Reserved
<1>5. KernelInv'
  <2>1. \A s \in Threads : ProcessOf[s] \in deregistered' =>
           phys'[s] = "unborn" \/ s \in deregistered'
    BY <1>1, LeaderFacts DEF IInv, KernelInv, Of
  <2> QED BY <1>1, <1>4, <2>1 DEF IInv, KernelInv
<1>6. ReservationInv'
  BY <1>1, ReservationFrame DEF Born
<1>7. LedgerInv'
  BY <1>1, <1>2, <1>4 DEF IInv, LedgerInv
<1>8. SenderInv'
  <2>1. \A r \in reservations : r.sender \in Threads
    BY DEF IInv, Types
  <2> QED BY <1>1, <1>2, <2>1, SigkillAssumption, SMT DEF IInv, SenderInv
<1>9. LeaderInv'
  <2>1. \A v \in live' : \/ ProcessOf[v] \in live' \cup unaccounted' \cup deregistered'
                         \/ ProcessOf[v] \in granted'
    BY <1>1, <1>2 DEF IInv, LeaderInv
  <2>2. ASSUME NEW v \in committed'
        PROVE  \/ ProcessOf[v] \in committed'
               \/ running' = ProcessOf[v] /\ at' \in {"committed", "leaving"}
               \/ ProcessOf[v] \in deregistered' \ (live' \cup Reserved')
    BY <1>1, <1>2, <1>4 DEF IInv, LeaderInv
  <2> QED BY <2>1, <2>2 DEF LeaderInv
<1>10. GrantedInv'
  BY <1>1, <1>2 DEF IInv, GrantedInv
<1>11. StageInv'
  BY <1>1, <1>2, SMT DEF IInv, StageInv
<1> QED BY <1>3, <1>5, <1>6, <1>7, <1>8, <1>9, <1>10, <1>11 DEF IInv

-----------------------------------------------------------------------------
(* The invariant.                                                          *)

\* The invariant holds at the start.
LEMMA InitInvariant == Init => IInv
<1> SUFFICES ASSUME Init PROVE IInv
  OBVIOUS
<1>1. Reserved = {}
  BY DEF Init, Reserved
<1>2. Range(woken) = {}
  BY SMT DEF Init, Range
<1>3. Types
  BY SigkillAssumption, SMT DEF Init, Types, Requests, Stages
<1>4. KernelInv
  BY <1>2, SigkillAssumption DEF Init, KernelInv
<1>5. LeaderInv
  BY LeaderFacts DEF Init, LeaderInv
<1> QED BY <1>1, <1>3, <1>4, <1>5 DEF Init, IInv, ReservationInv, SenderInv, LedgerInv,
                                    GrantedInv, StageInv

\* Every step keeps the invariant.
LEMMA NextInvariant == IInv /\ [Next]_vars => IInv'
<1> SUFFICES ASSUME IInv, [Next]_vars PROVE IInv'
  OBVIOUS
<1>1. ASSUME NEW t \in Threads, Turn(t) PROVE IInv'
  BY <1>1, GrantKeeps, FilesKeeps, CloneKeeps, ReserveKeeps, SendUnreservedKeeps,
     FatalDeliveryKeeps DEF Turn
<1>2. ASSUME NEW t \in Threads, Backend(t) PROVE IInv'
  BY <1>2, DieKeeps, RobustListWakesKeeps, DeregisterKeeps DEF Backend
<1>3. ASSUME NEW p \in Processes, HostKill(p) \/ Reports(p) PROVE IInv'
  BY <1>3, HostKillKeeps, PublishKeeps DEF Reports
<1>4. ASSUME Completes PROVE IInv'
  BY <1>4, SendKeeps, SendOwnKeeps, ReturnKeeps, CommitKeeps DEF Completes
<1> QED BY <1>1, <1>2, <1>3, <1>4, StutterKeeps DEF Next

\* The invariant holds always.
LEMMA Invariance == Spec => []IInv
BY InitInvariant, NextInvariant, PTL DEF Spec

\* While a guest runs, the leader of a committed victim is deregistered and no
\* open send has reserved it; so the process is dead in the kernel, and a
\* thread of it that is still registered is held for a sender that died.
LEMMA SettledByInvariant == IInv => Settles
<1> SUFFICES ASSUME IInv, NoSendIsAbandoned, NEW t \in Threads, Guest(t), NEW v \in committed
             PROVE  /\ v \in Owners => v \in Range(woken) \cup retained
                    /\ \A s \in Of(ProcessOf[v]) :
                          phys[s] \in {"unborn", "dead"} /\ s \notin live
  BY DEF Settles, KillsAreSettled
<1>1. unaccounted = {} /\ running = t /\ at = "guest"
  BY GuestFacts DEF Guest
<1>2. committed \subseteq deregistered /\ v \in Threads
  BY <1>1 DEF IInv, LedgerInv, Types
<1>3. v \in Owners => v \in Range(woken) \cup retained
  BY <1>2 DEF IInv, KernelInv
<1> DEFINE p == ProcessOf[v]
<1>4. p \in deregistered /\ p \notin Reserved
  BY <1>1, <1>2 DEF IInv, LeaderInv, LedgerInv
<1>5. phys[p] = "dead"
  BY <1>4 DEF IInv, KernelInv
<1>6. ASSUME NEW s \in Threads, ProcessOf[s] = p
      PROVE  phys[s] \in {"unborn", "dead"} /\ s \notin live
  <2>1. phys[s] \in {"unborn", "dead"} /\ (phys[s] = "unborn" \/ s \in deregistered)
    BY <1>4, <1>5, <1>6 DEF IInv, KernelInv
  <2>2. SUFFICES ASSUME s \in live PROVE FALSE
    BY <2>1
  <2>3. s \in Reserved
    BY <2>1, <2>2 DEF IInv, KernelInv, LedgerInv
  <2>4. PICK r \in reservations : s \in r.victims
    BY <2>3, ReservedBy
  <2>5. p \notin r.victims
    BY <1>4, ReservedBy
  <2>6. p = r.sender
    BY <1>6, <2>4, <2>5 DEF IInv, ReservationInv
  <2> QED BY <1>4, <2>6 DEF NoSendIsAbandoned
<1> QED BY <1>3, <1>6 DEF Of

\* While a guest runs, no committed kill is half done, unless the death of its
\* sender left a send open.
THEOREM KillsSettle == Spec => [](NoSendIsAbandoned => KillsAreSettled)
BY Invariance, SettledByInvariant, PTL DEF Settles

-----------------------------------------------------------------------------
(* Senders that nothing but their own send ends.                           *)

\* A SIGKILL ends no thread of a process it does not target.
LEMMA DoomedSpares ==
    ASSUME NEW ps, NEW t \in Threads, ProcessOf[t] \notin ps
    PROVE  Doomed(ps)[t] = phys[t]
BY DEF Doomed

\* No other sender's kill(2) targets a sender's process.
LEMMA SafeTargets ==
    ASSUME SafeSenders, NEW j \in Killers, NEW targets \in Sends,
           NEW k \in Killers, k # j
    PROVE  ProcessOf[k] \notin targets
BY DEF SafeSenders

\* A thread that may exit or take a fatal signal is not of a sender's process.
LEMMA SafeProcesses ==
    ASSUME SafeSenders, NEW k \in Killers, NEW t \in Exits \cup Faults
    PROVE  k \in Threads /\ t \in Threads /\ k # t /\ ProcessOf[k] # ProcessOf[t]
<1>1. k \in Threads /\ t \in Threads
  BY SigkillAssumption
<1>2. t \notin Of(ProcessOf[k])
  BY DEF SafeSenders
<1> QED BY <1>1, <1>2 DEF Of

\* A step that only touches the kernel's state, and ends no sender.
LEMMA SafeQuiet ==
    ASSUME SafeInv, UNCHANGED <<live, want, running, at, call, reservations>>,
           \A k \in Threads : k \in Killers /\ phys[k] = "alive" => phys'[k] = "alive"
    PROVE  SafeInv'
<1>1. Killers \subseteq Threads
  BY SigkillAssumption
<1>2. WantsInv' /\ CallsInv'
  BY DEF SafeInv, WantsInv, CallsInv
<1>3. SparedInv'
  BY <1>1 DEF SafeInv, SparedInv
<1>4. SendingInv'
  BY <1>1 DEF SafeInv, SendingInv
<1> QED BY <1>2, <1>3, <1>4 DEF SafeInv

\* A sender of an open reservation lives.
LEMMA OpenSenders ==
    ASSUME SafeInv, NEW r \in reservations
    PROVE  phys[r.sender] = "alive"
BY DEF SafeInv, CallsInv, SparedInv

\* A send is refused for a victim of another sender's, so it does not target
\* its own process.
LEMMA SendUnreservedSafe ==
    ASSUME SafeSenders, IInv, SafeInv,
           NEW t \in Threads, NEW targets \in Sends, SendUnreserved(t, targets)
    PROVE  SafeInv'
<1>1. /\ Guest(t) /\ t \in Killers /\ Refuses(t, targets) /\ phys' = Doomed(targets)
      /\ UNCHANGED <<live, want, running, at, call, reservations>>
  BY DEF SendUnreserved, sched, ledger
<1>2. t \in live /\ \A r \in reservations : r.sender # t
  BY <1>1, GuestFacts
<1>3. ProcessOf[t] \notin targets
  <2> SUFFICES ASSUME ProcessOf[t] \in targets PROVE FALSE
    OBVIOUS
  <2>1. Members(targets) # {}
    BY <1>2 DEF Members, Of
  <2>2. PICK v \in Reserved : TRUE
    BY <1>1, <2>1 DEF Refuses
  <2>3. PICK r \in reservations : v \in r.victims
    BY ReservedBy
  <2>4. r.sender \in Killers /\ r.sender # t
    BY <1>2 DEF SafeInv, CallsInv
  <2> QED BY <1>1, <2>4, SafeTargets
<1>4. \A k \in Killers : ProcessOf[k] \notin targets
  BY <1>1, <1>3, SafeTargets
<1>5. \A k \in Threads : k \in Killers => phys'[k] = phys[k]
  BY <1>1, <1>4, DoomedSpares
<1> QED BY <1>1, <1>5, SafeQuiet

\* The host kills no sender's process.
LEMMA HostKillSafe ==
    ASSUME SafeSenders, IInv, SafeInv, NEW p \in Processes, HostKill(p)
    PROVE  SafeInv'
<1>1. /\ p \in HostKilled /\ phys' = Doomed({p})
      /\ UNCHANGED <<live, want, running, at, call, reservations>>
  BY DEF HostKill, sched, ledger
<1>2. \A k \in Killers : ProcessOf[k] \notin {p}
  BY <1>1 DEF SafeSenders
<1>3. \A k \in Threads : k \in Killers => phys'[k] = phys[k]
  BY <1>1, <1>2, DoomedSpares
<1> QED BY <1>1, <1>3, SafeQuiet

\* What the backend reports, and the valve's refusal.
LEMMA BackendSafe ==
    ASSUME SafeInv, IInv,
           \/ \E t \in Threads : Die(t) \/ RobustListWakes(t)
           \/ \E p \in Processes : Publish(p) \/ Lose(p)
           \/ Refuse \/ UNCHANGED vars
    PROVE  SafeInv'
<1>1. ASSUME NEW t \in Threads, Die(t) PROVE SafeInv'
  <2>1. /\ phys[t] = "doomed" /\ phys' = [phys EXCEPT ![t] = "dead"]
        /\ UNCHANGED <<live, want, running, at, call, reservations>>
    BY <1>1 DEF Die, sched, ledger
  <2>2. \A k \in Threads : phys[k] = "alive" => phys'[k] = "alive"
    BY <2>1 DEF IInv, Types
  <2> QED BY <2>1, <2>2, SafeQuiet
<1>2. ASSUME NEW t \in Threads, RobustListWakes(t) PROVE SafeInv'
  BY <1>2, SafeQuiet DEF RobustListWakes, sched
<1>3. ASSUME NEW p \in Processes, Publish(p) \/ Lose(p) PROVE SafeInv'
  BY <1>3, SafeQuiet DEF Publish, Lose, sched, ledger
<1>4. ASSUME Refuse \/ UNCHANGED vars PROVE SafeInv'
  BY <1>4, SafeQuiet DEF Refuse, vars, sched, ledger, kernel
<1> QED BY <1>1, <1>2, <1>3, <1>4

\* A thread that deregisters runs no more.
LEMMA DeregisterSafe ==
    ASSUME SafeInv, IInv, NEW t \in Threads, Deregister(t)
    PROVE  SafeInv'
<1>1. /\ UNCHANGED <<want, at, call, reservations, phys>>
      /\ \/ UNCHANGED <<live, running>>
         \/ live' = live \ {t} /\ running' = IF running \in {t} THEN NoThread ELSE running
  BY DEF Deregister, Retire
<1>2. WantsInv' /\ CallsInv'
  BY <1>1 DEF SafeInv, WantsInv, CallsInv
<1>3. SparedInv'
  BY <1>1 DEF SafeInv, SparedInv
<1>4. SendingInv'
  BY <1>1 DEF SafeInv, SendingInv
<1> QED BY <1>2, <1>3, <1>4 DEF SafeInv

\* A pass ends at most the process of a thread that may exit.
LEMMA GrantSafe ==
    ASSUME SafeSenders, IInv, SafeInv, NEW t \in Threads, Grant(t)
    PROVE  SafeInv'
<1>1. /\ running = NoThread /\ running' = t /\ live' \subseteq live
      /\ phys' = CASE want[t] = "exit_group" -> Doomed({ProcessOf[t]})
                   [] want[t] = "exit" /\ phys[t] = "alive" -> [phys EXCEPT ![t] = "doomed"]
                   [] OTHER -> phys
      /\ UNCHANGED <<want, call, reservations>>
  BY DEF Grant
<1>2. at' \in {"guest", "granted", "leaving"}
  BY DEF Grant
<1>3. \A k \in Killers : phys'[k] = phys[k]
  <2> SUFFICES ASSUME NEW k \in Killers PROVE phys'[k] = phys[k]
    OBVIOUS
  <2>1. k \in Threads
    BY SigkillAssumption
  <2>2. CASE want[t] = "exit_group"
    <3>1. t \in Exits
      BY <2>2 DEF SafeInv, WantsInv
    <3>2. ProcessOf[k] \notin {ProcessOf[t]}
      BY <3>1, SafeProcesses
    <3> QED BY <1>1, <2>1, <2>2, <3>2, DoomedSpares
  <2>3. CASE want[t] = "exit" /\ phys[t] = "alive"
    <3>1. t \in Exits
      BY <2>3 DEF SafeInv, WantsInv
    <3>2. k # t
      BY <3>1, SafeProcesses
    <3>3. phys' = [phys EXCEPT ![t] = "doomed"]
      BY <1>1, <2>3
    <3> QED BY <3>2, <3>3, <2>1 DEF IInv, Types
  <2>4. CASE want[t] # "exit_group" /\ ~(want[t] = "exit" /\ phys[t] = "alive")
    BY <1>1, <2>4
  <2> QED BY <2>2, <2>3, <2>4
<1>4. WantsInv' /\ CallsInv'
  BY <1>1 DEF SafeInv, WantsInv, CallsInv
<1>5. SparedInv'
  <2>1. UNCHANGED reservations /\ live' \subseteq live /\ running \notin Killers
    BY <1>1, SigkillAssumption
  <2> QED BY <1>3, <2>1 DEF SafeInv, SparedInv
<1>6. SendingInv'
  BY <1>2 DEF SendingInv
<1> QED BY <1>4, <1>5, <1>6 DEF SafeInv

\* Only a thread that may exit asks to.
LEMMA FilesSafe ==
    ASSUME IInv, SafeInv, NEW t \in Threads,
           NEW request \in {"turn", "exit", "exit_group"}, Files(t, request)
    PROVE  SafeInv'
<1>1. /\ at = "guest" /\ running' = NoThread /\ want' = [want EXCEPT ![t] = request]
      /\ request \in {"exit", "exit_group"} => t \in Exits
      /\ UNCHANGED <<live, at, call, reservations, phys>>
  BY DEF Files, Guest, ledger, kernel
<1>2. WantsInv'
  BY <1>1 DEF IInv, Types, SafeInv, WantsInv
<1>3. CallsInv'
  BY <1>1 DEF SafeInv, CallsInv
<1>4. SparedInv'
  BY <1>1 DEF SafeInv, SparedInv
<1>5. SendingInv'
  BY <1>1 DEF SendingInv
<1> QED BY <1>2, <1>3, <1>4, <1>5 DEF SafeInv

\* A new thread lives.
LEMMA CloneSafe ==
    ASSUME IInv, SafeInv, NEW t \in Threads, NEW c \in Unborn, Clone(t, c)
    PROVE  SafeInv'
<1>1. /\ at = "guest" /\ phys' = [phys EXCEPT ![c] = "alive"] /\ live' = live \cup {c}
      /\ UNCHANGED <<want, running, at, call, reservations>> /\ c \in Threads
  BY SigkillAssumption DEF Clone, Guest, ledger
<1>2. WantsInv' /\ CallsInv'
  BY <1>1 DEF SafeInv, WantsInv, CallsInv
<1>3. SparedInv'
  BY <1>1, SigkillAssumption DEF IInv, Types, SafeInv, SparedInv
<1>4. SendingInv'
  BY <1>1 DEF SendingInv
<1> QED BY <1>2, <1>3, <1>4 DEF SafeInv

\* A reservation records the sender and what its kill(2) targets.
LEMMA ReserveSafe ==
    ASSUME IInv, SafeInv, NEW t \in Threads, NEW targets \in Sends, Reserve(t, targets)
    PROVE  SafeInv'
<1> DEFINE V == Victims(t, targets)
           r0 == [sender |-> t, victims |-> V]
<1>1. /\ Guest(t) /\ running = t /\ at = "guest" /\ phys[t] = "alive" /\ t \in Killers
      /\ reservations' = reservations \cup {r0} /\ call' = [call EXCEPT ![t] = targets]
      /\ UNCHANGED <<live, phys>>
      /\ \/ want' = [want EXCEPT ![t] = "selfkill"] /\ running' = NoThread
         \/ /\ ProcessOf[t] \notin targets \ granted /\ at' = "reserved"
            /\ want' = want /\ running' = running
  BY DEF Reserve, Guest, kernel
<1>2. r0.sender = t /\ r0.victims = V /\ \A v \in V : ProcessOf[v] \in targets
  BY DEF Victims
<1> HIDE DEF V, r0
<1>3. ProcessOf[t] \notin granted /\ \A r \in reservations : r.sender # t
  BY <1>1, GuestFacts
<1>4. call'[t] = targets /\ \A s \in Threads \ {t} : call'[s] = call[s]
  BY <1>1 DEF IInv, Types
<1>5. WantsInv'
  BY <1>1 DEF IInv, Types, SafeInv, WantsInv
<1>6. CallsInv'
  <2> SUFFICES ASSUME NEW r \in reservations'
               PROVE  /\ r.sender \in Killers /\ call'[r.sender] \in Sends
                      /\ \A v \in r.victims : ProcessOf[v] \in call'[r.sender]
    BY DEF CallsInv
  <2>1. CASE r = r0
    BY <1>1, <1>2, <1>4, <2>1
  <2>2. CASE r \in reservations
    <3>1. r.sender \in Threads \ {t}
      BY <1>3, <2>2 DEF IInv, Types
    <3> QED BY <1>4, <2>2, <3>1 DEF SafeInv, CallsInv
  <2> QED BY <1>1, <2>1, <2>2
<1>7. SparedInv'
  BY <1>1, <1>2 DEF SafeInv, SparedInv
<1>8. SendingInv'
  BY <1>1, <1>3, <1>4 DEF SendingInv
<1> QED BY <1>5, <1>6, <1>7, <1>8 DEF SafeInv

\* A fatal signal ends no sender's process.
LEMMA FatalDeliverySafe ==
    ASSUME SafeSenders, IInv, SafeInv, NEW t \in Threads, FatalDelivery(t)
    PROVE  SafeInv'
<1>1. /\ at = "guest" /\ t \in Faults /\ at' = "leaving" /\ live' \subseteq live
      /\ phys' = Doomed({ProcessOf[t]}) /\ UNCHANGED <<want, call, reservations>>
  BY DEF FatalDelivery, Guest, Retire
<1>2. \A k \in Killers : ProcessOf[k] \notin {ProcessOf[t]} /\ k \in Threads
  BY <1>1, SafeProcesses
<1>3. \A k \in Killers : phys'[k] = phys[k]
  BY <1>1, <1>2, DoomedSpares
<1>4. WantsInv' /\ CallsInv'
  BY <1>1 DEF SafeInv, WantsInv, CallsInv
<1>5. SparedInv'
  BY <1>1, <1>3 DEF SafeInv, SparedInv
<1>6. SendingInv'
  BY <1>1 DEF SendingInv
<1> QED BY <1>4, <1>5, <1>6 DEF SafeInv

\* A send that its sender survives ends no sender.
LEMMA SendSafe ==
    ASSUME SafeSenders, IInv, SafeInv, NEW t \in Threads, Send(t)
    PROVE  SafeInv'
<1>1. /\ running = t /\ running # NoThread /\ at = "reserved" /\ at' \in {"sent", "failed"}
      /\ phys' = phys \/ phys' = Doomed(call[t])
      /\ UNCHANGED <<live, want, running, call, reservations>>
  BY SigkillAssumption DEF Send, ledger
<1>2. t \in Killers /\ call[t] \in Sends /\ ProcessOf[t] \notin call[t]
  BY <1>1 DEF SafeInv, SendingInv
<1>3. \A k \in Killers : k \in Threads /\ ProcessOf[k] \notin call[t]
  BY <1>2, SafeTargets, SigkillAssumption
<1>4. \A k \in Killers : phys'[k] = phys[k]
  BY <1>1, <1>3, DoomedSpares
<1>5. WantsInv' /\ CallsInv'
  BY <1>1 DEF SafeInv, WantsInv, CallsInv
<1>6. SparedInv'
  BY <1>1, <1>4 DEF SafeInv, SparedInv
<1>7. SendingInv'
  BY <1>1, <1>2 DEF SendingInv
<1> QED BY <1>5, <1>6, <1>7 DEF SafeInv

\* A send that ends its sender comes when it has nothing left open.
LEMMA SendOwnSafe ==
    ASSUME SafeSenders, IInv, SafeInv, NEW t \in Threads, SendOwn(t)
    PROVE  SafeInv'
<1>1. /\ running = t /\ running # NoThread /\ at = "committed" /\ at' = "leaving"
      /\ phys' = Doomed(call[t])
      /\ UNCHANGED <<live, want, running, call, reservations>>
  BY SigkillAssumption DEF SendOwn, ledger
<1>2. t \in Killers /\ call[t] \in Sends
  BY <1>1 DEF SafeInv, SendingInv
<1>3. \A k \in Killers \ {t} : k \in Threads /\ ProcessOf[k] \notin call[t]
  BY <1>2, SafeTargets, SigkillAssumption
<1>4. \A k \in Killers \ {t} : phys'[k] = phys[k]
  BY <1>1, <1>3, DoomedSpares
<1>5. \A r \in reservations : r.sender # t
  BY <1>1 DEF IInv, SenderInv
<1>6. WantsInv' /\ CallsInv'
  BY <1>1 DEF SafeInv, WantsInv, CallsInv
<1>7. SparedInv'
  BY <1>1, <1>4, <1>5 DEF SafeInv, SparedInv
<1>8. SendingInv'
  BY <1>1 DEF SendingInv
<1> QED BY <1>6, <1>7, <1>8 DEF SafeInv

\* A kill(2) that returns changes no thread.
LEMMA ReturnSafe ==
    ASSUME SafeInv, NEW t \in Threads, Return(t)
    PROVE  SafeInv'
<1>1. /\ at = "waiting" /\ at' = "guest"
      /\ UNCHANGED <<live, want, running, call, reservations, phys>>
  BY DEF Return, ledger, kernel
<1>2. WantsInv' /\ CallsInv'
  BY <1>1 DEF SafeInv, WantsInv, CallsInv
<1>3. SparedInv'
  BY <1>1 DEF SafeInv, SparedInv
<1>4. SendingInv'
  BY <1>1 DEF SendingInv
<1> QED BY <1>2, <1>3, <1>4 DEF SafeInv

\* What a commit leaves alone, and that its sender keeps running.
LEMMA CommitFacts ==
    ASSUME IInv, NEW r \in reservations, Commit(r)
    PROVE  /\ running = r.sender /\ running # NoThread /\ at \in {"sent", "failed", "granted"}
           /\ running' = running /\ live' \subseteq live
           /\ reservations' = reservations \ {r}
           /\ UNCHANGED <<call, want, phys>>
           /\ at = "sent" => Committed(r) /\ at' = "waiting" /\ awaited' = r.victims
           /\ at = "failed" => Unwound(r) /\ at' = "guest"
           /\ at = "granted" => Committed(r) /\ at' = "committed"
<1>1. /\ running = r.sender /\ at \in {"sent", "failed", "granted"} /\ UNCHANGED call
      /\ at = "sent" => Committed(r) /\ at' = "waiting" /\ awaited' = r.victims
      /\ at = "failed" => Unwound(r) /\ at' = "guest"
      /\ at = "granted" => Committed(r) /\ at' = "committed"
  BY DEF Commit
<1>2. r.sender \in Threads /\ r.sender \notin r.victims
  BY DEF IInv, Types, ReservationInv
<1>3. CASE at \in {"sent", "granted"}
  <2>1. Committed(r)
    BY <1>1, <1>3
  <2>2. /\ running' = running /\ live' \subseteq live /\ reservations' = reservations \ {r}
        /\ UNCHANGED <<want, phys>>
    BY <1>1, <1>2, <2>1 DEF Committed, Retire, kernel
  <2> QED BY <1>1, <1>2, <2>2, SigkillAssumption
<1>4. CASE at = "failed"
  <2>1. Unwound(r)
    BY <1>1, <1>4
  <2>2. /\ running' = running /\ live' \subseteq live /\ reservations' = reservations \ {r}
        /\ UNCHANGED <<want, phys>>
    BY <1>1, <1>2, <2>1 DEF Unwound, Retire, kernel
  <2> QED BY <1>1, <1>2, <2>2, SigkillAssumption
<1> QED BY <1>1, <1>3, <1>4

\* The sender of a commit lives.
LEMMA CommitSafe ==
    ASSUME IInv, SafeInv, NEW r \in reservations, Commit(r)
    PROVE  SafeInv'
<1>1. /\ running = r.sender /\ at \in {"sent", "failed", "granted"}
      /\ running' = running /\ live' \subseteq live
      /\ reservations' \subseteq reservations /\ UNCHANGED <<call, want, phys>>
      /\ at' \in {"waiting", "guest", "committed"}
  BY CommitFacts
<1>2. r.sender \in Killers /\ call[r.sender] \in Sends /\ phys[r.sender] = "alive"
  BY OpenSenders DEF SafeInv, CallsInv
<1>3. WantsInv' /\ CallsInv'
  BY <1>1 DEF SafeInv, WantsInv, CallsInv
<1>4. SparedInv'
  BY <1>1 DEF SafeInv, SparedInv
<1>5. SendingInv'
  BY <1>1, <1>2 DEF SendingInv
<1> QED BY <1>3, <1>4, <1>5 DEF SafeInv

\* Every step keeps the senders safe.
LEMMA NextSafe == SafeSenders /\ IInv /\ SafeInv /\ [Next]_vars => SafeInv'
<1> SUFFICES ASSUME SafeSenders, IInv, SafeInv, [Next]_vars PROVE SafeInv'
  OBVIOUS
<1>1. ASSUME NEW t \in Threads, Turn(t) PROVE SafeInv'
  BY <1>1, GrantSafe, FilesSafe, CloneSafe, ReserveSafe, SendUnreservedSafe,
     FatalDeliverySafe DEF Turn
<1>2. ASSUME NEW t \in Threads, Backend(t) PROVE SafeInv'
  BY <1>2, BackendSafe, DeregisterSafe DEF Backend
<1>3. ASSUME NEW p \in Processes, HostKill(p) \/ Reports(p) PROVE SafeInv'
  BY <1>3, HostKillSafe, BackendSafe DEF Reports
<1>4. ASSUME Completes PROVE SafeInv'
  BY <1>4, SendSafe, SendOwnSafe, ReturnSafe, CommitSafe DEF Completes
<1> QED BY <1>1, <1>2, <1>3, <1>4, BackendSafe DEF Next

\* At the start every registered thread lives.
LEMMA InitSafe == Init => SafeInv
<1> SUFFICES ASSUME Init PROVE SafeInv
  OBVIOUS
<1>1. WantsInv /\ CallsInv /\ SendingInv
  BY DEF Init, WantsInv, CallsInv, SendingInv
<1>2. SparedInv
  BY SigkillAssumption DEF Init, SparedInv
<1> QED BY <1>1, <1>2 DEF SafeInv

\* A safe sender of an open reservation is not deregistered.
LEMMA SafeSendsAreOpen == IInv /\ SafeInv => NoSendIsAbandoned
BY OpenSenders DEF NoSendIsAbandoned, IInv, KernelInv

\* Where nothing but its own send ends a sender's process, no committed kill is
\* half done while a guest runs: its victims have left the kernel and the
\* scheduler, and their wakes have run or wait for the next pass.
THEOREM SafeKillsSettle == SafeSenders => (Spec => []KillsAreSettled)
<1> SUFFICES ASSUME SafeSenders PROVE Spec => []KillsAreSettled
  OBVIOUS
<1>1. Init => IInv /\ SafeInv
  BY InitInvariant, InitSafe
<1>2. IInv /\ SafeInv /\ [Next]_vars => (IInv /\ SafeInv)'
  BY NextInvariant, NextSafe
<1>3. IInv /\ SafeInv => KillsAreSettled
  BY SettledByInvariant, SafeSendsAreOpen DEF Settles
<1> QED BY <1>1, <1>2, <1>3, PTL DEF Spec

-----------------------------------------------------------------------------
(* The valve.                                                              *)

\* A step that neither commits nor reports keeps the holds.
LEMMA HoldsFrame ==
    ASSUME HoldsInv, UNCHANGED <<unpublished, published, lost>>, committed \subseteq committed'
    PROVE  HoldsInv'
BY DEF HoldsInv

\* A report is forgotten only with its process, or after its exit was granted.
LEMMA ReportsFrame ==
    ASSUME ReportsInv, UNCHANGED <<published, lost>>, granted \subseteq granted',
           NEW ts, completed \ ts \subseteq completed',
           \A p \in published : p \in live' \cup Reserved' => p \in live \cup Reserved,
           \A p \in ts : p \in live' \cup Reserved' => p \in granted'
    PROVE  ReportsInv'
BY DEF ReportsInv

\* A step that dooms, with no send in its middle.
LEMMA EndedFrame ==
    ASSUME EndedInv, unaccounted' = {}, running' = NoThread \/ at' # "sent",
           Types'
    PROVE  EndedInv'
<1>1. \A r \in reservations' : r.sender # NoThread
  BY SigkillAssumption, SMT DEF Types
<1> QED BY <1>1 DEF EndedInv

\* A run that was not refused stays so.
LEMMA RefusedFrame ==
    ASSUME ~refused, UNCHANGED refused
    PROVE  RefusedInv'
BY DEF RefusedInv, RefusesOnlyTheLost

\* A step of the kernel, the backend or the host that leaves the ledger alone.
LEMMA RefusalQuiet ==
    ASSUME IInv, RefusalInv,
           UNCHANGED <<live, running, at, call, granted, reservations, unaccounted,
                       unpublished, completed, published, lost, refused, committed>>,
           \A t \in Threads : phys'[t] = "alive" => phys[t] = "alive"
    PROVE  RefusalInv'
<1>1. Reserved' = Reserved
  BY DEF Reserved
<1>2. HoldsInv'
  BY DEF RefusalInv, HoldsInv
<1>3. ReportsInv'
  BY <1>1 DEF RefusalInv, ReportsInv
<1>4. EndedInv'
  <2>1. /\ unaccounted \subseteq Threads
        /\ \A r \in reservations : r.victims \subseteq Threads
    BY DEF IInv, Types
  <2> QED BY <2>1 DEF RefusalInv, EndedInv
<1>5. RefusedInv'
  BY DEF RefusalInv, RefusedInv, RefusesOnlyTheLost
<1> QED BY <1>2, <1>3, <1>4, <1>5 DEF RefusalInv

\* A SIGKILL revives no thread.
LEMMA DoomedEnds ==
    ASSUME NEW ps, NEW t \in Threads
    PROVE  /\ Doomed(ps)[t] = "alive" => phys[t] = "alive"
           /\ ProcessOf[t] \in ps => Doomed(ps)[t] # "alive"
BY DEF Doomed

\* What the kernel, the host and a send without a reservation do to threads.
LEMMA KernelRefusal ==
    ASSUME IInv, RefusalInv,
           \/ \E t \in Threads : Die(t) \/ RobustListWakes(t)
           \/ \E p \in Processes : HostKill(p)
           \/ \E t \in Threads, targets \in Sends : SendUnreserved(t, targets)
           \/ UNCHANGED vars
    PROVE  RefusalInv'
<1>1. ASSUME NEW t \in Threads, Die(t) PROVE RefusalInv'
  <2>1. /\ phys' = [phys EXCEPT ![t] = "dead"]
        /\ UNCHANGED <<sched, ledger, published, lost, refused, committed>>
    BY <1>1 DEF Die
  <2>2. \A s \in Threads : phys'[s] = "alive" => phys[s] = "alive"
    BY <2>1 DEF IInv, Types
  <2> QED BY <2>1, <2>2, RefusalQuiet DEF sched, ledger
<1>2. ASSUME NEW t \in Threads, RobustListWakes(t) PROVE RefusalInv'
  BY <1>2, RefusalQuiet DEF RobustListWakes, sched
<1>3. ASSUME NEW p \in Processes, HostKill(p) PROVE RefusalInv'
  <2>1. /\ phys' = Doomed({p})
        /\ UNCHANGED <<sched, ledger, published, lost, refused, committed>>
    BY <1>3 DEF HostKill
  <2> QED BY <2>1, DoomedEnds, RefusalQuiet DEF sched, ledger
<1>4. ASSUME NEW t \in Threads, NEW targets \in Sends, SendUnreserved(t, targets)
      PROVE  RefusalInv'
  <2>1. /\ phys' = Doomed(targets)
        /\ UNCHANGED <<sched, ledger, published, lost, refused, committed>>
    BY <1>4 DEF SendUnreserved
  <2> QED BY <2>1, DoomedEnds, RefusalQuiet DEF sched, ledger
<1>5. ASSUME UNCHANGED vars PROVE RefusalInv'
  BY <1>5, RefusalQuiet DEF vars, sched, ledger, kernel
<1> QED BY <1>1, <1>2, <1>3, <1>4, <1>5

\* A report releases a hold, or is kept for a later commit.
LEMMA PublishRefusal ==
    ASSUME IInv, RefusalInv, NEW p \in Processes, Publish(p)
    PROVE  RefusalInv'
<1>1. /\ p \notin published /\ published' = published \cup {p}
      /\ unpublished' = unpublished \ {p}
      /\ completed' = IF p \in unpublished THEN completed ELSE completed \cup {p}
      /\ UNCHANGED <<live, running, at, call, granted, reservations, unaccounted, phys,
                     lost, refused, committed>>
  BY DEF Publish, sched
<1>2. Reserved' = Reserved
  BY <1>1 DEF Reserved
<1>3. HoldsInv'
  BY <1>1 DEF RefusalInv, HoldsInv
<1>4. p \in unpublished => p \notin live \cup Reserved
  BY DEF RefusalInv, HoldsInv, IInv, LedgerInv
<1>5. ReportsInv'
  BY <1>1, <1>2, <1>4 DEF RefusalInv, ReportsInv
<1>6. EndedInv'
  BY <1>1 DEF RefusalInv, EndedInv
<1>7. RefusedInv'
  <2>1. refused => p \notin unpublished
    BY <1>1 DEF RefusalInv, HoldsInv, RefusedInv, RefusesOnlyTheLost
  <2> QED BY <1>1, <2>1 DEF RefusalInv, RefusedInv, RefusesOnlyTheLost
<1> QED BY <1>3, <1>5, <1>6, <1>7 DEF RefusalInv

\* A lost report is recorded as one.
LEMMA LoseRefusal ==
    ASSUME IInv, RefusalInv, NEW p \in Processes, Lose(p)
    PROVE  RefusalInv'
<1>1. /\ published' = published \cup {p} /\ lost' = lost \cup {p}
      /\ UNCHANGED <<live, running, at, call, granted, reservations, unaccounted, phys,
                     unpublished, completed, refused, committed>>
  BY DEF Lose, sched, ledger
<1>2. Reserved' = Reserved
  BY <1>1 DEF Reserved
<1>3. HoldsInv'
  BY <1>1 DEF RefusalInv, HoldsInv
<1>4. ReportsInv'
  BY <1>1, <1>2 DEF RefusalInv, ReportsInv
<1>5. EndedInv'
  BY <1>1 DEF RefusalInv, EndedInv
<1>6. RefusedInv'
  BY <1>1 DEF RefusalInv, RefusedInv, RefusesOnlyTheLost
<1> QED BY <1>3, <1>4, <1>5, <1>6 DEF RefusalInv

\* When the valve expires with the backend idle, every victim has died and is
\* accounted, so the fence waits for a report of a dead process, which was lost.
LEMMA RefuseRefusal ==
    ASSUME IInv, RefusalInv, Refuse
    PROVE  RefusalInv'
<1>1. /\ BackendIdle /\ ValveExpires
      /\ UNCHANGED <<live, running, at, call, granted, reservations, unaccounted, phys,
                     unpublished, completed, published, lost, committed>>
  BY DEF Refuse, sched, ledger, kernel
<1>2. running = NoThread \/ at = "waiting"
  BY <1>1 DEF ValveExpires
<1>3. unaccounted = {}
  <2> SUFFICES ASSUME NEW v \in unaccounted PROVE FALSE
    OBVIOUS
  <2>1. v \in committed /\ v \notin deregistered /\ v \in Threads /\ phys[v] # "unborn"
    BY DEF IInv, LedgerInv, Types
  <2>2. phys[v] \in {"unborn", "alive", "doomed", "dead"}
    BY <2>1 DEF IInv, Types
  <2>3. phys[v] # "doomed" /\ phys[v] # "dead"
    BY <1>1, <2>1 DEF BackendIdle
  <2>4. phys[v] # "alive"
    BY <1>2 DEF RefusalInv, EndedInv
  <2> QED BY <2>1, <2>2, <2>3, <2>4
<1>4. unpublished # {}
  BY <1>1, <1>3 DEF ValveExpires, FenceHolds, Settled
<1>5. unpublished \subseteq lost
  <2> SUFFICES ASSUME NEW p \in unpublished PROVE p \in lost
    OBVIOUS
  <2>1. p \in deregistered
    BY <1>3 DEF RefusalInv, HoldsInv, IInv, LedgerInv
  <2>2. phys[p] = "dead" /\ p \in Threads
    BY <2>1 DEF IInv, KernelInv, Types
  <2>3. ProcessOf[p] = p
    BY LeaderFacts DEF IInv, Types
  <2>4. p \in published
    BY <1>1, <2>2, <2>3 DEF BackendIdle
  <2> QED BY <2>4 DEF RefusalInv, HoldsInv
<1>6. RefusedInv'
  BY <1>1, <1>2, <1>3, <1>4, <1>5 DEF RefusedInv, RefusesOnlyTheLost
<1>7. Reserved' = Reserved
  BY <1>1 DEF Reserved
<1>8. HoldsInv' /\ ReportsInv' /\ EndedInv'
  BY <1>1, <1>7 DEF RefusalInv, HoldsInv, ReportsInv, EndedInv
<1> QED BY <1>6, <1>8 DEF RefusalInv

\* A deregistration settles a victim, is held for a commit, or retires a thread.
LEMMA DeregisterRefusal ==
    ASSUME IInv, SafeInv, RefusalInv, NEW t \in Threads, Deregister(t)
    PROVE  RefusalInv'
<1>1. /\ phys[t] = "dead" /\ unaccounted' \subseteq unaccounted
      /\ UNCHANGED <<at, call, granted, reservations, unpublished, phys, published, lost,
                     refused, committed>>
  BY DEF Deregister
<1>2. \/ UNCHANGED <<live, running, completed>>
      \/ /\ t \notin Reserved /\ live' = live \ {t}
         /\ running' = IF running \in {t} THEN NoThread ELSE running
         /\ completed' = completed \ Forgotten({t})
  BY DEF Deregister, Retire
<1>3. Reserved' = Reserved
  BY <1>1 DEF Reserved
<1>4. HoldsInv'
  BY <1>1, HoldsFrame DEF RefusalInv
<1>5. ReportsInv'
  <2>1. completed \ {t} \subseteq completed'
    BY <1>2 DEF Forgotten
  <2>2. CASE UNCHANGED <<live, running, completed>>
    BY <1>1, <1>3, <2>2 DEF RefusalInv, ReportsInv
  <2>3. CASE t \notin Reserved /\ live' = live \ {t}
    BY <1>1, <1>3, <2>1, <2>3 DEF RefusalInv, ReportsInv
  <2> QED BY <1>2, <2>2, <2>3
<1>6. EndedInv'
  <2>1. running' = running \/ (running' = NoThread /\ running = t)
    BY <1>2
  <2>2. ASSUME NEW v \in unaccounted', phys'[v] = "alive"
        PROVE  running' # NoThread /\ at' = "committed" /\ ProcessOf[v] \in call'[running']
    <3>1. running # NoThread /\ at = "committed" /\ ProcessOf[v] \in call[running]
      BY <1>1, <2>2 DEF RefusalInv, EndedInv
    <3>2. running # t
      BY <1>1, <3>1 DEF SafeInv, SendingInv
    <3> QED BY <1>1, <2>1, <3>1, <3>2
  <2>3. \A r \in reservations : r.sender # NoThread
    BY SigkillAssumption, SMT DEF IInv, Types
  <2>4. \A r \in reservations' : running' = r.sender /\ at' = "sent" =>
           \A v \in r.victims : phys'[v] # "alive"
    BY <1>1, <2>1, <2>3 DEF RefusalInv, EndedInv
  <2> QED BY <2>2, <2>4 DEF EndedInv
<1>7. RefusedInv'
  <2>1. running' = running \/ running' = NoThread
    BY <1>2
  <2> QED BY <1>1, <2>1 DEF RefusalInv, RefusedInv, RefusesOnlyTheLost
<1> QED BY <1>4, <1>5, <1>6, <1>7 DEF RefusalInv

\* A grant forgets the reports of the siblings it retires, whose exit it grants.
LEMMA GrantRefusal ==
    ASSUME IInv, RefusalInv, NEW t \in Threads, Grant(t)
    PROVE  RefusalInv'
<1> DEFINE group == want[t] \in {"exit_group", "selfkill"}
           S == IF group THEN Of(ProcessOf[t]) \ {t} ELSE {}
<1>1. /\ ~refused /\ live' = live \ S /\ completed' = completed \ Forgotten(S)
      /\ UNCHANGED <<reservations, unaccounted, unpublished, published, lost, refused, committed>>
  BY DEF Grant
<1>2. at' \in {"guest", "granted", "leaving"}
  BY DEF Grant
<1>3. granted \subseteq granted' /\ (group => ProcessOf[t] \in granted')
  BY DEF Grant
<1>4. unaccounted = {}
  BY DEF Grant, FenceHolds
<1>5. \A p \in Forgotten(S) : p \in granted'
  <2> SUFFICES ASSUME NEW p \in Forgotten(S) PROVE p \in granted'
    OBVIOUS
  <2>1. p \in Processes /\ group /\ ProcessOf[p] = ProcessOf[t]
    BY DEF Forgotten, Of
  <2> QED BY <1>3, <2>1, LeaderFacts
<1> HIDE DEF S, group
<1>6. Reserved' = Reserved
  BY <1>1 DEF Reserved
<1>7. HoldsInv'
  BY <1>1, HoldsFrame DEF RefusalInv
<1>8. ReportsInv'
  <2>1. /\ completed \ Forgotten(S) \subseteq completed'
        /\ \A p \in published : p \in live' \cup Reserved' => p \in live \cup Reserved
    BY <1>1, <1>6
  <2> QED BY <1>1, <1>3, <1>5, <2>1, ReportsFrame DEF RefusalInv
<1>9. EndedInv'
  <2>1. Types'
    BY GrantKeeps DEF IInv
  <2> QED BY <1>1, <1>2, <1>4, <2>1, EndedFrame DEF RefusalInv
<1>10. RefusedInv'
  BY <1>1, RefusedFrame
<1> QED BY <1>7, <1>8, <1>9, <1>10 DEF RefusalInv

\* A guest runs only when every victim is accounted and the run not refused.
LEMMA FilesRefusal ==
    ASSUME IInv, RefusalInv, NEW t \in Threads,
           NEW request \in {"turn", "exit", "exit_group"}, Files(t, request)
    PROVE  RefusalInv'
<1>1. /\ Guest(t) /\ ~refused /\ running' = NoThread
      /\ UNCHANGED <<live, granted, ledger, published, lost, refused, committed>>
  BY DEF Files, Guest, kernel
<1>2. Reserved' = Reserved /\ UNCHANGED <<unaccounted, unpublished, completed>>
  BY <1>1 DEF Reserved, ledger
<1>3. HoldsInv'
  BY <1>1, <1>2, HoldsFrame DEF RefusalInv
<1>4. ReportsInv'
  BY <1>1, <1>2 DEF RefusalInv, ReportsInv
<1>5. EndedInv'
  <2>1. Types' /\ unaccounted = {}
    BY <1>1, FilesKeeps, GuestFacts DEF IInv
  <2> QED BY <1>1, <1>2, <2>1, EndedFrame DEF RefusalInv
<1>6. RefusedInv'
  BY <1>1, RefusedFrame
<1> QED BY <1>3, <1>4, <1>5, <1>6 DEF RefusalInv

\* A new thread was not reported.
LEMMA CloneRefusal ==
    ASSUME IInv, RefusalInv, NEW t \in Threads, NEW c \in Unborn, Clone(t, c)
    PROVE  RefusalInv'
<1>1. /\ Guest(t) /\ ~refused /\ at' = "guest" /\ phys[c] = "unborn" /\ live' = live \cup {c}
      /\ UNCHANGED <<granted, ledger, published, lost, refused, committed>>
  BY DEF Clone, Guest
<1>2. Reserved' = Reserved /\ UNCHANGED <<unaccounted, unpublished, completed>>
  BY <1>1 DEF Reserved, ledger
<1>3. c \notin published
  BY <1>1 DEF IInv, KernelInv
<1>4. HoldsInv'
  BY <1>1, <1>2, HoldsFrame DEF RefusalInv
<1>5. ReportsInv'
  BY <1>1, <1>2, <1>3 DEF RefusalInv, ReportsInv
<1>6. EndedInv'
  <2>1. Types' /\ unaccounted = {}
    BY <1>1, CloneKeeps, GuestFacts DEF IInv
  <2> QED BY <1>1, <1>2, <2>1, EndedFrame DEF RefusalInv
<1>7. RefusedInv'
  BY <1>1, RefusedFrame
<1> QED BY <1>4, <1>5, <1>6, <1>7 DEF RefusalInv

\* The victims of a reservation were registered.
LEMMA ReserveRefusal ==
    ASSUME IInv, RefusalInv, NEW t \in Threads, NEW targets \in Sends, Reserve(t, targets)
    PROVE  RefusalInv'
<1>1. /\ Guest(t) /\ ~refused /\ (running' = NoThread \/ at' = "reserved")
      /\ UNCHANGED <<live, granted, unaccounted, unpublished, completed, published, lost,
                     refused, committed>>
  BY DEF Reserve, Guest, kernel
<1> DEFINE r0 == [sender |-> t, victims |-> Victims(t, targets)]
<1>2. reservations' = reservations \cup {r0} /\ r0.victims \subseteq live
  BY DEF Reserve, Victims
<1>3. \A p \in Reserved' : p \in live \cup Reserved
  BY <1>2 DEF Reserved
<1>4. HoldsInv'
  BY <1>1, HoldsFrame DEF RefusalInv
<1>5. ReportsInv'
  BY <1>1, <1>3 DEF RefusalInv, ReportsInv
<1>6. EndedInv'
  <2>1. Types' /\ unaccounted = {}
    BY <1>1, ReserveKeeps, GuestFacts DEF IInv
  <2> QED BY <1>1, <2>1, EndedFrame DEF RefusalInv
<1>7. RefusedInv'
  BY <1>1, RefusedFrame
<1> QED BY <1>4, <1>5, <1>6, <1>7 DEF RefusalInv

\* A fatal signal ends its victims at once, and forgets reports only of theirs.
LEMMA FatalDeliveryRefusal ==
    ASSUME IInv, RefusalInv, NEW t \in Threads, FatalDelivery(t)
    PROVE  RefusalInv'
<1> DEFINE others == (live \cap Of(ProcessOf[t])) \ {t}
           V == IF others \cap Reserved = {} THEN others ELSE {}
<1>1. /\ Guest(t) /\ ~refused /\ at' = "leaving" /\ unaccounted' = unaccounted \cup V
      /\ live' = live \ V /\ completed' = completed \ Forgotten(V)
      /\ phys' = Doomed({ProcessOf[t]}) /\ committed' = committed \cup V
      /\ UNCHANGED <<granted, reservations, unpublished, published, lost, refused>>
  BY DEF FatalDelivery, Guest, Retire
<1>2. V \cap Reserved = {} /\ \A v \in V : v \in Threads /\ ProcessOf[v] = ProcessOf[t]
  BY DEF Of
<1> HIDE DEF V
<1>3. Reserved' = Reserved
  BY <1>1 DEF Reserved
<1>4. HoldsInv'
  BY <1>1, HoldsFrame DEF RefusalInv
<1>5. ReportsInv'
  <2>1. \A p \in Forgotten(V) : p \notin live' \cup Reserved'
    BY <1>1, <1>2, <1>3 DEF Forgotten
  <2>2. /\ completed \ Forgotten(V) \subseteq completed'
        /\ \A p \in published : p \in live' \cup Reserved' => p \in live \cup Reserved
    BY <1>1, <1>3
  <2> QED BY <1>1, <2>1, <2>2, ReportsFrame DEF RefusalInv
<1>6. EndedInv'
  <2>1. unaccounted = {}
    BY <1>1, GuestFacts
  <2>2. \A v \in unaccounted' : phys'[v] # "alive"
    BY <1>1, <1>2, <2>1, DoomedEnds
  <2> QED BY <1>1, <2>2 DEF EndedInv
<1>7. RefusedInv'
  BY <1>1, RefusedFrame
<1> QED BY <1>4, <1>5, <1>6, <1>7 DEF RefusalInv

\* The physical send ends the victims of its reservation.
LEMMA SendRefusal ==
    ASSUME IInv, SafeInv, RefusalInv, NEW t \in Threads, Send(t)
    PROVE  RefusalInv'
<1>1. /\ running = t /\ running # NoThread /\ at = "reserved" /\ at' \in {"sent", "failed"}
      /\ UNCHANGED <<live, granted, ledger, published, lost, refused, committed>>
  BY SigkillAssumption DEF Send
<1>2. \/ /\ phys' = phys
         /\ \A v \in Threads : ProcessOf[v] \in call[t] => phys[v] \in {"unborn", "dead"}
      \/ phys' = Doomed(call[t])
  BY DEF Send
<1>3. ~refused /\ unaccounted = {}
  BY <1>1 DEF RefusalInv, RefusedInv, IInv, StageInv
<1>4. Reserved' = Reserved /\ UNCHANGED <<unaccounted, unpublished, completed, reservations>>
  BY <1>1 DEF Reserved, ledger
<1>5. HoldsInv'
  BY <1>1, <1>4, HoldsFrame DEF RefusalInv
<1>6. ReportsInv'
  BY <1>1, <1>4 DEF RefusalInv, ReportsInv
<1>7. EndedInv'
  <2>1. \A v \in Threads : ProcessOf[v] \in call[t] => phys'[v] # "alive"
    BY <1>2, DoomedEnds
  <2>2. \A r \in reservations : r.sender = t =>
           \A v \in r.victims : v \in Threads /\ ProcessOf[v] \in call[t]
    BY DEF SafeInv, CallsInv, IInv, Types
  <2>3. running' = t
    BY <1>1 DEF Send
  <2> QED BY <1>3, <1>4, <2>1, <2>2, <2>3 DEF EndedInv
<1>8. RefusedInv'
  BY <1>1, <1>3, RefusedFrame
<1> QED BY <1>5, <1>6, <1>7, <1>8 DEF RefusalInv

\* The send of a kill that ends its sender ends the committed victims.
LEMMA SendOwnRefusal ==
    ASSUME IInv, SafeInv, RefusalInv, NEW t \in Threads, SendOwn(t)
    PROVE  RefusalInv'
<1>1. /\ running = t /\ running # NoThread /\ at = "committed" /\ at' = "leaving"
      /\ phys' = Doomed(call[t])
      /\ UNCHANGED <<live, granted, ledger, published, lost, refused, committed>>
  BY SigkillAssumption DEF SendOwn
<1>2. ~refused
  BY <1>1 DEF RefusalInv, RefusedInv
<1>3. Reserved' = Reserved /\ UNCHANGED <<unaccounted, unpublished, completed>>
  BY <1>1 DEF Reserved, ledger
<1>4. HoldsInv'
  BY <1>1, <1>3, HoldsFrame DEF RefusalInv
<1>5. ReportsInv'
  BY <1>1, <1>3 DEF RefusalInv, ReportsInv
<1>6. EndedInv'
  <2>1. \A v \in unaccounted : v \in Threads /\ (phys[v] = "alive" => ProcessOf[v] \in call[t])
    BY <1>1 DEF RefusalInv, EndedInv, IInv, Types
  <2>2. \A v \in unaccounted' : phys'[v] # "alive"
    BY <1>1, <1>3, <2>1, DoomedEnds
  <2> QED BY <1>1, <2>2 DEF EndedInv
<1>7. RefusedInv'
  BY <1>1, <1>2, RefusedFrame
<1> QED BY <1>4, <1>5, <1>6, <1>7 DEF RefusalInv

\* A kill(2) that returns leaves the ledger alone.
LEMMA ReturnRefusal ==
    ASSUME IInv, RefusalInv, NEW t \in Threads, Return(t)
    PROVE  RefusalInv'
<1>1. /\ running = t /\ at = "waiting" /\ at' = "guest"
      /\ UNCHANGED <<live, running, granted, ledger, kernel, refused, committed>>
  BY DEF Return
<1>2. /\ Reserved' = Reserved
      /\ UNCHANGED <<unaccounted, unpublished, completed, phys, published, lost>>
  BY <1>1 DEF Reserved, ledger, kernel
<1>3. HoldsInv'
  BY <1>1, <1>2, HoldsFrame DEF RefusalInv
<1>4. ReportsInv'
  BY <1>1, <1>2 DEF RefusalInv, ReportsInv
<1>5. EndedInv'
  BY <1>1, <1>2 DEF RefusalInv, EndedInv
<1>6. RefusedInv'
  BY <1>1, <1>2 DEF RefusalInv, RefusedInv, RefusesOnlyTheLost
<1> QED BY <1>3, <1>4, <1>5, <1>6 DEF RefusalInv

\* The processes a commit holds for are victims: the sender's own is not among
\* them, its exit having been granted.
LEMMA HoldsVictims ==
    ASSUME IInv, NEW r \in reservations, running = r.sender, at \in {"sent", "granted"}
    PROVE  Holds(r) \subseteq r.victims
<1> SUFFICES ASSUME NEW v \in r.victims, ProcessOf[v] \notin granted
             PROVE  ProcessOf[v] \in r.victims
  BY DEF Holds
<1>1. r.sender \in Threads /\ v \in Threads
  BY DEF IInv, Types
<1>2. ProcessOf[v] \in r.victims \cup {r.sender}
  BY DEF IInv, ReservationInv
<1>3. ASSUME ProcessOf[v] = r.sender PROVE FALSE
  <2>1. ProcessOf[r.sender] = ProcessOf[v]
    BY <1>1, <1>3, LeaderFacts
  <2>2. at = "granted"
    BY <2>1 DEF IInv, SenderInv
  <2>3. ProcessOf[r.sender] \in granted
    BY <1>1, <2>2, SigkillAssumption DEF IInv, StageInv
  <2> QED BY <2>1, <2>3
<1> QED BY <1>2, <1>3

\* A commit holds only for exits not reported yet, unless the report was lost.
LEMMA CommittedRefusal ==
    ASSUME IInv, SafeInv, RefusalInv, NEW r \in reservations, Commit(r), at \in {"sent", "granted"}
    PROVE  RefusalInv'
<1> DEFINE P == {ProcessOf[v] : v \in r.victims}
<1>1. /\ running = r.sender /\ running # NoThread /\ running' = running /\ live' \subseteq live
      /\ reservations' = reservations \ {r} /\ UNCHANGED <<call, phys>>
      /\ at = "sent" => at' = "waiting"
      /\ at = "granted" => at' = "committed"
  BY CommitFacts
<1>2. Committed(r)
  BY CommitFacts
<1>3. /\ granted' = granted \cup P /\ unpublished' = unpublished \cup Holds(r)
      /\ completed' = completed \ P /\ committed' = committed \cup r.victims
      /\ UNCHANGED <<published, lost, refused>>
  BY <1>2 DEF Committed, kernel
<1>4. unaccounted' \subseteq unaccounted \cup r.victims
  BY <1>2 DEF Committed
<1>5. ~refused /\ unaccounted = {}
  BY <1>1 DEF RefusalInv, RefusedInv, IInv, StageInv
<1>6. Holds(r) \subseteq r.victims /\ r.victims \subseteq Reserved
  BY <1>1, HoldsVictims, ReservedBy
<1>7. published \cap Holds(r) \subseteq lost
  <2>1. Holds(r) \cap (completed \cup granted) = {}
    BY DEF Holds
  <2> QED BY <1>6, <2>1 DEF RefusalInv, ReportsInv
<1>8. HoldsInv'
  BY <1>3, <1>6, <1>7 DEF RefusalInv, HoldsInv
<1>9. ReportsInv'
  <2>1. Reserved' \subseteq Reserved
    BY <1>1 DEF Reserved
  <2> HIDE DEF P
  <2> QED BY <1>1, <1>3, <2>1, ReportsFrame DEF RefusalInv
<1>10. EndedInv'
  <2>1. at = "sent" => \A v \in r.victims : phys[v] # "alive"
    BY <1>1 DEF RefusalInv, EndedInv
  <2>2. \A v \in r.victims : ProcessOf[v] \in call[running]
    BY <1>1 DEF SafeInv, CallsInv
  <2> QED BY <1>1, <1>4, <1>5, <2>1, <2>2 DEF EndedInv
<1>11. RefusedInv'
  BY <1>3, <1>5, RefusedFrame
<1> QED BY <1>8, <1>9, <1>10, <1>11 DEF RefusalInv

\* A failed send forgets the reports of the victims it retires.
LEMMA UnwoundRefusal ==
    ASSUME IInv, RefusalInv, NEW r \in reservations, Commit(r), at = "failed"
    PROVE  RefusalInv'
<1> DEFINE H == held \cap r.victims
<1>1. /\ running = r.sender /\ running # NoThread /\ at' = "guest"
      /\ reservations' = reservations \ {r} /\ Unwound(r)
  BY CommitFacts
<1>2. /\ live' = live \ H /\ completed' = completed \ Forgotten(H)
      /\ UNCHANGED <<granted, unaccounted, unpublished, published, lost, refused, committed>>
  BY <1>1 DEF Unwound, Retire, kernel
<1>3. ~refused /\ unaccounted = {}
  BY <1>1 DEF RefusalInv, RefusedInv, IInv, StageInv
<1>4. /\ Reserved' \subseteq Reserved /\ \A v \in H : v \notin Reserved'
  <2>1. \A q \in reservations' : q \in reservations /\ q.victims \cap r.victims = {}
    BY <1>1 DEF IInv, ReservationInv
  <2> QED BY <2>1 DEF Reserved
<1> HIDE DEF H
<1>5. HoldsInv'
  BY <1>2, HoldsFrame DEF RefusalInv
<1>6. ReportsInv'
  <2>1. \A p \in Forgotten(H) : p \notin live' \cup Reserved'
    BY <1>2, <1>4 DEF Forgotten
  <2>2. /\ completed \ Forgotten(H) \subseteq completed'
        /\ \A p \in published : p \in live' \cup Reserved' => p \in live \cup Reserved
    BY <1>2, <1>4
  <2> QED BY <1>2, <2>1, <2>2, ReportsFrame DEF RefusalInv
<1>7. EndedInv'
  <2>1. Types'
    BY CommitKeeps DEF IInv
  <2> QED BY <1>1, <1>2, <1>3, <2>1, EndedFrame DEF RefusalInv
<1>8. RefusedInv'
  BY <1>2, <1>3, RefusedFrame
<1> QED BY <1>5, <1>6, <1>7, <1>8 DEF RefusalInv

\* Every step keeps what the valve relies on.
LEMMA NextRefusal == IInv /\ SafeInv /\ RefusalInv /\ [Next]_vars => RefusalInv'
<1> SUFFICES ASSUME IInv, SafeInv, RefusalInv, [Next]_vars PROVE RefusalInv'
  OBVIOUS
<1>1. ASSUME NEW t \in Threads, Turn(t) PROVE RefusalInv'
  BY <1>1, GrantRefusal, FilesRefusal, CloneRefusal, ReserveRefusal, KernelRefusal,
     FatalDeliveryRefusal DEF Turn
<1>2. ASSUME NEW t \in Threads, Backend(t) PROVE RefusalInv'
  BY <1>2, KernelRefusal, DeregisterRefusal DEF Backend
<1>3. ASSUME NEW p \in Processes, HostKill(p) \/ Reports(p) PROVE RefusalInv'
  BY <1>3, KernelRefusal, PublishRefusal, LoseRefusal DEF Reports
<1>4. ASSUME NEW r \in reservations, Commit(r) PROVE RefusalInv'
  <2>1. at \in {"sent", "failed", "granted"}
    BY <1>4, CommitFacts
  <2> QED BY <1>4, <2>1, CommittedRefusal, UnwoundRefusal
<1>5. ASSUME Completes PROVE RefusalInv'
  BY <1>4, <1>5, SendRefusal, SendOwnRefusal, ReturnRefusal DEF Completes
<1> QED BY <1>1, <1>2, <1>3, <1>5, RefuseRefusal, KernelRefusal DEF Next

\* At the start nothing is held and nothing reported.
LEMMA InitRefusal == Init => RefusalInv
BY DEF Init, RefusalInv, HoldsInv, ReportsInv, EndedInv, RefusedInv, RefusesOnlyTheLost

\* Where nothing but its own send ends a sender's process, the valve refuses a
\* run only for reports that were lost.
THEOREM SafeRefusals == SafeSenders => (Spec => []RefusesOnlyTheLost)
<1> SUFFICES ASSUME SafeSenders PROVE Spec => []RefusesOnlyTheLost
  OBVIOUS
<1> DEFINE Inv == IInv /\ SafeInv /\ RefusalInv
<1>1. Init => Inv
  BY InitInvariant, InitSafe, InitRefusal
<1>2. Inv /\ [Next]_vars => Inv'
  BY NextInvariant, NextSafe, NextRefusal
<1>3. Inv => RefusesOnlyTheLost
  BY DEF RefusalInv, RefusedInv
<1> QED BY <1>1, <1>2, <1>3, PTL DEF Spec

=============================================================================
