--------------------------- MODULE NetworkReplay ---------------------------
(***************************************************************************)
(* A network recording and the replay that follows its schedule: the       *)
(* channel operations of detcore/src/syscalls/network_trace.rs over the    *)
(* engine of NetworkEngine.  The guest and the host are free while the     *)
(* recording runs; `log' holds the engine requests, each with its time and *)
(* what the guest observed.  The replay issues the same requests at the    *)
(* same times, which is what a deterministic guest does for as long as it  *)
(* observes the same.                                                      *)
(***************************************************************************)
EXTENDS NetworkEngine, FiniteSets

CONSTANTS
    Channels, Threads,
    NoThread,
    Guests,         \* the guests: [threads, calls, requests], its threads, the
                    \* calls they make and a bound on the recording's requests
    MaxLen,         \* bound on the bytes of one send, receive or pull
    MaxWaits,       \* bound on the waits of one blocking send
    PolledTwice     \* whether one poll may name a channel twice

ASSUME ReplayAssumption ==
    /\ NoThread \notin Threads
    /\ {MaxLen, MaxWaits} \subseteq Nat
    /\ Guests \subseteq [threads : SUBSET Threads, requests : Nat,
                         calls : SUBSET {"recv", "poll", "take_error", "shutdown", "send"}]
    /\ PolledTwice \in BOOLEAN

VARIABLES
    guest,      \* the guest that runs
    phase,      \* "record", "replay", "finished", or "refused": the run ended
    chan,       \* NetworkEngine::channels: the connected channels
    inputs, outputs,    \* Mode::Record
    unconnected,        \* Mode::Replay
    now,        \* the global time
    snd,        \* per thread: the send it is in, if any
    turn,       \* the thread whose turn goes on until its send waits or ends
    log,
    observed    \* what the replayed guest observed, request by request

vars == <<guest, phase, chan, inputs, outputs, unconnected, now, snd, turn, log, observed>>

NoSend == [len |-> 0]
NoMark == [offset |-> -1, events |-> -1]
Nothing == [kind |-> "none", len |-> 0, errno |-> NoError]

\* NetworkEngine::new_record
Init ==
    /\ guest \in Guests
    /\ phase = "record"
    /\ chan = <<>>
    /\ inputs = <<>> /\ outputs = <<>> /\ unconnected = <<>>
    /\ now = 1
    /\ snd = [t \in Threads |-> NoSend]
    /\ turn = NoThread
    /\ log = <<>> /\ observed = <<>>

\* NetworkEngine::apply, for the requests on one channel that record and
\* replay serve alike.
Serve(ch, request, time) ==
    CASE request.op = "recv" ->
           Recv(ch, time, request.max_len, request.target, request.peek)
      [] request.op = "take_error" -> TakeError(ch, time)
      [] request.op = "send_failure" -> SendFailure(ch, time)
      [] request.op = "shutdown" -> Shutdown(ch, request.how)

-----------------------------------------------------------------------------
\* The recording.

\* A request is served under the scheduler's lock at the global time, which a
\* new syscall and a polling turn advance.
Logged(request, reply) ==
    /\ Len(log) < guest.requests
    /\ log' = Append(log, [request |-> request, reply |-> reply, now |-> now'])
NewTurn == phase = "record" /\ turn = NoThread /\ now' = now + 1

Connection(c, ch) == [d \in DOMAIN chan \cup {c} |-> IF d = c THEN ch ELSE chan[d]]

\* network_connect: the host connects, or says why not.
Connect(c, errno, nonblocking) ==
    LET served == Connected(NewChannel(errno), nonblocking)
    IN  /\ NewTurn
        /\ c \notin DOMAIN chan
        /\ chan' = Connection(c, served.ch)
        /\ Logged([op |-> "connect", c |-> c, nonblocking |-> nonblocking], served.reply)
        /\ UNCHANGED <<guest, phase, inputs, outputs, unconnected, snd, turn, observed>>

\* arrival_from_pull: what one nonblocking host receive of len bytes got.
Arrivals(len) ==
    {Nothing}
    \cup [kind : {"bytes"}, len : 1 .. len, errno : {NoError}]
    \cup [kind : {"closed"}, len : {0}, errno : {NoError}]
    \cup [kind : {"error"}, len : {0}, errno : {"ECONNRESET"}]

\* record_arrivals: a pull is recorded at the time of the check it serves,
\* unless the input of the channel has ended.
PulledInputs(ch, c, time, arrival) ==
    IF arrival = Nothing \/ InputEnded(ch) THEN <<>>
    ELSE <<InputOf(ch, c, time, arrival)>>
Arrived(ch, c, time, arrival) ==
    FoldLeft(ApplyInput, ch, PulledInputs(ch, c, time, arrival))

\* A request on channel c with what was pulled for it: one attempt of
\* network_recv, network_so_error, network_shutdown.
RecordRequest(c, request, arrival) ==
    LET served == Serve(Arrived(chan[c], c, now', arrival), request, now')
    IN  /\ NewTurn
        /\ chan' = [chan EXCEPT ![c] = served.ch]
        /\ inputs' = inputs \o PulledInputs(chan[c], c, now', arrival)
        /\ Logged(request, served.reply)
        /\ UNCHANGED <<guest, phase, outputs, unconnected, snd, turn, observed>>

\* NetworkEngine::apply of a Readiness request: its entries are served in order.
Polled(channels, entries, time) ==
    LET serve(acc, e) ==
          LET served == Readiness(Arrived(acc.chan[e.c], e.c, time, e.arrival), time, e.lowat)
          IN  [acc EXCEPT
                 !.chan[e.c] = served.ch,
                 !.inputs = @ \o PulledInputs(acc.chan[e.c], e.c, time, e.arrival),
                 !.reply = Append(@, served.reply)]
    IN  FoldLeft(serve, [chan |-> channels, inputs |-> <<>>, reply |-> <<>>], entries)

\* One round of network_wait: a pull for every entry, then one request for all.
RecordPoll(entries) ==
    LET served == Polled(chan, entries, now')
    IN  /\ NewTurn
        /\ chan' = served.chan
        /\ inputs' = inputs \o served.inputs
        /\ Logged([op |-> "poll",
                   entries |-> [i \in DOMAIN entries |->
                                  [entries[i] EXCEPT !.arrival = Nothing]]], served.reply)
        /\ UNCHANGED <<guest, phase, outputs, unconnected, snd, turn, observed>>

\* network_send begins: an earlier failure is reported, or the send goes on to
\* its first attempt in the same turn.
StartSend(t, c, len, nonblocking) ==
    LET served == SendFailure(chan[c], now')
    IN  /\ NewTurn
        /\ snd[t] = NoSend
        /\ chan' = [chan EXCEPT ![c] = served.ch]
        /\ Logged([op |-> "send_failure", c |-> c], served.reply)
        /\ IF served.reply = <<"may_send">>
           THEN /\ snd' = [snd EXCEPT ![t] =
                             [c |-> c, len |-> len, nonblocking |-> nonblocking,
                              waits |-> 0, at |-> NoMark]]
                /\ turn' = t
           ELSE UNCHANGED <<snd, turn>>
        /\ UNCHANGED <<guest, phase, inputs, outputs, unconnected, observed>>

\* The next attempt of t's send: in the turn it holds, or in one it waited for.
Attempt(t) ==
    /\ phase = "record"
    /\ snd[t] # NoSend
    /\ \/ turn = t /\ now' = now
       \/ turn = NoThread /\ now' = now + 1
    /\ Len(log) < guest.requests

AttemptRequest(t) ==
    [op |-> "send", c |-> snd[t].c, by |-> t, len |-> snd[t].len,
     nonblocking |-> snd[t].nonblocking, waits |-> snd[t].waits]

\* Mutant of Interleaved: only the stream offset of the mark is compared.
Interleaved_offset(s) == s.at # NoMark /\ s.at.offset # chan[s.c].tx

\* record_send refuses a send that another output event overtook.
Interleaved(s) == s.at # NoMark /\ s.at # SendMark(chan[s.c])

\* The host accepted len bytes of the send; one that may not go on returns.
SendAccepted(t, len) ==
    LET s == snd[t]
        ch == RecordedSend(chan[s.c], len)
        more == len < s.len /\ ~s.nonblocking
    IN  /\ Attempt(t)
        /\ len <= s.len
        /\ ~chan[s.c].reset /\ ~chan[s.c].shut_wr
        /\ ~Interleaved(s)
        /\ outputs' = Append(outputs, FragmentOf(chan[s.c], s.c, t, len, now', s.waits))
        /\ chan' = [chan EXCEPT ![s.c] = ch]
        /\ snd' = [snd EXCEPT ![t] =
                     IF more THEN [s EXCEPT !.len = @ - len, !.waits = 0, !.at = SendMark(ch)]
                     ELSE NoSend]
        /\ turn' = IF more THEN t ELSE NoThread
        /\ Logged(AttemptRequest(t), <<"sent", len>>)
        /\ UNCHANGED <<guest, phase, inputs, unconnected, observed>>

\* The host refused a nonblocking send with EAGAIN.
SendRefused(t) ==
    LET s == snd[t]
    IN  /\ Attempt(t)
        /\ s.nonblocking
        /\ outputs' = Append(outputs, FragmentOf(chan[s.c], s.c, t, 0, now', 0))
        /\ chan' = [chan EXCEPT ![s.c] = RecordedSend(@, 0)]
        /\ snd' = [snd EXCEPT ![t] = NoSend]
        /\ turn' = NoThread
        /\ Logged(AttemptRequest(t), <<"refused_send">>)
        /\ UNCHANGED <<guest, phase, inputs, unconnected, observed>>

\* The host has no room for a blocking send, which takes its mark and waits.
SendWaits(t) ==
    LET s == snd[t]
    IN  /\ Attempt(t)
        /\ ~s.nonblocking
        /\ s.waits < MaxWaits
        /\ snd' = [snd EXCEPT ![t] =
                     [s EXCEPT !.waits = @ + 1,
                               !.at = IF @ = NoMark THEN SendMark(chan[s.c]) ELSE @]]
        /\ turn' = NoThread
        /\ Logged(AttemptRequest(t), <<"not_yet">>)
        /\ UNCHANGED <<guest, phase, chan, inputs, outputs, unconnected, observed>>

\* The run ends: another output event overtook the send, or the host failed it.
SendEndsRun(t) ==
    /\ Attempt(t)
    /\ Interleaved(snd[t]) \/ chan[snd[t].c].reset \/ chan[snd[t].c].shut_wr
    /\ phase' = "refused"
    /\ UNCHANGED <<guest, chan, inputs, outputs, unconnected, snd, turn, log, observed>>

-----------------------------------------------------------------------------
\* The replay.

\* NetworkEngine::finish, and new_replay of its trace.  A recording in which a
\* send still waits is left out: its replay has no fragment to wait for.
Finish ==
    /\ phase = "record"
    /\ snd = [t \in Threads |-> NoSend]
    /\ phase' = "replay"
    /\ unconnected' = [c \in DOMAIN chan |->
                         ReplayChannel(c, chan[c].connect_errno, inputs, outputs)]
    /\ chan' = <<>>
    /\ UNCHANGED <<guest, inputs, outputs, now, snd, turn, log, observed>>

\* NetworkEngine::replay_connect
ReplayConnect(request) ==
    LET served == Connected(unconnected[request.c], request.nonblocking)
    IN  /\ chan' = Connection(request.c, served.ch)
        /\ unconnected' = [c \in DOMAIN unconnected \ {request.c} |-> unconnected[c]]
        /\ observed' = Append(observed, served.reply)

ReplayPoll(request, time) ==
    LET served == Polled(chan, request.entries, time)
    IN  /\ chan' = served.chan
        /\ observed' = Append(observed, served.reply)
        /\ UNCHANGED unconnected

\* NetworkEngine::apply of any other request on a channel
ReplayRequest(r, time) ==
    LET served == IF r.op = "send"
                  THEN ReplaySend(chan[r.c], r.by, r.len, r.nonblocking, time, r.waits)
                  ELSE Serve(chan[r.c], r, time)
    IN  /\ chan' = [chan EXCEPT ![r.c] = served.ch]
        /\ observed' = Append(observed, served.reply)
        /\ UNCHANGED unconnected

Same == \A i \in DOMAIN observed : observed[i] = log[i].reply

\* The guest makes its next request, for as long as it observed the same.
Replay ==
    /\ phase = "replay"
    /\ Same
    /\ Len(observed) < Len(log)
    /\ LET next == log[Len(observed) + 1]
       IN  CASE next.request.op = "connect" -> ReplayConnect(next.request)
             [] next.request.op = "poll" -> ReplayPoll(next.request, next.now)
             [] OTHER -> ReplayRequest(next.request, next.now)
    /\ UNCHANGED <<guest, phase, inputs, outputs, now, snd, turn, log>>

\* NetworkEngine::finish_replay
FinishReplay ==
    /\ phase = "replay"
    /\ Same /\ Len(observed) = Len(log)
    /\ phase' = IF /\ DOMAIN unconnected = {}
                   /\ \A c \in DOMAIN chan : Leftover(chan[c]) = <<"finished">>
                THEN "finished" ELSE "left_over"
    /\ UNCHANGED <<guest, chan, inputs, outputs, unconnected, now, snd, turn, log, observed>>

-----------------------------------------------------------------------------
\* The lists of one or two entries a poll may name.
PollLists ==
    LET Entries == [c : DOMAIN chan, lowat : 1 .. MaxLen, arrival : Arrivals(MaxLen)]
    IN  {<<e>> : e \in Entries}
        \cup {pair \in Entries \X Entries : PolledTwice \/ pair[1].c # pair[2].c}

Receives ==
    /\ "recv" \in guest.calls
    /\ \E c \in DOMAIN chan, len \in 1 .. MaxLen, peek \in BOOLEAN :
         \E target \in 1 .. len, arrival \in Arrivals(len) :
           RecordRequest(c, [op |-> "recv", c |-> c, max_len |-> len, target |-> target,
                             peek |-> peek], arrival)

Polls ==
    /\ "poll" \in guest.calls
    /\ \E entries \in PollLists : RecordPoll(entries)

TakesError ==
    /\ "take_error" \in guest.calls
    /\ \E c \in DOMAIN chan :
         RecordRequest(c, [op |-> "take_error", c |-> c], Nothing)

ShutsDown ==
    /\ "shutdown" \in guest.calls
    /\ \E c \in DOMAIN chan, how \in {"RD", "WR", "RDWR", "other"} :
         RecordRequest(c, [op |-> "shutdown", c |-> c, how |-> how], Nothing)

Sends ==
    /\ "send" \in guest.calls
    /\ \E t \in guest.threads, c \in DOMAIN chan, len \in 1 .. MaxLen, nb \in BOOLEAN :
         StartSend(t, c, len, nb)

Next ==
    \/ \E c \in Channels, errno \in {NoError, "ECONNREFUSED"}, nb \in BOOLEAN :
         Connect(c, errno, nb)
    \/ Receives
    \/ Polls
    \/ TakesError
    \/ ShutsDown
    \/ Sends
    \/ \E t \in Threads :
         \/ \E len \in 1 .. MaxLen : SendAccepted(t, len)
         \/ SendRefused(t)
         \/ SendWaits(t)
         \/ SendEndsRun(t)
    \/ Finish
    \/ Replay
    \/ FinishReplay

Spec == Init /\ [][Next]_vars

-----------------------------------------------------------------------------
\* "A replay that follows the recorded schedule observes every input at the
\* same check that the recording did": every recv, poll, SO_ERROR, connect,
\* shutdown and send answers the guest as it did in the recording, and none
\* refuses the run (module comment of network_engine.rs).
ReplayObservesTheSame == Same

\* finish_replay accepts the replay: it connected every recorded channel, sent
\* every recorded byte and met every refused send.
ReplayUsesTheWholeRecording == phase # "left_over"

\* NetworkEngine::finish: the recording passes NetworkTraceV2::validate,
\* however the guest and the host interleaved.
RecordingValidates ==
    phase = "replay" /\ observed = <<>> =>
        /\ \A i \in 1 .. Len(inputs) - 1 : inputs[i].not_before <= inputs[i + 1].not_before
        /\ \A c \in DOMAIN unconnected :
             LET ch == unconnected[c]
             IN  /\ ValidOutputs(ch.expected_outputs, ch.connect_errno)
                 /\ ValidInputs(ch.pending_inputs, ch.expected_outputs, ch.connect_errno)
=============================================================================
