--------------------------- MODULE NetworkEngine ---------------------------
(***************************************************************************)
(* One channel of the network record and replay engine,                    *)
(* detcore-model/src/network_engine.rs, as pure operators: each takes the  *)
(* channel and returns what the method leaves of it and what it answers,   *)
(* [ch |-> ..., reply |-> ...].  An inbound byte is its stream offset, an  *)
(* outbound byte the thread that sends it, an errno its name.              *)
(***************************************************************************)
EXTENDS Integers, Sequences, SequencesExt

CONSTANTS
    StallLimit,     \* REPLAY_STALL_LIMIT
    NoError         \* of Option<i32>, and an errno of 0

\* Channel::new
NewChannel(errno) ==
    [connect_errno |-> errno, rx |-> 0, rx_end |-> 0, peer_closed |-> FALSE,
     reset |-> errno # NoError, pending_error |-> NoError, tx |-> 0,
     output_events |-> 0, shut_rd |-> FALSE, shut_wr |-> FALSE,
     pending_inputs |-> <<>>, expected_outputs |-> <<>>]

SendMark(ch) == [offset |-> ch.tx, events |-> ch.output_events]

\* Mutant of InputEnded: only a reset ends the input.
InputEnded_reset(ch) == ch.reset

InputEnded(ch) == ch.peer_closed \/ ch.reset

Answer(ch, reply) == [ch |-> ch, reply |-> reply]

\* NetworkEngineError, which ends the run
Refusal(error) == <<"refused", error>>

\* NetworkReleaseV1::is_eligible
IsEligible(input, now, tx) == now >= input.not_before /\ tx >= input.after_tx

\* Channel::apply
ApplyInput(ch, input) ==
    CASE input.kind = "bytes" ->
           [ch EXCEPT !.rx = @ + input.len, !.rx_end = @ + input.len]
      [] input.kind = "closed" -> [ch EXCEPT !.peer_closed = TRUE]
      [] input.kind = "error" ->
           [ch EXCEPT !.reset = TRUE, !.pending_error = input.errno]

\* Channel::release: the longest prefix of due inputs is applied in order.
Release(ch, now) ==
    LET inputs == ch.pending_inputs
        due == CHOOSE n \in 0 .. Len(inputs) :
                 /\ \A i \in 1 .. n : IsEligible(inputs[i], now, ch.tx)
                 /\ n < Len(inputs) => ~IsEligible(inputs[n + 1], now, ch.tx)
    IN  [FoldLeft(ApplyInput, ch, SubSeq(inputs, 1, due)) EXCEPT
            !.pending_inputs = SubSeq(inputs, due + 1, Len(inputs))]

\* Channel::check_stalled
Stalled(ch, now) ==
    /\ ch.pending_inputs # <<>>
    /\ LET release == Head(ch.pending_inputs)
       IN  ch.tx < release.after_tx /\ now >= release.not_before + StallLimit

\* NetworkEngine::connected, for a channel just recorded or replayed.
Connected(ch, nonblocking) ==
    IF nonblocking
    THEN Answer([ch EXCEPT !.pending_error = ch.connect_errno],
                <<"errno", "EINPROGRESS">>)
    ELSE Answer(ch, <<"errno", ch.connect_errno>>)

\* NetworkEngine::record_arrival: the input the recording keeps of a pull.
InputOf(ch, c, now, arrival) ==
    [channel |-> c, not_before |-> now, after_tx |-> ch.tx,
     stream_offset |-> ch.rx_end, kind |-> arrival.kind, len |-> arrival.len,
     errno |-> arrival.errno]

\* NetworkEngine::recv; the data handed out is its first offset and length.
Recv(channel, now, max_len, target, peek) ==
    LET ch == Release(channel, now)
        enough == \/ ch.rx >= Max({target, 1})
                  \/ InputEnded(ch) \/ ch.shut_rd
                  \/ ch.pending_error # NoError
        len == Min({ch.rx, max_len})
    IN  CASE ch.rx > 0 /\ enough ->
               Answer(IF peek THEN ch ELSE [ch EXCEPT !.rx = @ - len],
                      <<"data", ch.rx_end - ch.rx, len>>)
          [] ch.rx = 0 /\ ch.pending_error # NoError ->
               Answer([ch EXCEPT !.pending_error = NoError],
                      <<"error", ch.pending_error>>)
          [] /\ ch.rx = 0 /\ ch.pending_error = NoError
             /\ InputEnded(ch) \/ ch.shut_rd ->
               Answer(ch, <<"eof">>)
          [] OTHER ->
               Answer(ch, IF Stalled(ch, now) THEN Refusal("ReplayStalled")
                                              ELSE <<"would_block">>)

\* NetworkEngine::readiness; IN and OUT stand for their RDNORM and WRNORM too.
Readiness(channel, now, lowat) ==
    LET ch == Release(channel, now)
        rcv_shutdown == ch.shut_rd \/ InputEnded(ch)
        snd_shutdown == ch.shut_wr \/ ch.reset
        hup == (rcv_shutdown /\ snd_shutdown) \/ ch.reset
        events == {"OUT"}
                  \cup {e \in {"HUP"} : hup}
                  \cup {e \in {"IN"} : rcv_shutdown \/ ch.rx >= Max({lowat, 1})}
                  \cup {e \in {"RDHUP"} : rcv_shutdown}
                  \cup {e \in {"ERR"} : ch.pending_error # NoError}
    IN  Answer(ch, IF Stalled(ch, now) THEN Refusal("ReplayStalled")
                                       ELSE <<"events", events>>)

\* NetworkEngine::take_error
TakeError(channel, now) ==
    LET ch == Release(channel, now)
    IN  Answer([ch EXCEPT !.pending_error = NoError],
               <<"errno", ch.pending_error>>)

\* NetworkEngine::send_failure
SendFailure(channel, now) ==
    LET ch == Release(channel, now)
    IN  IF ch.reset \/ ch.shut_wr
        THEN Answer([ch EXCEPT !.pending_error = NoError],
                    <<"failure", IF ch.pending_error # NoError
                                 THEN ch.pending_error ELSE "EPIPE">>)
        ELSE Answer(ch, <<"may_send">>)

\* NetworkEngine::record_send of len bytes of t, and record_refused_send for
\* none: the fragment the recording keeps, and the channel after it.
FragmentOf(ch, c, t, len, now, waits) ==
    [channel |-> c, stream_offset |-> ch.tx, by |-> t, len |-> len,
     waits |-> waits, not_before |-> IF waits > 0 THEN now ELSE 0]
RecordedSend(ch, len) ==
    [ch EXCEPT !.tx = @ + len, !.output_events = @ + 1]

\* Mutant of RefusalMet: the refusal stays expected.
RefusalMet_kept(ch) == ch

\* replay_send meets a recorded refusal, which it takes off the stream.
RefusalMet(ch) == [ch EXCEPT !.expected_outputs = Tail(@)]

\* NetworkEngine::replay_send of len > 0 bytes of t.
ReplaySend(ch, t, len, nonblocking, now, waits) ==
    LET fragment == Head(ch.expected_outputs)
        start == ch.tx - fragment.stream_offset
        waited == start = 0 /\ fragment.waits > 0
        sent == Min({fragment.len - start, len})
        popped == [ch EXCEPT !.expected_outputs = Tail(@)]
    IN  CASE ch.expected_outputs = <<>> ->
               Answer(ch, Refusal("OutboundBeyondRecording"))
          [] ch.expected_outputs # <<>> /\ fragment.len = 0 ->
               IF nonblocking THEN Answer(RefusalMet(ch), <<"refused_send">>)
               ELSE Answer(ch, Refusal("BlockingSendAtRefusal"))
          [] OTHER ->
               IF waited /\ nonblocking
               THEN Answer(ch, Refusal("NonblockingSendAtWait"))
               ELSE IF waited /\ (waits < fragment.waits \/ now < fragment.not_before)
               THEN Answer(ch, <<"not_yet">>)
               ELSE IF fragment.by # t
               THEN Answer(ch, Refusal("OutboundMismatch"))
               ELSE Answer([IF sent = fragment.len - start THEN popped ELSE ch
                               EXCEPT !.tx = @ + sent], <<"sent", sent>>)

\* NetworkEngine::shutdown
Shutdown(ch, how) ==
    CASE ch.connect_errno # NoError -> Answer(ch, <<"errno", "ENOTCONN">>)
      [] ch.connect_errno = NoError /\ how \notin {"RD", "WR", "RDWR"} ->
           Answer(ch, <<"errno", "EINVAL">>)
      [] OTHER ->
           Answer([ch EXCEPT !.shut_rd = @ \/ how \in {"RD", "RDWR"},
                             !.shut_wr = @ \/ how \in {"WR", "RDWR"}],
                  <<"errno", NoError>>)

\* NetworkEngine::new_replay: a recorded channel holds its own streams.
ReplayChannel(c, errno, inputs, outputs) ==
    [NewChannel(errno) EXCEPT
        !.pending_inputs = SelectSeq(inputs, LAMBDA i : i.channel = c),
        !.expected_outputs = SelectSeq(outputs, LAMBDA o : o.channel = c)]

\* NetworkEngine::finish_replay, for one connected channel.
Leftover(ch) ==
    IF ch.expected_outputs = <<>> THEN <<"finished">>
    ELSE LET last == Last(ch.expected_outputs)
         IN  Refusal(IF last.stream_offset + last.len > ch.tx
                     THEN "ReplayUnsent" ELSE "ReplayUnrefused")

Total(outputs, n) ==
    FoldLeft(LAMBDA sum, o : sum + o.len, 0, SubSeq(outputs, 1, n))

\* NetworkTraceV2::validate, for the outputs of one channel ...
ValidOutputs(outputs, errno) ==
    /\ outputs # <<>> => errno = NoError
    /\ \A i \in DOMAIN outputs :
         /\ outputs[i].stream_offset = Total(outputs, i - 1)
         /\ outputs[i].waits > 0 =>
              /\ outputs[i].len > 0
              /\ \A j \in 1 .. i - 1 :
                   outputs[j].waits > 0 =>
                     outputs[j].not_before <= outputs[i].not_before

\* ... and for its inputs; the times are ordered across the channels.
ValidInputs(inputs, outputs, errno) ==
    /\ inputs # <<>> => errno = NoError
    /\ \A i \in DOMAIN inputs :
         /\ inputs[i].after_tx <= Total(outputs, Len(outputs))
         /\ inputs[i].stream_offset = Total(inputs, i - 1)
         /\ inputs[i].kind = "bytes" => inputs[i].len > 0
         /\ i < Len(inputs) =>
              /\ inputs[i].kind = "bytes"
              /\ inputs[i].after_tx <= inputs[i + 1].after_tx
=============================================================================
