--------------------------- MODULE SpeechPlayback ---------------------------
(* The life of a `speak` request.  Python asks for a sentence; the Swift task of
   ConversationModel.perform asks the synthesizer for samples, hands each chunk
   to PCMPlayer, waits until the player has drained, and answers `done`.  The
   player's first and last buffers become `playback` events, which the output
   transport turns into bot-started and bot-stopped messages for the screen.

   `host` is everything the main actor owns, the player included, so a handler
   is an operator from a host to a host; `sent` is the host's half of the wire
   to Python.  Completion callbacks and the cancellation handler of finish() are
   tasks of the main actor that run after the code that scheduled them. *)
EXTENDS Naturals, Sequences, FiniteSets

CONSTANTS
    MaxTurns,      \* user turns
    MaxRequests,   \* sentences spoken
    MaxSessions,   \* session identities drawn by start and stop
    MaxChunks,     \* chunks of samples of a sentence
    Windows,       \* 20 ms buffers in a chunk
    MaxInterrupts, \* presses of the button while the bot thinks or speaks
    MaxFailures    \* failures of a synthesis or the engine, and timeouts

ASSUME PlaybackAssumption ==
    /\ {MaxTurns, MaxRequests, MaxSessions, MaxChunks, Windows} \subseteq Nat \ {0}
    /\ {MaxInterrupts, MaxFailures} \subseteq Nat

VARIABLES host,      \* the Swift main actor
          synth,     \* the SpeechSynthesis of each request
          device,    \* AVAudioPlayerNode: the scheduled buffers, the callbacks it owes
          py,        \* the bridge, the TTS service and the output transport
          toHost,    \* events of Python, not yet handled
          heard, cut,\* buffers of a request that were played, and that were not
          presses, failures

vars == <<host, synth, device, py, toHost, heard, cut, presses, failures>>

None == 0
Requests == 1..MaxRequests
Turns == 1..MaxTurns
Sessions == 1..MaxSessions

-----------------------------------------------------------------------------
(* The host.                                                                 *)

Tell(h, kind, request, session) ==
    [h EXCEPT !.sent = Append(@, [kind |-> kind, request |-> request, session |-> session])]

\* PCMPlayer.setSpeaking and the handler ConversationModel installs for it.
SetSpeaking(h, speaking) ==
    LET now == [h EXCEPT !.speaking = speaking]
    IN  IF h.speaking = speaking \/ h.speechRequest = None THEN now
        ELSE Tell(now, IF speaking THEN "playback_on" ELSE "playback_off",
                  h.speechRequest, h.session)

\* Mutant: the waiter is forgotten.
PlayerStopLeavesWaiter(h) ==
    SetSpeaking([h EXCEPT !.generation = @ + 1, !.pending = 0], FALSE)

\* PCMPlayer.stop: the waiter of finish() is resumed with a CancellationError.
PlayerStop(h) ==
    LET stopped == [h EXCEPT !.generation = @ + 1, !.pending = 0, !.waiter = None]
    IN  SetSpeaking(IF h.waiter = None THEN stopped
                    ELSE [stopped EXCEPT !.task[h.waiter].stage = "unwinding"], FALSE)

\* Cancelling the tasks of requests.  While one waits for the player to drain, its
\* cancellation handler starts a main-actor task that remembers the generation.
CancelTasks(h, ids) ==
    [h EXCEPT !.task = [r \in Requests |-> IF r \in ids THEN [h.task[r] EXCEPT !.cancelled = TRUE]
                                           ELSE h.task[r]],
              !.handlers = IF \E r \in ids : h.task[r].stage = "finishing"
                           THEN @ \union {h.generation} ELSE @,
              !.requests = @ \ ids]

CancelRequests(h) == [PlayerStop(CancelTasks(h, h.requests)) EXCEPT !.speechRequest = None]

\* The request's task may go on: the checks at its start, per chunk and at its end.
Current(h, r) == h.active /\ h.session = h.task[r].session /\ h.turn = h.task[r].turn

\* Mutant: the end of an old task takes the player from the new one.
EndedForAll(h, r) ==
    [h EXCEPT !.task[r].stage = "ended", !.requests = @ \ {r}, !.speechRequest = None]

\* `defer`: the end of a task.
Ended(h, r) ==
    [h EXCEPT !.task[r].stage = "ended", !.requests = @ \ {r},
              !.speechRequest = IF @ = r THEN None ELSE @]

\* PCMPlayer.enqueue.
Enqueue(h) == SetSpeaking([h EXCEPT !.pending = @ + Windows], TRUE)

\* PCMPlayer.finish, once the stream of samples has ended.
Finish(h, r) ==
    IF h.pending = 0 THEN [h EXCEPT !.task[r].stage = "completing"]
    ELSE [h EXCEPT !.task[r].stage = "finishing", !.waiter = r]

\* One buffer fewer; the last one resumes finish() and ends the bot's speech.
OneFewer(h) ==
    LET fewer == [h EXCEPT !.pending = @ - 1]
        resumed == IF h.waiter = None THEN fewer
                   ELSE [fewer EXCEPT !.task[h.waiter].stage = "completing", !.waiter = None]
    IN  IF h.pending = 1 THEN SetSpeaking(resumed, FALSE) ELSE fewer

\* Mutant: a callback of an earlier generation counts.
CompletedAnyEpoch(h, epoch) == IF h.pending = 0 THEN h ELSE OneFewer(h)

\* The completion callback of a buffer that was scheduled in `epoch`.
Completed(h, epoch) == IF epoch = h.generation THEN OneFewer(h) ELSE h

\* Mutant: a late cancellation stops whatever plays now.
HandlerRunsAnyGeneration(h, expected) == PlayerStop(h)

\* The task of finish()'s cancellation handler.
HandlerRuns(h, expected) ==
    IF expected = h.generation THEN PlayerStop(h) ELSE h

Host0 == [active |-> TRUE, session |-> 1, turn |-> None, drawn |-> 1, speechRequest |-> None,
          requests |-> {}, botTurn |-> None, botSpeaking |-> FALSE,
          task |-> [r \in Requests |-> [stage |-> "none", cancelled |-> FALSE, turn |-> None,
                                        session |-> None, error |-> FALSE]],
          generation |-> 0, pending |-> 0, speaking |-> FALSE, waiter |-> None,
          handlers |-> {}, latest |-> None, sent |-> <<>>]

-----------------------------------------------------------------------------
(* The synthesizer: one inference at a time, the next waits for the previous. *)

Producing(r) == synth[r].stage = "producing"
SynthesisOver(r) == synth[r].stage \in {"none", "finished", "failed", "cancelled"}

\* Requests whose cancellation handler cancels the synthesis with the task.
Streamed(h, r) == h.task[r].stage \in {"streaming", "finishing"}

\* The host moved to h: what it cancelled is cancelled in the synthesizer too.
CancelSyntheses(h) ==
    synth' = [r \in Requests |->
        [synth[r] EXCEPT !.cancelled = @ \/ h.task[r].stage = "unwinding"
                                         \/ (Streamed(h, r) /\ h.task[r].cancelled)]]

\* If h has a new generation the node was stopped: it owes every buffer's callback.
StopDevice(h) ==
    IF h.generation = host.generation THEN UNCHANGED <<device, cut>>
    ELSE /\ device' = [scheduled |-> <<>>,
                       callbacks |-> device.callbacks \o [i \in DOMAIN device.scheduled |->
                                                            device.scheduled[i].epoch]]
         /\ cut' = [r \in Requests |-> cut[r] +
                       Cardinality({i \in DOMAIN device.scheduled : device.scheduled[i].request = r})]

HostMoves(h) == host' = h /\ CancelSyntheses(h) /\ StopDevice(h)

-----------------------------------------------------------------------------
(* The task of a request.                                                    *)

Begin(r) ==
    /\ host.task[r].stage = "created"
    /\ HostMoves(IF host.task[r].cancelled \/ ~Current(host, r) THEN Ended(host, r)
                 ELSE [host EXCEPT !.task[r].stage = "synthesizing", !.speechRequest = r])
    /\ UNCHANGED <<py, toHost, heard, presses, failures>>

\* PocketTTSSynthesizer.synthesize; `latest` is the actor's `active`.
Synthesize(r) ==
    /\ host.task[r].stage = "synthesizing"
    /\ IF host.task[r].cancelled
       THEN HostMoves(Ended(host, r))
       ELSE /\ host' = [host EXCEPT !.task[r].stage = "streaming", !.latest = r]
            /\ synth' = [synth EXCEPT ![r].stage = "waiting", ![r].previous = host.latest]
            /\ UNCHANGED <<device, cut>>
    /\ UNCHANGED <<py, toHost, heard, presses, failures>>

\* Mutant: what a synthesis throws is taken for a cancellation.
UnwindSilently(h, r, error) ==
    [h EXCEPT !.task[r].stage = "unwinding", !.task[r].error = FALSE]

\* The `catch` around the samples: the synthesis is cancelled and waited for.
Unwind(h, r, error) ==
    [h EXCEPT !.task[r].stage = "unwinding", !.task[r].error = error]

\* The next chunk reaches the player, unless the request is no longer current.
TakeChunk(r) ==
    /\ host.task[r].stage = "streaming" /\ ~host.task[r].cancelled
    /\ synth[r].taken < synth[r].made
    /\ IF Current(host, r) /\ host.speechRequest = r
       THEN /\ host' = Enqueue(host)
            /\ synth' = [synth EXCEPT ![r].taken = @ + 1]
            /\ device' = [device EXCEPT !.scheduled = @ \o
                    [w \in 1..Windows |-> [request |-> r, epoch |-> host.generation]]]
            /\ UNCHANGED cut
       ELSE HostMoves(Unwind(host, r, FALSE))
    /\ UNCHANGED <<py, toHost, heard, presses, failures>>

\* enqueue() throws: the engine did not start.
EngineFails(r) ==
    /\ host.task[r].stage = "streaming" /\ ~host.task[r].cancelled
    /\ synth[r].taken < synth[r].made /\ failures < MaxFailures
    /\ failures' = failures + 1
    /\ HostMoves(Unwind(host, r, TRUE))
    /\ UNCHANGED <<py, toHost, heard, presses>>

\* The loop over the samples ends: cancelled, failed, or with the whole sentence.
StreamEnds(r) ==
    /\ host.task[r].stage = "streaming"
    /\ \/ host.task[r].cancelled /\ HostMoves(Unwind(host, r, FALSE))
       \/ /\ ~host.task[r].cancelled /\ synth[r].taken = synth[r].made
          /\ \/ synth[r].stage = "failed" /\ HostMoves(Unwind(host, r, TRUE))
             \/ synth[r].stage = "cancelled" /\ HostMoves(Unwind(host, r, FALSE))
             \/ synth[r].stage = "finished" /\ HostMoves(Finish(host, r))
    /\ UNCHANGED <<py, toHost, heard, presses, failures>>

\* The synthesis has ended as well: the request is answered, unless it is stale.
Answer(r) ==
    /\ host.task[r].stage \in {"completing", "unwinding"} /\ SynthesisOver(r)
    /\ LET good == host.task[r].stage = "completing" /\ ~host.task[r].cancelled
           bad == host.task[r].stage = "unwinding" /\ host.task[r].error
           told == IF (good \/ bad) /\ Current(host, r)
                   THEN Tell(host, IF good THEN "done" ELSE "error", r, host.session)
                   ELSE host
       IN  HostMoves(Ended(told, r))
    /\ UNCHANGED <<py, toHost, heard, presses, failures>>

Task(r) == Begin(r) \/ Synthesize(r) \/ TakeChunk(r) \/ StreamEnds(r) \/ Answer(r)

-----------------------------------------------------------------------------
(* The synthesis of a request, and the audio device.                         *)

\* Mutant: a cancelled inference is not waited for.
PreviousCancelled(r) ==
    synth[r].previous /= None => LET p == synth[r].previous
                                 IN  SynthesisOver(p) \/ synth[p].cancelled

PreviousOver(r) == synth[r].previous /= None => SynthesisOver(synth[r].previous)

SynthesisBegins(r) ==
    /\ synth[r].stage = "waiting" /\ PreviousOver(r)
    /\ synth' = [synth EXCEPT ![r].stage = IF synth[r].cancelled THEN "cancelled"
                                          ELSE "producing"]
    /\ UNCHANGED <<host, device, py, toHost, heard, cut, presses, failures>>

SynthesisYields(r) ==
    /\ Producing(r) /\ ~synth[r].cancelled /\ synth[r].made < MaxChunks
    /\ synth' = [synth EXCEPT ![r].made = @ + 1]
    /\ UNCHANGED <<host, device, py, toHost, heard, cut, presses, failures>>

SynthesisEnds(r) ==
    /\ Producing(r)
    /\ synth' = [synth EXCEPT ![r].stage = IF synth[r].cancelled THEN "cancelled" ELSE "finished"]
    /\ UNCHANGED <<host, device, py, toHost, heard, cut, presses, failures>>

SynthesisFails(r) ==
    /\ Producing(r) /\ failures < MaxFailures
    /\ failures' = failures + 1
    /\ synth' = [synth EXCEPT ![r].stage = "failed"]
    /\ UNCHANGED <<host, device, py, toHost, heard, cut, presses>>

\* The node plays a buffer to its end and owes the completion callback.
DevicePlays ==
    /\ device.scheduled /= <<>>
    /\ LET b == Head(device.scheduled)
       IN  /\ heard' = [heard EXCEPT ![b.request] = @ + 1]
           /\ device' = [scheduled |-> Tail(device.scheduled),
                         callbacks |-> Append(device.callbacks, b.epoch)]
    /\ UNCHANGED <<host, synth, py, toHost, cut, presses, failures>>

Callback ==
    /\ device.callbacks /= <<>>
    /\ host' = Completed(host, Head(device.callbacks))
    /\ device' = [device EXCEPT !.callbacks = Tail(@)]
    /\ UNCHANGED <<synth, py, toHost, heard, cut, presses, failures>>

CancellationHandler ==
    /\ \E g \in host.handlers :
           HostMoves(HandlerRuns([host EXCEPT !.handlers = @ \ {g}], g))
    /\ UNCHANGED <<py, toHost, heard, presses, failures>>

-----------------------------------------------------------------------------
(* The host's handlers of Python's events, and its button.                   *)

StopConversation(h) ==
    LET told == Tell(h, "stop", None, h.session)
        fresh == [told EXCEPT !.active = FALSE, !.session = h.drawn + 1, !.drawn = @ + 1]
    IN  [CancelRequests(fresh) EXCEPT !.turn = None, !.botSpeaking = FALSE, !.botTurn = None,
                                      !.latest = None]

HandleRequest(h, m) ==
    IF h.active /\ m.turn = h.turn /\ m.session = h.session
    THEN [h EXCEPT !.requests = @ \union {m.request},
                   !.task[m.request] = [stage |-> "created", cancelled |-> FALSE, error |-> FALSE,
                                        turn |-> m.turn, session |-> m.session]]
    ELSE Tell(h, "error", m.request, None)

HandleCancelRequest(h, r) ==
    LET cancelled == CancelTasks(h, h.requests \intersect {r})
    IN  IF h.speechRequest = r THEN [PlayerStop(cancelled) EXCEPT !.speechRequest = None]
        ELSE cancelled

HandleEvent(h, m) ==
    IF m.kind = "request" THEN HandleRequest(h, m)
    ELSE IF m.session /= h.session THEN h
    ELSE CASE m.kind = "user_turn" ->
                IF h.active THEN [CancelRequests(h) EXCEPT !.turn = m.turn] ELSE h
           [] m.kind = "cancel_request" -> HandleCancelRequest(h, m.request)
           [] m.kind = "cancel_turn" ->
                IF m.turn /= None /\ m.turn = h.turn THEN CancelRequests(h) ELSE h
           [] m.kind = "error" -> IF m.turn = h.turn THEN StopConversation(h) ELSE h
           [] m.kind = "bot_started" ->
                IF h.active /\ m.turn = h.turn
                THEN [h EXCEPT !.botSpeaking = TRUE, !.botTurn = m.turn] ELSE h
           [] m.kind = "bot_stopped" ->
                IF h.active /\ m.turn = h.botTurn
                THEN [h EXCEPT !.botSpeaking = FALSE, !.botTurn = None] ELSE h

\* What a stop asks of the synthesizer besides: unload() cancels its synthesis.
Unloads(h) ==
    IF h.latest = None /\ host.latest /= None
    THEN /\ host' = h /\ StopDevice(h)
         /\ synth' = [r \in Requests |-> [synth[r] EXCEPT !.cancelled = @ \/ r = host.latest
                           \/ h.task[r].stage = "unwinding" \/ (Streamed(h, r) /\ h.task[r].cancelled)]]
    ELSE HostMoves(h)

Handle ==
    /\ toHost /= <<>>
    /\ Unloads(HandleEvent(host, Head(toHost)))
    /\ toHost' = Tail(toHost)
    /\ UNCHANGED <<py, heard, presses, failures>>

Interrupt ==
    /\ host.active /\ host.turn /= None /\ presses < MaxInterrupts
    /\ presses' = presses + 1
    /\ HostMoves([Tell(CancelRequests(host), "interrupt", None, host.session)
                     EXCEPT !.turn = None, !.botSpeaking = FALSE, !.botTurn = None])
    /\ UNCHANGED <<py, toHost, heard, failures>>

Stop ==
    /\ host.active /\ host.drawn < MaxSessions
    /\ Unloads(StopConversation(host))
    /\ UNCHANGED <<py, toHost, heard, presses, failures>>

\* Mutant: the next conversation does not wait for the teardown.
UnloadedAtOnce == TRUE

\* `await previousStop?.value`: unload() has awaited the last inference.
Unloaded == \A r \in Requests : SynthesisOver(r)

\* A new conversation is announced once the stopped one has unloaded its synthesizer.
Start ==
    /\ ~host.active /\ host.drawn < MaxSessions
    /\ Unloaded
    /\ HostMoves(Tell([host EXCEPT !.active = TRUE, !.session = host.drawn + 1, !.drawn = @ + 1],
                      "start", None, host.drawn + 1))
    /\ UNCHANGED <<py, toHost, heard, presses, failures>>

-----------------------------------------------------------------------------
(* Python: the bridge, the TTS service, the output transport.                *)

Event(kind, request, turn, session) ==
    [kind |-> kind, request |-> request, turn |-> turn, session |-> session]

SessionOf(p, turn) == IF turn = None THEN p.session ELSE p.sessionOf[turn]

\* AppleOutputTransport._stop_speaking, and the messages it makes for the screen.
Silenced(p) == [p EXCEPT !.speaking = None, !.speakingTurn = None]
Silence(p) == IF p.speaking = None THEN <<>>
              ELSE <<Event("bot_stopped", None, p.speakingTurn, SessionOf(p, p.speakingTurn))>>

\* The `finally` of stream() when the request has not finished.
Dropped(p) == [p EXCEPT !.stream = None, !.result = "none"]
Drop(p) == IF p.stream = None THEN <<>>
           ELSE <<Event("cancel_request", p.stream, p.streamTurn, SessionOf(p, p.streamTurn))>>

Python(p, events) ==
    /\ py' = p /\ toHost' = toHost \o events
    /\ UNCHANGED <<synth, device, heard, cut>>

\* AppleOutputTransport.playback_changed.
PlaybackOn(r) ==
    IF py.stream = r /\ py.streamTurn = py.turn /\ py.speaking /= r
    THEN Python([py EXCEPT !.speaking = r, !.speakingTurn = py.turn],
                <<Event("bot_started", None, py.turn, SessionOf(py, py.turn))>>)
    ELSE Python(py, <<>>)

PlaybackOff(r) ==
    IF py.speaking = r THEN Python(Silenced(py), Silence(py)) ELSE Python(py, <<>>)

Received(m) ==
    IF m.kind \in {"done", "error"}
    THEN Python(IF py.stream = m.request THEN [py EXCEPT !.result = m.kind] ELSE py, <<>>)
    ELSE IF m.kind = "start"
    THEN Python([Dropped(py) EXCEPT !.active = TRUE, !.session = m.session, !.turn = None,
                     !.atTransport = TRUE, !.controls = Append(@, m.session)], Drop(py))
    ELSE IF m.session /= py.session THEN Python(py, <<>>)
    ELSE CASE m.kind = "playback_on" -> PlaybackOn(m.request)
           [] m.kind = "playback_off" -> PlaybackOff(m.request)
           [] m.kind = "stop" ->
                Python([py EXCEPT !.active = FALSE, !.controls = Append(@, m.session)], <<>>)
           [] m.kind = "interrupt" ->
                Python([py EXCEPT !.controls = Append(@, m.session)], <<>>)

Receive ==
    /\ host.sent /= <<>>
    /\ host' = [host EXCEPT !.sent = Tail(@)]
    /\ Received(Head(host.sent))
    /\ UNCHANGED <<presses, failures>>

PyMoves(p, events) ==
    Python(p, events) /\ UNCHANGED <<host, presses, failures>>

\* Speech of the user is confirmed: begin_turn, then an interruption downstream.
BeginTurn ==
    /\ py.active /\ py.turns < MaxTurns
    /\ LET t == py.turns + 1
       IN  PyMoves([py EXCEPT !.turn = t, !.turns = t, !.sessionOf[t] = py.session, !.atTTS = TRUE],
                   <<Event("user_turn", None, t, py.session)>>)

\* The STT service handles a stop, an interrupt or a start of the current session.
Control ==
    /\ py.controls /= <<>>
    /\ LET rest == [py EXCEPT !.controls = Tail(@)]
       IN  IF Head(py.controls) /= py.session THEN PyMoves(rest, <<>>)
           ELSE PyMoves([rest EXCEPT !.turn = None, !.atTTS = TRUE],
                        <<Event("cancel_turn", None, py.turn, py.session)>>)

\* The interruption passes the TTS service, which gives up its request, and then
\* the output transport.
InterruptTTS ==
    /\ py.atTTS
    /\ PyMoves([Dropped(py) EXCEPT !.atTTS = FALSE, !.atTransport = TRUE], Drop(py))

InterruptTransport ==
    /\ py.atTransport
    /\ PyMoves([Silenced(py) EXCEPT !.atTransport = FALSE], Silence(py))

\* The reply of the current turn has a sentence to speak.
Speak ==
    /\ py.active /\ py.turn /= None /\ py.stream = None
    /\ ~py.atTTS /\ ~py.atTransport /\ py.requested < MaxRequests
    /\ LET r == py.requested + 1
       IN  PyMoves([py EXCEPT !.requested = r, !.stream = r, !.streamTurn = py.turn],
                   <<Event("request", r, py.turn, SessionOf(py, py.turn))>>)

\* run_tts after its stream: an acknowledgment, an error frame, or nothing for a
\* turn that is over.
Resumed(result) ==
    LET current == py.active /\ py.streamTurn = py.turn
        over == Dropped(py)
    IN  IF result = "done"
        THEN PyMoves(IF current THEN [over EXCEPT !.acknowledged = @ \union {py.stream}] ELSE over, <<>>)
        ELSE PyMoves(IF current THEN [over EXCEPT !.errors = Append(@, py.streamTurn)] ELSE over,
                     Drop(py))

Resume == py.stream /= None /\ py.result /= "none" /\ Resumed(py.result)

TimesOut ==
    /\ py.stream /= None /\ py.result = "none" /\ failures < MaxFailures
    /\ failures' = failures + 1
    /\ LET current == py.active /\ py.streamTurn = py.turn
       IN  Python(IF current THEN [Dropped(py) EXCEPT !.errors = Append(@, py.streamTurn)]
                  ELSE Dropped(py), Drop(py))
    /\ UNCHANGED <<host, presses>>

\* The worker's error handler: an error of an earlier turn or session is dropped.
ReportError ==
    /\ py.errors /= <<>>
    /\ LET t == Head(py.errors)
           rest == [py EXCEPT !.errors = Tail(@)]
       IN  PyMoves(rest, IF t = py.turn /\ SessionOf(py, t) = py.session
                         THEN <<Event("error", None, t, py.session)>> ELSE <<>>)

-----------------------------------------------------------------------------
Init ==
    /\ host = Host0
    /\ synth = [r \in Requests |-> [stage |-> "none", cancelled |-> FALSE, previous |-> None,
                                    made |-> 0, taken |-> 0]]
    /\ device = [scheduled |-> <<>>, callbacks |-> <<>>]
    /\ py = [active |-> TRUE, session |-> 1, turn |-> None, sessionOf |-> [t \in Turns |-> None],
             turns |-> 0, stream |-> None, streamTurn |-> None, result |-> "none",
             speaking |-> None, speakingTurn |-> None, controls |-> <<>>, atTTS |-> FALSE,
             atTransport |-> FALSE, errors |-> <<>>, requested |-> 0, acknowledged |-> {}]
    /\ toHost = <<>>
    /\ heard = [r \in Requests |-> 0] /\ cut = [r \in Requests |-> 0]
    /\ presses = 0 /\ failures = 0

Synthesis(r) == SynthesisBegins(r) \/ SynthesisYields(r) \/ SynthesisEnds(r)
Fail(r) == SynthesisFails(r) \/ EngineFails(r)
PythonTasks == Control \/ InterruptTTS \/ InterruptTransport \/ Resume \/ ReportError

Next ==
    \/ \E r \in Requests : Task(r) \/ Synthesis(r) \/ Fail(r)
    \/ DevicePlays \/ Callback \/ CancellationHandler
    \/ Handle \/ Interrupt \/ Stop \/ Start
    \/ Receive \/ BeginTurn \/ Speak \/ TimesOut \/ PythonTasks

Spec == Init /\ [][Next]_vars

\* Tasks, callbacks and messages are run in the end, an inference ends and the
\* device plays; nobody has to speak, press a button or fail.
Scheduled ==
    \/ \E r \in Requests : Task(r) \/ SynthesisBegins(r) \/ SynthesisEnds(r)
    \/ DevicePlays \/ Callback \/ CancellationHandler \/ Handle \/ Receive \/ PythonTasks

-----------------------------------------------------------------------------
(* Properties.                                                               *)

\* Only a sentence that was synthesized to its end and whose every sample has left
\* the loudspeaker is acknowledged to the assistant's context.
AcknowledgedMeansHeard ==
    \A r \in py.acknowledged :
        synth[r].stage = "finished" /\ heard[r] = synth[r].made * Windows

\* An old cancellation never silences a newer reply: buffers are thrown away only
\* of a request that was itself cancelled, or that had failed before.
CancelSparesNewReply ==
    \A r \in Requests : cut[r] > 0 => host.task[r].cancelled \/ host.task[r].error

\* The model is never used by two inferences at once, a cancelled one included.
SoleInference == \A r, q \in Requests : Producing(r) /\ Producing(q) => r = q

\* Everything but the device and the synthesizer has come to rest.
Settled ==
    /\ toHost = <<>> /\ host.sent = <<>> /\ host.handlers = {} /\ device.callbacks = <<>>
    /\ py.controls = <<>> /\ py.errors = <<>> /\ ~py.atTTS /\ ~py.atTransport
    /\ py.result = "none"

\* When messages and callbacks have settled, Python, the screen and the player
\* agree on whether the bot speaks, and on which sentence it is.
PlaybackAgreement ==
    Settled => /\ py.speaking = IF host.speaking THEN host.speechRequest ELSE None
               /\ host.botSpeaking = host.speaking

\* No task waits for ever: when messages have settled, one that has not ended still
\* has something to run for it, whatever was cancelled, failed or was stopped.
NoTaskStuck ==
    Settled /\ (\E r \in Requests : host.task[r].stage \notin {"none", "ended"})
        => ENABLED Scheduled
=============================================================================
