----------------------------- MODULE SpeechTurn -----------------------------
(***************************************************************************)
(* From native words to user turns: the Apple STT service (stt.py), the    *)
(* part of the bridge that feeds it, and the user aggregator that keeps    *)
(* the turn.                                                               *)
(*                                                                         *)
(* Six coroutines interleave at their awaits: the main loop that receives  *)
(* native events, the STT service's input task (system frames: VAD scores, *)
(* lifecycle events) and process task (data frames: transcripts, endpoint  *)
(* acknowledgments), its finalization task, and the aggregator's own input *)
(* and process tasks.  A system frame overtakes the data frames ahead of   *)
(* it; an interruption drops the interruptible frames a process task has   *)
(* not reached yet.                                                        *)
(*                                                                         *)
(* A step of the service is a function from its state to its next state,   *)
(* so that the calls of a handler compose as they do in the code; the      *)
(* frames it pushes collect in the field out.                              *)
(***************************************************************************)
EXTENDS Naturals, Sequences, FiniteSets, SequencesExt

CONSTANTS
    MaxWords,       \* bound: transcription events
    MaxScores,      \* bound: VAD scores and Send taps
    MaxControls,    \* bound: lifecycle events
    MaxEnd,         \* bound: end timestamps of words
    MaxBacklog,     \* bound: queue length at which no more speech arrives
    BufferLimit     \* the 32 transcripts kept before a turn is confirmed

ASSUME SpeechAssumption ==
    /\ MaxWords \in Nat /\ MaxScores \in Nat /\ MaxControls \in Nat
    /\ MaxEnd \in Nat \ {0} /\ MaxBacklog \in Nat \ {0} /\ BufferLimit \in Nat \ {0}

VARIABLES
    epoch, session, active, muted,   \* the bridge's input_epoch and session
    inbox,        \* frames on their way to STT, system and data
    queued,       \* STT's process queue: only AppleInputFrames, which no
                  \* interruption removes
    stt,          \* AppleSpeechSTTService and bridge.turn
    input,        \* where STT's input task waits
    aggInput,     \* the user aggregator's input queue
    aggQueue,     \* ... and its process queue
    aggregation, userTurn, userSpeaking,  \* the aggregator and its controller
    failed,       \* STT reported an error that the host will answer with a stop
    words, scores, controls               \* inputs so far

feed == <<epoch, session, active, muted, words, scores, controls>>
aggregator == <<aggInput, aggQueue, aggregation, userTurn, userSpeaking>>
vars == <<feed, inbox, queued, stt, input, aggregator, failed>>

None == 0
Ends == 1 .. MaxEnd
VADStates == {"speaking", "quiet", "between"}
InterruptingKinds == {"start", "stop", "reset", "interrupt"}
LifecycleKinds == InterruptingKinds \cup {"mute", "unmute"}

-----------------------------------------------------------------------------
(* Frames *)

Tagged(kind) == [kind |-> kind, epoch |-> epoch, session |-> session]
\* AppleControlFrames are system frames, AppleInputFrames are data frames.
IsControl(e) == e.kind \notin {"transcription", "endpoint"}

\* What STT pushes to the aggregator.  Started, vad and interruption frames
\* are system frames; stopped is a control frame and words are data frames.
Frame(kind) == [kind |-> kind]
IsSystem(f) == f.kind \notin {"stopped", "final", "interim"}
Interrupts(f) == f.kind = "interruption" \/ (f.kind = "started" /\ ~userTurn)

NoEndpoint == [state |-> "none", turn |-> None, epoch |-> 0, session |-> None, id |-> None]
Idle == [pc |-> "idle", kind |-> "none", epoch |-> 0, session |-> None, wasOpen |-> FALSE]

\* The first conversation has started and its start event is handled.
Init ==
    /\ epoch = 1 /\ session = 1 /\ active = TRUE /\ muted = FALSE
    /\ words = 0 /\ scores = 0 /\ controls = 0
    /\ inbox = <<>> /\ queued = <<>> /\ input = Idle /\ failed = FALSE
    /\ stt = [speechActive |-> FALSE, acousticPending |-> FALSE, turnOpen |-> FALSE,
              waitForQuiet |-> FALSE, buffered |-> <<>>, earliest |-> 0,
              finalizedUntil |-> 0, endpoint |-> NoEndpoint, endpointId |-> None,
              endpoints |-> 0, closing |-> "none", turn |-> None, turns |-> 0,
              failed |-> FALSE, out |-> <<>>]
    /\ aggInput = <<>> /\ aggQueue = <<>> /\ aggregation = <<>>
    /\ userTurn = FALSE /\ userSpeaking = FALSE

-----------------------------------------------------------------------------
(* AppleSpeechSTTService, one method per operator *)

Push(s, f) == [s EXCEPT !.out = Append(@, f)]
TaskRuns(s) == s.endpoint.state \in {"created", "waiting"}

\* _transcription, once the turn is open.
Fresh(s, e) == e.end > s.finalizedUntil /\ e.end >= s.earliest
Deliver(s, e) ==
    IF ~Fresh(s, e) THEN s
    ELSE LET f == [kind |-> IF e.final THEN "final" ELSE "interim",
                   end |-> e.end, epoch |-> e.epoch, turn |-> s.turn]
         IN [Push(s, f) EXCEPT !.finalizedUntil = IF e.final THEN e.end ELSE @]

\* Each transcript in turn.  (A function rather than FoldLeft, whose operator
\* parameter the proof system cannot instantiate.)
DeliverAll(s, texts) ==
    LET after[i \in 0 .. Len(texts)] ==
            IF i = 0 THEN s ELSE Deliver(after[i - 1], texts[i])
    IN  after[Len(texts)]

ConfirmTurn(s) ==
    IF s.buffered = <<>> THEN s
    ELSE LET begun == IF s.turnOpen THEN s
                      ELSE [Push(s, Frame("started")) EXCEPT
                               !.turns = @ + 1, !.turn = s.turns + 1, !.turnOpen = TRUE]
         IN DeliverAll([begun EXCEPT !.buffered = <<>>], s.buffered)

Transcription(s, e) ==
    IF s.turnOpen \/ ~Fresh(s, e) THEN Deliver(s, e)
    ELSE LET kept == [s EXCEPT !.buffered = Append(@, e)] IN
         IF Len(kept.buffered) > BufferLimit THEN [kept EXCEPT !.failed = TRUE]
         ELSE IF s.speechActive /\ s.endpoint.state = "none" THEN ConfirmTurn(kept)
         ELSE kept

Since(texts, earliest) ==
    LET kept[i \in 0 .. Len(texts)] ==
            IF i = 0 THEN <<>>
            ELSE IF texts[i].end >= earliest THEN Append(kept[i - 1], texts[i]) ELSE kept[i - 1]
    IN  kept[Len(texts)]

\* Scores cover the preceding half second: older text is discarded.
ExpireEarlyTranscripts(s, cutoff) ==
    IF s.turnOpen \/ s.acousticPending THEN s
    ELSE LET earliest == IF cutoff > s.earliest THEN cutoff ELSE s.earliest
         IN [s EXCEPT !.earliest = earliest, !.buffered = Since(@, earliest)]

EndSpeech(s) ==
    LET quiet == IF s.speechActive
                 THEN [Push(s, Frame("vad_stopped")) EXCEPT !.speechActive = FALSE] ELSE s
        id == s.endpoints + 1
    IN IF (s.turnOpen \/ s.acousticPending) /\ s.endpoint.state = "none"
       THEN [quiet EXCEPT !.endpoints = id, !.endpointId = id,
                !.endpoint = [state |-> "created", turn |-> s.turn, epoch |-> epoch,
                              session |-> session, id |-> id]]
       ELSE quiet

\* The rest of _begin_speech and of the handler that called it.
SpeechBegun(s, kind) ==
    LET on == IF s.speechActive THEN s
              ELSE [Push(s, Frame("vad_started")) EXCEPT
                       !.speechActive = TRUE, !.acousticPending = TRUE]
        confirmed == ConfirmTurn([on EXCEPT !.endpoint = NoEndpoint])
    IN IF kind = "end_turn" THEN EndSpeech([confirmed EXCEPT !.waitForQuiet = TRUE])
       ELSE confirmed

\* _close_turn queues the stop behind the words and waits until it is handled.
CloseTurn(s, closer) ==
    [Push(s, [kind |-> "stopped", closer |-> closer]) EXCEPT !.closing = closer]

\* _reset_input after the finalization is gone, without the closing turn.
InputReset(s) ==
    LET quiet == IF s.speechActive THEN Push(s, Frame("vad_stopped")) ELSE s
    IN [quiet EXCEPT !.speechActive = FALSE, !.acousticPending = FALSE, !.turnOpen = FALSE,
            !.buffered = <<>>, !.earliest = 0, !.finalizedUntil = 0,
            !.waitForQuiet = FALSE, !.endpoint = NoEndpoint, !.endpointId = None]

\* broadcast_interruption and the turn forgotten with it.
ControlDone(s, kind) ==
    IF kind \in InterruptingKinds
    THEN [Push(s, Frame("interruption")) EXCEPT !.turn = None] ELSE s

\* The service's step: its new state, its frames queued, its error reported.
Commit(s) ==
    /\ stt' = [s EXCEPT !.out = <<>>, !.failed = FALSE]
    /\ aggInput' = aggInput \o s.out
    /\ failed' = (failed \/ s.failed)

-----------------------------------------------------------------------------
(* The bridge's receive() *)

Listening == active /\ ~muted
Calm == Len(inbox) + Len(queued) < MaxBacklog
Receive(e) == inbox' = Append(inbox, e)

\* The host announces a stop only when it runs and mutes only what is live.
Admissible(kind) ==
    CASE kind \in {"start", "reset"} -> ~active
      [] kind \in {"stop", "interrupt"} -> active
      [] kind = "mute" -> active /\ ~muted
      [] kind = "unmute" -> active /\ muted

\* A start clears the turn at once; the other kinds wait for STT.
ReceiveLifecycle(kind) ==
    /\ Admissible(kind)
    /\ epoch' = epoch + 1
    /\ session' = IF kind = "start" THEN session + 1 ELSE session
    /\ active' = (kind = "start" \/ (active /\ kind # "stop"))
    /\ muted' = (kind = "mute" \/ (muted /\ kind \notin {"start", "unmute"}))
    /\ stt' = IF kind = "start" THEN [stt EXCEPT !.turn = None] ELSE stt
    /\ Receive([kind |-> kind, epoch |-> epoch + 1,
                session |-> IF kind = "reset" THEN None ELSE session'])
    /\ UNCHANGED <<queued, input, aggregator, words, scores>>

UserControls ==
    /\ controls < MaxControls /\ controls' = controls + 1 /\ UNCHANGED failed
    /\ \E kind \in LifecycleKinds : ReceiveLifecycle(kind)

\* The host stops a conversation whose pipeline reported an error.
ErrorStops ==
    /\ failed /\ failed' = FALSE /\ UNCHANGED controls
    /\ IF active THEN ReceiveLifecycle("stop")
       ELSE UNCHANGED <<epoch, session, active, muted, words, scores, stt, inbox,
                        queued, input, aggregator>>

ReceiveScore ==
    /\ Listening /\ Calm /\ scores < MaxScores /\ scores' = scores + 1
    /\ \/ \E state \in VADStates, cutoff \in 0 .. MaxEnd :
             Receive([kind |-> "vad", epoch |-> epoch, session |-> session,
                      state |-> state, cutoff |-> cutoff])
       \/ Receive(Tagged("end_turn"))
    /\ UNCHANGED <<epoch, session, active, muted, words, controls, queued, stt, input,
                   aggregator, failed>>

\* SpeechAnalyzer reports hypotheses and final segments of a growing text.
ReceiveTranscription ==
    /\ Listening /\ Calm /\ words < MaxWords /\ words' = words + 1
    /\ \E end \in Ends, final \in BOOLEAN :
          Receive([kind |-> "transcription", epoch |-> epoch, session |-> session,
                   end |-> end, final |-> final, nr |-> words + 1])
    /\ UNCHANGED <<epoch, session, active, muted, scores, controls, queued, stt, input,
                   aggregator, failed>>

-----------------------------------------------------------------------------
(* STT's input task *)

Controls == {i \in 1 .. Len(inbox) : IsControl(inbox[i])}
NextControl == CHOOSE i \in Controls : \A j \in Controls : i <= j

\* process_frame's fences.
Stale(e) ==
    \/ e.session # None /\ e.session # session
    \/ e.kind \notin LifecycleKinds /\ e.epoch # epoch

\* _begin_speech up to its second await.
BeginSpeech(s, kind) ==
    IF s.closing # "none"
    THEN /\ Commit(s)
         /\ input' = [pc |-> "begin_wait", kind |-> kind, epoch |-> epoch,
                      session |-> session, wasOpen |-> FALSE]
    ELSE IF TaskRuns(s)
    THEN /\ Commit([s EXCEPT !.endpointId = None, !.endpoint.state = "cancelling"])
         /\ input' = [Idle EXCEPT !.pc = "begin_cancel", !.kind = kind]
    ELSE Commit(SpeechBegun([s EXCEPT !.endpointId = None], kind)) /\ input' = Idle

\* Mutant: a reset forgets the open turn without closing it.
ResetTailForgets(kind, wasOpen) ==
    /\ aggregation' = <<>> /\ input' = Idle
    /\ Commit(ControlDone(InputReset(stt), kind))

\* The end of _reset_input, up to the await of the closing turn.
ResetTail(kind, wasOpen) ==
    /\ aggregation' = <<>>
    /\ IF wasOpen
       THEN /\ Commit(CloseTurn(InputReset(stt), "reset"))
            /\ input' = [Idle EXCEPT !.pc = "reset_closing", !.kind = kind]
       ELSE Commit(ControlDone(InputReset(stt), kind)) /\ input' = Idle

\* Mutant: a reset does not wait for the turn that is closing.
ResetInputAtOnce(kind) == ResetTail(kind, stt.turnOpen)

ResetInput(kind) ==
    IF stt.closing # "none"
    THEN /\ input' = [Idle EXCEPT !.pc = "reset_wait", !.kind = kind]
         /\ UNCHANGED <<stt, aggInput, aggregation, failed>>
    ELSE IF TaskRuns(stt)
    THEN /\ Commit([stt EXCEPT !.endpointId = None, !.endpoint.state = "cancelling"])
         /\ input' = [Idle EXCEPT !.pc = "reset_cancel", !.kind = kind,
                                  !.wasOpen = stt.turnOpen]
         /\ UNCHANGED aggregation
    ELSE ResetTail(kind, stt.turnOpen)

HandleScore(e) ==
    LET s == ExpireEarlyTranscripts(stt, e.cutoff) IN
    /\ UNCHANGED aggregation
    /\ IF s.waitForQuiet
       THEN Commit([s EXCEPT !.waitForQuiet = e.state # "quiet"]) /\ UNCHANGED input
       ELSE IF e.state = "speaking" THEN BeginSpeech(s, "vad")
       ELSE /\ Commit(IF e.state = "quiet" /\ s.speechActive THEN EndSpeech(s) ELSE s)
            /\ UNCHANGED input

HandleEndTurn ==
    /\ UNCHANGED aggregation
    /\ IF ~stt.turnOpen /\ stt.buffered # <<>> THEN BeginSpeech(stt, "end_turn")
       ELSE Commit(EndSpeech([stt EXCEPT !.waitForQuiet = stt.speechActive])) /\ UNCHANGED input

HandleControl ==
    /\ input.pc = "idle" /\ Controls # {}
    /\ inbox' = RemoveAt(inbox, NextControl)
    /\ LET e == inbox[NextControl] IN
       IF Stale(e) \/ (e.kind = "vad" /\ ~Listening)
       THEN UNCHANGED <<stt, input, aggInput, aggregation, failed>>
       ELSE CASE e.kind = "vad" -> HandleScore(e)
              [] e.kind = "end_turn" -> HandleEndTurn
              [] e.kind \in LifecycleKinds -> ResetInput(e.kind)
    /\ UNCHANGED <<feed, queued, aggQueue, userTurn, userSpeaking>>

\* The awaits of the input task: the turn that was closing has closed ...
InputAfterClosing ==
    /\ stt.closing = "none"
    /\ CASE input.pc = "begin_wait" ->
              /\ IF Listening /\ session = input.session /\ epoch = input.epoch
                 THEN BeginSpeech(stt, input.kind)
                 ELSE input' = Idle /\ UNCHANGED <<stt, aggInput, failed>>
              /\ UNCHANGED aggregation
         [] input.pc = "reset_wait" -> ResetInput(input.kind)
         [] input.pc = "reset_closing" ->
              Commit(ControlDone(stt, input.kind)) /\ input' = Idle /\ UNCHANGED aggregation
         [] OTHER -> FALSE
    /\ UNCHANGED <<feed, inbox, queued, aggQueue, userTurn, userSpeaking>>

\* ... or the finalization task it cancelled has ended.  Nothing is checked
\* again before the speech begins.
InputAfterCancel ==
    /\ CASE input.pc = "begin_cancel" ->
              Commit(SpeechBegun(stt, input.kind)) /\ input' = Idle /\ UNCHANGED aggregation
         [] input.pc = "reset_cancel" -> ResetTail(input.kind, input.wasOpen)
         [] OTHER -> FALSE
    /\ UNCHANGED <<feed, inbox, queued, aggQueue, userTurn, userSpeaking>>

-----------------------------------------------------------------------------
(* STT's process task and its finalization task *)

\* The input task moves the data frames it meets to the process queue.
AdmitData ==
    /\ input.pc = "idle" /\ inbox # <<>> /\ ~IsControl(Head(inbox))
    /\ queued' = Append(queued, Head(inbox)) /\ inbox' = Tail(inbox)
    /\ UNCHANGED <<feed, stt, input, aggregator, failed>>

\* Mutant: any acknowledgment closes the turn, whichever span it is for.
AcknowledgesAnySpan(e) ==
    e.turn = stt.turn /\ ~stt.speechActive /\ stt.endpoint.state # "none"

Acknowledges(e) ==
    /\ e.turn = stt.turn /\ e.id = stt.endpointId
    /\ ~stt.speechActive /\ stt.endpoint.state # "none"

EndpointAcknowledged ==
    LET s == ConfirmTurn([stt EXCEPT !.endpoint = NoEndpoint, !.endpointId = None,
                                     !.acousticPending = FALSE])
    IN IF s.turnOpen THEN CloseTurn(s, "endpoint") ELSE s

Handling(kind) == queued # <<>> /\ Head(queued).kind = kind /\ stt.closing # "endpoint"
HandleTranscription ==
    /\ Handling("transcription") /\ queued' = Tail(queued)
    /\ Commit(IF Stale(Head(queued)) \/ ~Listening THEN stt
              ELSE Transcription(stt, Head(queued)))
    /\ UNCHANGED <<feed, inbox, input, aggQueue, aggregation, userTurn, userSpeaking>>

HandleEndpoint ==
    /\ Handling("endpoint") /\ queued' = Tail(queued)
    /\ Commit(IF Stale(Head(queued)) \/ ~Acknowledges(Head(queued)) THEN stt
              ELSE EndpointAcknowledged)
    /\ UNCHANGED <<feed, inbox, input, aggQueue, aggregation, userTurn, userSpeaking>>

\* finalize() runs; a lifecycle event may have come first.
Unchanged(e) == e.session = session /\ e.epoch = epoch
FinalizeBegins ==
    /\ stt.endpoint.state = "created"
    /\ stt' = [stt EXCEPT !.endpoint.state = IF Unchanged(stt.endpoint) THEN "waiting" ELSE "over"]
    /\ UNCHANGED <<feed, inbox, queued, input, aggregator, failed>>

\* endpoint(): the native side has finalized; the acknowledgment is ordered
\* behind every transcript received before.  Mutant first: it is not.
Acknowledgment ==
    [kind |-> "endpoint", epoch |-> epoch, session |-> session,
     turn |-> stt.endpoint.turn, id |-> stt.endpoint.id, nr |-> words]
FinalizeEndsAhead ==
    /\ stt.endpoint.state = "waiting"
    /\ stt' = [stt EXCEPT !.endpoint.state = "over"]
    /\ inbox' = IF Listening /\ stt.turn = stt.endpoint.turn /\ Unchanged(stt.endpoint)
                THEN <<Acknowledgment>> \o inbox ELSE inbox
    /\ UNCHANGED <<feed, queued, input, aggregator, failed>>

FinalizeEnds ==
    /\ stt.endpoint.state = "waiting"
    /\ stt' = [stt EXCEPT !.endpoint.state = "over"]
    /\ inbox' = IF Listening /\ stt.turn = stt.endpoint.turn /\ Unchanged(stt.endpoint)
                THEN Append(inbox, Acknowledgment) ELSE inbox
    /\ UNCHANGED <<feed, queued, input, aggregator, failed>>

\* Mutant: the failed finalization stays in _endpoint_task, unreported.
FinalizeFailsSilently ==
    /\ stt.endpoint.state = "waiting"
    /\ Commit([stt EXCEPT !.endpoint.state = "over"])
    /\ UNCHANGED <<feed, inbox, queued, input, aggQueue, aggregation, userTurn, userSpeaking>>

FinalizeFails ==
    /\ stt.endpoint.state = "waiting"
    /\ IF Unchanged(stt.endpoint) /\ stt.endpointId = stt.endpoint.id
       THEN Commit([stt EXCEPT !.endpoint = NoEndpoint, !.endpointId = None,
                       !.acousticPending = FALSE, !.buffered = <<>>, !.failed = TRUE])
       ELSE Commit([stt EXCEPT !.endpoint.state = "over"])
    /\ UNCHANGED <<feed, inbox, queued, input, aggQueue, aggregation, userTurn, userSpeaking>>

-----------------------------------------------------------------------------
(* The user aggregator with ExternalUserTurnStrategies(wait_for_transcript=False) *)

Systems == {i \in 1 .. Len(aggInput) : IsSystem(aggInput[i])}
NextSystem == CHOOSE i \in Systems : \A j \in Systems : i <= j

\* A proposed start begins the user turn and broadcasts an interruption.
AggregatorSystem ==
    /\ Systems # {} /\ aggInput' = RemoveAt(aggInput, NextSystem)
    /\ LET f == aggInput[NextSystem] IN
       /\ aggQueue' = IF Interrupts(f) THEN <<>> ELSE aggQueue
       /\ userTurn' = (userTurn \/ f.kind = "started")
       /\ userSpeaking' = CASE f.kind \in {"started", "vad_started"} -> TRUE
                            [] f.kind = "vad_stopped" -> FALSE
                            [] OTHER -> userSpeaking
    /\ UNCHANGED <<feed, inbox, queued, stt, input, aggregation, failed>>

AggregatorAdmits ==
    /\ Systems = {} /\ aggInput # <<>>
    /\ aggQueue' = Append(aggQueue, Head(aggInput)) /\ aggInput' = Tail(aggInput)
    /\ UNCHANGED <<feed, inbox, queued, stt, input, aggregation, userTurn, userSpeaking, failed>>

\* A final segment is collected; the stop ends the user turn, hands the
\* collected words to the context and lets STT's _close_turn return.
AggregatorProcesses ==
    /\ aggQueue # <<>> /\ aggQueue' = Tail(aggQueue)
    /\ LET f == Head(aggQueue) IN
       IF f.kind = "stopped"
       THEN /\ userTurn' = FALSE /\ userSpeaking' = FALSE
            /\ aggregation' = IF userTurn THEN <<>> ELSE aggregation
            /\ stt' = [stt EXCEPT !.turnOpen = FALSE, !.closing = "none"]
       ELSE /\ aggregation' = IF f.kind = "final" THEN Append(aggregation, f) ELSE aggregation
            /\ UNCHANGED <<userTurn, userSpeaking, stt>>
    /\ UNCHANGED <<feed, inbox, queued, input, aggInput, failed>>

\* The 5 s watchdog of the turn controller.
WatchdogStops ==
    /\ userTurn /\ ~userSpeaking /\ userTurn' = FALSE /\ aggregation' = <<>>
    /\ UNCHANGED <<feed, inbox, queued, stt, input, aggInput, aggQueue, userSpeaking, failed>>

Aggregator == AggregatorSystem \/ AggregatorAdmits \/ AggregatorProcesses
Environment ==
    UserControls \/ ErrorStops \/ ReceiveScore \/ ReceiveTranscription \/ WatchdogStops
Service ==
    \/ HandleControl \/ InputAfterClosing \/ InputAfterCancel \/ AdmitData
    \/ HandleTranscription \/ HandleEndpoint
    \/ FinalizeBegins \/ FinalizeEnds \/ FinalizeFails

Next == Environment \/ Service \/ Aggregator
Spec == Init /\ [][Next]_vars

-----------------------------------------------------------------------------
(* Properties *)

\* _close_turn waits for a callback that only the stop frame runs, and an
\* interruption would drop the frame with its callback: while a turn closes
\* its one stop is always on its way, so neither task of STT waits for ever.
StopAwaited ==
    LET Stops(q) == {i \in 1 .. Len(q) : q[i].kind = "stopped"} IN
    Cardinality(Stops(aggInput)) + Cardinality(Stops(aggQueue))
        = IF stt.closing = "none" THEN 0 ELSE 1

\* "Close the ordered user turn before admitting a system-priority start":
\* when a start or an interruption is about to overtake the aggregator's data
\* frames, none of them is left to be dropped, and a start finds no user turn.
NothingOvertaken ==
    \A i \in 1 .. Len(aggInput) :
        /\ aggInput[i].kind \in {"started", "interruption"} => aggQueue = <<>>
        /\ aggInput[i].kind = "started" => ~userTurn

Closes == stt.closing = "none" /\ stt'.closing = "endpoint"

\* The native finalization is a barrier: when its acknowledgment closes the
\* turn, no word of the same input received before it is still queued.
EndpointIsBarrier ==
    [][Closes => \A e \in ToSet(inbox \o Tail(queued)) :
          e.kind = "transcription" /\ e.epoch = epoch => e.nr > Head(queued).nr]_vars

\* test_queued_old_endpoint_cannot_close_a_new_acoustic_span: a turn is closed
\* only by the finalization of its latest span of speech.
EndpointClosesItsSpan == [][Closes => Head(queued).id = stt.endpoints]_vars

\* test_muted_and_previous_session_audio_cannot_create_user_turns.
NoTurnUnheard == [][stt'.turns > stt.turns => Listening]_vars

\* Once the user is silent an open turn closes, unless speech resumes: Python's
\* tasks run, and the native finalization ends or fails and stops the host.
FairSpec == Spec /\ WF_vars(Service \/ Aggregator \/ ErrorStops)
TurnCloses ==
    stt.turnOpen /\ ~stt.speechActive ~> ~stt.turnOpen \/ stt.speechActive
=============================================================================
