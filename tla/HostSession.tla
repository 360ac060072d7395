---------------------------- MODULE HostSession -----------------------------
(***************************************************************************)
(* The life of a conversation on the host: how start(), toggleMute() and   *)
(* stop() of ConversationModel bring up and take down the audio engine, the *)
(* recognizer and the synthesizer, and what the screen shows meanwhile.    *)
(*                                                                         *)
(* Each call leaves a task behind and does not wait for it.  The tasks     *)
(* wait for each other: a start for the stop before it, a toggle for the   *)
(* toggle before it, a stop for both and for the start it cancels.  All    *)
(* runs on the main actor, so an action is what happens between two awaits. *)
(***************************************************************************)
EXTENDS Naturals

CONSTANTS
    MaxStarts,    \* bound: conversations started
    MaxToggles,   \* bound: presses of the microphone
    MaxStops,     \* bound: stops by the user or the system
    MaxFailures   \* bound: failures of Apple's services, the model or the route

ASSUME HostAssumption ==
    /\ MaxStarts \in Nat \ {0}
    /\ {MaxToggles, MaxStops, MaxFailures} \subseteq Nat

VARIABLES
    phase, active, muted, inputReady,  \* of ConversationModel
    turn,          \* whether there is a currentTurn
    speaking,      \* who the screen shows speaking, a subset of {"user", "bot"}
    session,       \* sessionTask and sessionGeneration, drawn and dropped together
    capture,       \* captureTask and captureGeneration, likewise
    stopTask,
    synthesizer,   \* the start whose synthesizer the model holds
    pc,            \* how far each task has come
    cancelled,     \* tasks that were cancelled
    saw,           \* what each task captured when it was created
    loaded,        \* starts whose synthesizer has its model in memory
    engine,        \* VoiceAudioEngine
    epoch,         \* AppleSpeechRecognizer.epoch: the task that last reset capture
    told,          \* Python's input, by what it was told last: "off", "on", "muted"
    stops, failures

screen == <<phase, active, muted, inputReady, turn, speaking>>
handles == <<session, capture, stopTask, synthesizer>>
tasks == <<pc, cancelled, saw>>
vars == <<screen, handles, tasks, loaded, engine, epoch, told, stops, failures>>

None == <<"none", 0>>
SessionTasks == {"session"} \X (1 .. MaxStarts)
CaptureTasks == {"capture"} \X (1 .. MaxToggles)
\* A failure, and a start that finds the engine in use, stops the conversation too.
StopTasks == {"stop"} \X (1 .. MaxStops + MaxFailures + MaxStarts)
Tasks == SessionTasks \cup CaptureTasks \cup StopTasks

Over(t) == t \in {None} \cup {u \in Tasks : pc[u] = "over"}
NextOf(S) == {t \in S : pc[t] = "none" /\ \A u \in S : u[2] < t[2] => pc[u] /= "none"}
\* What a new task captures.
Link(stop, toggle, start) ==
    [stop |-> stop, toggle |-> toggle, start |-> start, mute |-> muted', synth |-> synthesizer]

Off == [configured |-> FALSE, running |-> FALSE, tap |-> FALSE]
Configured == [Off EXCEPT !.configured = TRUE]
Capturing == [configured |-> TRUE, running |-> TRUE, tap |-> TRUE]

Init ==
    /\ phase = "idle" /\ active = FALSE /\ muted = FALSE /\ inputReady = FALSE
    /\ turn = FALSE /\ speaking = {}
    /\ session = None /\ capture = None /\ stopTask = None /\ synthesizer = None
    /\ pc = [t \in Tasks |-> "none"] /\ cancelled = {}
    /\ saw = [t \in Tasks |-> [stop |-> None, toggle |-> None, start |-> None,
                              mute |-> FALSE, synth |-> None]]
    /\ loaded = {} /\ engine = Off /\ epoch = None
    /\ told = "off" /\ stops = 0 /\ failures = 0

-----------------------------------------------------------------------------
(* stop(), fail() and the task a stop leaves behind *)

\* Stops the current conversation, in a step that leaves the tasks at pcs.
Stop(pcs) ==
    /\ active' = FALSE /\ muted' = FALSE /\ inputReady' = FALSE /\ phase' = "idle"
    /\ \E t \in NextOf(StopTasks) :
           /\ pc' = [pcs EXCEPT ![t] = "waiting"]
           /\ saw' = [saw EXCEPT ![t] = Link(stopTask, capture, session)]
           /\ stopTask' = t
    /\ cancelled' = cancelled \cup {session, capture}
    /\ turn' = FALSE /\ speaking' = {} /\ told' = "off"
    /\ session' = None /\ capture' = None /\ synthesizer' = None

Moves(t, stage) == pc' = [pc EXCEPT ![t] = stage] /\ UNCHANGED <<cancelled, saw>>

\* A task fails: its conversation stops, if it is the current one.
Fail(t) ==
    IF saw[t].start = session THEN Stop([pc EXCEPT ![t] = "over"])
    ELSE Moves(t, "over") /\ UNCHANGED <<screen, handles, told>>

\* resetCapture: whoever began before is overtaken.
ResetCapture(t) == epoch' = t /\ engine' = [engine EXCEPT !.tap = FALSE]

\* speech.stop(), after the stop before and the capture that was under way.
StopSpeech(t) ==
    /\ pc[t] = "waiting" /\ Over(saw[t].stop) /\ Over(saw[t].toggle)
    /\ ResetCapture(t) /\ Moves(t, "closing")
    /\ UNCHANGED <<screen, handles, loaded, told, stops, failures>>

StopAudio(t) ==
    /\ pc[t] = "closing"
    /\ engine' = Off /\ Moves(t, "unloading")
    /\ UNCHANGED <<screen, handles, loaded, epoch, told, stops, failures>>

\* Mutant: the synthesizer is unloaded while it still loads.
UnloadableAtOnce(t) == TRUE
Unloadable(t) == Over(saw[t].start)

Unload(t) ==
    /\ pc[t] = "unloading" /\ Unloadable(t)
    /\ loaded' = loaded \ {saw[t].synth} /\ Moves(t, "over")
    /\ UNCHANGED <<screen, handles, engine, epoch, told, stops, failures>>

-----------------------------------------------------------------------------
(* start() and its task *)

Start ==
    /\ ~active
    /\ active' = TRUE /\ muted' = FALSE /\ inputReady' = FALSE /\ phase' = "preparing"
    /\ \E t \in NextOf(SessionTasks) :
           /\ session' = t /\ pc' = [pc EXCEPT ![t] = "waiting"]
           /\ saw' = [saw EXCEPT ![t] = Link(stopTask, None, t)]
    /\ UNCHANGED <<turn, speaking, capture, stopTask, synthesizer, cancelled, loaded,
                   engine, epoch, told, stops, failures>>

\* Mutants: a start does not wait, or waits for whatever stop is the latest.
NothingBefore(t) == None
LatestStop(t) == stopTask
StopBefore(t) == saw[t].stop

\* configureSession refuses an engine that is in use.
Prepare(t) ==
    /\ pc[t] = "waiting" /\ Over(StopBefore(t))
    /\ IF t \in cancelled
       THEN Moves(t, "over") /\ UNCHANGED <<screen, handles, engine, told>>
       ELSE IF engine.running \/ engine.tap
       THEN Fail(t) /\ UNCHANGED engine
       ELSE /\ engine' = Configured /\ synthesizer' = t /\ Moves(t, "loading")
            /\ UNCHANGED <<screen, session, capture, stopTask, told>>
    /\ UNCHANGED <<loaded, epoch, stops, failures>>

\* The model is in memory, unless a synthesizer notices that it was cancelled.
\* Then Python is told to start, and speech.start() begins.
Prepared(t) ==
    /\ pc[t] = "loading"
    /\ \/ loaded' = loaded \cup {t}
       \/ t \in cancelled /\ UNCHANGED loaded
    /\ IF t \in cancelled
       THEN Moves(t, "over") /\ UNCHANGED <<engine, epoch, told>>
       ELSE Moves(t, "opening") /\ ResetCapture(t) /\ told' = "on"
    /\ UNCHANGED <<screen, handles, stops, failures>>

\* speech.start() gives up when it is cancelled or overtaken.
Overtaken(t) == t \in cancelled \/ epoch /= t

GivesUp(t) ==
    /\ pc[t] = "opening" /\ Overtaken(t) /\ Moves(t, "over")
    /\ UNCHANGED <<screen, handles, loaded, engine, epoch, told, stops, failures>>

Live(t) ==
    /\ pc[t] = "opening" /\ ~Overtaken(t) /\ Moves(t, "over")
    /\ engine' = Capturing /\ inputReady' = TRUE /\ phase' = "listening"
    /\ UNCHANGED <<active, muted, turn, speaking, handles, loaded, epoch, told, stops, failures>>

-----------------------------------------------------------------------------
(* toggleMute() and its task *)

Quiet(mute) == IF mute THEN "muted" ELSE "listening"

\* Mute takes effect in Python at once.
ToggleMute ==
    /\ active /\ phase /= "preparing"
    /\ muted' = ~muted /\ inputReady' = FALSE
    /\ IF muted' THEN told' = "muted" /\ speaking' = speaking \ {"user"}
       ELSE UNCHANGED <<told, speaking>>
    /\ phase' = IF "bot" \notin speaking /\ phase /= "thinking" THEN Quiet(muted') ELSE phase
    /\ \E t \in NextOf(CaptureTasks) :
           /\ capture' = t /\ pc' = [pc EXCEPT ![t] = "waiting"]
           /\ saw' = [saw EXCEPT ![t] = Link(None, capture, session)]
    /\ UNCHANGED <<active, turn, session, stopTask, synthesizer, cancelled, loaded, engine, epoch,
                   stops, failures>>

\* Mutant: a toggle that was pressed again meanwhile goes on.
NewestOfSession(t) == session = saw[t].start
Newest(t) == session = saw[t].start /\ capture = t

\* setMuted begins by resetting the capture, whichever way.
SetMuted(t) ==
    /\ pc[t] = "waiting" /\ Over(saw[t].toggle)
    /\ IF Newest(t) /\ t \notin cancelled
       THEN ResetCapture(t) /\ Moves(t, IF saw[t].mute THEN "muting" ELSE "opening")
       ELSE Moves(t, "over") /\ UNCHANGED <<engine, epoch>>
    /\ UNCHANGED <<screen, handles, loaded, told, stops, failures>>

Muted(t) ==
    /\ pc[t] = "muting" /\ Moves(t, "over")
    /\ UNCHANGED <<screen, handles, loaded, engine, epoch, told, stops, failures>>

\* Unmute waits for the capture, and is told only by the newest toggle.
Unmuted(t) ==
    /\ pc[t] = "opening" /\ ~Overtaken(t) /\ Moves(t, "over")
    /\ engine' = Capturing
    /\ IF Newest(t) THEN inputReady' = TRUE /\ told' = "on" ELSE UNCHANGED <<inputReady, told>>
    /\ UNCHANGED <<phase, active, muted, turn, speaking, handles, loaded, epoch, stops, failures>>

-----------------------------------------------------------------------------
(* The user, the system and Python *)

\* The End button, a new conversation, an interruption by the system.
Stopped ==
    /\ stops < MaxStops /\ stops' = stops + 1
    /\ Stop(pc)
    /\ UNCHANGED <<loaded, engine, epoch, failures>>

\* Audio session, model, permission or recognizer fail a task.
TaskFails(t) ==
    /\ failures < MaxFailures /\ failures' = failures + 1
    /\ pc[t] \in {"loading", "opening"}
    /\ Fail(t)
    /\ UNCHANGED <<loaded, engine, epoch, stops>>

\* A change of the route, an error of the recognizer or of the pipeline.
ConversationFails ==
    /\ active /\ failures < MaxFailures /\ failures' = failures + 1
    /\ Stop(pc)
    /\ UNCHANGED <<loaded, engine, epoch, stops>>

Shows(p, s, t) ==
    /\ phase' = p /\ speaking' = s /\ turn' = t
    /\ UNCHANGED <<active, muted, inputReady, handles, tasks, loaded, engine, epoch, told, stops, failures>>

\* primaryAction while the bot thinks or speaks.
Interrupt == active /\ phase \in {"thinking", "speaking"} /\ Shows(Quiet(muted), {}, FALSE)

\* Python's events for the current turn of a conversation that is live.
Conversing == active /\ phase /= "preparing"
UserTurn == Conversing /\ ~muted /\ Shows("listening", speaking, TRUE)


\* A response ends behind its speech, whose end is reported before.
ResponseEnded ==
    Conversing /\ turn /\ "bot" \notin speaking /\ Shows(Quiet(muted), speaking, turn)

\* Mutant: events of speech before the input restarted are shown.
HearingUnmuted == ~muted
Hearing == ~muted /\ inputReady

UserSpeaks ==
    /\ Conversing /\ Hearing
    /\ \E p \in {phase, "listening"} : Shows(p, speaking \cup {"user"}, turn)
UserSilent ==
    /\ Conversing
    /\ \/ Shows(phase, speaking \ {"user"}, turn)
       \/ turn /\ ~muted /\ phase = "listening" /\ Shows("thinking", speaking \ {"user"}, turn)
Generates == Conversing /\ turn /\ Shows("thinking", speaking, turn)
BotSpeaks == Conversing /\ turn /\ Shows("speaking", speaking \cup {"bot"}, turn)
BotSilent == Conversing /\ Shows(phase, speaking \ {"bot"}, turn)

Surroundings ==
    \/ Start \/ ToggleMute \/ Stopped \/ Interrupt \/ ConversationFails
    \/ UserTurn \/ ResponseEnded \/ UserSpeaks \/ UserSilent \/ Generates \/ BotSpeaks \/ BotSilent
    \/ \E t \in SessionTasks \cup CaptureTasks : TaskFails(t)

Proceed ==
    \/ \E t \in SessionTasks : Prepare(t) \/ Prepared(t) \/ GivesUp(t) \/ Live(t)
    \/ \E t \in CaptureTasks : SetMuted(t) \/ Muted(t) \/ GivesUp(t) \/ Unmuted(t)
    \/ \E t \in StopTasks : StopSpeech(t) \/ StopAudio(t) \/ Unload(t)

Next == Proceed \/ Surroundings
Spec == Init /\ [][Next]_vars

\* Tasks run when what they wait for is over, and Apple's calls return.
FairSpec == Spec /\ WF_vars(Proceed)

-----------------------------------------------------------------------------
(* Properties *)

AtRest == \A t \in Tasks : pc[t] \in {"none", "over"}

\* "awaits teardown before starting another conversation": a start that is wanted
\* finds nothing left of the conversations before it, so configureSession accepts.
FindsNothingLeft ==
    [][\A t \in SessionTasks :
          pc[t] = "waiting" /\ pc'[t] /= "waiting" /\ t \notin cancelled =>
              engine = Off /\ loaded = {}]_vars

\* "ending the session stops both": whatever a stop interrupted, in the end the
\* engine is off and no model is left in memory; and a conversation that goes on
\* captures if and only if the user last asked for it, and Python knows.
SettlesAsAsked ==
    AtRest => IF active
              THEN /\ engine.tap = ~muted /\ inputReady = ~muted /\ engine.running
                   /\ told = IF muted THEN "muted" ELSE "on"
                   /\ loaded = {session} /\ synthesizer = session
              ELSE engine = Off /\ loaded = {} /\ told = "off"

\* Words and scores reach Python only from a capture that runs for the newest
\* toggle, after Python was told: "Unmute must wait for the native input clock".
InputMeansCapture ==
    inputReady => active /\ ~muted /\ engine.tap /\ engine.running /\ told = "on"

\* The screen: idle is stopped, preparing is on its way and has no input, muted is
\* muted, and the user is shown speaking only while heard.
ScreenTellsTruth ==
    /\ phase = "idle" <=> ~active
    /\ phase = "preparing" => ~inputReady /\ pc[session] /= "over"
    /\ phase = "muted" => muted
    /\ "user" \in speaking => inputReady

\* No two tasks wait for each other, whatever is pressed while they wait.
EveryTaskEnds == ~AtRest ~> AtRest
=============================================================================
