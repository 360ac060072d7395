---------------------------- MODULE NativeBridge ----------------------------
(***************************************************************************)
(* The in-process protocol between the embedded Python pipeline            *)
(* (AppleNativeBridge in bridge.py) and the native host (ConversationModel *)
(* in ConversationModel.swift).                                            *)
(*                                                                         *)
(* The two sides run on two threads and share nothing but two FIFO queues: *)
(* the dispatch queue that carries Python's emitted events to the main     *)
(* actor (toNative) and the inbox that Python polls (toPython).  Python    *)
(* opens requests; the native side runs each one as a Swift task.  Both    *)
(* sides keep their own idea of the session, the turn and the mute state,  *)
(* and either may abandon a request at any moment.                         *)
(*                                                                         *)
(* Identifiers drawn with uuid4()/UUID() are fresh naturals; 0 is None.    *)
(***************************************************************************)
EXTENDS Naturals, Sequences, FiniteSets

CONSTANTS
    MaxSessions,       \* bound: conversations the host may start
    MaxTurns,          \* bound: turns Python may begin
    MaxRequests,       \* bound: requests Python may open
    MaxTaps,           \* bound: user operations other than start
    MaxDeltas,         \* bound: inbox length at which deltas stop being produced
    MaxBacklog,        \* bound: queue length at which neither side starts more work
    QueueSize,         \* asyncio.Queue(maxsize=1024) of one request
    MaxTurnSessions,   \* the 64 entries _turn_sessions keeps
    Ops                \* the native operations the pipeline uses

ASSUME BridgeAssumption ==
    /\ MaxSessions \in Nat \ {0}
    /\ MaxTurns \in Nat
    /\ MaxRequests \in Nat
    /\ MaxTaps \in Nat
    /\ MaxDeltas \in Nat
    /\ MaxBacklog \in Nat \ {0}
    /\ QueueSize \in Nat \ {0}
    /\ MaxTurnSessions \in Nat \ {0}
    /\ Ops \subseteq {"generate", "speak", "finalize_asr"}

None == 0
\* The generations drawn at launch and by stop() are never announced to
\* Python, so one value stands for all of them.
Unannounced == MaxSessions + 1
SessionIds == 0 .. MaxSessions + 1
TurnIds == 0 .. MaxTurns
Requests == 1 .. MaxRequests
TurnOps == Ops \ {"finalize_asr"}

VARIABLES
    \* Python: AppleNativeBridge and the pipeline services that use it
    session,        \* bridge.session
    turn,           \* bridge.turn
    active,         \* bridge.active
    muted,          \* bridge.muted
    turns,          \* turns begun so far
    turnSession,    \* the session each turn was begun in (_turn_sessions)
    starting,       \* the session of the start event receive() is awaiting
    requests,       \* requests opened so far
    stream,         \* what stream() and its consumer know of each request
    interrupts,     \* operations whose service has an InterruptionFrame queued
    control,        \* AppleControlFrames queued for the STT service
    suspended,      \* where STT's input task waits: in a control event's
                    \* _reset_input, in resumed "speech", or not at all
    errors,         \* ErrorFrames on their way to on_pipeline_error
    \* The native host: ConversationModel
    stage,          \* idle, preparing, starting (start sent) or live
    sessionGeneration,
    generations,    \* conversations started so far
    hostMuted,      \* muted
    unmuting,       \* a capture task will send "unmute"
    currentTurn,
    task,           \* the Swift task of each request
    taps,
    \* The two channels
    toNative, toPython

pyVars == <<session, turn, active, muted, turns, turnSession, starting,
            requests, stream, interrupts, control, suspended, errors>>
lifeVars == <<stage, sessionGeneration, generations, hostMuted, unmuting, taps>>
hostVars == <<lifeVars, currentTurn, task>>
vars == <<pyVars, hostVars, toNative, toPython>>

-----------------------------------------------------------------------------
(* Values *)

StreamStates == {"unused", "waiting", "abandoned", "done", "failed", "cancelled"}
TaskStates == {"none", "queued", "running", "cancelled", "finished", "over"}
ControlKinds == {"start", "stop", "reset", "mute", "unmute", "interrupt"}
ResultKinds == {"delta", "done", "error", "refused"}

Result(kind, r) == [kind |-> kind, request |-> r, session |-> None]
Control(kind, s) == [kind |-> kind, request |-> None, session |-> s]
ResultEvents == [kind : ResultKinds, request : Requests, session : {None}]
ControlEvents == [kind : ControlKinds, request : {None}, session : SessionIds]
HostEvents == ResultEvents \cup ControlEvents

\* An emitted event.  cause tells errors apart: what the code knows of an
\* error is only its text; the properties need to know where it came from.
Causes == {"none", "native", "refused", "timeout", "untagged"}
Event(kind, r, t, s, cause) ==
    [kind |-> kind, request |-> r, turn |-> t, session |-> s, cause |-> cause]
Events ==
    [kind : {"request", "cancel_request"}, request : Requests, turn : TurnIds,
     session : SessionIds, cause : {"none"}]
    \cup [kind : {"user_turn"}, request : {None}, turn : TurnIds \ {None},
          session : SessionIds \ {None}, cause : {"none"}]
    \cup [kind : {"cancel_turn", "error"}, request : {None}, turn : TurnIds,
          session : SessionIds, cause : Causes]

\* fresh: no lifecycle event has bumped input_epoch since the request opened.
Streams ==
    [state : StreamStates, op : Ops \cup {"none"}, turn : TurnIds,
     session : SessionIds, fresh : BOOLEAN, queue : Seq(ResultKinds)]
NoStream ==
    [state |-> "unused", op |-> "none", turn |-> None, session |-> None,
     fresh |-> FALSE, queue |-> <<>>]

ErrorFrames == [turn : TurnIds, session : SessionIds, cause : Causes]

\* The bounded steps wait while events pile up on the way to the host.
Calm == Len(toNative) < MaxBacklog

hostActive == stage # "idle"
Waiting(r) == stream[r].state = "waiting"
Pending(r) == stream[r].state \in {"waiting", "abandoned"}
Live(r) == task[r] \in {"queued", "running"}

\* _turn_sessions.get(turn, self.session): the oldest entries were dropped.
SessionOf(t) ==
    IF t # None /\ t + MaxTurnSessions > turns THEN turnSession[t] ELSE session

Init ==
    /\ session = None /\ turn = None /\ active = FALSE /\ muted = FALSE
    /\ turns = 0 /\ turnSession = [t \in 1 .. MaxTurns |-> None]
    /\ starting = None
    /\ requests = 0 /\ stream = [r \in Requests |-> NoStream]
    /\ interrupts = {} /\ control = <<>> /\ suspended = "none"
    /\ errors = {}
    /\ stage = "idle" /\ sessionGeneration = Unannounced /\ generations = 0
    /\ hostMuted = FALSE /\ unmuting = FALSE /\ currentTurn = None
    /\ task = [r \in Requests |-> "none"] /\ taps = 0
    /\ toNative = <<>> /\ toPython = <<>>

-----------------------------------------------------------------------------
(* Native host: ConversationModel.  Everything runs on the main actor, so  *)
(* one action runs from one suspension point to the next.                  *)

Send(events) == toPython' = toPython \o events

CancelTasks(ids) ==
    [r \in Requests |-> IF r \in ids /\ Live(r) THEN "cancelled" ELSE task[r]]

\* stop(): announces the stop, forgets the session and cancels everything.
StopHost(extra) ==
    /\ Send(<<Control("stop", sessionGeneration)>> \o extra)
    /\ stage' = "idle" /\ sessionGeneration' = Unannounced
    /\ hostMuted' = FALSE /\ unmuting' = FALSE
    /\ currentTurn' = None /\ task' = CancelTasks(Requests)
    /\ UNCHANGED generations

Tap == taps < MaxTaps /\ taps' = taps + 1 /\ Len(toPython) < MaxBacklog

Start ==
    /\ ~hostActive /\ generations < MaxSessions /\ Len(toPython) <= MaxBacklog
    /\ generations' = generations + 1 /\ sessionGeneration' = generations + 1
    /\ stage' = "preparing" /\ hostMuted' = FALSE
    /\ UNCHANGED <<pyVars, unmuting, taps, currentTurn, task, toNative, toPython>>

\* The session task: prepare the synthesizer, announce the session, then
\* wait for capture to start.
Prepared ==
    /\ stage = "preparing" /\ stage' = "starting"
    /\ Send(<<Control("start", sessionGeneration)>>)
    /\ UNCHANGED <<pyVars, sessionGeneration, generations, hostMuted, unmuting,
                   taps, currentTurn, task, toNative>>

CaptureStarted ==
    /\ stage = "starting" /\ stage' = "live"
    /\ UNCHANGED <<pyVars, sessionGeneration, generations, hostMuted, unmuting,
                   taps, currentTurn, task, toNative, toPython>>

\* Preparation, capture, recognition or the audio route fails.
AudioFails ==
    /\ hostActive /\ StopHost(<<>>)
    /\ UNCHANGED <<pyVars, taps, toNative>>

Stop == Tap /\ StopHost(<<>>) /\ UNCHANGED <<pyVars, toNative>>

ClearConversation ==
    Tap /\ StopHost(<<Control("reset", None)>>) /\ UNCHANGED <<pyVars, toNative>>

\* Mutant: interrupt() forgets the turn and lets its requests run on.
InterruptKeepsTasks ==
    /\ Tap /\ stage = "live" /\ currentTurn' = None
    /\ Send(<<Control("interrupt", sessionGeneration)>>)
    /\ UNCHANGED <<pyVars, stage, sessionGeneration, generations, hostMuted,
                   unmuting, task, toNative>>

\* interrupt(), from primaryAction while a reply is thinking or speaking.
Interrupt ==
    /\ Tap /\ stage = "live"
    /\ task' = CancelTasks(Requests) /\ currentTurn' = None
    /\ Send(<<Control("interrupt", sessionGeneration)>>)
    /\ UNCHANGED <<pyVars, stage, sessionGeneration, generations, hostMuted,
                   unmuting, toNative>>

\* Mutant: muting, too, is left to the capture task.
ToggleMuteLater ==
    /\ Tap /\ stage = "live"
    /\ hostMuted' = ~hostMuted /\ unmuting' = hostMuted
    /\ UNCHANGED <<pyVars, stage, sessionGeneration, generations, currentTurn,
                   task, toNative, toPython>>

\* Muting is announced at once; unmuting only after capture restarted.
ToggleMute ==
    /\ Tap /\ stage = "live"
    /\ hostMuted' = ~hostMuted /\ unmuting' = hostMuted
    /\ Send(IF hostMuted THEN <<>> ELSE <<Control("mute", sessionGeneration)>>)
    /\ UNCHANGED <<pyVars, stage, sessionGeneration, generations, currentTurn,
                   task, toNative>>

CaptureResumed ==
    /\ unmuting /\ unmuting' = FALSE
    /\ Send(<<Control("unmute", sessionGeneration)>>)
    /\ UNCHANGED <<pyVars, stage, sessionGeneration, generations, hostMuted, taps,
                   currentTurn, task, toNative>>

User == \/ Start \/ Stop \/ ClearConversation \/ Interrupt \/ ToggleMute
Session == \/ Prepared \/ CaptureStarted \/ AudioFails \/ CaptureResumed

-----------------------------------------------------------------------------
(* handle(): one emitted event at a time.                                  *)

Handling(kind) == toNative # <<>> /\ Head(toNative).kind = kind
Handled == toNative' = Tail(toNative)

\* Everything but a request is dropped when it names another session.
Foreign(e) == e.session # None /\ e.session # sessionGeneration

HandleUserTurn ==
    /\ Handling("user_turn") /\ Handled
    /\ LET e == Head(toNative) IN
       IF hostActive /\ ~hostMuted /\ e.session = sessionGeneration
       THEN currentTurn' = e.turn /\ task' = CancelTasks(Requests)
       ELSE UNCHANGED <<currentTurn, task>>
    /\ UNCHANGED <<pyVars, lifeVars, toPython>>

HandleCancelRequest ==
    /\ Handling("cancel_request") /\ Handled
    /\ LET e == Head(toNative) IN
       task' = IF Foreign(e) THEN task ELSE CancelTasks({e.request})
    /\ UNCHANGED <<pyVars, lifeVars, currentTurn, toPython>>

HandleCancelTurn ==
    /\ Handling("cancel_turn") /\ Handled
    /\ LET e == Head(toNative) IN
       task' = IF ~Foreign(e) /\ e.turn # None /\ e.turn = currentTurn
               THEN CancelTasks(Requests) ELSE task
    /\ UNCHANGED <<pyVars, lifeVars, currentTurn, toPython>>

\* An error of this session stops the conversation unless it names a turn
\* that is no longer current.
Fatal(e) == ~Foreign(e) /\ (e.turn = None \/ e.turn = currentTurn)

HandleError ==
    /\ Handling("error") /\ Handled
    /\ IF Fatal(Head(toNative)) THEN StopHost(<<>>)
       ELSE UNCHANGED <<stage, sessionGeneration, generations, hostMuted, unmuting,
                        currentTurn, task, toPython>>
    /\ UNCHANGED <<pyVars, taps>>

\* Mutant: a request of a turn that is over is dropped without an answer.
HandleRequestSilently ==
    /\ Handling("request") /\ Handled
    /\ LET e == Head(toNative)
           validTurn == \/ stream[e.request].op = "finalize_asr"
                        \/ (e.turn # None /\ e.turn = currentTurn)
       IN task' = IF hostActive /\ validTurn /\ e.session = sessionGeneration
                  THEN [task EXCEPT ![e.request] = "queued"] ELSE task
    /\ UNCHANGED <<pyVars, lifeVars, currentTurn, toPython>>

HandleRequest ==
    /\ Handling("request") /\ Handled
    /\ LET e == Head(toNative)
           validTurn == \/ stream[e.request].op = "finalize_asr"
                        \/ (e.turn # None /\ e.turn = currentTurn)
       IN IF hostActive /\ validTurn /\ e.session = sessionGeneration
          THEN task' = [task EXCEPT ![e.request] = "queued"] /\ UNCHANGED toPython
          ELSE Send(<<Result("refused", e.request)>>) /\ UNCHANGED task
    /\ UNCHANGED <<pyVars, lifeVars, currentTurn>>

Handle ==
    \/ HandleUserTurn \/ HandleCancelRequest \/ HandleCancelTurn
    \/ HandleError \/ HandleRequest

-----------------------------------------------------------------------------
(* perform(): the Swift task of a request.                                 *)

IsFinalization(r) == stream[r].op = "finalize_asr"

\* The guard the task repeats at every resumption.
Current(r) ==
    /\ hostActive /\ sessionGeneration = stream[r].session
    /\ IsFinalization(r) \/ (stream[r].turn # None /\ currentTurn = stream[r].turn)

TaskBegins(r) ==
    /\ task[r] = "queued"
    /\ task' = [task EXCEPT ![r] =
                   IF Current(r) /\ ~(IsFinalization(r) /\ hostMuted)
                   THEN "running" ELSE "over"]
    /\ UNCHANGED <<pyVars, lifeVars, currentTurn, toNative, toPython>>

TaskStreams(r) ==
    /\ task[r] = "running" /\ stream[r].op = "generate" /\ Current(r)
    /\ Len(toPython) < MaxDeltas /\ Calm
    /\ Send(<<Result("delta", r)>>)
    /\ UNCHANGED <<pyVars, hostVars, toNative>>

\* Mutant: no Task.checkCancellation() after the operation.
TaskFinishesUnchecked(r) ==
    /\ task[r] \in {"running", "cancelled"}
    /\ IF Current(r)
       THEN task' = [task EXCEPT ![r] = "finished"] /\ Send(<<Result("done", r)>>)
       ELSE task' = [task EXCEPT ![r] = "over"] /\ UNCHANGED toPython
    /\ UNCHANGED <<pyVars, lifeVars, currentTurn, toNative>>

TaskFinishes(r) ==
    /\ task[r] = "running"
    /\ IF Current(r)
       THEN task' = [task EXCEPT ![r] = "finished"] /\ Send(<<Result("done", r)>>)
       ELSE task' = [task EXCEPT ![r] = "over"] /\ UNCHANGED toPython
    /\ UNCHANGED <<pyVars, lifeVars, currentTurn, toNative>>

\* An error other than CancellationError is reported even by a task that was
\* cancelled in the meantime, as long as its turn is still current.
TaskThrows(r) ==
    /\ task[r] \in {"running", "cancelled"}
    /\ task' = [task EXCEPT ![r] = "over"]
    /\ Send(IF Current(r) THEN <<Result("error", r)>> ELSE <<>>)
    /\ UNCHANGED <<pyVars, lifeVars, currentTurn, toNative>>

TaskUnwinds(r) ==
    /\ task[r] = "cancelled" /\ task' = [task EXCEPT ![r] = "over"]
    /\ UNCHANGED <<pyVars, lifeVars, currentTurn, toNative, toPython>>

Perform ==
    \E r \in Requests : TaskBegins(r) \/ TaskStreams(r) \/ TaskFinishes(r)
                        \/ TaskThrows(r) \/ TaskUnwinds(r)

-----------------------------------------------------------------------------
(* Python: receive().  One inbox event at a time; only "start" suspends.   *)

Emit(events) == toNative' = toNative \o events
Received == toPython # <<>> /\ starting = None
Consumed == toPython' = Tail(toPython)

\* mobile_app/__init__.py reports what receive() raises with no session.
Untagged == Event("error", None, None, None, "untagged")

\* Mutant: a result that finds its queue full is lost.
ReceiveResultLossy ==
    /\ Received /\ Consumed
    /\ LET e == Head(toPython) IN
       /\ e.kind \in ResultKinds
       /\ stream' = IF Pending(e.request) /\ Len(stream[e.request].queue) < QueueSize
                    THEN [stream EXCEPT ![e.request].queue = Append(@, e.kind)]
                    ELSE stream
    /\ UNCHANGED <<session, turn, active, muted, turns, turnSession, starting,
                   requests, interrupts, control, suspended, errors, hostVars, toNative>>

ReceiveResult ==
    /\ Received /\ Consumed
    /\ LET e == Head(toPython) IN
       /\ e.kind \in ResultKinds
       /\ IF Pending(e.request)
          THEN IF Len(stream[e.request].queue) < QueueSize
               THEN /\ stream' = [stream EXCEPT ![e.request].queue = Append(@, e.kind)]
                    /\ UNCHANGED toNative
               ELSE Emit(<<Untagged>>) /\ UNCHANGED stream
          ELSE UNCHANGED <<stream, toNative>>
    /\ UNCHANGED <<session, turn, active, muted, turns, turnSession, starting,
                   requests, interrupts, control, suspended, errors, hostVars>>

\* "start" first interrupts the selected speech service and waits for it.
ReceiveStart ==
    /\ Received /\ Head(toPython).kind = "start" /\ Consumed
    /\ starting' = Head(toPython).session
    /\ active' = FALSE
    /\ interrupts' = interrupts \cup ({"speak"} \cap Ops)
    /\ UNCHANGED <<session, turn, muted, turns, turnSession, requests, stream,
                   control, suspended, errors, hostVars, toNative>>

\* Every lifecycle event bumps input_epoch.
Stale == [r \in Requests |-> [stream[r] EXCEPT !.fresh = FALSE]]

SessionStarted ==
    /\ starting # None /\ "speak" \notin interrupts
    /\ session' = starting /\ turn' = None /\ muted' = FALSE /\ active' = TRUE
    /\ starting' = None /\ stream' = Stale
    /\ control' = Append(control, Control("start", starting))
    /\ UNCHANGED <<turns, turnSession, requests, interrupts, suspended, errors,
                   hostVars, toNative, toPython>>

\* The speech service does not answer in time or cannot be selected.
StartRaises ==
    /\ starting # None /\ starting' = None /\ Emit(<<Untagged>>)
    /\ UNCHANGED <<session, turn, active, muted, turns, turnSession, requests, stream,
                   interrupts, control, suspended, errors, hostVars, toPython>>

ReceiveControl ==
    /\ Received /\ Consumed
    /\ LET e == Head(toPython) IN
       /\ e.kind \in ControlKinds \ {"start"}
       /\ IF e.session # None /\ e.session # session
          THEN UNCHANGED <<active, muted, stream, control>>
          ELSE /\ active' = (active /\ e.kind # "stop")
               /\ muted' = IF e.kind \in {"mute", "unmute"} THEN e.kind = "mute" ELSE muted
               /\ stream' = Stale
               /\ control' = Append(control, e)
    /\ UNCHANGED <<session, turn, turns, turnSession, starting, requests, interrupts,
                   suspended, errors, hostVars, toNative>>

Receive ==
    \/ ReceiveResult \/ ReceiveStart \/ SessionStarted \/ StartRaises \/ ReceiveControl

-----------------------------------------------------------------------------
(* Python: the STT service's input task handles one control frame at a     *)
(* time; _reset_input suspends, so its interruption is a step of its own.  *)

CancelRequest(r) ==
    Event("cancel_request", r, stream[r].turn, stream[r].session, "none")

\* stream() leaves through its finally clause; the queue goes with it.
Closed(r, state) ==
    [stream[r] EXCEPT !.state = state, !.queue = <<>>, !.fresh = FALSE]
Cancelled(ids) ==
    [r \in Requests |-> IF r \in ids THEN Closed(r, "cancelled") ELSE stream[r]]
Abandoned(ids) ==
    [r \in Requests |-> IF r \in ids THEN [stream[r] EXCEPT !.state = "abandoned"] ELSE stream[r]]

Finalizing == {r \in Requests : Waiting(r) /\ IsFinalization(r)}

\* At most one request of an operation waits, so this is at most one event.
CancelEvents(ids) ==
    IF ids = {} THEN <<>> ELSE <<CancelRequest(CHOOSE r \in ids : TRUE)>>

ResetInput ==
    /\ control # <<>> /\ suspended = "none" /\ control' = Tail(control)
    /\ LET e == Head(control) IN
       IF e.session # None /\ e.session # session
       THEN UNCHANGED <<stream, suspended, toNative>>
       ELSE /\ stream' = Cancelled(Finalizing)
            /\ Emit(CancelEvents(Finalizing))
            /\ suspended' = e.kind
    /\ UNCHANGED <<session, turn, active, muted, turns, turnSession, starting,
                   requests, interrupts, errors, hostVars, toPython>>

ControlProcessed ==
    /\ suspended # "none" /\ suspended' = "none"
    /\ IF suspended \in {"start", "stop", "reset", "interrupt"}
       THEN /\ interrupts' = interrupts \cup TurnOps
            /\ Emit(<<Event("cancel_turn", None, turn, session, "none")>>)
            /\ turn' = None
       ELSE UNCHANGED <<interrupts, turn, toNative>>
    /\ UNCHANGED <<session, active, muted, turns, turnSession, starting, requests,
                   stream, control, errors, hostVars, toPython>>

\* No control frame is left ahead of the speech events STT handles.  Once it
\* cancelled a finalization, resumed speech goes on without looking again.
InputOpen == active /\ ~muted /\ control = <<>> /\ suspended = "none"
SpeechGoesOn == InputOpen \/ suspended = "speech"

\* Mutant: the turn is announced while its finalization still runs.
BeginTurnEarly ==
    /\ SpeechGoesOn /\ turns < MaxTurns /\ Calm
    /\ turns' = turns + 1 /\ turn' = turns + 1
    /\ turnSession' = [turnSession EXCEPT ![turns + 1] = session]
    /\ interrupts' = interrupts \cup TurnOps
    /\ Emit(<<Event("user_turn", None, turns + 1, session, "none")>>)
    /\ UNCHANGED <<session, active, muted, starting, requests, stream, control,
                   suspended, errors, hostVars, toPython>>

\* _confirm_turn: no finalization is outstanding when a turn is announced.
BeginTurn ==
    /\ SpeechGoesOn /\ Finalizing = {} /\ turns < MaxTurns /\ Calm
    /\ turns' = turns + 1 /\ turn' = turns + 1
    /\ turnSession' = [turnSession EXCEPT ![turns + 1] = session]
    /\ interrupts' = interrupts \cup TurnOps
    /\ Emit(<<Event("user_turn", None, turns + 1, session, "none")>>)
    /\ UNCHANGED <<session, active, muted, starting, requests, stream, control,
                   suspended, errors, hostVars, toPython>>

\* Mutant: a cancelled finalization leaves without telling the native side.
SpeechResumesSilently ==
    /\ InputOpen /\ Finalizing # {}
    /\ stream' = Cancelled(Finalizing)
    /\ suspended' = "speech"
    /\ UNCHANGED <<session, turn, active, muted, turns, turnSession, starting, requests,
                   interrupts, control, errors, hostVars, toNative, toPython>>

\* _begin_speech: resumed speech cancels the finalization task and waits for it.
SpeechResumes ==
    /\ InputOpen /\ Finalizing # {}
    /\ stream' = Cancelled(Finalizing)
    /\ Emit(CancelEvents(Finalizing))
    /\ suspended' = "speech"
    /\ UNCHANGED <<session, turn, active, muted, turns, turnSession, starting, requests,
                   interrupts, control, errors, hostVars, toPython>>

Speech == \/ ResetInput \/ ControlProcessed \/ BeginTurn \/ SpeechResumes

-----------------------------------------------------------------------------
(* Python: stream() and the service that consumes it.                      *)

\* Each service processes one frame at a time, hence one request at a time,
\* and meets the interruption that precedes a new turn before its text.
OpenRequest(op) ==
    /\ requests < MaxRequests /\ Calm
    /\ \A r \in Requests : ~(Waiting(r) /\ stream[r].op = op)
    /\ IF op = "finalize_asr" THEN SpeechGoesOn
       ELSE active /\ turn # None /\ op \notin interrupts
    /\ requests' = requests + 1
    /\ stream' = [stream EXCEPT ![requests + 1] =
           [state |-> "waiting", op |-> op, turn |-> turn, session |-> SessionOf(turn),
            fresh |-> TRUE, queue |-> <<>>]]
    /\ Emit(<<Event("request", requests + 1, turn, SessionOf(turn), "none")>>)
    /\ UNCHANGED <<session, turn, active, muted, turns, turnSession, starting,
                   interrupts, control, suspended, errors, hostVars, toPython>>

\* The consumer reports the exception unless its turn, or for a finalization
\* its session and epoch, is no longer current.
Reports(r) ==
    IF IsFinalization(r) THEN session = stream[r].session /\ stream[r].fresh
    ELSE turn = stream[r].turn /\ active

Raise(r, cause) ==
    /\ stream' = [stream EXCEPT ![r] = Closed(r, "failed")]
    /\ Emit(<<CancelRequest(r)>>)
    /\ errors' = IF Reports(r)
                 THEN errors \cup {[turn |-> stream[r].turn, cause |-> cause,
                                    session |-> SessionOf(stream[r].turn)]}
                 ELSE errors

Consume(r) ==
    /\ Waiting(r) /\ stream[r].queue # <<>>
    /\ LET kind == Head(stream[r].queue) IN
       CASE kind = "delta" ->
              /\ stream' = [stream EXCEPT ![r] = [stream[r] EXCEPT
                     !.queue = Tail(stream[r].queue),
                     !.state = IF turn = stream[r].turn /\ active
                               THEN "waiting" ELSE "abandoned"]]
              /\ UNCHANGED <<toNative, errors>>
         [] kind = "done" ->
              /\ stream' = [stream EXCEPT ![r] = Closed(r, "done")]
              /\ UNCHANGED <<toNative, errors>>
         [] kind = "error" -> Raise(r, "native")
         [] kind = "refused" -> Raise(r, "refused")
    /\ UNCHANGED <<session, turn, active, muted, turns, turnSession, starting, requests,
                   interrupts, control, suspended, hostVars, toPython>>

TimeOut(r) ==
    /\ Waiting(r) /\ stream[r].queue = <<>> /\ Calm
    /\ Raise(r, "timeout")
    /\ UNCHANGED <<session, turn, active, muted, turns, turnSession, starting, requests,
                   interrupts, control, suspended, hostVars, toPython>>

\* An InterruptionFrame reaches the service and cancels what it was doing.
\* Cancelled between two results, the generator is closed only later.
Interrupted(op) ==
    /\ op \in interrupts /\ interrupts' = interrupts \ {op}
    /\ LET ids == {r \in Requests : Waiting(r) /\ stream[r].op = op} IN
       \/ stream' = Cancelled(ids) /\ Emit(CancelEvents(ids))
       \/ /\ op = "generate" /\ ids # {}
          /\ stream' = Abandoned(ids) /\ UNCHANGED toNative
    /\ UNCHANGED <<session, turn, active, muted, turns, turnSession, starting, requests,
                   control, suspended, errors, hostVars, toPython>>

CloseAbandoned(r) ==
    /\ stream[r].state = "abandoned"
    /\ stream' = Cancelled({r}) /\ Emit(<<CancelRequest(r)>>)
    /\ UNCHANGED <<session, turn, active, muted, turns, turnSession, starting, requests,
                   interrupts, control, suspended, errors, hostVars, toPython>>

\* failed(): the handler of on_pipeline_error.
PipelineError(e) ==
    /\ e \in errors /\ errors' = errors \ {e}
    /\ IF e.session # session \/ (e.turn # None /\ e.turn # turn)
       THEN UNCHANGED toNative
       ELSE Emit(<<Event("error", None, e.turn, e.session, e.cause)>>)
    /\ UNCHANGED <<session, turn, active, muted, turns, turnSession, starting, requests,
                   stream, interrupts, control, suspended, hostVars, toPython>>

Service ==
    \/ \E op \in Ops : OpenRequest(op) \/ Interrupted(op)
    \/ \E r \in Requests : Consume(r) \/ TimeOut(r) \/ CloseAbandoned(r)
    \/ \E e \in errors : PipelineError(e)

Next == User \/ Session \/ Handle \/ Perform \/ Receive \/ Speech \/ Service

Spec == Init /\ [][Next]_vars

-----------------------------------------------------------------------------
(* Properties *)

PyTypeOK ==
    /\ session \in SessionIds /\ turn \in TurnIds
    /\ active \in BOOLEAN /\ muted \in BOOLEAN
    /\ turns \in TurnIds /\ turnSession \in [1 .. MaxTurns -> SessionIds]
    /\ starting \in SessionIds
    /\ requests \in 0 .. MaxRequests /\ stream \in [Requests -> Streams]
    /\ interrupts \subseteq Ops /\ control \in Seq(ControlEvents)
    /\ suspended \in ControlKinds \cup {"speech", "none"}
    /\ errors \subseteq ErrorFrames

HostTypeOK ==
    /\ stage \in {"idle", "preparing", "starting", "live"}
    /\ sessionGeneration \in SessionIds \ {None} /\ generations \in 0 .. MaxSessions
    /\ hostMuted \in BOOLEAN /\ unmuting \in BOOLEAN /\ currentTurn \in TurnIds
    /\ task \in [Requests -> TaskStates] /\ taps \in 0 .. MaxTaps

ChannelTypeOK == toNative \in Seq(Events) /\ toPython \in Seq(HostEvents)

\* Every variable has its type; in particular every event names the request,
\* the turn and the session that its kind needs.
TypeOK == PyTypeOK /\ HostTypeOK /\ ChannelTypeOK

\* The turn fence: whatever the order of interrupts, new turns, stops and
\* late requests, no uncancelled task works for a session or a turn that is
\* not the current one (cancelRequests is called on every path that changes
\* them).
TurnFence == \A r \in Requests : Live(r) => Current(r)

\* Why TurnFence and the contract hold, as an inductive invariant: requests are
\* numbered in order; a request event is queued at most once, before any work,
\* and names the turn and session its stream was opened with; a "done" on its
\* way to the consumer was sent by work that ran to its end.
NumberedInOrder ==
    \A r \in Requests :
        /\ r > requests <=> stream[r].state = "unused"
        /\ r > requests => task[r] = "none"
AnnouncedOnce ==
    /\ \A i \in 1 .. Len(toNative) : toNative[i].kind = "request" =>
          LET e == toNative[i] IN
          /\ e.request <= requests /\ task[e.request] = "none"
          /\ e.turn = stream[e.request].turn /\ e.session = stream[e.request].session
    /\ \A i, j \in 1 .. Len(toNative) :
          toNative[i].kind = "request" /\ toNative[j].kind = "request" /\ i # j
             => toNative[i].request # toNative[j].request
DoneSent ==
    \A i \in 1 .. Len(toPython) :
        toPython[i].kind = "done" => task[toPython[i].request] = "finished"
DoneQueued ==
    \A r \in Requests : \A i \in 1 .. Len(stream[r].queue) :
        stream[r].queue[i] = "done" => task[r] = "finished"
DoneWasFinished == DoneSent /\ DoneQueued
BridgeInv == NumberedInOrder /\ AnnouncedOnce /\ DoneWasFinished /\ TurnFence

\* "Starting now cannot cancel the request that supplied these words": the
\* new turn's cancelRequests never hits a finalization Python waits for.
ConfirmationKeepsFinalization ==
    [][HandleUserTurn =>
         \A r \in Requests :
            Waiting(r) /\ IsFinalization(r) => task'[r] = task[r]]_vars

\* Once every queue has drained, both sides agree on whether a conversation
\* is running, on its session and on mute.
Drained ==
    /\ toNative = <<>> /\ toPython = <<>> /\ control = <<>> /\ suspended = "none"
    /\ starting = None /\ interrupts = {} /\ errors = {}
    /\ \A r \in Requests : stream[r].queue = <<>>
Agreement ==
    Drained /\ stage \in {"idle", "live"} /\ ~unmuting =>
        /\ active = hostActive
        /\ hostActive => session = sessionGeneration /\ muted = hostMuted


\* Every exit from stream() reaches the native side: once the queues have
\* drained, no task works for a request Python no longer waits for.
NoOrphanWork == Drained => \A r \in Requests : Live(r) => Pending(r)

\* ... and nothing Python still waits for was silently dropped: cancelled Swift
\* tasks send no result, so whoever cancels one must also tell Python.
NoForgottenRequest == Drained => \A r \in Requests : Waiting(r) => Live(r)

\* What each side has made of a request, as the contract sees it.
StatusOf(state) ==
    CASE state = "unused" -> "unused"
      [] state = "waiting" -> "open"
      [] state = "done" -> "done"
      [] state \in {"abandoned", "failed", "cancelled"} -> "dropped"
WorkOf(state) ==
    CASE state = "none" -> "none"
      [] state \in {"queued", "running"} -> "working"
      [] state = "finished" -> "finished"
      [] state \in {"cancelled", "over"} -> "revoked"

RequestStatus == [r \in Requests |-> StatusOf(stream[r].state)]
RequestWork == [r \in Requests |-> WorkOf(task[r])]

Contract == INSTANCE RequestContract WITH status <- RequestStatus, work <- RequestWork

\* The two sides together implement the contract: a request is worked on at
\* most once and done only by work that was never cancelled, whichever of
\* cancellation, answer, timeout and interruption comes first.
ImplementsContract == Contract!Spec

\* test_old_native_errors_cannot_fail_a_new_turn_or_session: a failure of an
\* earlier session does not stop the one both sides are in.  The error of a
\* start that raised carries no session.
OldErrorsSpareNewSession ==
    Handling("error") /\ Head(toNative).cause = "untagged" /\ Fatal(Head(toNative))
       => ~(active /\ session = sessionGeneration)

\* No answer is ever needed from the 90 s timeout: while nothing but the
\* timeout is unfair, every request Python waits for comes to an end.
Fairness ==
    /\ WF_vars(Handle) /\ WF_vars(Receive)
    /\ WF_vars(ResetInput) /\ WF_vars(ControlProcessed)
    /\ \A op \in Ops : WF_vars(Interrupted(op))
    /\ \A r \in Requests :
          /\ WF_vars(Consume(r)) /\ WF_vars(CloseAbandoned(r))
          /\ WF_vars(TaskBegins(r) \/ TaskFinishes(r) \/ TaskThrows(r) \/ TaskUnwinds(r))
    /\ WF_vars(\E e \in errors : PipelineError(e))
FairSpec == Spec /\ Fairness
EveryRequestEnds == \A r \in Requests : Waiting(r) ~> ~Waiting(r)
=============================================================================
