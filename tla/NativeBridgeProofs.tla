------------------------- MODULE NativeBridgeProofs -------------------------
(* Theorems about NativeBridge, for every value of its constants: its invariants, and
   that it implements RequestContract.  The end of the module is about the bridge's
   context (ConversationContext): how it is bounded, for every limit and every history. *)
EXTENDS NativeBridge, ConversationContext, SequenceTheorems, FiniteSetTheorems,
        WellFoundedInduction, TLAPS

-----------------------------------------------------------------------------
(* What the helpers build is well typed. *)

LEMMA ControlType ==
    ASSUME NEW kind \in ControlKinds, NEW s \in SessionIds
    PROVE  Control(kind, s) \in ControlEvents
BY DEF Control, ControlEvents

LEMMA ResultType ==
    ASSUME NEW kind \in ResultKinds, NEW r \in Requests
    PROVE  Result(kind, r) \in ResultEvents
BY DEF Result, ResultEvents

LEMMA SendType ==
    ASSUME toPython \in Seq(HostEvents), NEW events \in Seq(HostEvents), Send(events)
    PROVE  toPython' \in Seq(HostEvents)
BY ConcatProperties DEF Send

LEMMA EmitType ==
    ASSUME toNative \in Seq(Events), NEW events \in Seq(Events), Emit(events)
    PROVE  toNative' \in Seq(Events)
BY ConcatProperties DEF Emit

LEMMA CancelTasksType ==
    ASSUME HostTypeOK, NEW ids
    PROVE  CancelTasks(ids) \in [Requests -> TaskStates]
BY DEF CancelTasks, HostTypeOK, TaskStates

LEMMA PyUnchanged ==
    ASSUME PyTypeOK, active \/ suspended = "speech" => session # None, UNCHANGED pyVars
    PROVE  PyTypeOK' /\ (active \/ suspended = "speech" => session # None)'
BY DEF PyTypeOK, pyVars

LEMMA HostUnchanged ==
    ASSUME HostTypeOK, UNCHANGED hostVars
    PROVE  HostTypeOK'
BY DEF HostTypeOK, hostVars, lifeVars

LEMMA StopHostType ==
    ASSUME TypeOK, NEW extra \in Seq(HostEvents), StopHost(extra), taps' \in 0 .. MaxTaps
    PROVE  HostTypeOK' /\ toPython' \in Seq(HostEvents)
<1>1. <<Control("stop", sessionGeneration)>> \o extra \in Seq(HostEvents)
  <2>1. <<Control("stop", sessionGeneration)>> \in Seq(HostEvents)
    BY ControlType DEF TypeOK, HostTypeOK, HostEvents, ControlKinds
  <2>. QED  BY <2>1, ConcatProperties
<1>2. toPython' \in Seq(HostEvents)
  BY <1>1, SendType DEF StopHost, TypeOK, ChannelTypeOK
<1>3. task' \in [Requests -> TaskStates]
  BY CancelTasksType DEF StopHost, TypeOK
<1>4. Unannounced \in SessionIds \ {None} /\ None \in TurnIds
  BY BridgeAssumption DEF Unannounced, SessionIds, None, TurnIds
<1>. QED
  BY <1>2, <1>3, <1>4 DEF StopHost, TypeOK, HostTypeOK

-----------------------------------------------------------------------------
(* Type correctness.  A running session has an identity: user_turn events   *)
(* name it.                                                                 *)

TypeInv == TypeOK /\ (active \/ suspended = "speech" => session # None)

LEMMA InitType == Init => TypeInv
<1>. SUFFICES ASSUME Init PROVE TypeInv
  OBVIOUS
<1>1. /\ None \in SessionIds /\ None \in TurnIds
      /\ Unannounced \in SessionIds \ {None} /\ 0 \in 0 .. MaxSessions
      /\ 0 \in 0 .. MaxTaps /\ 0 \in TurnIds /\ 0 \in 0 .. MaxRequests
  BY BridgeAssumption DEF Unannounced, SessionIds, None, TurnIds
<1>2. NoStream \in Streams
  BY <1>1 DEF NoStream, Streams, StreamStates
<1>3. PyTypeOK
  <2>1. stream \in [Requests -> Streams] /\ turnSession \in [1 .. MaxTurns -> SessionIds]
    BY <1>1, <1>2 DEF Init
  <2>2. <<>> \in Seq(ControlEvents)
    OBVIOUS
  <2>. QED
    BY <1>1, <2>1, <2>2, Zenon DEF Init, PyTypeOK
<1>4. HostTypeOK
  BY <1>1 DEF Init, HostTypeOK, TaskStates
<1>. QED
  BY <1>3, <1>4 DEF Init, TypeInv, TypeOK, ChannelTypeOK

LEMMA UserType == TypeInv /\ User => TypeInv'
<1>. SUFFICES ASSUME TypeInv, User PROVE TypeInv'
  OBVIOUS
<1>1. PyTypeOK' /\ (active \/ suspended = "speech" => session # None)'
  BY PyUnchanged
     DEF TypeInv, TypeOK, User, Start, Stop, ClearConversation, Interrupt, ToggleMute
<1>2. toNative' \in Seq(Events)
  BY DEF TypeInv, TypeOK, ChannelTypeOK, User, Start, Stop, ClearConversation, Interrupt,
         ToggleMute
<1>3. Tap => taps' \in 0 .. MaxTaps
  BY BridgeAssumption DEF Tap, TypeInv, TypeOK, HostTypeOK
<1>4. HostTypeOK' /\ toPython' \in Seq(HostEvents)
  <2>1. CASE Start
    <3>1. generations + 1 \in 0 .. MaxSessions /\ generations + 1 \in SessionIds \ {None}
      BY <2>1, BridgeAssumption DEF Start, TypeInv, TypeOK, HostTypeOK, SessionIds, None
    <3>. QED
      BY <2>1, <3>1 DEF Start, TypeInv, TypeOK, HostTypeOK, ChannelTypeOK
  <2>2. CASE Stop
    <3>1. <<>> \in Seq(HostEvents)
      OBVIOUS
    <3>. QED
      BY <2>2, <3>1, <1>3, StopHostType DEF Stop, TypeInv
  <2>3. CASE ClearConversation
    <3>1. <<Control("reset", None)>> \in Seq(HostEvents)
      BY ControlType, BridgeAssumption DEF HostEvents, ControlKinds, SessionIds, None
    <3>. QED
      BY <2>3, <3>1, <1>3, StopHostType DEF ClearConversation, TypeInv
  <2>4. CASE Interrupt
    <3>1. <<Control("interrupt", sessionGeneration)>> \in Seq(HostEvents)
      BY ControlType DEF HostEvents, ControlKinds, TypeInv, TypeOK, HostTypeOK
    <3>2. toPython' \in Seq(HostEvents)
      BY <2>4, <3>1, SendType DEF Interrupt, TypeInv, TypeOK, ChannelTypeOK
    <3>3. None \in TurnIds
      BY BridgeAssumption DEF None, TurnIds
    <3>. QED
      BY <2>4, <1>3, <3>2, <3>3, CancelTasksType DEF Interrupt, TypeInv, TypeOK, HostTypeOK
  <2>5. CASE ToggleMute
    <3>1. <<>> \in Seq(HostEvents) /\ <<Control("mute", sessionGeneration)>> \in Seq(HostEvents)
      BY ControlType DEF HostEvents, ControlKinds, TypeInv, TypeOK, HostTypeOK
    <3>2. toPython' \in Seq(HostEvents)
      BY <2>5, <3>1, SendType DEF ToggleMute, TypeInv, TypeOK, ChannelTypeOK
    <3>. QED
      BY <2>5, <1>3, <3>2 DEF ToggleMute, TypeInv, TypeOK, HostTypeOK
  <2>. QED
    BY <2>1, <2>2, <2>3, <2>4, <2>5 DEF User
<1>. QED
  BY <1>1, <1>2, <1>4 DEF TypeInv, TypeOK, ChannelTypeOK

LEMMA SessionType == TypeInv /\ Session => TypeInv'
<1>. SUFFICES ASSUME TypeInv, Session PROVE TypeInv'
  OBVIOUS
<1>1. PyTypeOK' /\ (active \/ suspended = "speech" => session # None)'
  BY PyUnchanged
     DEF TypeInv, TypeOK, Session, Prepared, CaptureStarted, AudioFails, CaptureResumed
<1>2. toNative' \in Seq(Events)
  BY DEF TypeInv, TypeOK, ChannelTypeOK, Session, Prepared, CaptureStarted, AudioFails,
         CaptureResumed
<1>3. <<>> \in Seq(HostEvents)
      /\ \A kind \in {"start", "unmute"} :
            <<Control(kind, sessionGeneration)>> \in Seq(HostEvents)
  BY ControlType DEF HostEvents, ControlKinds, TypeInv, TypeOK, HostTypeOK
<1>4. HostTypeOK' /\ toPython' \in Seq(HostEvents)
  <2>1. CASE Prepared
    <3>1. toPython' \in Seq(HostEvents)
      BY <2>1, <1>3, SendType DEF Prepared, TypeInv, TypeOK, ChannelTypeOK
    <3>. QED
      BY <2>1, <3>1 DEF Prepared, TypeInv, TypeOK, HostTypeOK
  <2>2. CASE CaptureStarted
    BY <2>2 DEF CaptureStarted, TypeInv, TypeOK, HostTypeOK, ChannelTypeOK
  <2>3. CASE AudioFails
    <3>1. taps' \in 0 .. MaxTaps
      BY <2>3 DEF AudioFails, TypeInv, TypeOK, HostTypeOK
    <3>. QED
      BY <2>3, <3>1, <1>3, StopHostType DEF AudioFails, TypeInv
  <2>4. CASE CaptureResumed
    <3>1. toPython' \in Seq(HostEvents)
      BY <2>4, <1>3, SendType DEF CaptureResumed, TypeInv, TypeOK, ChannelTypeOK
    <3>. QED
      BY <2>4, <3>1 DEF CaptureResumed, TypeInv, TypeOK, HostTypeOK
  <2>. QED
    BY <2>1, <2>2, <2>3, <2>4 DEF Session
<1>. QED
  BY <1>1, <1>2, <1>4 DEF TypeInv, TypeOK, ChannelTypeOK

LEMMA HeadEvent ==
    ASSUME toNative \in Seq(Events), NEW kind, Handling(kind)
    PROVE  /\ Head(toNative) \in Events /\ Tail(toNative) \in Seq(Events)
           /\ Head(toNative).kind = kind
BY HeadTailProperties DEF Handling

LEMMA HandleType == TypeInv /\ Handle => TypeInv'
<1>. SUFFICES ASSUME TypeInv, Handle PROVE TypeInv'
  OBVIOUS
<1>. DEFINE e == Head(toNative)
<1>1. PyTypeOK' /\ (active \/ suspended = "speech" => session # None)'
  BY PyUnchanged
     DEF TypeInv, TypeOK, Handle, HandleUserTurn, HandleCancelRequest, HandleCancelTurn,
         HandleError, HandleRequest
<1>2. toNative' \in Seq(Events)
  BY HeadEvent
     DEF TypeInv, TypeOK, ChannelTypeOK, Handled, Handle, HandleUserTurn,
         HandleCancelRequest, HandleCancelTurn, HandleError, HandleRequest
<1>3. HostTypeOK' /\ toPython' \in Seq(HostEvents)
  <2>. USE DEF TypeInv, TypeOK, ChannelTypeOK
  <2>1. CASE HandleUserTurn
    <3>1. e.turn \in TurnIds
      BY <2>1, HeadEvent DEF HandleUserTurn, Events
    <3>. QED
      BY <2>1, <3>1, CancelTasksType DEF HandleUserTurn, HostTypeOK, lifeVars
  <2>2. CASE HandleCancelRequest
    BY <2>2, CancelTasksType DEF HandleCancelRequest, HostTypeOK, lifeVars
  <2>3. CASE HandleCancelTurn
    BY <2>3, CancelTasksType DEF HandleCancelTurn, HostTypeOK, lifeVars
  <2>4. CASE HandleError
    <3>1. CASE Fatal(e)
      <4>1. <<>> \in Seq(HostEvents) /\ taps' \in 0 .. MaxTaps
        BY <2>4 DEF HandleError, HostTypeOK
      <4>. QED
        BY <2>4, <3>1, <4>1, StopHostType DEF HandleError
    <3>2. CASE ~Fatal(e)
      BY <2>4, <3>2 DEF HandleError, HostTypeOK
    <3>. QED
      BY <3>1, <3>2
  <2>5. CASE HandleRequest
    <3>1. e.request \in Requests
      BY <2>5, HeadEvent DEF HandleRequest, Events
    <3>2. <<Result("refused", e.request)>> \in Seq(HostEvents)
      BY <3>1, ResultType DEF ResultKinds, HostEvents
    <3>3. toPython' \in Seq(HostEvents)
      BY <2>5, <3>2, SendType DEF HandleRequest
    <3>4. task' \in [Requests -> TaskStates]
      BY <2>5 DEF HandleRequest, HostTypeOK, TaskStates
    <3>. QED
      BY <2>5, <3>3, <3>4 DEF HandleRequest, HostTypeOK, lifeVars
  <2>. QED
    BY <2>1, <2>2, <2>3, <2>4, <2>5 DEF Handle
<1>. QED
  BY <1>1, <1>2, <1>3 DEF TypeInv, TypeOK, ChannelTypeOK

LEMMA PerformType == TypeInv /\ Perform => TypeInv'
<1>. SUFFICES ASSUME TypeInv, NEW r \in Requests,
                     TaskBegins(r) \/ TaskStreams(r) \/ TaskFinishes(r)
                       \/ TaskThrows(r) \/ TaskUnwinds(r)
              PROVE  TypeInv'
  BY DEF Perform
<1>. USE DEF TypeInv, TypeOK, ChannelTypeOK
<1>1. PyTypeOK' /\ (active \/ suspended = "speech" => session # None)'
  BY PyUnchanged DEF TaskBegins, TaskStreams, TaskFinishes, TaskThrows, TaskUnwinds
<1>2. toNative' \in Seq(Events)
  BY DEF TaskBegins, TaskStreams, TaskFinishes, TaskThrows, TaskUnwinds
<1>3. <<>> \in Seq(HostEvents)
      /\ \A kind \in ResultKinds : <<Result(kind, r)>> \in Seq(HostEvents)
  BY ResultType DEF HostEvents
<1>4. toPython' \in Seq(HostEvents)
  BY <1>3, SendType
     DEF ResultKinds, TaskBegins, TaskStreams, TaskFinishes, TaskThrows, TaskUnwinds
<1>5. task' \in [Requests -> TaskStates]
  BY DEF HostTypeOK, TaskStates, hostVars, TaskBegins, TaskStreams, TaskFinishes,
         TaskThrows, TaskUnwinds
<1>6. HostTypeOK'
  BY <1>5
     DEF HostTypeOK, lifeVars, hostVars, TaskBegins, TaskStreams, TaskFinishes, TaskThrows,
         TaskUnwinds
<1>. QED
  BY <1>1, <1>2, <1>4, <1>6

LEMMA QueueType ==
    ASSUME stream \in [Requests -> Streams], NEW r \in Requests, NEW q \in Seq(ResultKinds)
    PROVE  [stream EXCEPT ![r].queue = q] \in [Requests -> Streams]
BY DEF Streams

LEMMA StaleType ==
    ASSUME stream \in [Requests -> Streams] PROVE Stale \in [Requests -> Streams]
BY DEF Stale, Streams

LEMMA ClosedType ==
    ASSUME stream \in [Requests -> Streams], NEW r \in Requests, NEW state \in StreamStates
    PROVE  Closed(r, state) \in Streams
<1>1. stream[r] \in Streams /\ <<>> \in Seq(ResultKinds)
  OBVIOUS
<1>. QED
  BY <1>1 DEF Closed, Streams

LEMMA CancelledType ==
    ASSUME stream \in [Requests -> Streams], NEW ids
    PROVE  /\ Cancelled(ids) \in [Requests -> Streams]
           /\ Abandoned(ids) \in [Requests -> Streams]
<1>1. \A r \in Requests : Closed(r, "cancelled") \in Streams
  BY ClosedType DEF StreamStates
<1>2. \A r \in Requests : [stream[r] EXCEPT !.state = "abandoned"] \in Streams
  BY DEF Streams, StreamStates
<1>. QED
  BY <1>1, <1>2 DEF Cancelled, Abandoned

LEMMA CancelEventsType ==
    ASSUME stream \in [Requests -> Streams], NEW ids \in SUBSET Requests
    PROVE  CancelEvents(ids) \in Seq(Events)
<1>1. \A r \in Requests : CancelRequest(r) \in Events
  BY DEF CancelRequest, Event, Events, Streams
<1>2. CASE ids = {}
  BY <1>2 DEF CancelEvents
<1>3. CASE ids # {}
  <2>1. (CHOOSE r \in ids : TRUE) \in Requests
    BY <1>3
  <2>. QED
    BY <2>1, <1>1, <1>3 DEF CancelEvents
<1>. QED
  BY <1>2, <1>3

LEMMA HeadResult ==
    ASSUME toPython \in Seq(HostEvents), Received
    PROVE  /\ Head(toPython) \in HostEvents /\ Tail(toPython) \in Seq(HostEvents)
           /\ Head(toPython).kind \in ResultKinds => Head(toPython) \in ResultEvents
           /\ Head(toPython).kind \in ControlKinds => Head(toPython) \in ControlEvents
<1>1. Head(toPython) \in HostEvents /\ Tail(toPython) \in Seq(HostEvents)
  BY HeadTailProperties DEF Received
<1>. QED
  BY <1>1 DEF HostEvents, ResultEvents, ControlEvents, ResultKinds, ControlKinds

LEMMA ReceiveType == TypeInv /\ Receive => TypeInv'
<1>. SUFFICES ASSUME TypeInv, Receive PROVE TypeInv'
  OBVIOUS
<1>. USE DEF TypeInv, TypeOK, ChannelTypeOK
<1>. DEFINE e == Head(toPython)
<1>1. HostTypeOK'
  BY HostUnchanged
     DEF Receive, ReceiveResult, ReceiveStart, SessionStarted, StartRaises, ReceiveControl
<1>2. <<Untagged>> \in Seq(Events)
  BY BridgeAssumption
     DEF Untagged, Event, Events, Causes, SessionIds, TurnIds, None
<1>3. CASE ReceiveResult
  <2>1. e \in ResultEvents /\ Tail(toPython) \in Seq(HostEvents)
    BY <1>3, HeadResult DEF ReceiveResult
  <2>2. e.request \in Requests /\ e.kind \in ResultKinds
    BY <2>1 DEF ResultEvents
  <2>3. Append(stream[e.request].queue, e.kind) \in Seq(ResultKinds)
    BY <2>2 DEF PyTypeOK, Streams
  <2>4. stream' \in [Requests -> Streams]
    <3>1. [stream EXCEPT ![e.request].queue = Append(stream[e.request].queue, e.kind)]
            \in [Requests -> Streams]
      BY <2>2, <2>3, QueueType DEF PyTypeOK
    <3>2. \/ UNCHANGED stream
          \/ stream' = [stream EXCEPT ![e.request].queue =
                                    Append(stream[e.request].queue, e.kind)]
      BY <1>3 DEF ReceiveResult
    <3>. QED
      BY <3>1, <3>2 DEF PyTypeOK
  <2>5. toNative' \in Seq(Events)
    BY <1>3, <1>2, EmitType DEF ReceiveResult
  <2>. QED
    BY <1>1, <1>3, <2>1, <2>4, <2>5 DEF ReceiveResult, PyTypeOK, Consumed
<1>4. CASE ReceiveStart
  <2>1. e \in ControlEvents /\ Tail(toPython) \in Seq(HostEvents)
    BY <1>4, HeadResult DEF ReceiveStart, ControlKinds
  <2>2. starting' \in SessionIds
    BY <1>4, <2>1 DEF ReceiveStart, ControlEvents
  <2>. QED
    BY <1>1, <1>4, <2>1, <2>2 DEF ReceiveStart, PyTypeOK, Consumed
<1>5. CASE SessionStarted
  <2>1. Control("start", starting) \in ControlEvents
    BY ControlType DEF PyTypeOK, ControlKinds
  <2>2. control' \in Seq(ControlEvents) /\ stream' \in [Requests -> Streams]
    BY <1>5, <2>1, StaleType DEF SessionStarted, PyTypeOK
  <2>3. None \in TurnIds /\ None \in SessionIds
    BY BridgeAssumption DEF None, TurnIds, SessionIds
  <2>. QED
    BY <1>1, <1>5, <2>2, <2>3 DEF SessionStarted, PyTypeOK
<1>6. CASE StartRaises
  <2>1. toNative' \in Seq(Events)
    BY <1>6, <1>2, EmitType DEF StartRaises
  <2>2. None \in SessionIds
    BY BridgeAssumption DEF None, SessionIds
  <2>. QED
    BY <1>1, <1>6, <2>1, <2>2 DEF StartRaises, PyTypeOK
<1>7. CASE ReceiveControl
  <2>1. e \in ControlEvents /\ Tail(toPython) \in Seq(HostEvents)
    BY <1>7, HeadResult DEF ReceiveControl
  <2>2. control' \in Seq(ControlEvents) /\ stream' \in [Requests -> Streams]
    <3>1. \/ control' = control /\ stream' = stream
          \/ control' = Append(control, e) /\ stream' = Stale
      BY <1>7 DEF ReceiveControl
    <3>2. control \in Seq(ControlEvents) /\ Append(control, e) \in Seq(ControlEvents)
      BY <2>1 DEF PyTypeOK
    <3>3. stream \in [Requests -> Streams] /\ Stale \in [Requests -> Streams]
      BY StaleType DEF PyTypeOK
    <3>. QED
      BY <3>1, <3>2, <3>3
  <2>3. active' \in BOOLEAN /\ muted' \in BOOLEAN /\ (active' => active)
    BY <1>7 DEF ReceiveControl, PyTypeOK
  <2>. QED
    BY <1>1, <1>7, <2>1, <2>2, <2>3 DEF ReceiveControl, PyTypeOK, Consumed
<1>. QED
  BY <1>3, <1>4, <1>5, <1>6, <1>7 DEF Receive

LEMMA SpeechType == TypeInv /\ Speech => TypeInv'
<1>. SUFFICES ASSUME TypeInv, Speech PROVE TypeInv'
  OBVIOUS
<1>. USE DEF TypeInv, TypeOK, ChannelTypeOK
<1>1. HostTypeOK'
  BY HostUnchanged DEF Speech, ResetInput, ControlProcessed, BeginTurn, SpeechResumes
<1>2. stream \in [Requests -> Streams] /\ Finalizing \in SUBSET Requests
  BY DEF PyTypeOK, Finalizing
<1>3. CancelEvents(Finalizing) \in Seq(Events)
  BY <1>2, CancelEventsType
<1>4. Cancelled(Finalizing) \in [Requests -> Streams]
  BY <1>2, CancelledType
<1>5. CASE ResetInput
  <2>1. toNative' \in Seq(Events)
    BY <1>5, <1>3, EmitType DEF ResetInput
  <2>2. Head(control) \in ControlEvents /\ Tail(control) \in Seq(ControlEvents)
    BY <1>5, HeadTailProperties DEF ResetInput, PyTypeOK
  <2>3. control' \in Seq(ControlEvents) /\ stream' \in [Requests -> Streams]
    BY <1>5, <1>4, <2>2 DEF ResetInput, PyTypeOK
  <2>4. suspended' \in ControlKinds \cup {"speech", "none"}
    BY <1>5, <2>2 DEF ResetInput, ControlEvents
  <2>5. suspended' = "speech" => suspended = "speech"
    BY <1>5, <2>2 DEF ResetInput, ControlEvents, ControlKinds
  <2>. QED
    BY <1>1, <1>5, <2>1, <2>3, <2>4, <2>5 DEF ResetInput, PyTypeOK
<1>6. CASE ControlProcessed
  <2>1. <<Event("cancel_turn", None, turn, session, "none")>> \in Seq(Events)
    BY DEF Event, Events, Causes, PyTypeOK
  <2>2. toNative' \in Seq(Events)
    BY <1>6, <2>1, EmitType DEF ControlProcessed
  <2>3. None \in TurnIds
    BY BridgeAssumption DEF None, TurnIds
  <2>. QED
    BY <1>1, <1>6, <2>2, <2>3 DEF ControlProcessed, PyTypeOK, TurnOps
<1>7. CASE BeginTurn
  <2>1. turns + 1 \in 1 .. MaxTurns /\ turns + 1 \in TurnIds \ {None}
    BY <1>7, BridgeAssumption DEF BeginTurn, PyTypeOK, TurnIds, None
  <2>2. session \in SessionIds \ {None}
    BY <1>7 DEF BeginTurn, SpeechGoesOn, InputOpen, PyTypeOK
  <2>3. <<Event("user_turn", None, turns + 1, session, "none")>> \in Seq(Events)
    BY <2>1, <2>2 DEF Event, Events
  <2>4. toNative' \in Seq(Events)
    BY <1>7, <2>3, EmitType DEF BeginTurn
  <2>5. turnSession' \in [1 .. MaxTurns -> SessionIds]
    BY <1>7, <2>1, <2>2 DEF BeginTurn, PyTypeOK
  <2>. QED
    BY <1>1, <1>7, <2>1, <2>4, <2>5 DEF BeginTurn, PyTypeOK, TurnOps
<1>8. CASE SpeechResumes
  <2>1. toNative' \in Seq(Events)
    BY <1>8, <1>3, EmitType DEF SpeechResumes
  <2>. QED
    BY <1>1, <1>8, <1>4, <2>1 DEF SpeechResumes, InputOpen, PyTypeOK
<1>. QED
  BY <1>5, <1>6, <1>7, <1>8 DEF Speech

LEMMA SessionOfType ==
    ASSUME PyTypeOK, NEW t \in TurnIds PROVE SessionOf(t) \in SessionIds
<1>1. t # None => t \in 1 .. MaxTurns
  BY BridgeAssumption DEF TurnIds, None
<1>. QED
  BY <1>1 DEF SessionOf, PyTypeOK

LEMMA RaiseType ==
    ASSUME TypeInv, NEW r \in Requests, NEW cause \in Causes, Raise(r, cause)
    PROVE  /\ stream' \in [Requests -> Streams] /\ toNative' \in Seq(Events)
           /\ errors' \subseteq ErrorFrames
<1>. USE DEF TypeInv, TypeOK, PyTypeOK, ChannelTypeOK
<1>1. Closed(r, "failed") \in Streams
  BY ClosedType DEF StreamStates
<1>2. stream[r].turn \in TurnIds /\ stream[r].session \in SessionIds
  BY DEF Streams
<1>3. <<CancelRequest(r)>> \in Seq(Events)
  BY <1>2 DEF CancelRequest, Event, Events
<1>4. toNative' \in Seq(Events)
  BY <1>3, EmitType DEF Raise
<1>5. [turn |-> stream[r].turn, cause |-> cause, session |-> SessionOf(stream[r].turn)]
         \in ErrorFrames
  BY <1>2, SessionOfType DEF ErrorFrames
<1>. QED
  BY <1>1, <1>4, <1>5 DEF Raise

LEMMA ServiceType == TypeInv /\ Service => TypeInv'
<1>. SUFFICES ASSUME TypeInv, Service PROVE TypeInv'
  OBVIOUS
<1>. USE DEF TypeInv, TypeOK, ChannelTypeOK
<1>1. HostTypeOK'
  BY HostUnchanged
     DEF Service, OpenRequest, Interrupted, Consume, TimeOut, CloseAbandoned, PipelineError
<1>2. ASSUME NEW op \in Ops, OpenRequest(op) PROVE TypeInv'
  <2>1. requests + 1 \in Requests /\ requests + 1 \in 0 .. MaxRequests
    BY <1>2, BridgeAssumption DEF OpenRequest, PyTypeOK, Requests
  <2>2. SessionOf(turn) \in SessionIds /\ turn \in TurnIds
    BY SessionOfType DEF PyTypeOK
  <2>3. <<Event("request", requests + 1, turn, SessionOf(turn), "none")>> \in Seq(Events)
    BY <2>1, <2>2 DEF Event, Events
  <2>4. toNative' \in Seq(Events)
    BY <1>2, <2>3, EmitType DEF OpenRequest
  <2>5. [state |-> "waiting", op |-> op, turn |-> turn, session |-> SessionOf(turn),
         fresh |-> TRUE, queue |-> <<>>] \in Streams
    BY <2>2 DEF Streams, StreamStates
  <2>6. stream' \in [Requests -> Streams]
    BY <1>2, <2>1, <2>5 DEF OpenRequest, PyTypeOK
  <2>. QED
    BY <1>1, <1>2, <2>1, <2>4, <2>6 DEF OpenRequest, PyTypeOK
<1>3. ASSUME NEW op \in Ops, Interrupted(op) PROVE TypeInv'
  <2>. DEFINE ids == {r \in Requests : Waiting(r) /\ stream[r].op = op}
  <2>1. /\ CancelEvents(ids) \in Seq(Events)
        /\ Cancelled(ids) \in [Requests -> Streams] /\ Abandoned(ids) \in [Requests -> Streams]
    BY CancelEventsType, CancelledType DEF PyTypeOK
  <2>2. \/ stream' = Cancelled(ids) /\ Emit(CancelEvents(ids))
        \/ stream' = Abandoned(ids) /\ UNCHANGED toNative
    BY <1>3 DEF Interrupted
  <2>3. stream' \in [Requests -> Streams] /\ toNative' \in Seq(Events)
    BY <2>1, <2>2, EmitType
  <2>. QED
    BY <1>1, <1>3, <2>3 DEF Interrupted, PyTypeOK
<1>4. ASSUME NEW r \in Requests, Consume(r) PROVE TypeInv'
  <2>. DEFINE kind == Head(stream[r].queue)
  <2>1. stream[r] \in Streams /\ stream[r].queue \in Seq(ResultKinds)
    BY DEF PyTypeOK, Streams
  <2>2. kind \in ResultKinds /\ Tail(stream[r].queue) \in Seq(ResultKinds)
    BY <1>4, <2>1, HeadTailProperties DEF Consume
  <2>3. CASE kind = "delta"
    <3>1. \A state \in StreamStates :
             [stream[r] EXCEPT !.queue = Tail(stream[r].queue), !.state = state] \in Streams
      BY <2>1, <2>2 DEF Streams
    <3>. DEFINE state == IF turn = stream[r].turn /\ active THEN "waiting" ELSE "abandoned"
                next == [stream[r] EXCEPT !.queue = Tail(stream[r].queue), !.state = state]
    <3>2. state \in StreamStates
      BY DEF StreamStates
    <3>3. stream' = [stream EXCEPT ![r] = next] /\ UNCHANGED <<toNative, errors>>
      BY <1>4, <2>3 DEF Consume
    <3>4. next \in Streams
      BY <3>1, <3>2
    <3>5. stream' \in [Requests -> Streams]
      <4>. HIDE DEF next
      <4>. QED  BY <3>3, <3>4 DEF PyTypeOK
    <3>. QED
      BY <1>1, <1>4, <3>3, <3>5 DEF Consume, PyTypeOK
  <2>4. CASE kind = "done"
    <3>1. stream' = [stream EXCEPT ![r] = Closed(r, "done")] /\ UNCHANGED <<toNative, errors>>
      BY <1>4, <2>4 DEF Consume
    <3>2. stream' \in [Requests -> Streams]
      BY <3>1, ClosedType DEF StreamStates, PyTypeOK
    <3>. QED
      BY <1>1, <1>4, <3>1, <3>2 DEF Consume, PyTypeOK
  <2>5. CASE kind \in {"error", "refused"}
    <3>1. Raise(r, "native") \/ Raise(r, "refused")
      BY <1>4, <2>5 DEF Consume
    <3>2. /\ stream' \in [Requests -> Streams] /\ toNative' \in Seq(Events)
          /\ errors' \subseteq ErrorFrames
      BY <3>1, RaiseType DEF Causes
    <3>. QED
      BY <1>1, <1>4, <3>2 DEF Consume, PyTypeOK
  <2>. QED
    BY <2>2, <2>3, <2>4, <2>5 DEF ResultKinds
<1>5. ASSUME NEW r \in Requests, TimeOut(r) PROVE TypeInv'
  <2>1. /\ stream' \in [Requests -> Streams] /\ toNative' \in Seq(Events)
        /\ errors' \subseteq ErrorFrames
    BY <1>5, RaiseType DEF TimeOut, Causes
  <2>. QED
    BY <1>1, <1>5, <2>1 DEF TimeOut, PyTypeOK
<1>6. ASSUME NEW r \in Requests, CloseAbandoned(r) PROVE TypeInv'
  <2>1. <<CancelRequest(r)>> \in Seq(Events)
    BY DEF CancelRequest, Event, Events, Streams, PyTypeOK
  <2>2. stream' \in [Requests -> Streams] /\ toNative' \in Seq(Events)
    BY <1>6, <2>1, EmitType, CancelledType DEF CloseAbandoned, PyTypeOK
  <2>. QED
    BY <1>1, <1>6, <2>2 DEF CloseAbandoned, PyTypeOK
<1>7. ASSUME NEW e \in errors, PipelineError(e) PROVE TypeInv'
  <2>1. e \in ErrorFrames
    BY DEF PyTypeOK
  <2>2. <<Event("error", None, e.turn, e.session, e.cause)>> \in Seq(Events)
    BY <2>1 DEF Event, Events, ErrorFrames
  <2>3. toNative' \in Seq(Events)
    BY <1>7, <2>2, EmitType DEF PipelineError
  <2>. QED
    BY <1>1, <1>7, <2>3 DEF PipelineError, PyTypeOK
<1>. QED
  BY <1>2, <1>3, <1>4, <1>5, <1>6, <1>7 DEF Service

LEMMA StepType == TypeInv /\ [Next]_vars => TypeInv'
<1>. SUFFICES ASSUME TypeInv, [Next]_vars PROVE TypeInv'
  OBVIOUS
<1>1. CASE UNCHANGED vars
  BY <1>1, PyUnchanged, HostUnchanged DEF vars, TypeInv, TypeOK, ChannelTypeOK
<1>. QED
  BY <1>1, UserType, SessionType, HandleType, PerformType, ReceiveType, SpeechType,
     ServiceType DEF Next

\* Whatever the bounds, every variable keeps its type and every event carries
\* what its receiver reads from it.
THEOREM TypeCorrect == Spec => []TypeOK
<1>1. TypeInv => TypeOK
  BY DEF TypeInv
<1>. QED
  BY <1>1, InitType, StepType, PTL DEF Spec

-----------------------------------------------------------------------------
(* The inductive invariant, first as frame conditions: what a step may do   *)
(* to the queues, the streams and the tasks without disturbing it.          *)

NoRequest(events) == \A i \in 1 .. Len(events) : events[i].kind # "request"
NoDone(events) == \A i \in 1 .. Len(events) : events[i].kind # "done"

TasksKept ==
    \A r \in Requests : /\ task[r] = "none" => task'[r] = "none"
                        /\ task[r] = "finished" => task'[r] = "finished"
StreamsKept ==
    \A r \in Requests :
        /\ stream'[r].op = stream[r].op /\ stream'[r].turn = stream[r].turn
        /\ stream'[r].session = stream[r].session
        /\ stream'[r].state = "unused" <=> stream[r].state = "unused"
QueuesShrink ==
    \A r \in Requests :
        \/ stream'[r].queue = stream[r].queue
        \/ stream'[r].queue = <<>>
        \/ stream[r].queue # <<>> /\ stream'[r].queue = Tail(stream[r].queue)

LEMMA NumberedKept ==
    ASSUME NumberedInOrder, StreamsKept, TasksKept, UNCHANGED requests
    PROVE  NumberedInOrder'
BY DEF NumberedInOrder, StreamsKept, TasksKept

LEMMA AnnouncedAppend ==
    ASSUME AnnouncedOnce, toNative \in Seq(Events), NEW events \in Seq(Events),
           NoRequest(events), toNative' = toNative \o events,
           StreamsKept, TasksKept, UNCHANGED requests
    PROVE  AnnouncedOnce'
<1>1. \A i \in 1 .. Len(toNative') : toNative'[i].kind = "request" =>
         i \in 1 .. Len(toNative) /\ toNative'[i] = toNative[i]
  <2>. SUFFICES ASSUME NEW i \in 1 .. Len(toNative'), toNative'[i].kind = "request"
                PROVE  i \in 1 .. Len(toNative) /\ toNative'[i] = toNative[i]
    OBVIOUS
  <2>1. /\ Len(toNative') = Len(toNative) + Len(events)
        /\ toNative'[i] = IF i <= Len(toNative) THEN toNative[i]
                          ELSE events[i - Len(toNative)]
    BY ConcatProperties
  <2>2. Len(toNative) \in Nat /\ Len(events) \in Nat
    BY LenProperties
  <2>3. i <= Len(toNative)
    BY <2>1, <2>2 DEF NoRequest
  <2>. QED
    BY <2>1, <2>2, <2>3
<1>2. \A i \in 1 .. Len(toNative) : toNative[i].kind = "request" =>
         toNative[i].request \in Requests
  BY ElementOfSeq DEF Events
<1>3. ASSUME NEW i \in 1 .. Len(toNative'), toNative'[i].kind = "request"
      PROVE  LET e == toNative'[i] IN
             /\ e.request <= requests' /\ task'[e.request] = "none"
             /\ e.turn = stream'[e.request].turn /\ e.session = stream'[e.request].session
  <2>1. toNative'[i] = toNative[i] /\ i \in 1 .. Len(toNative) /\ toNative[i].kind = "request"
    BY <1>1, <1>3
  <2>. QED
    BY <2>1, <1>2, SMTT(60) DEF AnnouncedOnce, StreamsKept, TasksKept
<1>4. ASSUME NEW i \in 1 .. Len(toNative'), NEW j \in 1 .. Len(toNative'), i # j,
             toNative'[i].kind = "request", toNative'[j].kind = "request"
      PROVE  toNative'[i].request # toNative'[j].request
  BY <1>1, <1>4 DEF AnnouncedOnce
<1>. QED
  BY <1>3, <1>4 DEF AnnouncedOnce

LEMMA AnnouncedSame ==
    ASSUME AnnouncedOnce, toNative \in Seq(Events), UNCHANGED toNative,
           StreamsKept, TasksKept, UNCHANGED requests
    PROVE  AnnouncedOnce'
<1>1. \A i \in 1 .. Len(toNative) : toNative[i].kind = "request" =>
         toNative[i].request \in Requests
  BY ElementOfSeq DEF Events
<1>. QED
  BY <1>1 DEF AnnouncedOnce, StreamsKept, TasksKept

\* Handling an event: the one that leaves may be the request taken up.
LEMMA AnnouncedTail ==
    ASSUME AnnouncedOnce, toNative \in Seq(Events), toNative # <<>>,
           toNative' = Tail(toNative), StreamsKept, UNCHANGED requests,
           \A r \in Requests : task[r] = "none" =>
               \/ task'[r] = "none"
               \/ Head(toNative).kind = "request" /\ Head(toNative).request = r
    PROVE  AnnouncedOnce'
<1>1. /\ Len(toNative') = Len(toNative) - 1
      /\ \A i \in 1 .. Len(toNative') : toNative'[i] = toNative[i + 1]
      /\ Len(toNative) \in Nat \ {0}
  BY HeadTailProperties, EmptySeq
<1>2. Head(toNative) = toNative[1]
  BY <1>1
<1>3. \A i \in 1 .. Len(toNative) : toNative[i].kind = "request" =>
         toNative[i].request \in Requests
  BY ElementOfSeq DEF Events
<1>. QED
  BY <1>1, <1>2, <1>3 DEF AnnouncedOnce, StreamsKept

LEMMA DoneSentAppend ==
    ASSUME DoneSent, toPython \in Seq(HostEvents), NEW events \in Seq(HostEvents),
           toPython' = toPython \o events,
           \A r \in Requests : task[r] = "finished" => task'[r] = "finished",
           \A i \in 1 .. Len(events) : events[i].kind = "done" =>
              task'[events[i].request] = "finished"
    PROVE  DoneSent'
<1>. SUFFICES ASSUME NEW i \in 1 .. Len(toPython'), toPython'[i].kind = "done"
              PROVE  task'[toPython'[i].request] = "finished"
  BY DEF DoneSent
<1>1. /\ Len(toPython') = Len(toPython) + Len(events)
      /\ toPython'[i] = IF i <= Len(toPython) THEN toPython[i]
                        ELSE events[i - Len(toPython)]
  BY ConcatProperties
<1>2. Len(toPython) \in Nat /\ Len(events) \in Nat
  BY LenProperties
<1>3. CASE i <= Len(toPython)
  <2>1. toPython[i] \in HostEvents /\ toPython[i].kind = "done"
    BY <1>1, <1>2, <1>3, ElementOfSeq
  <2>2. toPython[i].request \in Requests
    BY <2>1 DEF HostEvents, ResultEvents, ControlEvents, ControlKinds
  <2>. QED
    BY <1>1, <1>2, <1>3, <2>1, <2>2 DEF DoneSent
<1>4. CASE i > Len(toPython)
  BY <1>1, <1>2, <1>4
<1>. QED
  BY <1>2, <1>3, <1>4

LEMMA DoneSentTail ==
    ASSUME DoneSent, toPython \in Seq(HostEvents), toPython # <<>>,
           toPython' = Tail(toPython), UNCHANGED task
    PROVE  DoneSent'
<1>1. /\ Len(toPython') = Len(toPython) - 1
      /\ \A i \in 1 .. Len(toPython') : toPython'[i] = toPython[i + 1]
      /\ Len(toPython) \in Nat
  BY HeadTailProperties, LenProperties
<1>. QED
  BY <1>1 DEF DoneSent

LEMMA DoneQueuedKept ==
    ASSUME DoneQueued, stream \in [Requests -> Streams], QueuesShrink,
           \A r \in Requests : task[r] = "finished" => task'[r] = "finished"
    PROVE  DoneQueued'
<1>. SUFFICES ASSUME NEW r \in Requests, NEW i \in 1 .. Len(stream'[r].queue),
                     stream'[r].queue[i] = "done"
              PROVE  \E j \in 1 .. Len(stream[r].queue) : stream[r].queue[j] = "done"
  BY DEF DoneQueued
<1>1. stream[r].queue \in Seq(ResultKinds)
  BY DEF Streams
<1>2. CASE stream'[r].queue = stream[r].queue
  BY <1>2
<1>3. CASE stream'[r].queue = <<>>
  BY <1>3
<1>4. CASE stream[r].queue # <<>> /\ stream'[r].queue = Tail(stream[r].queue)
  <2>1. /\ Len(stream'[r].queue) = Len(stream[r].queue) - 1
        /\ stream'[r].queue[i] = stream[r].queue[i + 1]
        /\ Len(stream[r].queue) \in Nat
    BY <1>1, <1>4, HeadTailProperties, LenProperties
  <2>. QED
    BY <2>1
<1>. QED
  BY <1>2, <1>3, <1>4 DEF QueuesShrink

\* The fence only reads what Python fixes when it opens a request.
LEMMA FenceKept ==
    ASSUME TurnFence, StreamsKept, UNCHANGED hostVars
    PROVE  TurnFence'
BY DEF TurnFence, StreamsKept, Live, Current, IsFinalization, hostActive, hostVars, lifeVars

\* A step of Python that opens no request.
EmitsNoRequest ==
    \/ UNCHANGED toNative
    \/ \E events \in Seq(Events) : NoRequest(events) /\ toNative' = toNative \o events

LEMMA PythonKeeps ==
    ASSUME TypeInv, BridgeInv, UNCHANGED hostVars, UNCHANGED requests, StreamsKept,
           EmitsNoRequest
    PROVE  NumberedInOrder' /\ AnnouncedOnce' /\ TurnFence'
<1>. USE DEF TypeInv, TypeOK, ChannelTypeOK, BridgeInv
<1>1. TasksKept
  BY DEF TasksKept, hostVars
<1>. QED
  BY <1>1, NumberedKept, AnnouncedSame, AnnouncedAppend, FenceKept DEF EmitsNoRequest

LEMMA PythonStep ==
    ASSUME TypeInv, BridgeInv, UNCHANGED hostVars, UNCHANGED requests, StreamsKept,
           EmitsNoRequest, QueuesShrink,
           UNCHANGED toPython \/ (toPython # <<>> /\ toPython' = Tail(toPython))
    PROVE  BridgeInv'
<1>. USE DEF TypeInv, TypeOK, PyTypeOK, ChannelTypeOK, BridgeInv, DoneWasFinished
<1>1. UNCHANGED task
  BY DEF hostVars
<1>2. DoneSent'
  BY <1>1, DoneSentTail DEF DoneSent
<1>3. DoneQueued'
  BY <1>1, DoneQueuedKept
<1>. QED
  BY <1>2, <1>3, PythonKeeps

\* A step of the native side: it keeps Python's variables.
LEMMA HostStep ==
    ASSUME TypeInv, BridgeInv, UNCHANGED pyVars, TasksKept, TurnFence',
           UNCHANGED toNative \/ (toNative # <<>> /\ toNative' = Tail(toNative)),
           \/ UNCHANGED toPython
           \/ \E events \in Seq(HostEvents) :
                 /\ toPython' = toPython \o events
                 /\ \A i \in 1 .. Len(events) : events[i].kind = "done" =>
                       task'[events[i].request] = "finished"
    PROVE  BridgeInv'
<1>. USE DEF TypeInv, TypeOK, PyTypeOK, ChannelTypeOK, BridgeInv, DoneWasFinished
<1>1. StreamsKept /\ QueuesShrink /\ UNCHANGED requests
  BY DEF StreamsKept, QueuesShrink, pyVars
<1>2. NumberedInOrder'
  BY <1>1, NumberedKept
<1>3. AnnouncedOnce'
  BY <1>1, AnnouncedSame, AnnouncedTail DEF TasksKept
<1>4. DoneQueued'
  BY <1>1, DoneQueuedKept DEF TasksKept
<1>5. DoneSent'
  <2>1. CASE UNCHANGED toPython
    <3>1. \A i \in 1 .. Len(toPython) : toPython[i].kind = "done" =>
             toPython[i].request \in Requests
      BY ElementOfSeq DEF HostEvents, ResultEvents, ControlEvents, ControlKinds
    <3>. QED
      BY <2>1, <3>1 DEF DoneSent, TasksKept
  <2>2. CASE ~UNCHANGED toPython
    BY <2>2, DoneSentAppend DEF TasksKept
  <2>. QED
    BY <2>1, <2>2
<1>. QED
  BY <1>2, <1>3, <1>4, <1>5

-----------------------------------------------------------------------------
(* Every step keeps the inductive invariant.                                *)

LEMMA InitInv == Init => BridgeInv
<1>. SUFFICES ASSUME Init PROVE BridgeInv
  OBVIOUS
<1>1. NumberedInOrder
  BY BridgeAssumption DEF Init, NumberedInOrder, NoStream, Requests
<1>2. AnnouncedOnce /\ DoneSent
  BY DEF Init, AnnouncedOnce, DoneSent
<1>3. DoneQueued
  BY DEF Init, DoneQueued, NoStream
<1>4. TurnFence
  BY DEF Init, TurnFence, Live
<1>. QED
  BY <1>1, <1>2, <1>3, <1>4 DEF BridgeInv, DoneWasFinished

LEMMA CancelTasksKept ==
    ASSUME NEW ids, task' = CancelTasks(ids)
    PROVE  /\ TasksKept
           /\ ids = Requests => TurnFence'
BY DEF CancelTasks, TasksKept, Live, TurnFence

LEMMA StopHostInv ==
    ASSUME TypeInv, BridgeInv, UNCHANGED pyVars, NEW extra \in Seq(ControlEvents),
           StopHost(extra),
           UNCHANGED toNative \/ (toNative # <<>> /\ toNative' = Tail(toNative))
    PROVE  BridgeInv'
<1>. DEFINE events == <<Control("stop", sessionGeneration)>> \o extra
<1>1. events \in Seq(ControlEvents)
  BY ControlType, ConcatProperties DEF ControlKinds, TypeInv, TypeOK, HostTypeOK
<1>2. events \in Seq(HostEvents)
  BY <1>1, SeqMonotonic DEF HostEvents
<1>3. \A i \in 1 .. Len(events) : events[i].kind # "done"
  <2>. HIDE DEF events
  <2>1. \A i \in 1 .. Len(events) : events[i] \in ControlEvents
    BY <1>1, ElementOfSeq
  <2>. QED
    BY <2>1 DEF ControlEvents, ControlKinds
<1>4. TasksKept /\ TurnFence'
  BY CancelTasksKept DEF StopHost
<1>5. toPython' = toPython \o events
  BY DEF StopHost, Send
<1>. QED
  BY <1>2, <1>3, <1>4, <1>5, HostStep

LEMMA ControlSent ==
    ASSUME NEW kind \in ControlKinds, NEW s \in SessionIds
    PROVE  /\ <<Control(kind, s)>> \in Seq(HostEvents)
           /\ NoDone(<<Control(kind, s)>>)
BY ControlType DEF HostEvents, NoDone, Control, ControlKinds

LEMMA UserInv == TypeInv /\ BridgeInv /\ User => BridgeInv'
<1>. SUFFICES ASSUME TypeInv, BridgeInv, User PROVE BridgeInv'
  OBVIOUS
<1>0. sessionGeneration \in SessionIds
  BY DEF TypeInv, TypeOK, HostTypeOK
<1>1. CASE Start
  <2>1. TurnFence'
    BY <1>1 DEF Start, BridgeInv, TurnFence, Live, Current
  <2>2. TasksKept
    BY <1>1 DEF Start, TasksKept
  <2>. QED
    BY <1>1, <2>1, <2>2, HostStep DEF Start
<1>2. CASE Stop
  BY <1>2, StopHostInv, EmptySeq DEF Stop
<1>3. CASE ClearConversation
  <2>1. <<Control("reset", None)>> \in Seq(ControlEvents)
    BY ControlType, BridgeAssumption DEF ControlKinds, SessionIds, None
  <2>. QED
    BY <1>3, <2>1, StopHostInv DEF ClearConversation
<1>4. CASE Interrupt
  <2>1. TasksKept /\ TurnFence'
    BY <1>4, CancelTasksKept DEF Interrupt
  <2>. QED
    BY <1>0, <1>4, <2>1, ControlSent, HostStep DEF Interrupt, Send, ControlKinds, NoDone
<1>5. CASE ToggleMute
  <2>1. TasksKept
    BY <1>5 DEF ToggleMute, TasksKept
  <2>2. TurnFence'
    BY <1>5 DEF ToggleMute, BridgeInv, TurnFence, Live, Current, IsFinalization, hostActive,
                pyVars
  <2>3. toPython' = toPython \o <<>> \/ toPython' = toPython \o <<Control("mute", sessionGeneration)>>
    BY <1>5 DEF ToggleMute, Send
  <2>4. <<>> \in Seq(HostEvents) /\ NoDone(<<>>)
    BY DEF NoDone
  <2>. QED
    BY <1>0, <1>5, <2>1, <2>2, <2>3, <2>4, ControlSent, HostStep
       DEF ToggleMute, ControlKinds, NoDone
<1>. QED
  BY <1>1, <1>2, <1>3, <1>4, <1>5 DEF User

LEMMA SessionInv == TypeInv /\ BridgeInv /\ Session => BridgeInv'
<1>. SUFFICES ASSUME TypeInv, BridgeInv, Session PROVE BridgeInv'
  OBVIOUS
<1>0. sessionGeneration \in SessionIds
  BY DEF TypeInv, TypeOK, HostTypeOK
<1>1. CASE AudioFails
  BY <1>1, StopHostInv, EmptySeq DEF AudioFails
<1>2. CASE Prepared \/ CaptureStarted \/ CaptureResumed
  <2>1. TasksKept
    BY <1>2 DEF Prepared, CaptureStarted, CaptureResumed, TasksKept
  <2>2. TurnFence'
    BY <1>2 DEF Prepared, CaptureStarted, CaptureResumed, BridgeInv, TurnFence, Live,
                Current, IsFinalization, hostActive, pyVars
  <2>3. \/ UNCHANGED toPython
        \/ \E kind \in {"start", "unmute"} :
              toPython' = toPython \o <<Control(kind, sessionGeneration)>>
    BY <1>2 DEF Prepared, CaptureStarted, CaptureResumed, Send
  <2>4. UNCHANGED <<pyVars, toNative>>
    BY <1>2 DEF Prepared, CaptureStarted, CaptureResumed
  <2>. QED
    BY <1>0, <2>1, <2>2, <2>3, <2>4, ControlSent, HostStep DEF ControlKinds, NoDone
<1>. QED
  BY <1>1, <1>2 DEF Session

LEMMA HandleInv == TypeInv /\ BridgeInv /\ Handle => BridgeInv'
<1>. SUFFICES ASSUME TypeInv, BridgeInv, Handle PROVE BridgeInv'
  OBVIOUS
<1>. DEFINE e == Head(toNative)
<1>0. UNCHANGED pyVars /\ toNative # <<>> /\ toNative' = Tail(toNative)
  BY DEF Handle, HandleUserTurn, HandleCancelRequest, HandleCancelTurn, HandleError,
         HandleRequest, Handling, Handled
<1>1. CASE HandleUserTurn
  <2>1. TasksKept /\ TurnFence'
    <3>1. CASE task' = CancelTasks(Requests)
      BY <3>1, CancelTasksKept
    <3>2. CASE UNCHANGED <<currentTurn, task>>
      BY <1>0, <1>1, <3>2
         DEF HandleUserTurn, lifeVars, pyVars, BridgeInv, TurnFence, Live, Current,
             IsFinalization, hostActive, TasksKept
    <3>. QED
      BY <1>1, <3>1, <3>2 DEF HandleUserTurn
  <2>. QED
    BY <1>0, <1>1, <2>1, HostStep DEF HandleUserTurn
<1>2. CASE HandleCancelRequest \/ HandleCancelTurn
  <2>1. task' = task \/ \E ids : task' = CancelTasks(ids)
    BY <1>2 DEF HandleCancelRequest, HandleCancelTurn
  <2>2. TasksKept
    BY <2>1, CancelTasksKept DEF TasksKept
  <2>3. \A r \in Requests : Live(r)' => Live(r)
    BY <2>1 DEF CancelTasks, Live
  <2>4. UNCHANGED <<lifeVars, currentTurn, toPython>>
    BY <1>2 DEF HandleCancelRequest, HandleCancelTurn
  <2>5. TurnFence'
    BY <1>0, <2>3, <2>4
       DEF lifeVars, pyVars, BridgeInv, TurnFence, Current, IsFinalization, hostActive
  <2>. QED
    BY <1>0, <2>2, <2>4, <2>5, HostStep
<1>3. CASE HandleError
  <2>1. CASE Fatal(e)
    BY <1>0, <1>3, <2>1, StopHostInv, EmptySeq DEF HandleError
  <2>2. CASE ~Fatal(e)
    <3>1. UNCHANGED <<stage, sessionGeneration, currentTurn, task, toPython>>
      BY <1>3, <2>2 DEF HandleError
    <3>2. TasksKept /\ TurnFence'
      BY <1>0, <3>1
         DEF pyVars, BridgeInv, TurnFence, Live, Current, IsFinalization, hostActive, TasksKept
    <3>. QED
      BY <1>0, <3>1, <3>2, HostStep
  <2>. QED
    BY <2>1, <2>2
<1>4. CASE HandleRequest
  <2>. USE DEF TypeInv, TypeOK, PyTypeOK, ChannelTypeOK, BridgeInv, DoneWasFinished
  <2>1. e \in Events /\ e.kind = "request" /\ e = toNative[1] /\ 1 \in 1 .. Len(toNative)
    BY <1>4, HeadEvent, LenProperties, EmptySeq DEF HandleRequest, Handling
  <2>2. e.request \in Requests
    BY <2>1 DEF Events
  <2>3. /\ e.request <= requests /\ task[e.request] = "none"
        /\ e.turn = stream[e.request].turn /\ e.session = stream[e.request].session
    BY <2>1 DEF AnnouncedOnce
  <2>4. StreamsKept /\ QueuesShrink /\ UNCHANGED <<requests, stage, sessionGeneration, currentTurn>>
    BY <1>0, <1>4 DEF StreamsKept, QueuesShrink, pyVars, HandleRequest, lifeVars
  <2>5. CASE UNCHANGED task
    <3>1. <<Result("refused", e.request)>> \in Seq(HostEvents)
      BY <2>2, ResultType DEF ResultKinds, HostEvents
    <3>2. NoDone(<<Result("refused", e.request)>>)
      BY DEF NoDone, Result
    <3>3. UNCHANGED toPython \/ toPython' = toPython \o <<Result("refused", e.request)>>
      BY <1>4 DEF HandleRequest, Send
    <3>4. TasksKept /\ TurnFence'
      BY <1>0, <2>4, <2>5
         DEF pyVars, TurnFence, Live, Current, IsFinalization, hostActive, TasksKept
    <3>. QED
      BY <1>0, <3>1, <3>2, <3>3, <3>4, HostStep DEF NoDone
  <2>6. CASE ~UNCHANGED task
    <3>1. /\ task' = [task EXCEPT ![e.request] = "queued"] /\ UNCHANGED toPython
          /\ hostActive /\ e.session = sessionGeneration
          /\ stream[e.request].op = "finalize_asr" \/ (e.turn # None /\ e.turn = currentTurn)
      BY <1>4, <2>6 DEF HandleRequest
    <3>2. \A r \in Requests : task'[r] = IF r = e.request THEN "queued" ELSE task[r]
      BY <2>2, <3>1 DEF HostTypeOK
    <3>3. NumberedInOrder'
      <4>1. UNCHANGED <<requests, stream>>
        BY <1>0 DEF pyVars
      <4>2. requests \in Nat /\ e.request \in Nat
        BY <2>2, BridgeAssumption DEF Requests
      <4>. QED
        BY <2>3, <3>2, <4>1, <4>2 DEF NumberedInOrder, Requests
    <3>4. AnnouncedOnce'
      BY <1>0, <2>1, <2>4, <3>2, AnnouncedTail
    <3>5. DoneSent'
      <4>1. \A i \in 1 .. Len(toPython) : toPython[i].kind = "done" =>
               toPython[i].request \in Requests
        BY ElementOfSeq DEF HostEvents, ResultEvents, ControlEvents, ControlKinds
      <4>. QED
        BY <2>3, <3>1, <3>2, <4>1 DEF DoneSent
    <3>6. DoneQueued'
      BY <2>3, <2>4, <3>2, DoneQueuedKept
    <3>7. TurnFence'
      BY <1>0, <2>3, <2>4, <3>1, <3>2
         DEF pyVars, TurnFence, Live, Current, IsFinalization, hostActive
    <3>. QED
      BY <3>3, <3>4, <3>5, <3>6, <3>7
  <2>. QED
    BY <2>5, <2>6
<1>. QED
  BY <1>1, <1>2, <1>3, <1>4 DEF Handle

LEMMA PerformInv == TypeInv /\ BridgeInv /\ Perform => BridgeInv'
<1>. SUFFICES ASSUME TypeInv, BridgeInv, NEW r \in Requests,
                     TaskBegins(r) \/ TaskStreams(r) \/ TaskFinishes(r)
                       \/ TaskThrows(r) \/ TaskUnwinds(r)
              PROVE  BridgeInv'
  BY DEF Perform
<1>. USE DEF BridgeInv
<1>0. UNCHANGED pyVars /\ UNCHANGED <<toNative, lifeVars, currentTurn>>
  BY DEF TaskBegins, TaskStreams, TaskFinishes, TaskThrows, TaskUnwinds, hostVars
<1>1. task \in [Requests -> TaskStates]
  BY DEF TypeInv, TypeOK, HostTypeOK
<1>2. TasksKept
  BY <1>1
     DEF TasksKept, TaskBegins, TaskStreams, TaskFinishes, TaskThrows, TaskUnwinds, hostVars
<1>3. TurnFence'
  <2>1. \A q \in Requests : Live(q)' => Live(q)
    BY <1>1 DEF Live, TaskBegins, TaskStreams, TaskFinishes, TaskThrows, TaskUnwinds, hostVars
  <2>. QED
    BY <1>0, <2>1 DEF TurnFence, pyVars, lifeVars, Current, IsFinalization, hostActive
<1>4. CASE TaskFinishes(r) /\ Current(r)
  <2>1. <<Result("done", r)>> \in Seq(HostEvents)
    BY ResultType DEF ResultKinds, HostEvents
  <2>2. toPython' = toPython \o <<Result("done", r)>> /\ task'[r] = "finished"
    BY <1>1, <1>4 DEF TaskFinishes, Send
  <2>3. \A i \in 1 .. Len(<<Result("done", r)>>) : <<Result("done", r)>>[i].request = r
    BY DEF Result
  <2>. QED
    BY <1>0, <1>2, <1>3, <2>1, <2>2, <2>3, HostStep
<1>5. CASE ~(TaskFinishes(r) /\ Current(r))
  <2>1. \A kind \in {"delta", "error"} :
           <<Result(kind, r)>> \in Seq(HostEvents) /\ NoDone(<<Result(kind, r)>>)
    BY ResultType DEF ResultKinds, HostEvents, NoDone, Result
  <2>2. <<>> \in Seq(HostEvents) /\ NoDone(<<>>)
    BY DEF NoDone
  <2>3. \/ UNCHANGED toPython \/ toPython' = toPython \o <<>>
        \/ \E kind \in {"delta", "error"} : toPython' = toPython \o <<Result(kind, r)>>
    BY <1>5 DEF TaskBegins, TaskStreams, TaskFinishes, TaskThrows, TaskUnwinds, Send
  <2>. QED
    BY <1>0, <1>2, <1>3, <2>1, <2>2, <2>3, HostStep DEF NoDone
<1>. QED
  BY <1>4, <1>5

LEMMA StreamsFromRecords ==
    ASSUME stream \in [Requests -> Streams], NEW ids \in SUBSET Requests, NEW state,
           \A r \in ids : Pending(r), state # "unused",
           \/ stream' = [r \in Requests |-> IF r \in ids THEN Closed(r, state) ELSE stream[r]]
           \/ stream' = [r \in Requests |->
                            IF r \in ids THEN [stream[r] EXCEPT !.state = state] ELSE stream[r]]
    PROVE  StreamsKept /\ QueuesShrink
<1>1. ASSUME NEW r \in Requests
      PROVE  /\ \/ stream'[r] = stream[r]
                \/ stream'[r] = Closed(r, state) /\ Pending(r)
                \/ stream'[r] = [stream[r] EXCEPT !.state = state] /\ Pending(r)
             /\ stream[r] \in Streams
  OBVIOUS
<1>2. ASSUME NEW r \in Requests
      PROVE  /\ stream'[r].op = stream[r].op /\ stream'[r].turn = stream[r].turn
             /\ stream'[r].session = stream[r].session
             /\ stream'[r].state = "unused" <=> stream[r].state = "unused"
             /\ stream'[r].queue = stream[r].queue \/ stream'[r].queue = <<>>
  <2>1. CASE stream'[r] = stream[r]
    BY <2>1
  <2>2. CASE stream'[r] = Closed(r, state) /\ Pending(r)
    BY <1>1, <2>2, ZenonT(60) DEF Closed, Streams, Pending
  <2>3. CASE stream'[r] = [stream[r] EXCEPT !.state = state] /\ Pending(r)
    BY <1>1, <2>3, SMTT(60) DEF Streams, Pending
  <2>. QED
    BY <1>1, <2>1, <2>2, <2>3
<1>. QED
  BY <1>2 DEF StreamsKept, QueuesShrink

LEMMA ClosedKept ==
    ASSUME stream \in [Requests -> Streams], NEW r \in Requests, NEW state,
           state # "unused", Waiting(r), stream' = [stream EXCEPT ![r] = Closed(r, state)]
    PROVE  StreamsKept /\ QueuesShrink
<1>1. {r} \in SUBSET Requests /\ \A q \in {r} : Pending(q)
  BY DEF Waiting, Pending
<1>2. stream' = [q \in Requests |-> IF q \in {r} THEN Closed(q, state) ELSE stream[q]]
  OBVIOUS
<1>. QED
  BY <1>1, <1>2, StreamsFromRecords

LEMMA CancelEventsQuiet ==
    ASSUME NEW ids PROVE NoRequest(CancelEvents(ids))
BY DEF NoRequest, CancelEvents, CancelRequest, Event

LEMMA CancelledKept ==
    ASSUME stream \in [Requests -> Streams], NEW ids \in SUBSET Requests,
           \A r \in ids : Pending(r),
           stream' = Cancelled(ids) \/ stream' = Abandoned(ids)
    PROVE  StreamsKept /\ QueuesShrink
BY StreamsFromRecords DEF Cancelled, Abandoned

LEMMA ReceiveInv == TypeInv /\ BridgeInv /\ Receive => BridgeInv'
<1>. SUFFICES ASSUME TypeInv, BridgeInv, Receive PROVE BridgeInv'
  OBVIOUS
<1>. USE DEF TypeInv, TypeOK, PyTypeOK, ChannelTypeOK
<1>. DEFINE e == Head(toPython)
<1>0. UNCHANGED hostVars /\ UNCHANGED requests
  BY DEF Receive, ReceiveResult, ReceiveStart, SessionStarted, StartRaises, ReceiveControl
<1>1. <<Untagged>> \in Seq(Events) /\ NoRequest(<<Untagged>>)
  BY BridgeAssumption DEF Untagged, Event, Events, Causes, SessionIds, TurnIds, None, NoRequest
<1>2. EmitsNoRequest
  BY <1>1
     DEF Receive, ReceiveResult, ReceiveStart, SessionStarted, StartRaises, ReceiveControl,
         EmitsNoRequest, Emit
<1>3. UNCHANGED toPython \/ (toPython # <<>> /\ toPython' = Tail(toPython))
  BY DEF Receive, ReceiveResult, ReceiveStart, SessionStarted, StartRaises, ReceiveControl,
         Received, Consumed
<1>4. CASE stream' = stream \/ stream' = Stale
  <2>1. StreamsKept /\ QueuesShrink
    BY <1>4 DEF StreamsKept, QueuesShrink, Stale, Streams
  <2>. QED
    BY <1>0, <1>2, <1>3, <2>1, PythonStep
<1>5. CASE ~(stream' = stream \/ stream' = Stale)
  <2>1. ReceiveResult
    BY <1>5 DEF Receive, ReceiveStart, SessionStarted, StartRaises, ReceiveControl
  <2>2. /\ e \in ResultEvents /\ toPython # <<>> /\ toPython' = Tail(toPython)
    BY <2>1, HeadResult DEF ReceiveResult, Received, Consumed
  <2>3. e.request \in Requests /\ e.kind \in ResultKinds
    BY <2>2 DEF ResultEvents
  <2>. DEFINE q == stream[e.request].queue
  <2>4. stream' = [stream EXCEPT ![e.request].queue = Append(q, e.kind)]
    BY <1>5, <2>1 DEF ReceiveResult
  <2>5. q \in Seq(ResultKinds)
    BY <2>3 DEF Streams
  <2>6. StreamsKept
    BY <2>3, <2>4 DEF StreamsKept, Streams
  <2>7. NumberedInOrder' /\ AnnouncedOnce' /\ TurnFence'
    BY <1>0, <1>2, <2>6, PythonKeeps
  <2>8. UNCHANGED task
    BY <1>0 DEF hostVars
  <2>9. e.kind = "done" => task[e.request] = "finished"
    <3>1. e = toPython[1] /\ 1 \in 1 .. Len(toPython)
      BY <2>2, EmptySeq
    <3>. QED
      BY <3>1 DEF BridgeInv, DoneWasFinished, DoneSent
  <2>10. DoneSent'
    BY <2>2, <2>8, DoneSentTail DEF BridgeInv, DoneWasFinished
  <2>11. DoneQueued'
    <3>. SUFFICES ASSUME NEW r \in Requests, NEW i \in 1 .. Len(stream'[r].queue),
                         stream'[r].queue[i] = "done"
                  PROVE  task[r] = "finished"
      BY <2>8 DEF DoneQueued
    <3>1. CASE r # e.request
      <4>1. stream'[r].queue = stream[r].queue
        BY <2>3, <2>4, <3>1
      <4>. QED
        BY <4>1 DEF BridgeInv, DoneWasFinished, DoneQueued
    <3>2. CASE r = e.request
      <4>1. stream'[r].queue = Append(q, e.kind)
        BY <2>3, <2>4, <3>2 DEF Streams
      <4>2. \/ i \in 1 .. Len(q) /\ q[i] = "done"
            \/ e.kind = "done"
        BY <2>3, <2>5, <4>1
      <4>. QED
        BY <2>9, <3>2, <4>2 DEF BridgeInv, DoneWasFinished, DoneQueued
    <3>. QED
      BY <3>1, <3>2
  <2>. QED
    BY <2>7, <2>10, <2>11 DEF BridgeInv, DoneWasFinished
<1>. QED
  BY <1>4, <1>5

LEMMA SpeechInv == TypeInv /\ BridgeInv /\ Speech => BridgeInv'
<1>. SUFFICES ASSUME TypeInv, BridgeInv, Speech PROVE BridgeInv'
  OBVIOUS
<1>. USE DEF TypeInv, TypeOK, PyTypeOK, ChannelTypeOK
<1>1. UNCHANGED hostVars /\ UNCHANGED <<requests, toPython>>
  BY DEF Speech, ResetInput, ControlProcessed, BeginTurn, SpeechResumes
<1>2. \A r \in Finalizing : r \in Requests /\ Pending(r)
  BY DEF Finalizing, Waiting, Pending
<1>3. CancelEvents(Finalizing) \in Seq(Events) /\ NoRequest(CancelEvents(Finalizing))
  BY <1>2, CancelEventsType, CancelEventsQuiet
<1>4. StreamsKept /\ QueuesShrink
  <2>1. CASE stream' = Cancelled(Finalizing)
    BY <1>2, <2>1, CancelledKept
  <2>2. CASE UNCHANGED stream
    BY <2>2 DEF StreamsKept, QueuesShrink
  <2>. QED
    BY <2>1, <2>2 DEF Speech, ResetInput, ControlProcessed, BeginTurn, SpeechResumes
<1>5. EmitsNoRequest
  <2>1. CASE ControlProcessed
    <3>1. <<Event("cancel_turn", None, turn, session, "none")>> \in Seq(Events)
      BY DEF Event, Events, Causes
    <3>2. NoRequest(<<Event("cancel_turn", None, turn, session, "none")>>)
      BY DEF NoRequest, Event
    <3>. QED
      BY <2>1, <3>1, <3>2 DEF ControlProcessed, EmitsNoRequest, Emit
  <2>2. CASE BeginTurn
    <3>1. turns + 1 \in TurnIds \ {None}
      BY <2>2, BridgeAssumption DEF BeginTurn, TurnIds, None
    <3>2. session \in SessionIds \ {None}
      BY <2>2 DEF BeginTurn, SpeechGoesOn, InputOpen
    <3>3. <<Event("user_turn", None, turns + 1, session, "none")>> \in Seq(Events)
      BY <3>1, <3>2 DEF Event, Events
    <3>4. NoRequest(<<Event("user_turn", None, turns + 1, session, "none")>>)
      BY DEF NoRequest, Event
    <3>. QED
      BY <2>2, <3>3, <3>4 DEF BeginTurn, EmitsNoRequest, Emit
  <2>3. CASE ResetInput \/ SpeechResumes
    BY <1>3, <2>3 DEF ResetInput, SpeechResumes, EmitsNoRequest, Emit
  <2>. QED
    BY <2>1, <2>2, <2>3 DEF Speech
<1>. QED
  BY <1>1, <1>4, <1>5, PythonStep

\* Opening a request writes the next stream and announces it.
LEMMA OpenRequestInv ==
    ASSUME TypeInv, BridgeInv, NEW op \in Ops, OpenRequest(op)
    PROVE  BridgeInv'
<1>. USE DEF TypeInv, TypeOK, PyTypeOK, ChannelTypeOK, BridgeInv, DoneWasFinished
<1>. DEFINE new == requests + 1
            opened == [state |-> "waiting", op |-> op, turn |-> turn,
                       session |-> SessionOf(turn), fresh |-> TRUE, queue |-> <<>>]
            event == Event("request", new, turn, SessionOf(turn), "none")
<1>1. /\ new \in Requests /\ requests' = new /\ requests \in Nat
      /\ stream' = [stream EXCEPT ![new] = opened] /\ toNative' = Append(toNative, event)
      /\ UNCHANGED hostVars /\ UNCHANGED toPython
  <2>1. SessionOf(turn) \in SessionIds /\ new \in Requests /\ requests \in Nat
    BY SessionOfType, BridgeAssumption DEF OpenRequest, Requests
  <2>2. event \in Events
    BY <2>1 DEF Event, Events
  <2>3. toNative \o <<event>> = Append(toNative, event)
    BY <2>2
  <2>. QED
    BY <2>1, <2>3 DEF OpenRequest, Emit
<1>2. UNCHANGED task /\ task[new] = "none" /\ stream[new].state = "unused"
  BY <1>1 DEF NumberedInOrder, hostVars, Requests
<1>3. /\ opened.state = "waiting" /\ opened.queue = <<>>
      /\ opened.turn = turn /\ opened.session = SessionOf(turn)
      /\ event.kind = "request" /\ event.request = new
      /\ event.turn = turn /\ event.session = SessionOf(turn)
  BY DEF Event
<1>. HIDE DEF opened, event
<1>4. \A r \in Requests : stream'[r] = IF r = new THEN opened ELSE stream[r]
  BY <1>1
<1>5. NumberedInOrder'
  BY <1>1, <1>2, <1>3, <1>4 DEF NumberedInOrder, Requests
<1>6. AnnouncedOnce'
  <2>1. /\ Len(toNative) \in Nat /\ Len(toNative') = Len(toNative) + 1
        /\ \A i \in 1 .. Len(toNative) : toNative'[i] = toNative[i]
        /\ toNative'[Len(toNative) + 1] = event
    BY <1>1, LenProperties
  <2>2. \A i \in 1 .. Len(toNative) : toNative[i].kind = "request" =>
           toNative[i].request \in Requests /\ toNative[i].request # new
    <3>. SUFFICES ASSUME NEW i \in 1 .. Len(toNative), toNative[i].kind = "request"
                  PROVE  toNative[i].request \in Requests /\ toNative[i].request # new
      OBVIOUS
    <3>1. toNative[i].request \in Requests
      BY ElementOfSeq DEF Events
    <3>2. toNative[i].request <= requests
      BY DEF AnnouncedOnce
    <3>. QED
      BY <1>1, <3>1, <3>2 DEF Requests
  <2>3. ASSUME NEW i \in 1 .. Len(toNative'), toNative'[i].kind = "request"
        PROVE  LET e == toNative'[i] IN
               /\ e.request <= requests' /\ task'[e.request] = "none"
               /\ e.turn = stream'[e.request].turn
               /\ e.session = stream'[e.request].session
    <3>1. CASE i = Len(toNative) + 1
      BY <1>1, <1>2, <1>3, <1>4, <2>1, <3>1 DEF Requests
    <3>2. CASE i \in 1 .. Len(toNative)
      <4>1. toNative'[i] = toNative[i] /\ toNative[i].kind = "request"
        BY <2>1, <2>3, <3>2
      <4>2. /\ toNative[i].request <= requests /\ task[toNative[i].request] = "none"
            /\ toNative[i].turn = stream[toNative[i].request].turn
            /\ toNative[i].session = stream[toNative[i].request].session
        BY <3>2, <4>1 DEF AnnouncedOnce
      <4>. QED
        BY <1>1, <1>2, <1>4, <2>2, <3>2, <4>1, <4>2 DEF Requests
    <3>. QED
      BY <2>1, <3>1, <3>2
  <2>4. ASSUME NEW i \in 1 .. Len(toNative'), NEW j \in 1 .. Len(toNative'), i # j,
               toNative'[i].kind = "request", toNative'[j].kind = "request"
        PROVE  toNative'[i].request # toNative'[j].request
    <3>1. CASE i \in 1 .. Len(toNative) /\ j \in 1 .. Len(toNative)
      BY <2>1, <2>4, <3>1 DEF AnnouncedOnce
    <3>2. CASE i = Len(toNative) + 1 /\ j \in 1 .. Len(toNative)
      BY <1>3, <2>1, <2>2, <2>4, <3>2
    <3>3. CASE i \in 1 .. Len(toNative) /\ j = Len(toNative) + 1
      BY <1>3, <2>1, <2>2, <2>4, <3>3
    <3>. QED
      BY <2>1, <2>4, <3>1, <3>2, <3>3
  <2>. QED
    BY <2>3, <2>4 DEF AnnouncedOnce
<1>7. DoneSent'
  BY <1>1, <1>2 DEF DoneSent
<1>8. DoneQueued'
  <2>. SUFFICES ASSUME NEW r \in Requests, NEW i \in 1 .. Len(stream'[r].queue),
                       stream'[r].queue[i] = "done"
                PROVE  task'[r] = "finished"
    BY DEF DoneQueued
  <2>1. r # new
    <3>1. Len(<<>>) = 0
      OBVIOUS
    <3>. QED
      BY <1>3, <1>4, <3>1
  <2>. QED
    BY <1>2, <1>4, <2>1 DEF DoneQueued
<1>9. TurnFence'
  <2>1. \A r \in Requests : Live(r)' => Live(r) /\ r # new
    BY <1>2 DEF Live
  <2>. QED
    BY <1>1, <1>4, <2>1
       DEF TurnFence, Current, IsFinalization, hostActive, hostVars, lifeVars
<1>. QED
  BY <1>5, <1>6, <1>7, <1>8, <1>9

LEMMA ServiceInv == TypeInv /\ BridgeInv /\ Service => BridgeInv'
<1>. SUFFICES ASSUME TypeInv, BridgeInv, Service PROVE BridgeInv'
  OBVIOUS
<1>. USE DEF TypeInv, TypeOK, PyTypeOK, ChannelTypeOK
<1>1. UNCHANGED hostVars /\ UNCHANGED toPython
  BY DEF Service, OpenRequest, Interrupted, Consume, TimeOut, CloseAbandoned, PipelineError
<1>2. \A r \in Requests : <<CancelRequest(r)>> \in Seq(Events) /\ NoRequest(<<CancelRequest(r)>>)
  BY DEF CancelRequest, Event, Events, Streams, NoRequest
<1>3. ASSUME NEW op \in Ops, Interrupted(op) PROVE BridgeInv'
  <2>. DEFINE ids == {r \in Requests : Waiting(r) /\ stream[r].op = op}
  <2>1. \A r \in ids : r \in Requests /\ Pending(r)
    BY DEF Waiting, Pending
  <2>2. StreamsKept /\ QueuesShrink
    BY <1>3, <2>1, CancelledKept DEF Interrupted
  <2>3. CancelEvents(ids) \in Seq(Events) /\ NoRequest(CancelEvents(ids))
    BY CancelEventsType, CancelEventsQuiet
  <2>4. EmitsNoRequest
    BY <1>3, <2>3 DEF Interrupted, EmitsNoRequest, Emit
  <2>. QED
    BY <1>1, <1>3, <2>2, <2>4, PythonStep DEF Interrupted
<1>4. ASSUME NEW r \in Requests, NEW cause, Raise(r, cause), Waiting(r), UNCHANGED requests
      PROVE  BridgeInv'
  <2>1. stream' = [stream EXCEPT ![r] = Closed(r, "failed")]
    BY <1>4 DEF Raise
  <2>2. StreamsKept /\ QueuesShrink
    BY <1>4, <2>1, ClosedKept
  <2>3. EmitsNoRequest
    BY <1>2, <1>4 DEF Raise, EmitsNoRequest, Emit
  <2>. QED
    BY <1>1, <1>4, <2>2, <2>3, PythonStep
<1>5. ASSUME NEW r \in Requests, Consume(r) PROVE BridgeInv'
  <2>. DEFINE kind == Head(stream[r].queue)
  <2>1. Waiting(r) /\ UNCHANGED requests /\ stream[r] \in Streams
    BY <1>5 DEF Consume
  <2>2. kind \in ResultKinds
    BY <1>5, <2>1, HeadTailProperties DEF Consume, Streams
  <2>3. CASE kind = "delta"
    <3>. DEFINE state == IF turn = stream[r].turn /\ active THEN "waiting" ELSE "abandoned"
                next == [stream[r] EXCEPT !.queue = Tail(stream[r].queue), !.state = state]
    <3>1. stream' = [stream EXCEPT ![r] = next] /\ UNCHANGED toNative
      BY <1>5, <2>3 DEF Consume
    <3>2. /\ next.op = stream[r].op /\ next.turn = stream[r].turn
          /\ next.session = stream[r].session /\ next.state # "unused"
          /\ next.queue = Tail(stream[r].queue)
      BY <2>1 DEF Streams
    <3>3. \A q \in Requests : stream'[q] = IF q = r THEN next ELSE stream[q]
      <4>. HIDE DEF next
      <4>. QED  BY <3>1
    <3>4. StreamsKept /\ QueuesShrink
      <4>. HIDE DEF next
      <4>. QED  BY <1>5, <2>1, <3>2, <3>3 DEF StreamsKept, QueuesShrink, Waiting, Consume
    <3>. QED
      BY <1>1, <2>1, <3>1, <3>4, PythonStep DEF EmitsNoRequest
  <2>4. CASE kind = "done"
    <3>1. stream' = [stream EXCEPT ![r] = Closed(r, "done")]
      BY <1>5, <2>4 DEF Consume
    <3>2. UNCHANGED toNative
      BY <1>5, <2>4 DEF Consume
    <3>3. StreamsKept /\ QueuesShrink
      BY <2>1, <3>1, ClosedKept
    <3>. QED
      BY <1>1, <2>1, <3>2, <3>3, PythonStep DEF EmitsNoRequest
  <2>5. CASE kind \in {"error", "refused"}
    BY <1>4, <1>5, <2>1, <2>5 DEF Consume
  <2>. QED
    BY <2>2, <2>3, <2>4, <2>5 DEF ResultKinds
<1>6. ASSUME NEW r \in Requests, TimeOut(r) PROVE BridgeInv'
  BY <1>4, <1>6 DEF TimeOut
<1>7. ASSUME NEW r \in Requests, CloseAbandoned(r) PROVE BridgeInv'
  <2>1. StreamsKept /\ QueuesShrink
    <3>1. stream \in [Requests -> Streams] /\ {r} \in SUBSET Requests
      BY DEF PyTypeOK
    <3>2. (\A q \in {r} : Pending(q)) /\ stream' = Cancelled({r})
      BY <1>7 DEF CloseAbandoned, Pending
    <3>. QED
      BY <3>1, <3>2, CancelledKept
  <2>2. EmitsNoRequest
    BY <1>2, <1>7 DEF CloseAbandoned, EmitsNoRequest, Emit
  <2>. QED
    BY <1>1, <1>7, <2>1, <2>2, PythonStep DEF CloseAbandoned
<1>8. ASSUME NEW e \in errors, PipelineError(e) PROVE BridgeInv'
  <2>1. StreamsKept /\ QueuesShrink
    BY <1>8 DEF PipelineError, StreamsKept, QueuesShrink
  <2>2. <<Event("error", None, e.turn, e.session, e.cause)>> \in Seq(Events)
    BY DEF Event, Events, ErrorFrames
  <2>3. NoRequest(<<Event("error", None, e.turn, e.session, e.cause)>>)
    BY DEF NoRequest, Event
  <2>4. EmitsNoRequest
    BY <1>8, <2>2, <2>3 DEF PipelineError, EmitsNoRequest, Emit
  <2>. QED
    BY <1>1, <1>8, <2>1, <2>4, PythonStep DEF PipelineError
<1>. QED
  BY <1>3, <1>5, <1>6, <1>7, <1>8, OpenRequestInv DEF Service

LEMMA StepInv == TypeInv /\ BridgeInv /\ [Next]_vars => BridgeInv'
<1>. SUFFICES ASSUME TypeInv, BridgeInv, [Next]_vars PROVE BridgeInv'
  OBVIOUS
<1>1. CASE UNCHANGED vars
  <2>1. UNCHANGED hostVars /\ UNCHANGED <<requests, stream, toNative, toPython>>
    BY <1>1 DEF vars, pyVars
  <2>2. StreamsKept /\ QueuesShrink
    BY <2>1 DEF StreamsKept, QueuesShrink
  <2>. QED
    BY <2>1, <2>2, PythonStep DEF EmitsNoRequest
<1>. QED
  BY <1>1, UserInv, SessionInv, HandleInv, PerformInv, ReceiveInv, SpeechInv, ServiceInv
     DEF Next

\* The invariant that explains the protocol holds for every bound.
THEOREM BridgeInvariant == Spec => [](TypeInv /\ BridgeInv)
  BY InitType, InitInv, StepType, StepInv, PTL DEF Spec

\* No uncancelled Swift task ever works for a session or a turn that is over,
\* whatever the order in which the two threads act.
THEOREM TurnFenceHolds == Spec => []TurnFence
<1>1. BridgeInv => TurnFence
  BY DEF BridgeInv
<1>. QED
  BY <1>1, BridgeInvariant, PTL


-----------------------------------------------------------------------------
(* The mappings, and which moves of the contract a change of them makes.    *)

LEMMA StatusValues ==
    /\ StatusOf("unused") = "unused" /\ StatusOf("waiting") = "open"
    /\ StatusOf("done") = "done" /\ StatusOf("abandoned") = "dropped"
    /\ StatusOf("failed") = "dropped" /\ StatusOf("cancelled") = "dropped"
BY DEF StatusOf

LEMMA WorkValues ==
    /\ WorkOf("none") = "none" /\ WorkOf("queued") = "working"
    /\ WorkOf("running") = "working" /\ WorkOf("finished") = "finished"
    /\ WorkOf("cancelled") = "revoked" /\ WorkOf("over") = "revoked"
BY DEF WorkOf

\* A step that only moves the status, or the work, of the requests in ids.
LEMMA StatusMove ==
    ASSUME NEW ids \in SUBSET Requests, NEW from, NEW to,
           \A r \in ids : StatusOf(stream[r].state) = from /\ StatusOf(stream'[r].state) = to,
           \A r \in Requests \ ids : StatusOf(stream'[r].state) = StatusOf(stream[r].state)
    PROVE  Contract!Move(RequestStatus, ids, from, to)
BY DEF Contract!Move, RequestStatus

LEMMA WorkMove ==
    ASSUME NEW ids \in SUBSET Requests, NEW from, NEW to,
           \A r \in ids : WorkOf(task[r]) = from /\ WorkOf(task'[r]) = to,
           \A r \in Requests \ ids : WorkOf(task'[r]) = WorkOf(task[r])
    PROVE  Contract!Move(RequestWork, ids, from, to)
BY DEF Contract!Move, RequestWork

LEMMA SameStatus ==
    ASSUME \A r \in Requests : StatusOf(stream'[r].state) = StatusOf(stream[r].state)
    PROVE  UNCHANGED RequestStatus
BY DEF RequestStatus

LEMMA SameWork ==
    ASSUME \A r \in Requests : WorkOf(task'[r]) = WorkOf(task[r])
    PROVE  UNCHANGED RequestWork
BY DEF RequestWork

-----------------------------------------------------------------------------
(* Each side moves its own half of the contract.                            *)

ContractStep == [Contract!Next]_(Contract!contractVars)

LEMMA Dropped ==
    ASSUME UNCHANGED task, NEW ids \in SUBSET Requests, \A r \in ids : Waiting(r),
           \A r \in ids : stream'[r].state \in {"abandoned", "failed", "cancelled"},
           \A r \in Requests \ ids : StatusOf(stream'[r].state) = StatusOf(stream[r].state)
    PROVE  ContractStep
<1>1. Contract!Move(RequestStatus, ids, "open", "dropped")
  BY StatusMove, StatusValues DEF Waiting
<1>2. UNCHANGED RequestWork
  BY SameWork
<1>. QED
  BY <1>1, <1>2 DEF ContractStep, Contract!Next, Contract!Drop

LEMMA Revoked ==
    ASSUME UNCHANGED stream, NEW ids \in SUBSET Requests, \A r \in ids : Live(r),
           \A r \in ids : task'[r] \in {"cancelled", "over"},
           \A r \in Requests \ ids : WorkOf(task'[r]) = WorkOf(task[r])
    PROVE  ContractStep
<1>1. Contract!Move(RequestWork, ids, "working", "revoked")
  BY WorkMove, WorkValues DEF Live
<1>2. UNCHANGED RequestStatus
  BY SameStatus
<1>. QED
  BY <1>1, <1>2 DEF ContractStep, Contract!Next, Contract!Revoke

LEMMA Stutter ==
    ASSUME \A r \in Requests : StatusOf(stream'[r].state) = StatusOf(stream[r].state),
           \A r \in Requests : WorkOf(task'[r]) = WorkOf(task[r])
    PROVE  ContractStep
BY SameStatus, SameWork DEF ContractStep, Contract!contractVars

LEMMA TasksCancelled ==
    ASSUME UNCHANGED stream, NEW ids, task' = CancelTasks(ids)
    PROVE  ContractStep
<1>. DEFINE live == {r \in Requests : r \in ids /\ Live(r)}
<1>1. /\ \A r \in live : Live(r) /\ task'[r] = "cancelled"
      /\ \A r \in Requests \ live : task'[r] = task[r]
  BY DEF CancelTasks
<1>. QED
  BY <1>1, Revoked

LEMMA UserSessionContract ==
    ASSUME TypeInv, User \/ Session PROVE ContractStep
<1>1. UNCHANGED stream
  BY DEF User, Session, Start, Stop, ClearConversation, Interrupt, ToggleMute, Prepared,
         CaptureStarted, AudioFails, CaptureResumed, pyVars
<1>2. UNCHANGED task \/ task' = CancelTasks(Requests)
  BY DEF User, Session, Start, Stop, ClearConversation, Interrupt, ToggleMute, Prepared,
         CaptureStarted, AudioFails, CaptureResumed, StopHost
<1>. QED
  BY <1>1, <1>2, Stutter, TasksCancelled

LEMMA HandleContract ==
    ASSUME TypeInv, BridgeInv, Handle PROVE ContractStep
<1>. DEFINE e == Head(toNative)
<1>1. UNCHANGED stream
  BY DEF Handle, HandleUserTurn, HandleCancelRequest, HandleCancelTurn, HandleError,
         HandleRequest, pyVars
<1>2. CASE UNCHANGED task
  BY <1>1, <1>2, Stutter
<1>3. CASE \E ids : task' = CancelTasks(ids)
  BY <1>1, <1>3, TasksCancelled
<1>4. CASE HandleRequest /\ task' = [task EXCEPT ![e.request] = "queued"]
  <2>. USE DEF TypeInv, TypeOK, PyTypeOK, HostTypeOK, ChannelTypeOK, BridgeInv
  <2>1. e \in Events /\ e.kind = "request" /\ e = toNative[1] /\ 1 \in 1 .. Len(toNative)
    BY <1>4, HeadEvent, LenProperties, EmptySeq DEF HandleRequest, Handling
  <2>2. e.request \in Requests
    BY <2>1 DEF Events
  <2>3. e.request <= requests /\ task[e.request] = "none"
    BY <2>1 DEF AnnouncedOnce
  <2>4. stream[e.request].state # "unused"
    <3>1. requests \in Nat /\ e.request \in Nat
      BY <2>2, BridgeAssumption DEF Requests
    <3>. QED
      BY <2>2, <2>3, <3>1 DEF NumberedInOrder
  <2>5. RequestStatus[e.request] # "unused"
    <3>1. stream[e.request].state \in StreamStates
      BY <2>2 DEF Streams
    <3>. QED
      BY <2>2, <2>4, <3>1, StatusValues DEF RequestStatus, StreamStates
  <2>6. Contract!Move(RequestWork, {e.request}, "none", "working")
    BY <1>4, <2>2, <2>3, WorkMove, WorkValues
  <2>7. UNCHANGED RequestStatus
    BY <1>1, SameStatus
  <2>. QED
    BY <2>2, <2>5, <2>6, <2>7 DEF ContractStep, Contract!Next, Contract!Accept
<1>. QED
  BY <1>2, <1>3, <1>4
     DEF Handle, HandleUserTurn, HandleCancelRequest, HandleCancelTurn, HandleError,
         HandleRequest, StopHost

LEMMA PerformContract ==
    ASSUME TypeInv, Perform PROVE ContractStep
<1>. SUFFICES ASSUME NEW r \in Requests,
                     TaskBegins(r) \/ TaskStreams(r) \/ TaskFinishes(r)
                       \/ TaskThrows(r) \/ TaskUnwinds(r)
              PROVE  ContractStep
  BY DEF Perform
<1>1. UNCHANGED stream
  BY DEF TaskBegins, TaskStreams, TaskFinishes, TaskThrows, TaskUnwinds, pyVars
<1>2. task \in [Requests -> TaskStates]
  BY DEF TypeInv, TypeOK, HostTypeOK
<1>3. /\ \A q \in Requests \ {r} : task'[q] = task[q]
      /\ \/ WorkOf(task'[r]) = WorkOf(task[r])
         \/ Live(r) /\ task'[r] \in {"over"}
         \/ task[r] = "running" /\ task'[r] = "finished"
  BY <1>2, WorkValues
     DEF TaskBegins, TaskStreams, TaskFinishes, TaskThrows, TaskUnwinds, Live, hostVars
<1>4. CASE WorkOf(task'[r]) = WorkOf(task[r])
  BY <1>1, <1>3, <1>4, Stutter
<1>5. CASE Live(r) /\ task'[r] \in {"over"}
  <2>1. {r} \in SUBSET Requests
    OBVIOUS
  <2>. QED
    BY <1>1, <1>3, <1>5, <2>1, Revoked
<1>6. CASE task[r] = "running" /\ task'[r] = "finished"
  <2>1. {r} \in SUBSET Requests
    OBVIOUS
  <2>2. Contract!Move(RequestWork, {r}, "working", "finished")
    BY <1>3, <1>6, <2>1, WorkMove, WorkValues
  <2>3. UNCHANGED RequestStatus
    BY <1>1, SameStatus
  <2>. QED
    BY <2>2, <2>3 DEF ContractStep, Contract!Next, Contract!Finish
<1>. QED
  BY <1>3, <1>4, <1>5, <1>6

-----------------------------------------------------------------------------
(* Python's steps.  None of them touches a task.                            *)

LEMMA ReceiveContract ==
    ASSUME TypeInv, Receive PROVE ContractStep
<1>1. stream \in [Requests -> Streams]
  BY DEF TypeInv, TypeOK, PyTypeOK
<1>2. UNCHANGED task
  BY DEF Receive, ReceiveResult, ReceiveStart, SessionStarted, StartRaises, ReceiveControl,
         hostVars
<1>3. CASE UNCHANGED stream
  BY <1>2, <1>3, Stutter
<1>4. CASE stream' = Stale
  <2>1. \A r \in Requests : stream'[r].state = stream[r].state
    BY <1>1, <1>4 DEF Stale, Streams
  <2>. QED
    BY <1>2, <2>1, Stutter
<1>5. CASE ReceiveResult /\ ~UNCHANGED stream
  <2>. DEFINE e == Head(toPython)
              next == [stream[e.request] EXCEPT !.queue = Append(@, e.kind)]
  <2>1. stream' = [stream EXCEPT ![e.request].queue = Append(@, e.kind)]
    BY <1>5 DEF ReceiveResult
  <2>2. \A r \in Requests : stream'[r].state = stream[r].state
    BY <1>1, <2>1 DEF Streams
  <2>. QED
    BY <1>2, <2>2, Stutter
<1>. QED
  BY <1>3, <1>4, <1>5
     DEF Receive, ReceiveStart, SessionStarted, StartRaises, ReceiveControl

\* Leaving stream() closes the request for good.
LEMMA ClosedContract ==
    ASSUME TypeInv, UNCHANGED task, NEW ids \in SUBSET Requests,
           \A r \in ids : Pending(r), stream' = Cancelled(ids)
    PROVE  ContractStep
<1>. DEFINE open == {r \in ids : Waiting(r)}
<1>1. stream \in [Requests -> Streams]
  BY DEF TypeInv, TypeOK, PyTypeOK
<1>2. /\ \A r \in ids : stream'[r].state = "cancelled"
      /\ \A r \in Requests \ ids : stream'[r] = stream[r]
  BY <1>1 DEF Cancelled, Closed, Streams
<1>3. \A r \in ids \ open : stream[r].state = "abandoned"
  BY DEF Waiting, Pending
<1>4. open \in SUBSET Requests /\ \A r \in open : Waiting(r)
  OBVIOUS
<1>5. \A r \in Requests \ open : StatusOf(stream'[r].state) = StatusOf(stream[r].state)
  BY <1>2, <1>3, StatusValues
<1>6. \A r \in open : stream'[r].state \in {"abandoned", "failed", "cancelled"}
  BY <1>2
<1>. HIDE DEF open
<1>. QED
  BY <1>4, <1>5, <1>6, Dropped

LEMMA SpeechContract ==
    ASSUME TypeInv, Speech PROVE ContractStep
<1>1. UNCHANGED task
  BY DEF Speech, ResetInput, ControlProcessed, BeginTurn, SpeechResumes, hostVars
<1>2. UNCHANGED stream \/ stream' = Cancelled(Finalizing)
  BY DEF Speech, ResetInput, ControlProcessed, BeginTurn, SpeechResumes
<1>3. Finalizing \in SUBSET Requests /\ \A r \in Finalizing : Pending(r)
  BY DEF Finalizing, Waiting, Pending
<1>. QED
  BY <1>1, <1>2, <1>3, Stutter, ClosedContract

LEMMA OpenContract ==
    ASSUME TypeInv, BridgeInv, NEW op \in Ops, OpenRequest(op) PROVE ContractStep
<1>. DEFINE r == requests + 1
            next == [state |-> "waiting", op |-> op, turn |-> turn,
                     session |-> SessionOf(turn), fresh |-> TRUE, queue |-> <<>>]
<1>1. stream \in [Requests -> Streams] /\ requests \in 0 .. MaxRequests
  BY DEF TypeInv, TypeOK, PyTypeOK
<1>2. r \in Requests /\ r > requests
  BY <1>1, BridgeAssumption DEF OpenRequest, Requests
<1>3. stream[r].state = "unused"
  BY <1>2 DEF BridgeInv, NumberedInOrder
<1>4. stream' = [stream EXCEPT ![r] = next] /\ next.state = "waiting"
  BY DEF OpenRequest
<1>. HIDE DEF next, r
<1>5. {r} \in SUBSET Requests
  BY <1>2
<1>6. Contract!Move(RequestStatus, {r}, "unused", "open")
  BY <1>1, <1>2, <1>3, <1>4, <1>5, StatusMove, StatusValues
<1>7. UNCHANGED RequestWork
  BY SameWork DEF OpenRequest, hostVars
<1>. QED
  BY <1>2, <1>6, <1>7 DEF ContractStep, Contract!Next, Contract!Open

\* Only one record of stream changes, and its request was waiting.
LEMMA OneDropped ==
    ASSUME TypeInv, UNCHANGED task, NEW r \in Requests, Waiting(r), NEW next,
           stream' = [stream EXCEPT ![r] = next],
           next.state \in {"abandoned", "failed", "cancelled"}
    PROVE  ContractStep
<1>1. stream \in [Requests -> Streams] /\ {r} \in SUBSET Requests
  BY DEF TypeInv, TypeOK, PyTypeOK
<1>. QED
  BY <1>1, Dropped

LEMMA ConsumeContract ==
    ASSUME TypeInv, BridgeInv, NEW r \in Requests, Consume(r) PROVE ContractStep
<1>. DEFINE kind == Head(stream[r].queue)
<1>1. UNCHANGED task /\ Waiting(r) /\ stream \in [Requests -> Streams]
  BY DEF TypeInv, TypeOK, PyTypeOK, Consume, hostVars
<1>2. kind \in ResultKinds /\ kind = stream[r].queue[1] /\ 1 \in 1 .. Len(stream[r].queue)
  BY <1>1, HeadTailProperties, LenProperties, EmptySeq DEF Consume, Streams
<1>3. CASE kind = "delta"
  <2>. DEFINE state == IF turn = stream[r].turn /\ active THEN "waiting" ELSE "abandoned"
              next == [stream[r] EXCEPT !.queue = Tail(stream[r].queue), !.state = state]
  <2>1. stream' = [stream EXCEPT ![r] = next]
    BY <1>3 DEF Consume
  <2>2. stream[r] \in Streams
    BY <1>1
  <2>3. next.state = state
    BY <2>2 DEF Streams
  <2>. HIDE DEF next
  <2>4. CASE state = "waiting"
    <3>1. \A q \in Requests : stream'[q].state = stream[q].state
      BY <1>1, <2>1, <2>3, <2>4 DEF Waiting
    <3>. QED
      BY <1>1, <3>1, Stutter
  <2>5. CASE state = "abandoned"
    BY <1>1, <2>1, <2>3, <2>5, OneDropped
  <2>. QED
    BY <2>4, <2>5
<1>4. CASE kind = "done"
  <2>. DEFINE next == Closed(r, "done")
  <2>1. stream' = [stream EXCEPT ![r] = next]
    BY <1>4 DEF Consume
  <2>2. stream[r] \in Streams
    BY <1>1
  <2>3. next.state = "done"
    BY <2>2 DEF Streams, Closed
  <2>. HIDE DEF next
  <2>4. {r} \in SUBSET Requests
    OBVIOUS
  <2>5. Contract!Move(RequestStatus, {r}, "open", "done")
    BY <1>1, <2>1, <2>3, <2>4, StatusMove, StatusValues DEF Waiting
  <2>6. RequestWork[r] = "finished"
    BY <1>2, <1>4, WorkValues DEF BridgeInv, DoneWasFinished, DoneQueued, RequestWork
  <2>7. UNCHANGED RequestWork
    BY <1>1, SameWork
  <2>. QED
    BY <2>5, <2>6, <2>7 DEF ContractStep, Contract!Next, Contract!Complete
<1>5. CASE kind \in {"error", "refused"}
  <2>. DEFINE next == Closed(r, "failed")
  <2>1. stream' = [stream EXCEPT ![r] = next]
    BY <1>5 DEF Consume, Raise
  <2>2. stream[r] \in Streams
    BY <1>1
  <2>3. next.state = "failed"
    BY <2>2 DEF Streams, Closed
  <2>. HIDE DEF next
  <2>. QED
    BY <1>1, <2>1, <2>3, OneDropped
<1>. QED
  BY <1>2, <1>3, <1>4, <1>5 DEF ResultKinds

LEMMA TimeOutContract ==
    ASSUME TypeInv, NEW r \in Requests, TimeOut(r) PROVE ContractStep
<1>. DEFINE next == Closed(r, "failed")
<1>1. UNCHANGED task /\ Waiting(r) /\ stream[r] \in Streams
  BY DEF TypeInv, TypeOK, PyTypeOK, TimeOut, hostVars
<1>2. stream' = [stream EXCEPT ![r] = next]
  BY DEF TimeOut, Raise
<1>3. next.state = "failed"
  BY <1>1 DEF Streams, Closed
<1>. HIDE DEF next
<1>. QED
  BY <1>1, <1>2, <1>3, OneDropped

LEMMA InterruptedContract ==
    ASSUME TypeInv, NEW op \in Ops, Interrupted(op) PROVE ContractStep
<1>. DEFINE ids == {r \in Requests : Waiting(r) /\ stream[r].op = op}
<1>1. UNCHANGED task /\ stream \in [Requests -> Streams]
  BY DEF TypeInv, TypeOK, PyTypeOK, Interrupted, hostVars
<1>2. ids \in SUBSET Requests /\ \A r \in ids : Waiting(r) /\ Pending(r)
  BY DEF Waiting, Pending
<1>3. stream' = Cancelled(ids) \/ stream' = Abandoned(ids)
  BY DEF Interrupted
<1>. HIDE DEF ids
<1>4. CASE stream' = Cancelled(ids)
  BY <1>1, <1>2, <1>4, ClosedContract
<1>5. CASE stream' = Abandoned(ids)
  <2>1. /\ \A r \in ids : stream'[r].state = "abandoned"
        /\ \A r \in Requests \ ids : stream'[r] = stream[r]
    BY <1>1, <1>2, <1>5 DEF Abandoned, Streams
  <2>. QED
    BY <1>1, <1>2, <2>1, Dropped
<1>. QED
  BY <1>3, <1>4, <1>5

LEMMA ServiceContract ==
    ASSUME TypeInv, BridgeInv, Service PROVE ContractStep
<1>1. ASSUME NEW r \in Requests, CloseAbandoned(r) PROVE ContractStep
  <2>1. UNCHANGED task /\ {r} \in SUBSET Requests /\ \A q \in {r} : Pending(q)
    BY <1>1 DEF CloseAbandoned, Pending, hostVars
  <2>. QED
    BY <1>1, <2>1, ClosedContract DEF CloseAbandoned
<1>2. ASSUME NEW e \in errors, PipelineError(e) PROVE ContractStep
  BY <1>2, Stutter DEF PipelineError, hostVars
<1>. QED
  BY <1>1, <1>2, OpenContract, ConsumeContract, TimeOutContract, InterruptedContract
     DEF Service

-----------------------------------------------------------------------------
(* The refinement.                                                          *)

LEMMA InitContract == Init => Contract!Init
BY StatusValues, WorkValues
   DEF Init, Contract!Init, RequestStatus, RequestWork, NoStream

LEMMA StepContract == TypeInv /\ BridgeInv /\ [Next]_vars => ContractStep
<1>. SUFFICES ASSUME TypeInv, BridgeInv, [Next]_vars PROVE ContractStep
  OBVIOUS
<1>1. CASE UNCHANGED vars
  BY <1>1, Stutter DEF vars, pyVars, hostVars
<1>. QED
  BY <1>1, UserSessionContract, HandleContract, PerformContract, ReceiveContract,
     SpeechContract, ServiceContract DEF Next

\* The bridge implements the contract of a native operation for every number of
\* sessions, turns and requests and every queue size.
THEOREM ContractImplemented == Spec => ImplementsContract
<1>1. TypeInv /\ BridgeInv /\ [Next]_vars => [Contract!Next]_(Contract!contractVars)
  BY StepContract DEF ContractStep
<1>. QED
  BY <1>1, InitContract, BridgeInvariant, PTL DEF Spec, ImplementsContract, Contract!Spec
-----------------------------------------------------------------------------
(* What is on its way.  Nothing is lost between the two sides for good:     *)
(* whoever gives a request up leaves something in a queue that makes the    *)
(* other side give it up as well.                                           *)

\* The control events whose interruption ControlProcessed performs.
Interrupting == {"start", "stop", "reset", "interrupt"}

\* A control frame the STT service will not skip, whatever session comes.
ControlWaits(kinds) ==
    \E i \in 1 .. Len(control) :
        control[i].kind \in kinds /\ control[i].session \in {None, session}

\* An interruption that ends the request waits somewhere in Python.
Overtaken(r) ==
    IF IsFinalization(r) THEN ControlWaits(ControlKinds)
    ELSE \/ stream[r].op \in interrupts \/ suspended \in Interrupting
         \/ ControlWaits(Interrupting)

Announced(kinds, s) ==
    \E i \in 1 .. Len(toPython) : toPython[i].kind \in kinds /\ toPython[i].session = s

\* ... or is on its way from the host.
CalledOff(r) ==
    \/ Announced({"stop", "interrupt"}, stream[r].session)
    \/ IsFinalization(r) /\ Announced({"mute"}, stream[r].session)

Doomed(r) == Overtaken(r) \/ CalledOff(r)

Answers == {"done", "error", "refused"}
Answered(r) ==
    \/ \E i \in 1 .. Len(stream[r].queue) : stream[r].queue[i] \in Answers
    \/ \E i \in 1 .. Len(toPython) :
          toPython[i].kind \in Answers /\ toPython[i].request = r

RequestAt(i, r) == toNative[i].kind = "request" /\ toNative[i].request = r
Requested(r) == \E i \in 1 .. Len(toNative) : RequestAt(i, r)

\* An error without a session and a turn: the host stops whatever it runs.
Unconditional(e) == e.kind = "error" /\ e.session = None /\ e.turn = None
FailureComes == \E i \in 1 .. Len(toNative) : Unconditional(toNative[i])

-----------------------------------------------------------------------------
(* The inductive invariant.                                                 *)

Muting == {"mute", "unmute"}
LatestSession == IF stage = "preparing" THEN generations - 1 ELSE generations

HostStages ==
    /\ stage = "idle" => sessionGeneration = Unannounced
    /\ stage # "idle" => sessionGeneration = generations /\ generations # 0
    /\ stage # "live" => ~hostMuted /\ ~unmuting
    /\ ~(hostMuted /\ unmuting)

\* Sessions reach Python in the order in which the host began them.
SessionsInOrder ==
    /\ session <= LatestSession /\ starting <= LatestSession
    /\ starting # None => session < starting
    /\ \A i \in 1 .. Len(toPython) : toPython[i].kind = "start" =>
          /\ session < toPython[i].session /\ starting < toPython[i].session
          /\ toPython[i].session <= LatestSession
    /\ \A i, j \in 1 .. Len(toPython) :
          i < j /\ toPython[i].kind = "start" /\ toPython[j].kind = "start"
             => toPython[i].session < toPython[j].session
    /\ \A r \in Requests : stream[r].session <= LatestSession

\* What the host said of a session it said while that session was its own.
EventsInOrder ==
    \A i \in 1 .. Len(toPython) :
        /\ toPython[i].kind = "stop" =>
              /\ toPython[i].session \in (1 .. LatestSession) \cup {Unannounced}
              /\ stage # "idle" => toPython[i].session # sessionGeneration
        /\ toPython[i].kind \in Muting =>
              /\ toPython[i].session \in 1 .. LatestSession
              /\ stage # "live" => toPython[i].session # sessionGeneration

\* A session the host is done with has a stop behind its start.
StopsFollow ==
    /\ \A i \in 1 .. Len(toPython) :
          toPython[i].kind = "start" /\ toPython[i].session # sessionGeneration
             => \E j \in i + 1 .. Len(toPython) :
                   toPython[j].kind = "stop" /\ toPython[j].session = toPython[i].session
    /\ starting \notin {None, sessionGeneration} => Announced({"stop"}, starting)
    /\ session \notin {None, sessionGeneration} =>
          \/ Announced({"stop"}, session)
          \/ ~active /\ (suspended = "speech" => ControlWaits(ControlKinds))

\* A session the host announced reaches Python, or an error stops it.
StartsArrive ==
    stage \in {"starting", "live"} =>
        \/ Announced({"start"}, sessionGeneration) \/ starting = sessionGeneration
        \/ session = sessionGeneration /\ active
        \/ FailureComes

\* The last word on mute: in the inbox, or what Python has.
MuteWord(i) == toPython[i].kind \in Muting /\ toPython[i].session = sessionGeneration
StartWord(i) == toPython[i].kind = "start" /\ toPython[i].session = sessionGeneration
MuteSaid(kind) ==
    \E i \in 1 .. Len(toPython) :
        /\ MuteWord(i) /\ toPython[i].kind = kind
        /\ \A j \in i + 1 .. Len(toPython) : ~MuteWord(j) /\ ~StartWord(j)
LastMute ==
    stage \in {"starting", "live"} =>
        \/ MuteSaid(IF hostMuted \/ unmuting THEN "mute" ELSE "unmute")
        \/ /\ \A i \in 1 .. Len(toPython) : ~MuteWord(i)
           /\ IF Announced({"start"}, sessionGeneration) \/ starting = sessionGeneration
              THEN ~hostMuted /\ ~unmuting
              ELSE session = sessionGeneration => (muted <=> hostMuted \/ unmuting)

SpeechWaits ==
    /\ suspended \in ControlKinds => Finalizing = {}
    /\ suspended = "speech" /\ muted => ControlWaits(ControlKinds)

TurnOfSession == turn # None => turn = turns /\ turnSession[turn] = session

\* A request of another session or of a muted host is given up.
OldDoomed == \A r \in Requests : Waiting(r) /\ stream[r].session # session => Overtaken(r)
StoppedDoomed ==
    \A r \in Requests : Waiting(r) /\ stream[r].session # sessionGeneration => Doomed(r)
MutedDoomed ==
    \A r \in Requests : Waiting(r) /\ IsFinalization(r) /\ hostMuted => Doomed(r)

\* A turn's begin and end cancel only what was asked before and no finalization.
FencesDoom ==
    \A r \in Requests, i \in 1 .. Len(toNative) :
        Waiting(r) /\ toNative[i].kind \in {"user_turn", "cancel_turn"}
           => \/ Overtaken(r) /\ ~IsFinalization(r)
              \/ \E j \in i + 1 .. Len(toNative) : RequestAt(j, r)

\* Only a request Python gave up is cancelled.
CancelsGivenUp ==
    \A i \in 1 .. Len(toNative) : toNative[i].kind = "cancel_request" =>
        stream[toNative[i].request].state \in {"failed", "cancelled"}

Remembered ==
    \A r \in Requests : Waiting(r) =>
        Live(r) \/ Requested(r) \/ Answered(r) \/ Doomed(r) \/ FailureComes

\* A request Python gave up is cancelled behind its own event.
OneWaiting ==
    \A r, q \in Requests :
        Waiting(r) /\ Waiting(q) /\ stream[r].op = stream[q].op => r = q
CancelAt(i, r) ==
    /\ toNative[i].kind = "cancel_request" /\ toNative[i].request = r
    /\ toNative[i].session = stream[r].session
CancelFollows ==
    \A r \in Requests : stream[r].state \in {"failed", "cancelled"} =>
        /\ Live(r) => \E i \in 1 .. Len(toNative) : CancelAt(i, r)
        /\ \A i \in 1 .. Len(toNative) : RequestAt(i, r) =>
              \E j \in i + 1 .. Len(toNative) : CancelAt(j, r)
Opened == \A r \in Requests : stream[r].state # "unused" => stream[r].op \in Ops
DoneIsFinished == \A r \in Requests : stream[r].state = "done" => task[r] = "finished"
SessionsKnown ==
    /\ HostStages /\ SessionsInOrder /\ EventsInOrder /\ StopsFollow /\ StartsArrive
    /\ LastMute

-----------------------------------------------------------------------------
(* What a step does to a queue, index by index.                             *)

LengthKnown == Len(toPython) \in Nat

\* The host sends one event, stops, or Python takes the first one.
Sent(e) ==
    /\ Len(toPython') = Len(toPython) + 1 /\ toPython'[Len(toPython) + 1] = e
    /\ \A i \in 1 .. Len(toPython) : toPython'[i] = toPython[i]
SentStop ==
    /\ Len(toPython') \in Nat /\ Len(toPython') > Len(toPython)
    /\ toPython'[Len(toPython) + 1] = Control("stop", sessionGeneration)
    /\ \A i \in 1 .. Len(toPython) : toPython'[i] = toPython[i]
    /\ \A i \in 1 .. Len(toPython') : i > Len(toPython) + 1 =>
          toPython'[i].kind = "reset" /\ toPython'[i].session = None
Took ==
    /\ Len(toPython) # 0 /\ Len(toPython') = Len(toPython) - 1
    /\ \A i \in 1 .. Len(toPython') : toPython'[i] = toPython[i + 1]
    /\ Head(toPython) = toPython[1]

LEMMA SendIsSent ==
    ASSUME toPython \in Seq(HostEvents), NEW e \in HostEvents, Send(<<e>>)
    PROVE  Sent(e) /\ LengthKnown
<1>1. Len(toPython) \in Nat
  BY LenProperties
<1>2. toPython' = Append(toPython, e)
  BY AppendIsConcat DEF Send
<1>. QED
  BY <1>1, <1>2, AppendProperties DEF Sent, LengthKnown

LEMMA StopIsSent ==
    ASSUME TypeOK, NEW extra, StopHost(extra),
           extra = <<>> \/ extra = <<Control("reset", None)>>
    PROVE  SentStop /\ LengthKnown
<1>. DEFINE stop == Control("stop", sessionGeneration)
            reset == Control("reset", None)
<1>1. stop \in HostEvents /\ reset \in HostEvents /\ toPython \in Seq(HostEvents)
  BY ControlType, BridgeAssumption
     DEF TypeOK, HostTypeOK, ChannelTypeOK, HostEvents, ControlKinds, SessionIds, None
<1>2. Len(toPython) \in Nat /\ reset.kind = "reset" /\ reset.session = None
  BY <1>1, LenProperties DEF Control
<1>3. toPython' = toPython \o (<<stop>> \o extra)
  BY DEF StopHost, Send
<1>. HIDE DEF stop, reset
<1>4. CASE extra = <<>>
  <2>1. toPython' = Append(toPython, stop)
    BY <1>1, <1>3, <1>4, AppendIsConcat
  <2>. QED
    BY <1>1, <1>2, <2>1, AppendProperties DEF SentStop, LengthKnown, stop
<1>5. CASE extra = <<reset>>
  <2>1. toPython' = Append(Append(toPython, stop), reset)
    BY <1>1, <1>3, <1>5
  <2>2. Append(toPython, stop) \in Seq(HostEvents)
    BY <1>1
  <2>3. /\ Len(Append(toPython, stop)) = Len(toPython) + 1
        /\ Append(toPython, stop)[Len(toPython) + 1] = stop
        /\ \A i \in 1 .. Len(toPython) : Append(toPython, stop)[i] = toPython[i]
    BY <1>1, AppendProperties
  <2>. DEFINE q == Append(toPython, stop)
  <2>4. /\ Len(toPython') = Len(q) + 1 /\ toPython'[Len(q) + 1] = reset
        /\ \A i \in 1 .. Len(q) : toPython'[i] = q[i]
    BY <1>1, <2>1, <2>2, AppendProperties
  <2>. HIDE DEF q
  <2>5. Len(toPython') = Len(toPython) + 2 /\ Len(q) = Len(toPython) + 1
    BY <1>2, <2>3, <2>4 DEF q
  <2>6. toPython'[Len(toPython) + 1] = stop /\ \A i \in 1 .. Len(toPython) : toPython'[i] = toPython[i]
    BY <1>2, <2>3, <2>4, <2>5 DEF q
  <2>. QED
    BY <1>2, <2>4, <2>5, <2>6 DEF SentStop, LengthKnown, stop
<1>. QED
  BY <1>4, <1>5 DEF reset

LEMMA ConsumeIsTook ==
    ASSUME toPython \in Seq(HostEvents), toPython # <<>>, Consumed
    PROVE  Took /\ LengthKnown
BY HeadTailProperties, LenProperties, EmptySeq DEF Consumed, Took, LengthKnown

\* What stays true of the rest of the inbox when its first event is taken.
LEMMA ShiftedStops ==
    ASSUME LengthKnown, Took, StopsFollow, UNCHANGED sessionGeneration,
           NEW i \in 1 .. Len(toPython'), toPython'[i].kind = "start",
           toPython'[i].session # sessionGeneration
    PROVE  \E j \in i + 1 .. Len(toPython') :
              toPython'[j].kind = "stop" /\ toPython'[j].session = toPython'[i].session
<1>1. /\ Len(toPython') = Len(toPython) - 1 /\ Len(toPython) \in Nat \ {0}
      /\ \A j \in 1 .. Len(toPython') : toPython'[j] = toPython[j + 1]
  BY DEF Took, LengthKnown
<1>2. i + 1 \in 1 .. Len(toPython) /\ toPython'[i] = toPython[i + 1]
  BY <1>1
<1>3. PICK j \in (i + 1) + 1 .. Len(toPython) :
         toPython[j].kind = "stop" /\ toPython[j].session = toPython[i + 1].session
  BY <1>2 DEF StopsFollow
<1>4. j - 1 \in i + 1 .. Len(toPython') /\ toPython'[j - 1] = toPython[j]
  BY <1>1, <1>3
<1>. QED
  BY <1>2, <1>3, <1>4

LEMMA ShiftedMute ==
    ASSUME LengthKnown, Took, UNCHANGED sessionGeneration
    PROVE  /\ ~MuteWord(1) => \A kind : MuteSaid(kind) => MuteSaid(kind)'
           /\ (\A i \in 1 .. Len(toPython) : ~MuteWord(i))
                => \A i \in 1 .. Len(toPython') : ~MuteWord(i)'
           /\ \A kind : MuteSaid(kind) =>
                 \/ MuteSaid(kind)'
                 \/ /\ MuteWord(1) /\ toPython[1].kind = kind
                    /\ \A i \in 1 .. Len(toPython') : ~MuteWord(i)' /\ ~StartWord(i)'
<1>1. /\ Len(toPython') = Len(toPython) - 1 /\ Len(toPython) \in Nat \ {0}
      /\ \A j \in 1 .. Len(toPython') : toPython'[j] = toPython[j + 1]
  BY DEF Took, LengthKnown
<1>2. \A j \in 1 .. Len(toPython') :
         (MuteWord(j)' <=> MuteWord(j + 1)) /\ (StartWord(j)' <=> StartWord(j + 1))
  BY <1>1 DEF MuteWord, StartWord, Muting
<1>3. ASSUME NEW kind, NEW i \in 2 .. Len(toPython), MuteWord(i), toPython[i].kind = kind,
             \A j \in i + 1 .. Len(toPython) : ~MuteWord(j) /\ ~StartWord(j)
      PROVE  MuteSaid(kind)'
  <2>1. i - 1 \in 1 .. Len(toPython') /\ (i - 1) + 1 = i
    BY <1>1
  <2>2. toPython'[i - 1] = toPython[i] /\ (MuteWord(i - 1)' <=> MuteWord(i))
    BY <1>1, <1>2, <2>1
  <2>3. ASSUME NEW j \in i .. Len(toPython')
        PROVE  ~MuteWord(j)' /\ ~StartWord(j)'
    <3>1. j \in 1 .. Len(toPython') /\ j + 1 \in i + 1 .. Len(toPython)
      BY <1>1
    <3>. QED
      BY <1>2, <1>3, <3>1
  <2>. QED
    BY <1>3, <2>1, <2>2, <2>3 DEF MuteSaid
<1>4. \A i \in 1 .. Len(toPython) : i = 1 \/ i \in 2 .. Len(toPython)
  BY <1>1
<1>5. \A i \in 1 .. Len(toPython') : i + 1 \in 1 + 1 .. Len(toPython)
  BY <1>1
<1>6. \A kind : MuteSaid(kind) =>
         \/ MuteSaid(kind)'
         \/ /\ MuteWord(1) /\ toPython[1].kind = kind
            /\ \A i \in 1 .. Len(toPython') : ~MuteWord(i)' /\ ~StartWord(i)'
  <2>. SUFFICES ASSUME NEW kind, NEW i \in 1 .. Len(toPython), MuteWord(i),
                       toPython[i].kind = kind,
                       \A j \in i + 1 .. Len(toPython) : ~MuteWord(j) /\ ~StartWord(j)
                PROVE  \/ MuteSaid(kind)'
                       \/ /\ MuteWord(1) /\ toPython[1].kind = kind
                          /\ \A j \in 1 .. Len(toPython') : ~MuteWord(j)' /\ ~StartWord(j)'
    BY DEF MuteSaid
  <2>1. CASE i = 1
    BY <1>2, <1>5, <2>1
  <2>2. CASE i # 1
    BY <1>3, <1>4, <2>2
  <2>. QED
    BY <2>1, <2>2
<1>7. (\A i \in 1 .. Len(toPython) : ~MuteWord(i))
         => \A i \in 1 .. Len(toPython') : ~MuteWord(i)'
  BY <1>1, <1>2
<1>. QED
  BY <1>6, <1>7

-----------------------------------------------------------------------------
(* Sessions and mute.  First the steps of the host.                         *)

\* What the types say of the numbers these invariants compare.
Numbers ==
    /\ generations \in 0 .. MaxSessions /\ MaxSessions \in Nat /\ Unannounced = MaxSessions + 1
    /\ session \in Nat /\ starting \in Nat /\ sessionGeneration \in Nat
    /\ sessionGeneration # None /\ None = 0
    /\ \A i \in 1 .. Len(toPython) :
          toPython[i].session \in Nat
          /\ (toPython[i].kind \in ResultKinds => toPython[i].session = None)
    /\ \A r \in Requests : stream[r].session \in Nat
    /\ stage \in {"idle", "preparing", "starting", "live"}
    /\ hostMuted \in BOOLEAN /\ unmuting \in BOOLEAN /\ muted \in BOOLEAN

LEMMA TypesGiveNumbers == TypeInv => Numbers /\ LengthKnown
<1>. SUFFICES ASSUME TypeInv PROVE Numbers /\ LengthKnown
  OBVIOUS
<1>. USE DEF TypeInv, TypeOK
<1>1. MaxSessions \in Nat /\ Unannounced = MaxSessions + 1
  BY BridgeAssumption DEF Unannounced
<1>2. \A s \in SessionIds : s \in Nat
  BY <1>1 DEF SessionIds
<1>3. \A r \in Requests : stream[r].session \in Nat
  BY <1>2 DEF PyTypeOK, Streams
<1>4. \A i \in 1 .. Len(toPython) :
         /\ toPython[i].session \in Nat
         /\ toPython[i].kind \in ResultKinds => toPython[i].session = None
  <2>1. \A i \in 1 .. Len(toPython) : toPython[i] \in HostEvents
    BY ElementOfSeq DEF ChannelTypeOK
  <2>2. None \in Nat
    BY DEF None
  <2>. QED
    BY <1>2, <2>1, <2>2 DEF HostEvents, ResultEvents, ControlEvents, ResultKinds, ControlKinds
<1>5. LengthKnown
  BY LenProperties DEF LengthKnown, ChannelTypeOK
<1>. QED
  BY <1>1, <1>2, <1>3, <1>4, <1>5 DEF Numbers, PyTypeOK, HostTypeOK, None

LEMMA StartSessions == TypeInv /\ SessionsKnown /\ Start => SessionsKnown'
<1>. SUFFICES ASSUME TypeInv, SessionsKnown, Start PROVE SessionsKnown'
  OBVIOUS
<1>. USE DEF SessionsKnown
<1>1. Numbers /\ LengthKnown
  BY TypesGiveNumbers
<1>2. /\ UNCHANGED <<session, starting, active, muted, suspended, control, stream, toPython,
                     toNative, unmuting>>
      /\ stage = "idle" /\ stage' = "preparing" /\ generations < MaxSessions
      /\ generations' = generations + 1 /\ sessionGeneration' = generations + 1
      /\ hostMuted' = FALSE /\ sessionGeneration = Unannounced /\ ~unmuting
  BY DEF Start, hostActive, pyVars, HostStages
<1>3. LatestSession' = LatestSession /\ LatestSession = generations
  BY <1>1, <1>2 DEF LatestSession, Numbers
<1>4. HostStages'
  BY <1>1, <1>2 DEF HostStages, Numbers
<1>5. SessionsInOrder'
  BY <1>2, <1>3 DEF SessionsInOrder
<1>6. EventsInOrder'
  BY <1>1, <1>2, <1>3 DEF EventsInOrder, Numbers, LengthKnown
<1>7. StopsFollow'
  <2>1. \A i \in 1 .. Len(toPython) : toPython[i].kind = "start" =>
           toPython[i].session # sessionGeneration
    BY <1>1, <1>2, <1>3 DEF SessionsInOrder, Numbers
  <2>2. starting # sessionGeneration /\ session # sessionGeneration
    BY <1>1, <1>2, <1>3 DEF SessionsInOrder, Numbers
  <2>. QED
    BY <1>2, <2>1, <2>2 DEF StopsFollow, Announced, ControlWaits
<1>8. StartsArrive' /\ LastMute'
  BY <1>2 DEF StartsArrive, LastMute
<1>. QED
  BY <1>4, <1>5, <1>6, <1>7, <1>8

LEMMA PreparedSessions == TypeInv /\ SessionsKnown /\ Prepared => SessionsKnown'
<1>. SUFFICES ASSUME TypeInv, SessionsKnown, Prepared PROVE SessionsKnown'
  OBVIOUS
<1>. USE DEF SessionsKnown
<1>1. Numbers /\ LengthKnown
  BY TypesGiveNumbers
<1>2. /\ UNCHANGED <<session, starting, active, muted, suspended, control, stream, toNative,
                     sessionGeneration, generations, hostMuted, unmuting>>
      /\ stage = "preparing" /\ stage' = "starting"
      /\ ~hostMuted /\ ~unmuting /\ sessionGeneration = generations /\ generations # 0
  BY DEF Prepared, pyVars, HostStages
<1>3. Sent(Control("start", sessionGeneration))
  <2>1. Control("start", sessionGeneration) \in HostEvents
    BY ControlType DEF HostEvents, ControlKinds, TypeInv, TypeOK, HostTypeOK
  <2>. QED
    BY <2>1, SendIsSent DEF Prepared, TypeInv, TypeOK, ChannelTypeOK
<1>4. /\ Len(toPython') = Len(toPython) + 1 /\ Len(toPython) \in Nat
      /\ toPython'[Len(toPython) + 1].kind = "start"
      /\ toPython'[Len(toPython) + 1].session = generations
      /\ \A i \in 1 .. Len(toPython) : toPython'[i] = toPython[i]
  BY <1>1, <1>2, <1>3 DEF Sent, Control, LengthKnown
<1>5. LatestSession' = generations /\ LatestSession = generations - 1
  BY <1>1, <1>2 DEF LatestSession, Numbers
<1>6. HostStages'
  BY <1>1, <1>2 DEF HostStages, Numbers
<1>7. SessionsInOrder'
  <2>1. ASSUME NEW i \in 1 .. Len(toPython'), toPython'[i].kind = "start"
        PROVE  /\ session < toPython'[i].session /\ starting < toPython'[i].session
               /\ toPython'[i].session <= generations
               /\ i \in 1 .. Len(toPython) => toPython'[i].session < generations
    BY <1>1, <1>2, <1>4, <1>5, <2>1 DEF SessionsInOrder, Numbers
  <2>2. ASSUME NEW i \in 1 .. Len(toPython'), NEW j \in 1 .. Len(toPython'), i < j,
               toPython'[i].kind = "start", toPython'[j].kind = "start"
        PROVE  toPython'[i].session < toPython'[j].session
    <3>1. i \in 1 .. Len(toPython) /\ toPython'[i] = toPython[i]
      BY <1>4, <2>2
    <3>2. CASE j \in 1 .. Len(toPython)
      BY <1>4, <2>2, <3>1, <3>2 DEF SessionsInOrder
    <3>3. CASE j = Len(toPython) + 1
      BY <1>4, <2>1, <2>2, <3>1, <3>3
    <3>. QED
      BY <1>4, <3>2, <3>3
  <2>3. /\ session <= generations /\ starting <= generations
        /\ \A r \in Requests : stream[r].session <= generations
    BY <1>1, <1>5 DEF SessionsInOrder, Numbers
  <2>. QED
    BY <1>2, <1>5, <2>1, <2>2, <2>3 DEF SessionsInOrder
<1>8. EventsInOrder'
  BY <1>1, <1>2, <1>4, <1>5 DEF EventsInOrder, Numbers, Muting
<1>9. StopsFollow'
  BY <1>1, <1>2, <1>4 DEF StopsFollow, Announced, ControlWaits
<1>10. Announced({"start"}, sessionGeneration)'
  BY <1>1, <1>2, <1>4 DEF Announced
<1>11. LastMute'
  <2>1. \A i \in 1 .. Len(toPython') : ~MuteWord(i)'
    BY <1>1, <1>2, <1>4 DEF EventsInOrder, MuteWord, Muting, Numbers
  <2>. QED
    BY <1>2, <1>10, <2>1 DEF LastMute
<1>. QED
  BY <1>2, <1>6, <1>7, <1>8, <1>9, <1>10, <1>11 DEF StartsArrive

LEMMA CaptureStartedSessions == TypeInv /\ SessionsKnown /\ CaptureStarted => SessionsKnown'
<1>. SUFFICES ASSUME TypeInv, SessionsKnown, CaptureStarted PROVE SessionsKnown'
  OBVIOUS
<1>. USE DEF SessionsKnown
<1>1. /\ UNCHANGED <<session, starting, active, muted, suspended, control, stream, toNative,
                     toPython, sessionGeneration, generations, hostMuted, unmuting>>
      /\ stage = "starting" /\ stage' = "live"
  BY DEF CaptureStarted, pyVars
<1>2. LatestSession' = LatestSession
  BY <1>1 DEF LatestSession
<1>. QED
  BY <1>1, <1>2, SMTT(60)
     DEF HostStages, SessionsInOrder, EventsInOrder, StopsFollow, StartsArrive, LastMute,
         Announced, ControlWaits, FailureComes, MuteWord, StartWord, MuteSaid

LEMMA StoppedSessions ==
    ASSUME TypeInv, SessionsKnown, UNCHANGED pyVars, NEW extra, StopHost(extra),
           extra = <<>> \/ extra = <<Control("reset", None)>>
    PROVE  SessionsKnown'
<1>. USE DEF SessionsKnown
<1>1. Numbers /\ LengthKnown
  BY TypesGiveNumbers
<1>2. /\ UNCHANGED <<session, starting, active, muted, suspended, control, stream, generations>>
      /\ stage' = "idle" /\ sessionGeneration' = Unannounced
      /\ hostMuted' = FALSE /\ unmuting' = FALSE
  BY DEF StopHost, pyVars
<1>3. SentStop
  BY StopIsSent DEF TypeInv
<1>4. /\ Len(toPython') \in Nat /\ Len(toPython') > Len(toPython) /\ Len(toPython) \in Nat
      /\ toPython'[Len(toPython) + 1].kind = "stop"
      /\ toPython'[Len(toPython) + 1].session = sessionGeneration
      /\ \A i \in 1 .. Len(toPython) : toPython'[i] = toPython[i]
      /\ \A i \in 1 .. Len(toPython') : i > Len(toPython) + 1 => toPython'[i].kind = "reset"
  BY <1>1, <1>3 DEF SentStop, Control, LengthKnown
<1>5. LatestSession' = generations /\ LatestSession <= generations
  BY <1>1, <1>2 DEF LatestSession, Numbers
<1>6. HostStages'
  BY <1>2 DEF HostStages
<1>7. SessionsInOrder'
  <2>1. \A i \in 1 .. Len(toPython') : toPython'[i].kind = "start" =>
           i \in 1 .. Len(toPython) /\ toPython'[i] = toPython[i]
    BY <1>4
  <2>2. /\ \A i \in 1 .. Len(toPython') : toPython'[i].kind = "start" =>
              /\ session < toPython'[i].session /\ starting < toPython'[i].session
              /\ toPython'[i].session <= generations
        /\ \A r \in Requests : stream[r].session <= generations
        /\ session <= generations /\ starting <= generations
    BY <1>1, <1>5, <2>1 DEF SessionsInOrder, Numbers, LatestSession
  <2>3. \A i, j \in 1 .. Len(toPython') :
           i < j /\ toPython'[i].kind = "start" /\ toPython'[j].kind = "start"
              => toPython'[i].session < toPython'[j].session
    BY <2>1 DEF SessionsInOrder
  <2>. QED
    BY <1>2, <1>5, <2>2, <2>3 DEF SessionsInOrder
<1>8. EventsInOrder'
  <2>1. ASSUME NEW i \in 1 .. Len(toPython')
        PROVE  /\ toPython'[i].kind = "stop" =>
                     toPython'[i].session \in (1 .. generations) \cup {Unannounced}
               /\ toPython'[i].kind \in Muting => toPython'[i].session \in 1 .. generations
    <3>1. CASE i \in 1 .. Len(toPython)
      BY <1>1, <1>4, <1>5, <3>1 DEF EventsInOrder, Numbers, LatestSession
    <3>2. CASE i = Len(toPython) + 1
      BY <1>1, <1>4, <3>2 DEF HostStages, Numbers, Muting
    <3>3. CASE i > Len(toPython) + 1
      BY <1>4, <3>3 DEF Muting
    <3>. QED
      BY <1>4, <3>1, <3>2, <3>3
  <2>. QED
    BY <1>1, <1>2, <1>5, <2>1 DEF EventsInOrder, Numbers
<1>9. StopsFollow'
  <2>1. ASSUME NEW s \in {starting, session}, s # None
        PROVE  s = sessionGeneration => Announced({"stop"}, s)'
    BY <1>2, <1>4 DEF Announced
  <2>2. \A s \in {starting, session} : Announced({"stop"}, s) => Announced({"stop"}, s)'
    BY <1>2, <1>4 DEF Announced
  <2>3. ASSUME NEW i \in 1 .. Len(toPython'), toPython'[i].kind = "start"
        PROVE  \E j \in i + 1 .. Len(toPython') :
                  toPython'[j].kind = "stop" /\ toPython'[j].session = toPython'[i].session
    <3>1. i \in 1 .. Len(toPython) /\ toPython'[i] = toPython[i]
      BY <1>4, <2>3
    <3>2. CASE toPython[i].session = sessionGeneration
      BY <1>4, <3>1, <3>2
    <3>3. CASE toPython[i].session # sessionGeneration
      BY <1>4, <2>3, <3>1, <3>3 DEF StopsFollow
    <3>. QED
      BY <3>2, <3>3
  <2>4. starting # None => Announced({"stop"}, starting)'
    BY <1>2, <1>4 DEF StopsFollow, Announced
  <2>5. session # None =>
          \/ Announced({"stop"}, session)'
          \/ ~active' /\ (suspended' = "speech" => ControlWaits(ControlKinds)')
    BY <1>2, <1>4 DEF StopsFollow, Announced, ControlWaits
  <2>. QED
    BY <1>2, <2>3, <2>4, <2>5 DEF StopsFollow
<1>. QED
  BY <1>2, <1>6, <1>7, <1>8, <1>9 DEF StartsArrive, LastMute

\* A step that speaks of no session: it sends another event than these, takes a
\* result, or none of both.
SessionKinds == {"start", "stop", "mute", "unmute"}
LEMMA QuietSessions ==
    ASSUME TypeInv, SessionsKnown,
           UNCHANGED <<session, starting, active, muted, lifeVars>>
             \/ UNCHANGED <<session, starting, active, muted, stage, sessionGeneration,
                            generations, hostMuted, unmuting>>,
           \A r \in Requests : stream'[r].session \in {stream[r].session, session},
           \/ UNCHANGED toPython
           \/ \E e \in HostEvents : e.kind \notin SessionKinds /\ Sent(e)
           \/ Took /\ toPython[1].kind \in ResultKinds,
           FailureComes => FailureComes',
           suspended' = "speech" /\ ~active =>
              suspended = "speech" /\ (ControlWaits(ControlKinds) => ControlWaits(ControlKinds)')
    PROVE  SessionsKnown'
<1>. USE DEF SessionsKnown
<1>1. Numbers /\ LengthKnown
  BY TypesGiveNumbers
<1>2. UNCHANGED <<session, starting, active, muted, stage, sessionGeneration, generations,
                  hostMuted, unmuting>>
  BY DEF lifeVars
<1>3. LatestSession' = LatestSession
  BY <1>2 DEF LatestSession
<1>4. HostStages'
  BY <1>2 DEF HostStages
<1>5. \A r \in Requests : stream'[r].session <= LatestSession
  BY <1>1 DEF SessionsInOrder, Numbers, LatestSession
<1>6. CASE UNCHANGED toPython
  <2>1. SessionsInOrder' /\ EventsInOrder'
    BY <1>2, <1>3, <1>5, <1>6 DEF SessionsInOrder, EventsInOrder
  <2>. QED
    BY <1>2, <1>4, <1>6, <2>1 DEF StopsFollow, StartsArrive, LastMute, MuteSaid, Announced, MuteWord, StartWord
<1>7. ASSUME NEW e \in HostEvents, e.kind \notin SessionKinds, Sent(e)
      PROVE  SessionsKnown'
  <2>1. /\ Len(toPython') = Len(toPython) + 1 /\ Len(toPython) \in Nat
        /\ toPython'[Len(toPython) + 1].kind \notin SessionKinds
        /\ \A i \in 1 .. Len(toPython) : toPython'[i] = toPython[i]
    BY <1>1, <1>7 DEF Sent, LengthKnown
  <2>2. \A i \in 1 .. Len(toPython') : toPython'[i].kind \in SessionKinds =>
           i \in 1 .. Len(toPython) /\ toPython'[i] = toPython[i]
    BY <2>1
  <2>3. SessionsInOrder'
    BY <1>2, <1>3, <1>5, <2>2 DEF SessionsInOrder, SessionKinds
  <2>4. EventsInOrder'
    BY <1>2, <1>3, <2>2 DEF EventsInOrder, SessionKinds, Muting
  <2>5. \A s \in Nat : \A kind \in SessionKinds :
           Announced({kind}, s) <=> \E i \in 1 .. Len(toPython') :
              toPython'[i].kind = kind /\ toPython'[i].session = s
    BY <2>1, <2>2 DEF Announced
  <2>6. /\ Announced({"stop"}, starting) <=> Announced({"stop"}, starting)'
        /\ Announced({"stop"}, session) <=> Announced({"stop"}, session)'
        /\ Announced({"start"}, sessionGeneration) <=> Announced({"start"}, sessionGeneration)'
    BY <1>1, <1>2, <2>5 DEF Announced, SessionKinds, Numbers
  <2>7. StopsFollow'
    BY <1>2, <2>1, <2>2, <2>6 DEF StopsFollow, SessionKinds
  <2>8. StartsArrive'
    BY <1>2, <2>6 DEF StartsArrive
  <2>9. LastMute'
    BY <1>2, <2>1, <2>2, <2>6 DEF LastMute, MuteSaid, MuteWord, StartWord, SessionKinds, Muting
  <2>. QED
    BY <1>4, <2>3, <2>4, <2>7, <2>8, <2>9
<1>8. CASE Took /\ toPython[1].kind \in ResultKinds
  <2>1. /\ Len(toPython') = Len(toPython) - 1 /\ Len(toPython) \in Nat \ {0}
        /\ \A i \in 1 .. Len(toPython') : toPython'[i] = toPython[i + 1]
        /\ toPython[1].kind \notin SessionKinds
    BY <1>1, <1>8 DEF Took, LengthKnown, ResultKinds, SessionKinds
  <2>2. /\ \A i \in 1 .. Len(toPython') : i + 1 \in 1 .. Len(toPython)
        /\ \A i \in 1 .. Len(toPython) : toPython[i].kind \in SessionKinds =>
              i - 1 \in 1 .. Len(toPython') /\ toPython'[i - 1] = toPython[i]
    BY <2>1
  <2>3. SessionsInOrder'
    <3>1. \A i \in 1 .. Len(toPython') : toPython'[i].kind = "start" =>
             /\ session < toPython'[i].session /\ starting < toPython'[i].session
             /\ toPython'[i].session <= LatestSession
      BY <2>1, <2>2 DEF SessionsInOrder
    <3>2. ASSUME NEW i \in 1 .. Len(toPython'), NEW j \in 1 .. Len(toPython'), i < j,
                 toPython'[i].kind = "start", toPython'[j].kind = "start"
          PROVE  toPython'[i].session < toPython'[j].session
      <4>1. i + 1 \in 1 .. Len(toPython) /\ j + 1 \in 1 .. Len(toPython) /\ i + 1 < j + 1
        BY <2>2, <3>2
      <4>2. toPython'[i] = toPython[i + 1] /\ toPython'[j] = toPython[j + 1]
        BY <2>1
      <4>. QED
        BY <3>2, <4>1, <4>2 DEF SessionsInOrder
    <3>. QED
      BY <1>2, <1>3, <1>5, <3>1, <3>2 DEF SessionsInOrder
  <2>4. EventsInOrder'
    BY <1>2, <1>3, <2>1, <2>2 DEF EventsInOrder
  <2>5. \A s \in Nat : \A kind \in SessionKinds :
           Announced({kind}, s) <=> \E i \in 1 .. Len(toPython') :
              toPython'[i].kind = kind /\ toPython'[i].session = s
    BY <2>1, <2>2 DEF Announced
  <2>6. /\ Announced({"stop"}, starting) <=> Announced({"stop"}, starting)'
        /\ Announced({"stop"}, session) <=> Announced({"stop"}, session)'
        /\ Announced({"start"}, sessionGeneration) <=> Announced({"start"}, sessionGeneration)'
    BY <1>1, <1>2, <2>5 DEF Announced, SessionKinds, Numbers
  <2>7. StopsFollow'
    <3>1. ASSUME NEW i \in 1 .. Len(toPython'),
                 toPython'[i].kind = "start" /\ toPython'[i].session # sessionGeneration'
          PROVE  \E j \in i + 1 .. Len(toPython') :
                    toPython'[j].kind = "stop" /\ toPython'[j].session = toPython'[i].session
      <4>1. /\ i + 1 \in 1 .. Len(toPython) /\ toPython[i + 1].kind = "start"
            /\ toPython[i + 1].session # sessionGeneration
        BY <1>2, <2>1, <2>2, <3>1
      <4>2. PICK j \in i + 2 .. Len(toPython) :
               toPython[j].kind = "stop" /\ toPython[j].session = toPython[i + 1].session
        BY <4>1 DEF StopsFollow
      <4>3. /\ j \in 1 .. Len(toPython) /\ toPython[j].kind \in SessionKinds
            /\ j - 1 \in i + 1 .. Len(toPython')
        BY <2>1, <4>2 DEF SessionKinds
      <4>4. toPython'[j - 1] = toPython[j]
        BY <2>2, <4>3
      <4>. QED
        BY <2>1, <4>2, <4>3, <4>4
    <3>. QED
      BY <1>2, <2>6, <3>1 DEF StopsFollow
  <2>8. StartsArrive'
    BY <1>2, <2>6 DEF StartsArrive
  <2>9. LastMute'
    <3>1. /\ ~MuteWord(1) => \A kind : MuteSaid(kind) => MuteSaid(kind)'
          /\ (\A i \in 1 .. Len(toPython) : ~MuteWord(i))
               => \A i \in 1 .. Len(toPython') : ~MuteWord(i)'
      BY <1>1, <1>2, <1>8, ShiftedMute
    <3>2. ~MuteWord(1)
      BY <2>1 DEF MuteWord, Muting, SessionKinds
    <3>. QED
      BY <1>2, <2>6, <3>1, <3>2 DEF LastMute
  <2>. QED
    BY <1>4, <2>3, <2>4, <2>7, <2>8, <2>9
<1>. QED
  BY <1>6, <1>7, <1>8

\* The host speaks of mute: the new word is the last one.
LEMMA MuteSessions ==
    ASSUME TypeInv, SessionsKnown, UNCHANGED <<pyVars, toNative, stage, sessionGeneration,
                                               generations>>,
           stage = "live", NEW kind \in Muting, Sent(Control(kind, sessionGeneration)),
           hostMuted' \in BOOLEAN, unmuting' \in BOOLEAN, ~(hostMuted' /\ unmuting'),
           kind = "mute" <=> hostMuted' \/ unmuting'
    PROVE  SessionsKnown'
<1>. USE DEF SessionsKnown
<1>1. Numbers /\ LengthKnown
  BY TypesGiveNumbers
<1>2. UNCHANGED <<session, starting, active, muted, suspended, control, stream>>
  BY DEF pyVars
<1>3. /\ Len(toPython') = Len(toPython) + 1 /\ Len(toPython) \in Nat
      /\ toPython'[Len(toPython) + 1].kind = kind /\ kind \in Muting
      /\ toPython'[Len(toPython) + 1].session = sessionGeneration
      /\ \A i \in 1 .. Len(toPython) : toPython'[i] = toPython[i]
  BY <1>1 DEF Sent, LengthKnown, Control
<1>4. sessionGeneration = generations /\ generations # 0 /\ LatestSession = generations
      /\ LatestSession' = LatestSession
  BY DEF HostStages, LatestSession
<1>5. HostStages'
  BY DEF HostStages
<1>6. \A i \in 1 .. Len(toPython') : toPython'[i].kind \in {"start", "stop"} =>
         i \in 1 .. Len(toPython) /\ toPython'[i] = toPython[i]
  BY <1>3 DEF Muting
<1>7. SessionsInOrder'
  BY <1>2, <1>4, <1>6 DEF SessionsInOrder
<1>8. EventsInOrder'
  BY <1>1, <1>3, <1>4, <1>6 DEF EventsInOrder, Numbers, Muting
<1>9. StopsFollow'
  BY <1>2, <1>3, <1>6 DEF StopsFollow, Announced, ControlWaits
<1>10. StartsArrive'
  BY <1>2, <1>3 DEF StartsArrive, Announced, FailureComes
<1>11. LastMute'
  BY <1>3 DEF LastMute, MuteSaid, MuteWord, StartWord, Muting
<1>. QED
  BY <1>5, <1>7, <1>8, <1>9, <1>10, <1>11

LEMMA ToggleMuteSessions == TypeInv /\ SessionsKnown /\ ToggleMute => SessionsKnown'
<1>. SUFFICES ASSUME TypeInv, SessionsKnown, ToggleMute PROVE SessionsKnown'
  OBVIOUS
<1>1. Numbers /\ LengthKnown
  BY TypesGiveNumbers
<1>2. /\ UNCHANGED <<pyVars, toNative, stage, sessionGeneration, generations>>
      /\ stage = "live" /\ hostMuted' = ~hostMuted /\ unmuting' = hostMuted
      /\ hostMuted \in BOOLEAN
  BY <1>1 DEF ToggleMute, Numbers
<1>3. CASE ~hostMuted
  <2>1. Send(<<Control("mute", sessionGeneration)>>)
    BY <1>3 DEF ToggleMute
  <2>2. Control("mute", sessionGeneration) \in HostEvents
    BY ControlType DEF HostEvents, ControlKinds, TypeInv, TypeOK, HostTypeOK
  <2>3. Sent(Control("mute", sessionGeneration))
    BY <2>1, <2>2, SendIsSent DEF TypeInv, TypeOK, ChannelTypeOK
  <2>. QED
    BY <1>2, <1>3, <2>3, MuteSessions DEF Muting
<1>4. CASE hostMuted
  <2>1. toPython' = toPython
    BY <1>4, ConcatEmptySeq DEF ToggleMute, Send, TypeInv, TypeOK, ChannelTypeOK
  <2>2. LatestSession' = LatestSession
    BY <1>2 DEF LatestSession
  <2>3. hostMuted = TRUE /\ hostMuted' = FALSE /\ unmuting' = TRUE
    BY <1>2, <1>4
  <2>4. LastMute'
    <3>1. /\ \A i \in 1 .. Len(toPython) : MuteWord(i)' <=> MuteWord(i)
          /\ \A i \in 1 .. Len(toPython) : StartWord(i)' <=> StartWord(i)
          /\ Announced({"start"}, sessionGeneration)' <=> Announced({"start"}, sessionGeneration)
          /\ UNCHANGED <<starting, session, muted>>
      BY <1>2, <2>1 DEF MuteWord, StartWord, Muting, Announced, pyVars
    <3>2. \A kind : MuteSaid(kind)' <=> MuteSaid(kind)
      BY <2>1, <3>1 DEF MuteSaid
    <3>. QED
      BY <1>2, <2>1, <2>3, <3>1, <3>2 DEF SessionsKnown, LastMute
  <2>. QED
    BY <1>2, <2>1, <2>2, <2>3, <2>4
       DEF SessionsKnown, HostStages, SessionsInOrder, EventsInOrder, StopsFollow,
           StartsArrive, Announced, ControlWaits, FailureComes, pyVars
<1>. QED
  BY <1>2, <1>3, <1>4

LEMMA CaptureResumedSessions == TypeInv /\ SessionsKnown /\ CaptureResumed => SessionsKnown'
<1>. SUFFICES ASSUME TypeInv, SessionsKnown, CaptureResumed PROVE SessionsKnown'
  OBVIOUS
<1>1. Numbers
  BY TypesGiveNumbers
<1>2. /\ UNCHANGED <<pyVars, toNative, stage, sessionGeneration, generations, hostMuted>>
      /\ unmuting' = FALSE /\ unmuting
  BY DEF CaptureResumed
<1>3. stage = "live" /\ ~hostMuted /\ hostMuted \in BOOLEAN
  BY <1>1, <1>2 DEF SessionsKnown, HostStages, Numbers
<1>4. Control("unmute", sessionGeneration) \in HostEvents
  BY ControlType DEF HostEvents, ControlKinds, TypeInv, TypeOK, HostTypeOK
<1>5. Sent(Control("unmute", sessionGeneration))
  BY <1>4, SendIsSent DEF CaptureResumed, TypeInv, TypeOK, ChannelTypeOK
<1>. QED
  BY <1>2, <1>3, <1>5, MuteSessions DEF Muting

-----------------------------------------------------------------------------
(* The steps of receive() that concern sessions and mute.                   *)

\* What the inbox says once its first event is taken.
LEMMA Shifted ==
    ASSUME Numbers, LengthKnown, Took, SessionsInOrder, EventsInOrder, LatestSession' = LatestSession
    PROVE  /\ \A i \in 1 .. Len(toPython') : toPython'[i].kind = "start" =>
                 /\ toPython[1].kind = "start" => toPython[1].session < toPython'[i].session
                 /\ session < toPython'[i].session /\ starting < toPython'[i].session
                 /\ toPython'[i].session <= LatestSession
           /\ \A i, j \in 1 .. Len(toPython') :
                 i < j /\ toPython'[i].kind = "start" /\ toPython'[j].kind = "start"
                    => toPython'[i].session < toPython'[j].session
           /\ UNCHANGED <<stage, sessionGeneration>> => EventsInOrder'
           /\ \A kinds, s : (\E i \in 2 .. Len(toPython) :
                                toPython[i].kind \in kinds /\ toPython[i].session = s)
                => \E i \in 1 .. Len(toPython') :
                      toPython'[i].kind \in kinds /\ toPython'[i].session = s
<1>1. /\ Len(toPython') = Len(toPython) - 1 /\ Len(toPython) \in Nat \ {0}
      /\ \A i \in 1 .. Len(toPython') :
            toPython'[i] = toPython[i + 1] /\ i + 1 \in 1 .. Len(toPython)
  BY DEF Took, LengthKnown
<1>2. ASSUME NEW i \in 1 .. Len(toPython'), toPython'[i].kind = "start"
      PROVE  /\ toPython[1].kind = "start" => toPython[1].session < toPython'[i].session
             /\ session < toPython'[i].session /\ starting < toPython'[i].session
             /\ toPython'[i].session <= LatestSession
  <2>1. i + 1 \in 1 .. Len(toPython) /\ toPython'[i] = toPython[i + 1] /\ 1 < i + 1
        /\ 1 \in 1 .. Len(toPython)
    BY <1>1
  <2>. QED
    BY <1>2, <2>1 DEF SessionsInOrder
<1>3. ASSUME NEW i \in 1 .. Len(toPython'), NEW j \in 1 .. Len(toPython'), i < j,
             toPython'[i].kind = "start", toPython'[j].kind = "start"
      PROVE  toPython'[i].session < toPython'[j].session
  <2>1. i + 1 < j + 1
    BY <1>3
  <2>. QED
    BY <1>1, <1>3, <2>1 DEF SessionsInOrder
<1>4. UNCHANGED <<stage, sessionGeneration>> => EventsInOrder'
  BY <1>1 DEF EventsInOrder
<1>5. \A i \in 2 .. Len(toPython) : i - 1 \in 1 .. Len(toPython') /\ toPython'[i - 1] = toPython[i]
  BY <1>1
<1>. QED
  BY <1>2, <1>3, <1>4, <1>5

LEMMA ReceiveStartSessions == TypeInv /\ SessionsKnown /\ ReceiveStart => SessionsKnown'
<1>. SUFFICES ASSUME TypeInv, SessionsKnown, ReceiveStart PROVE SessionsKnown'
  OBVIOUS
<1>. USE DEF SessionsKnown
<1>1. Numbers /\ LengthKnown
  BY TypesGiveNumbers
<1>2. Took
  BY ConsumeIsTook DEF ReceiveStart, Received, TypeInv, TypeOK, ChannelTypeOK
<1>3. /\ UNCHANGED <<session, muted, suspended, control, stream, toNative, stage,
                     sessionGeneration, generations, hostMuted, unmuting>>
      /\ starting = None /\ toPython[1].kind = "start" /\ starting' = toPython[1].session
      /\ active' = FALSE
  BY <1>2 DEF ReceiveStart, Received, hostVars, lifeVars, Took
<1>4. /\ Len(toPython') = Len(toPython) - 1 /\ Len(toPython) \in Nat \ {0}
      /\ \A i \in 1 .. Len(toPython') : toPython'[i] = toPython[i + 1]
      /\ 1 \in 1 .. Len(toPython)
  BY <1>1, <1>2 DEF Took, LengthKnown
<1>5. LatestSession' = LatestSession
  BY <1>3 DEF LatestSession
<1>6. session < starting' /\ starting' <= LatestSession /\ starting' # None
  BY <1>1, <1>3, <1>4 DEF SessionsInOrder, Numbers
<1>7. HostStages'
  BY <1>3 DEF HostStages
<1>8. SessionsInOrder'
  BY <1>1, <1>2, <1>3, <1>5, <1>6, Shifted DEF SessionsInOrder
<1>9. EventsInOrder'
  BY <1>1, <1>2, <1>3, <1>5, Shifted
<1>10. StopsFollow'
  <2>1. \A i \in 1 .. Len(toPython') :
           toPython'[i].kind = "start" /\ toPython'[i].session # sessionGeneration
             => \E j \in i + 1 .. Len(toPython') :
                   toPython'[j].kind = "stop" /\ toPython'[j].session = toPython'[i].session
    BY <1>1, <1>2, <1>3, ShiftedStops
  <2>2. starting' # sessionGeneration => Announced({"stop"}, starting)'
    <3>. SUFFICES ASSUME starting' # sessionGeneration
                  PROVE  Announced({"stop"}, starting)'
      OBVIOUS
    <3>1. PICK j \in 1 + 1 .. Len(toPython) :
             toPython[j].kind = "stop" /\ toPython[j].session = toPython[1].session
      BY <1>3, <1>4 DEF StopsFollow
    <3>2. j - 1 \in 1 .. Len(toPython') /\ toPython'[j - 1] = toPython[j]
      BY <1>4, <3>1
    <3>. QED
      BY <1>3, <3>1, <3>2 DEF Announced
  <2>3. Announced({"stop"}, session) => Announced({"stop"}, session)'
    <3>. SUFFICES ASSUME NEW j \in 1 .. Len(toPython), toPython[j].kind = "stop",
                         toPython[j].session = session
                  PROVE  Announced({"stop"}, session)'
      BY DEF Announced
    <3>1. j - 1 \in 1 .. Len(toPython') /\ toPython'[j - 1] = toPython[j]
      BY <1>3, <1>4
    <3>. QED
      BY <1>3, <3>1 DEF Announced
  <2>4. session \notin {None, sessionGeneration} =>
           \/ Announced({"stop"}, session)'
           \/ ~active' /\ (suspended' = "speech" => ControlWaits(ControlKinds)')
    BY <1>3, <2>3 DEF StopsFollow, ControlWaits
  <2>. QED
    BY <1>3, <1>6, <2>1, <2>2, <2>4 DEF StopsFollow
<1>11. Announced({"start"}, sessionGeneration) =>
          Announced({"start"}, sessionGeneration)' \/ starting' = sessionGeneration
  <2>. SUFFICES ASSUME NEW j \in 1 .. Len(toPython), toPython[j].kind = "start",
                       toPython[j].session = sessionGeneration, j # 1
                PROVE  Announced({"start"}, sessionGeneration)'
    BY <1>3 DEF Announced
  <2>1. j - 1 \in 1 .. Len(toPython') /\ toPython'[j - 1] = toPython[j]
    BY <1>4
  <2>. QED
    BY <1>3, <2>1 DEF Announced
<1>12. StartsArrive'
  <2>1. stage \in {"starting", "live"} => session # sessionGeneration
    BY <1>1, <1>3, <1>4, <1>6 DEF HostStages, LatestSession, Numbers
  <2>. QED
    BY <1>1, <1>3, <1>11, <2>1 DEF StartsArrive, FailureComes, Numbers
<1>13. LastMute'
  <2>1. ~MuteWord(1)
    BY <1>3 DEF MuteWord, Muting
  <2>2. \A kind : MuteSaid(kind) => MuteSaid(kind)'
    BY <1>1, <1>2, <1>3, <2>1, ShiftedMute
  <2>3. (\A i \in 1 .. Len(toPython) : ~MuteWord(i))
          => \A i \in 1 .. Len(toPython') : ~MuteWord(i)'
    BY <1>1, <1>2, <1>3, ShiftedMute
  <2>4. Announced({"start"}, sessionGeneration)' => Announced({"start"}, sessionGeneration)
    BY <1>3, <1>4, SMTT(60) DEF Announced
  <2>5. starting' = sessionGeneration => Announced({"start"}, sessionGeneration)
    BY <1>3, <1>4 DEF Announced
  <2>. QED
    BY <1>1, <1>3, <1>11, <2>2, <2>3, <2>4, <2>5 DEF LastMute, Numbers
<1>. QED
  BY <1>7, <1>8, <1>9, <1>10, <1>12, <1>13

LEMMA SessionStartedSessions == TypeInv /\ SessionsKnown /\ SessionStarted => SessionsKnown'
<1>. SUFFICES ASSUME TypeInv, SessionsKnown, SessionStarted PROVE SessionsKnown'
  OBVIOUS
<1>. USE DEF SessionsKnown
<1>1. Numbers /\ LengthKnown
  BY TypesGiveNumbers
<1>2. /\ UNCHANGED <<toPython, toNative, suspended, stage, sessionGeneration, generations,
                     hostMuted, unmuting>>
      /\ starting # None /\ session' = starting /\ muted' = FALSE /\ active' = TRUE
      /\ starting' = None
      /\ \A r \in Requests : stream'[r].session = stream[r].session
  <2>1. \A r \in Requests : Stale[r].session = stream[r].session
    BY DEF Stale, Streams, TypeInv, TypeOK, PyTypeOK
  <2>. QED
    BY <2>1 DEF SessionStarted, hostVars, lifeVars
<1>3. LatestSession' = LatestSession
  BY <1>2 DEF LatestSession
<1>4. HostStages'
  BY <1>2 DEF HostStages
<1>5. SessionsInOrder'
  <2>1. /\ session' <= LatestSession /\ starting' <= LatestSession
        /\ \A i \in 1 .. Len(toPython) : toPython[i].kind = "start" =>
              session' < toPython[i].session /\ starting' < toPython[i].session
    <3>1. LatestSession \in Int
      BY <1>1 DEF LatestSession, Numbers
    <3>. QED
      BY <1>1, <1>2, <3>1 DEF SessionsInOrder, Numbers
  <2>. QED
    BY <1>2, <1>3, <2>1 DEF SessionsInOrder
<1>6. EventsInOrder'
  BY <1>2, <1>3 DEF EventsInOrder
<1>7. StopsFollow'
  <2>1. session' # sessionGeneration => Announced({"stop"}, session)'
    BY <1>2 DEF StopsFollow, Announced
  <2>2. \A i \in 1 .. Len(toPython') :
           toPython'[i].kind = "start" /\ toPython'[i].session # sessionGeneration'
             => \E j \in i + 1 .. Len(toPython') :
                   toPython'[j].kind = "stop" /\ toPython'[j].session = toPython'[i].session
    BY <1>2 DEF StopsFollow
  <2>. QED
    BY <1>2, <2>1, <2>2 DEF StopsFollow
<1>8. Announced({"start"}, sessionGeneration)' <=> Announced({"start"}, sessionGeneration)
  BY <1>2 DEF Announced
<1>9. StartsArrive'
  <2>1. stage \in {"starting", "live"} => session # sessionGeneration
    BY <1>1, <1>2 DEF HostStages, LatestSession, Numbers, SessionsInOrder
  <2>. QED
    BY <1>2, <1>8, <2>1 DEF StartsArrive, FailureComes
<1>10. LastMute'
  <2>1. \A i \in 1 .. Len(toPython) :
           (MuteWord(i)' <=> MuteWord(i)) /\ (StartWord(i)' <=> StartWord(i))
    BY <1>2 DEF MuteWord, StartWord, Muting
  <2>2. \A kind : MuteSaid(kind)' <=> MuteSaid(kind)
    BY <1>2, <2>1 DEF MuteSaid
  <2>. QED
    BY <1>1, <1>2, <1>8, <2>1, <2>2 DEF LastMute, Numbers
<1>. QED
  BY <1>4, <1>5, <1>6, <1>7, <1>9, <1>10

LEMMA StartRaisesSessions == TypeInv /\ SessionsKnown /\ StartRaises => SessionsKnown'
<1>. SUFFICES ASSUME TypeInv, SessionsKnown, StartRaises PROVE SessionsKnown'
  OBVIOUS
<1>. USE DEF SessionsKnown
<1>1. Numbers /\ LengthKnown
  BY TypesGiveNumbers
<1>2. /\ UNCHANGED <<toPython, session, active, muted, control, suspended, stream, stage,
                     sessionGeneration, generations, hostMuted, unmuting>>
      /\ starting # None /\ starting' = None
  BY DEF StartRaises, hostVars, lifeVars
<1>3. LatestSession' = LatestSession /\ LatestSession \in Int
  BY <1>1, <1>2 DEF LatestSession, Numbers
<1>4. FailureComes'
  <2>1. Untagged \in Events
    BY BridgeAssumption DEF Untagged, Event, Events, Causes, SessionIds, TurnIds, None
  <2>2. toNative' = Append(toNative, Untagged) /\ toNative \in Seq(Events)
    BY <2>1, AppendIsConcat DEF StartRaises, Emit, TypeInv, TypeOK, ChannelTypeOK
  <2>3. Len(toNative) + 1 \in 1 .. Len(toNative') /\ toNative'[Len(toNative) + 1] = Untagged
    BY <2>1, <2>2, AppendProperties, LenProperties
  <2>4. Unconditional(Untagged)
    BY DEF Unconditional, Untagged, Event
  <2>. QED
    BY <2>3, <2>4 DEF FailureComes, Unconditional, None
<1>5. SessionsInOrder'
  <2>1. /\ session <= LatestSession /\ starting' <= LatestSession
        /\ \A i \in 1 .. Len(toPython) : toPython[i].kind = "start" =>
              starting' < toPython[i].session
    BY <1>1, <1>2, <1>3 DEF SessionsInOrder, Numbers
  <2>. QED
    BY <1>2, <1>3, <2>1 DEF SessionsInOrder
<1>6. HostStages' /\ EventsInOrder'
  BY <1>2, <1>3 DEF HostStages, EventsInOrder
<1>7. StopsFollow'
  BY <1>2 DEF StopsFollow, Announced, ControlWaits
<1>8. StartsArrive'
  BY <1>4 DEF StartsArrive
<1>9. LastMute'
  <2>1. \A i \in 1 .. Len(toPython) :
           (MuteWord(i)' <=> MuteWord(i)) /\ (StartWord(i)' <=> StartWord(i))
    BY <1>2 DEF MuteWord, StartWord, Muting
  <2>2. Announced({"start"}, sessionGeneration)' <=> Announced({"start"}, sessionGeneration)
    BY <1>2 DEF Announced
  <2>3. starting = sessionGeneration => session # sessionGeneration
    BY <1>1, <1>2 DEF SessionsInOrder, Numbers
  <2>4. \A kind : MuteSaid(kind)' <=> MuteSaid(kind)
    BY <1>2, <2>1 DEF MuteSaid
  <2>. QED
    BY <1>1, <1>2, <2>1, <2>2, <2>3, <2>4 DEF LastMute, Numbers
<1>. QED
  BY <1>5, <1>6, <1>7, <1>8, <1>9

\* A control frame appended for the current session is one STT will not skip.
LEMMA ControlAppended ==
    ASSUME control \in Seq(ControlEvents), NEW e \in ControlEvents,
           control' = Append(control, e), e.session \in {None, session'}
    PROVE  /\ \A kinds : e.kind \in kinds => ControlWaits(kinds)'
           /\ UNCHANGED session => \A kinds : ControlWaits(kinds) => ControlWaits(kinds)'
<1>1. /\ Len(control') = Len(control) + 1 /\ Len(control) \in Nat
      /\ control'[Len(control) + 1] = e
      /\ \A i \in 1 .. Len(control) : control'[i] = control[i]
  BY AppendProperties, LenProperties
<1>. QED
  BY <1>1 DEF ControlWaits, None

LEMMA ReceiveControlSessions == TypeInv /\ SessionsKnown /\ ReceiveControl => SessionsKnown'
<1>. SUFFICES ASSUME TypeInv, SessionsKnown, ReceiveControl PROVE SessionsKnown'
  OBVIOUS
<1>. USE DEF SessionsKnown
<1>. DEFINE e == Head(toPython)
<1>1. Numbers /\ LengthKnown
  BY TypesGiveNumbers
<1>2. Took
  BY ConsumeIsTook DEF ReceiveControl, Received, TypeInv, TypeOK, ChannelTypeOK
<1>3. /\ UNCHANGED <<session, starting, suspended, toNative, stage, sessionGeneration,
                     generations, hostMuted, unmuting>>
      /\ starting = None /\ e = toPython[1] /\ e.kind \in ControlKinds \ {"start"}
      /\ e \in ControlEvents
  BY <1>2, HeadResult
     DEF ReceiveControl, Received, hostVars, lifeVars, Took, TypeInv, TypeOK, ChannelTypeOK
<1>4. /\ Len(toPython') = Len(toPython) - 1 /\ Len(toPython) \in Nat \ {0}
      /\ \A i \in 1 .. Len(toPython') : toPython'[i] = toPython[i + 1]
      /\ 1 \in 1 .. Len(toPython)
  BY <1>1, <1>2 DEF Took, LengthKnown
<1>5. LatestSession' = LatestSession
  BY <1>3 DEF LatestSession
<1>7. HostStages'
  BY <1>3 DEF HostStages
<1>8. \A r \in Requests : stream'[r].session = stream[r].session
  <2>1. \A r \in Requests : Stale[r].session = stream[r].session
    BY DEF Stale, Streams, TypeInv, TypeOK, PyTypeOK
  <2>2. stream' = stream \/ stream' = Stale
    BY DEF ReceiveControl
  <2>. QED
    BY <2>1, <2>2
<1>9. SessionsInOrder'
  BY <1>1, <1>2, <1>3, <1>5, <1>8, Shifted DEF SessionsInOrder
<1>10. EventsInOrder'
  BY <1>1, <1>2, <1>3, <1>5, Shifted
<1>11. \A s \in {session, sessionGeneration} : \A kind :
          Announced({kind}, s) =>
             \/ toPython[1].kind = kind /\ toPython[1].session = s
             \/ \E i \in 1 .. Len(toPython') : toPython'[i].kind = kind /\ toPython'[i].session = s
  <2>. SUFFICES ASSUME NEW s, NEW kind, NEW j \in 1 .. Len(toPython), j # 1,
                       toPython[j].kind = kind, toPython[j].session = s
                PROVE  \E i \in 1 .. Len(toPython') :
                          toPython'[i].kind = kind /\ toPython'[i].session = s
    BY DEF Announced
  <2>1. j - 1 \in 1 .. Len(toPython') /\ toPython'[j - 1] = toPython[j]
    BY <1>4
  <2>. QED
    BY <2>1
<1>12. e.kind = "stop" => e.session # None /\ (stage # "idle" => e.session # sessionGeneration)
  BY <1>1, <1>3, <1>4 DEF EventsInOrder, Numbers
<1>13. e.session \notin {None, session} => UNCHANGED <<active, muted, control>>
  BY <1>3 DEF ReceiveControl
<1>14. e.session \in {None, session} =>
          /\ active' = (active /\ e.kind # "stop") /\ control' = Append(control, e)
          /\ muted' = IF e.kind \in Muting THEN e.kind = "mute" ELSE muted
  BY <1>3 DEF ReceiveControl, Muting
<1>15. ControlWaits(ControlKinds) => ControlWaits(ControlKinds)'
  <2>1. CASE UNCHANGED control
    BY <1>3, <2>1 DEF ControlWaits
  <2>2. CASE e.session \in {None, session}
    BY <1>3, <1>14, <2>2, ControlAppended DEF TypeInv, TypeOK, PyTypeOK
  <2>. QED
    BY <1>13, <2>1, <2>2
<1>16. StopsFollow'
  <2>1. \A i \in 1 .. Len(toPython') :
           toPython'[i].kind = "start" /\ toPython'[i].session # sessionGeneration
             => \E j \in i + 1 .. Len(toPython') :
                   toPython'[j].kind = "stop" /\ toPython'[j].session = toPython'[i].session
    BY <1>1, <1>2, <1>3, ShiftedStops
  <2>2. ASSUME session \notin {None, sessionGeneration}
        PROVE  \/ Announced({"stop"}, session)'
               \/ ~active' /\ (suspended' = "speech" => ControlWaits(ControlKinds)')
    <3>1. CASE e.kind = "stop" /\ e.session = session
      <4>1. ControlWaits(ControlKinds)'
        BY <1>3, <1>14, <3>1, ControlAppended DEF TypeInv, TypeOK, PyTypeOK, ControlKinds
      <4>. QED
        BY <1>14, <3>1, <4>1
    <3>2. CASE ~(e.kind = "stop" /\ e.session = session) /\ Announced({"stop"}, session)
      <4>1. ~(toPython[1].kind = "stop" /\ toPython[1].session = session)
        BY <1>3, <3>2
      <4>2. \E i \in 1 .. Len(toPython') :
               toPython'[i].kind = "stop" /\ toPython'[i].session = session
        BY <1>11, <3>2, <4>1
      <4>. QED
        BY <1>3, <4>2 DEF Announced
    <3>3. CASE ~Announced({"stop"}, session)
      <4>1. ~active /\ (suspended = "speech" => ControlWaits(ControlKinds))
        BY <2>2, <3>3 DEF StopsFollow
      <4>2. ~active'
        <5>1. CASE e.session \in {None, session}
          BY <1>14, <4>1, <5>1
        <5>2. CASE e.session \notin {None, session}
          BY <1>13, <4>1, <5>2
        <5>. QED
          BY <5>1, <5>2
      <4>. QED
        BY <1>3, <1>15, <4>1, <4>2
    <3>. QED
      BY <3>1, <3>2, <3>3
  <2>. QED
    BY <1>3, <2>1, <2>2 DEF StopsFollow
<1>17. Announced({"start"}, sessionGeneration)' <=> Announced({"start"}, sessionGeneration)
  <2>1. Announced({"start"}, sessionGeneration)' => Announced({"start"}, sessionGeneration)
    BY <1>3, <1>4 DEF Announced
  <2>. QED
    BY <1>3, <1>11, <2>1 DEF Announced
<1>18. StartsArrive'
  BY <1>1, <1>3, <1>12, <1>13, <1>14, <1>17 DEF StartsArrive, FailureComes, Numbers
<1>19. LastMute'
  <2>. SUFFICES ASSUME stage \in {"starting", "live"} PROVE LastMute'
    BY <1>3 DEF LastMute
  <2>. DEFINE kind == IF hostMuted \/ unmuting THEN "mute" ELSE "unmute"
  <2>1. CASE MuteSaid(kind)'
    BY <1>3, <2>1 DEF LastMute
  <2>2. CASE /\ \A i \in 1 .. Len(toPython) : ~MuteWord(i)
             /\ IF Announced({"start"}, sessionGeneration) \/ starting = sessionGeneration
                THEN ~hostMuted /\ ~unmuting
                ELSE session = sessionGeneration => (muted <=> hostMuted \/ unmuting)
    <3>1. \A i \in 1 .. Len(toPython') : ~MuteWord(i)'
      BY <1>1, <1>2, <1>3, <2>2, ShiftedMute
    <3>2. session = sessionGeneration => muted' = muted
      <4>1. e.kind \in Muting => e.session # sessionGeneration /\ e.session # None
        BY <1>1, <1>3, <1>4, <2>2 DEF MuteWord, EventsInOrder, Numbers
      <4>. QED
        BY <1>13, <1>14, <4>1
    <3>. QED
      BY <1>3, <1>17, <2>2, <3>1, <3>2 DEF LastMute
  <2>3. CASE MuteSaid(kind) /\ ~MuteSaid(kind)'
    <3>1. /\ MuteWord(1) /\ toPython[1].kind = kind
          /\ \A i \in 1 .. Len(toPython') : ~MuteWord(i)' /\ ~StartWord(i)'
      BY <1>1, <1>2, <1>3, <2>3, ShiftedMute
    <3>2. ~Announced({"start"}, sessionGeneration)'
      BY <1>3, <3>1 DEF Announced, StartWord
    <3>3. session = sessionGeneration => (muted' <=> hostMuted \/ unmuting)
      BY <1>3, <1>14, <3>1 DEF MuteWord
    <3>4. starting' # sessionGeneration'
      BY <1>1, <1>3 DEF Numbers
    <3>. QED
      BY <1>3, <3>1, <3>2, <3>3, <3>4 DEF LastMute
  <2>. QED
    BY <2>1, <2>2, <2>3 DEF LastMute
<1>. QED
  BY <1>7, <1>9, <1>10, <1>16, <1>18, <1>19
-----------------------------------------------------------------------------
(* Requests.  First what a step does to the events on their way to the host. *)

NativeKnown == Len(toNative) \in Nat
Emitted(e) ==
    /\ Len(toNative') = Len(toNative) + 1 /\ toNative'[Len(toNative) + 1] = e
    /\ \A i \in 1 .. Len(toNative) : toNative'[i] = toNative[i]
NativeTook ==
    /\ Len(toNative) # 0 /\ Len(toNative') = Len(toNative) - 1
    /\ \A i \in 1 .. Len(toNative') : toNative'[i] = toNative[i + 1]
    /\ Head(toNative) = toNative[1]

LEMMA EmitIsEmitted ==
    ASSUME toNative \in Seq(Events), NEW e \in Events, Emit(<<e>>)
    PROVE  Emitted(e)
<1>1. toNative' = Append(toNative, e)
  BY AppendIsConcat DEF Emit
<1>. QED
  BY <1>1, AppendProperties DEF Emitted

LEMMA HandledIsTook ==
    ASSUME toNative \in Seq(Events), toNative # <<>>, Handled
    PROVE  NativeTook
BY HeadTailProperties, LenProperties, EmptySeq DEF Handled, NativeTook

LEMMA NativeLength == TypeInv => NativeKnown
BY LenProperties DEF NativeKnown, TypeInv, TypeOK, ChannelTypeOK

LEMMA FailureStays ==
    ASSUME NativeKnown, FailureComes,
           \/ UNCHANGED toNative \/ \E e : Emitted(e)
           \/ NativeTook /\ ~Unconditional(toNative[1])
    PROVE  FailureComes'
<1>. PICK i \in 1 .. Len(toNative) : Unconditional(toNative[i])
  BY DEF FailureComes
<1>1. CASE UNCHANGED toNative
  BY <1>1 DEF FailureComes, Unconditional, None
<1>2. ASSUME NEW e, Emitted(e) PROVE FailureComes'
  <2>1. i \in 1 .. Len(toNative') /\ toNative'[i] = toNative[i]
    BY <1>2 DEF Emitted, NativeKnown
  <2>. QED
    BY <2>1 DEF FailureComes, Unconditional, None
<1>3. CASE NativeTook /\ ~Unconditional(toNative[1])
  <2>1. i # 1
    BY <1>3
  <2>2. i - 1 \in 1 .. Len(toNative') /\ toNative'[i - 1] = toNative[i]
    BY <1>3, <2>1 DEF NativeTook, NativeKnown
  <2>. QED
    BY <2>2 DEF FailureComes, Unconditional, None
<1>. QED
  BY <1>1, <1>2, <1>3

-----------------------------------------------------------------------------
(* A step of Python that opens no request.                                  *)

RequestsRemembered ==
    /\ OldDoomed /\ StoppedDoomed /\ MutedDoomed /\ FencesDoom /\ CancelsGivenUp
    /\ Remembered /\ OneWaiting /\ CancelFollows /\ Opened /\ DoneIsFinished

GivenUp == {"failed", "cancelled"}
EventFits(e) ==
    /\ e.kind # "request"
    /\ e.kind = "cancel_request" =>
          e.request \in Requests /\ stream'[e.request].state \in GivenUp
    /\ e.kind \in {"user_turn", "cancel_turn"} =>
          \A r \in Requests : Waiting(r)' => Overtaken(r)' /\ ~IsFinalization(r)'
StatesMove ==
    \A r \in Requests :
        /\ Waiting(r)' => Waiting(r)
        /\ stream[r].state \in GivenUp => stream'[r].state \in GivenUp
        /\ stream'[r].state = "done" => stream[r].state = "done" \/ task[r] = "finished"
        /\ stream'[r].state \in GivenUp => stream[r].state \in GivenUp \/ Emitted(CancelRequest(r))
WaitsKept ==
    \A r \in Requests : Waiting(r)' =>
        /\ Overtaken(r) => Overtaken(r)'
        /\ CalledOff(r) => Doomed(r)'
        /\ Answered(r) => Answered(r)' \/ FailureComes'
        /\ session' # session => Overtaken(r)'

LEMMA PythonRemembers ==
    ASSUME TypeInv, BridgeInv, RequestsRemembered, UNCHANGED hostVars, StreamsKept, StatesMove,
           WaitsKept, UNCHANGED toNative \/ \E e : Emitted(e) /\ EventFits(e)
    PROVE  RequestsRemembered'
<1>. USE DEF RequestsRemembered
<1>1. NativeKnown
  BY NativeLength
<1>2. UNCHANGED <<task, sessionGeneration, hostMuted>>
  BY DEF hostVars, lifeVars
<1>3. \A r \in Requests : Waiting(r)' /\ Doomed(r) => Doomed(r)'
  BY DEF WaitsKept, Doomed
<1>4. \A r \in Requests : IsFinalization(r)' <=> IsFinalization(r)
  BY DEF IsFinalization, StreamsKept
<1>5. OldDoomed'
  BY DEF OldDoomed, WaitsKept, StatesMove, StreamsKept
<1>6. StoppedDoomed'
  BY <1>2, <1>3 DEF StoppedDoomed, StatesMove, StreamsKept
<1>7. MutedDoomed'
  BY <1>2, <1>3, <1>4 DEF MutedDoomed, StatesMove
<1>8. /\ \A i \in 1 .. Len(toNative) : i \in 1 .. Len(toNative') /\ toNative'[i] = toNative[i]
      /\ Len(toNative) \in Nat /\ Len(toNative') \in Nat /\ Len(toNative) <= Len(toNative')
      /\ \A i \in 1 .. Len(toNative') : i \in 1 .. Len(toNative) \/ EventFits(toNative'[i])
  BY <1>1 DEF NativeKnown, Emitted
<1>9. \A r \in Requests : \A i \in 1 .. Len(toNative) : RequestAt(i, r) => RequestAt(i, r)'
  BY <1>8 DEF RequestAt
<1>10. \A r \in Requests : \A i \in 1 .. Len(toNative') :
          RequestAt(i, r)' => i \in 1 .. Len(toNative) /\ RequestAt(i, r)
  BY <1>8 DEF RequestAt, EventFits
<1>11. FencesDoom'
  <2>. SUFFICES ASSUME NEW r \in Requests, NEW i \in 1 .. Len(toNative'), Waiting(r)',
                       toNative'[i].kind \in {"user_turn", "cancel_turn"},
                       ~(Overtaken(r)' /\ ~IsFinalization(r)')
                PROVE  \E j \in i + 1 .. Len(toNative') : RequestAt(j, r)'
    BY DEF FencesDoom
  <2>1. i \in 1 .. Len(toNative) /\ toNative'[i] = toNative[i]
    BY <1>8 DEF EventFits
  <2>2. Waiting(r) /\ ~(Overtaken(r) /\ ~IsFinalization(r))
    BY <1>4 DEF StatesMove, WaitsKept
  <2>3. PICK j \in i + 1 .. Len(toNative) : RequestAt(j, r)
    BY <2>1, <2>2 DEF FencesDoom
  <2>. QED
    BY <1>8, <1>9, <2>1, <2>3
<1>12. CancelsGivenUp'
  <2>. SUFFICES ASSUME NEW i \in 1 .. Len(toNative'), toNative'[i].kind = "cancel_request"
                PROVE  stream'[toNative'[i].request].state \in GivenUp
    BY DEF CancelsGivenUp, GivenUp
  <2>1. CASE i \in 1 .. Len(toNative)
    <3>1. toNative'[i] = toNative[i] /\ toNative[i].request \in Requests
      BY <1>8, <2>1, ElementOfSeq DEF TypeInv, TypeOK, ChannelTypeOK, Events
    <3>. QED
      BY <2>1, <3>1 DEF CancelsGivenUp, StatesMove, GivenUp
  <2>2. CASE EventFits(toNative'[i])
    BY <2>2 DEF EventFits
  <2>. QED
    BY <1>8, <2>1, <2>2
<1>13. FailureComes => FailureComes'
  BY <1>1, FailureStays
<1>14. Remembered'
  <2>. SUFFICES ASSUME NEW r \in Requests, Waiting(r)'
                PROVE  (Live(r) \/ Requested(r) \/ Answered(r) \/ Doomed(r) \/ FailureComes)'
    BY DEF Remembered
  <2>1. Waiting(r)
    BY DEF StatesMove
  <2>2. Requested(r) => Requested(r)'
    BY <1>8, <1>9 DEF Requested
  <2>3. Live(r) => Live(r)'
    BY <1>2 DEF Live
  <2>4. Answered(r) => Answered(r)' \/ FailureComes'
    BY DEF WaitsKept
  <2>. QED
    BY <1>3, <1>13, <2>1, <2>2, <2>3, <2>4 DEF Remembered
<1>15. OneWaiting'
  BY DEF OneWaiting, StatesMove, StreamsKept
<1>16. CancelFollows'
  <2>. SUFFICES ASSUME NEW r \in Requests, stream'[r].state \in GivenUp
                PROVE  /\ Live(r)' => \E i \in 1 .. Len(toNative') : CancelAt(i, r)'
                       /\ \A i \in 1 .. Len(toNative') : RequestAt(i, r)' =>
                             \E j \in i + 1 .. Len(toNative') : CancelAt(j, r)'
    BY DEF CancelFollows, GivenUp
  <2>1. CASE Emitted(CancelRequest(r))
    <3>1. PICK n : n = Len(toNative) + 1
      OBVIOUS
    <3>2. n \in 1 .. Len(toNative') /\ CancelAt(n, r)'
      BY <1>8, <2>1, <3>1 DEF CancelAt, Emitted, CancelRequest, Event, StreamsKept
    <3>3. \A i \in 1 .. Len(toNative') : RequestAt(i, r)' => n \in i + 1 .. Len(toNative')
      BY <1>8, <1>10, <3>1, <3>2
    <3>. QED
      BY <3>2, <3>3
  <2>2. CASE stream[r].state \in GivenUp
    <3>1. \A i \in 1 .. Len(toNative) : CancelAt(i, r) => CancelAt(i, r)'
      BY <1>8 DEF CancelAt, StreamsKept
    <3>2. Live(r)' => Live(r)
      BY <1>2 DEF Live
    <3>3. /\ Live(r) => \E i \in 1 .. Len(toNative) : CancelAt(i, r)
          /\ \A i \in 1 .. Len(toNative) : RequestAt(i, r) =>
                \E j \in i + 1 .. Len(toNative) : CancelAt(j, r)
      BY <2>2 DEF CancelFollows, GivenUp
    <3>4. \A i \in 1 .. Len(toNative) : i \in 1 .. Len(toNative')
      BY <1>8
    <3>5. ASSUME NEW i \in 1 .. Len(toNative'), RequestAt(i, r)'
          PROVE  \E j \in i + 1 .. Len(toNative') : CancelAt(j, r)'
      <4>1. i \in 1 .. Len(toNative) /\ RequestAt(i, r)
        BY <1>10, <3>5
      <4>2. PICK j \in i + 1 .. Len(toNative) : CancelAt(j, r)
        BY <3>3, <4>1
      <4>3. j \in i + 1 .. Len(toNative') /\ j \in 1 .. Len(toNative)
        BY <1>8, <4>1
      <4>. QED
        BY <3>1, <4>2, <4>3
    <3>. QED
      BY <3>1, <3>2, <3>3, <3>4, <3>5
  <2>. QED
    BY <2>1, <2>2 DEF StatesMove
<1>17. Opened'
  BY DEF Opened, StreamsKept
<1>18. DoneIsFinished'
  BY <1>2 DEF DoneIsFinished, StatesMove
<1>. QED
  BY <1>5, <1>6, <1>7, <1>11, <1>12, <1>14, <1>15, <1>16, <1>17, <1>18

-----------------------------------------------------------------------------
(* What keeps a request overtaken, called off or answered.                  *)

TurnsKnown == SpeechWaits /\ TurnOfSession

LEMMA OvertakenStays ==
    ASSUME StreamsKept, UNCHANGED <<control, suspended, session>>, interrupts \subseteq interrupts'
    PROVE  /\ \A r \in Requests : Overtaken(r) => Overtaken(r)'
           /\ \A kinds : ControlWaits(kinds) => ControlWaits(kinds)'
BY DEF Overtaken, ControlWaits, StreamsKept, IsFinalization, ControlKinds, Interrupting, None

LEMMA CalledOffStays ==
    ASSUME LengthKnown, StreamsKept,
           \/ UNCHANGED toPython
           \/ Took /\ toPython[1].kind \notin {"stop", "interrupt", "mute"}
    PROVE  \A r \in Requests : CalledOff(r) => CalledOff(r)'
<1>. SUFFICES ASSUME NEW r \in Requests, CalledOff(r) PROVE CalledOff(r)'
  OBVIOUS
<1>1. CASE UNCHANGED toPython
  BY <1>1 DEF CalledOff, Announced, StreamsKept, IsFinalization
<1>2. CASE Took /\ toPython[1].kind \notin {"stop", "interrupt", "mute"}
  <2>1. \A i \in 1 .. Len(toPython) : i = 1 \/ (i - 1 \in 1 .. Len(toPython') /\ toPython'[i - 1] = toPython[i])
    BY <1>2 DEF Took, LengthKnown
  <2>2. PICK i \in 1 .. Len(toPython) :
           /\ toPython[i].kind \in {"stop", "interrupt"} \cup
                 (IF IsFinalization(r) THEN {"mute"} ELSE {})
           /\ toPython[i].session = stream[r].session
    BY DEF CalledOff, Announced
  <2>3. i - 1 \in 1 .. Len(toPython') /\ toPython'[i - 1] = toPython[i]
    BY <1>2, <2>1, <2>2
  <2>4. stream'[r].session = stream[r].session /\ (IsFinalization(r)' <=> IsFinalization(r))
    BY DEF StreamsKept, IsFinalization
  <2>. QED
    BY <2>2, <2>3, <2>4 DEF CalledOff, Announced
<1>. QED
  BY <1>1, <1>2

LEMMA AnsweredStays ==
    ASSUME LengthKnown, NEW r \in Requests, Answered(r), stream'[r].queue = stream[r].queue,
           \/ UNCHANGED toPython
           \/ Took /\ ~(toPython[1].kind \in Answers /\ toPython[1].request = r)
    PROVE  Answered(r)'
<1>1. CASE UNCHANGED toPython
  BY <1>1 DEF Answered, Answers
<1>2. CASE Took /\ ~(toPython[1].kind \in Answers /\ toPython[1].request = r)
  <2>1. \A i \in 1 .. Len(toPython) : i = 1 \/ (i - 1 \in 1 .. Len(toPython') /\ toPython'[i - 1] = toPython[i])
    BY <1>2 DEF Took, LengthKnown
  <2>. QED
    BY <1>2, <2>1 DEF Answered, Answers
<1>. QED
  BY <1>1, <1>2

LEMMA SpeechWaitsStays ==
    ASSUME SpeechWaits, StreamsKept, \A r \in Requests : Waiting(r)' => Waiting(r),
           UNCHANGED <<suspended, muted>>, ControlWaits(ControlKinds) => ControlWaits(ControlKinds)'
    PROVE  SpeechWaits'
BY DEF SpeechWaits, Finalizing, StreamsKept, IsFinalization, ControlKinds

\* Nothing but the queues' ends moves: the waits are kept.
LEMMA StillWaits ==
    ASSUME TypeInv, StreamsKept, UNCHANGED <<control, suspended, session>>,
           interrupts \subseteq interrupts',
           \/ UNCHANGED toPython
           \/ Took /\ toPython[1].kind \notin {"stop", "interrupt", "mute"},
           \A r \in Requests : Waiting(r)' /\ Answered(r) => Answered(r)' \/ FailureComes'
    PROVE  WaitsKept
BY TypesGiveNumbers, OvertakenStays, CalledOffStays DEF WaitsKept, Doomed

-----------------------------------------------------------------------------
(* Leaving stream(): the request is closed and cancelled.                   *)

Closing(ids, state) ==
    stream' = [r \in Requests |-> IF r \in ids THEN Closed(r, state) ELSE stream[r]]

LEMMA Closes ==
    ASSUME TypeInv, NEW ids \in SUBSET Requests, \A r \in ids : Pending(r),
           NEW state \in {"done", "failed", "cancelled"}, Closing(ids, state),
           \/ UNCHANGED toNative /\ (ids = {} \/ state = "done")
           \/ \E r \in ids : ids = {r} /\ Emitted(CancelRequest(r)) /\ state \in GivenUp,
           state = "done" => \A r \in ids : task[r] = "finished"
    PROVE  /\ StreamsKept /\ StatesMove
           /\ UNCHANGED toNative \/ \E e : Emitted(e) /\ EventFits(e)
           /\ \A r \in Requests : Waiting(r)' => r \notin ids /\ stream'[r] = stream[r]
           /\ \A r \in Requests : r \notin ids => stream'[r] = stream[r]
<1>1. stream \in [Requests -> Streams]
  BY DEF TypeInv, TypeOK, PyTypeOK
<1>2. StreamsKept
  BY <1>1, StreamsFromRecords DEF Closing
<1>3. /\ \A r \in ids : stream'[r].state = state
      /\ \A r \in Requests : r \notin ids => stream'[r] = stream[r]
  BY <1>1 DEF Closing, Closed, Streams
<1>4. \A r \in Requests : Waiting(r)' => r \notin ids /\ stream'[r] = stream[r]
  BY <1>3 DEF Waiting
<1>5. StatesMove
  <2>. SUFFICES ASSUME NEW r \in Requests
                PROVE  /\ Waiting(r)' => Waiting(r)
                       /\ stream[r].state \in GivenUp => stream'[r].state \in GivenUp
                       /\ stream'[r].state = "done" =>
                             stream[r].state = "done" \/ task[r] = "finished"
                       /\ stream'[r].state \in GivenUp =>
                             stream[r].state \in GivenUp \/ Emitted(CancelRequest(r))
    BY DEF StatesMove
  <2>1. CASE r \notin ids
    BY <1>3, <2>1 DEF Waiting
  <2>2. CASE r \in ids
    BY <1>3, <2>2 DEF Waiting, Pending, GivenUp
  <2>. QED
    BY <2>1, <2>2
<1>6. \A r \in ids : EventFits(CancelRequest(r)) \/ state \notin GivenUp
  <2>. SUFFICES ASSUME NEW r \in ids, state \in GivenUp PROVE EventFits(CancelRequest(r))
    OBVIOUS
  <2>1. CancelRequest(r).kind = "cancel_request" /\ CancelRequest(r).request = r
    BY DEF CancelRequest, Event
  <2>. QED
    BY <1>3, <2>1 DEF EventFits
<1>. QED
  BY <1>2, <1>3, <1>4, <1>5, <1>6

\* At most one request of an operation waits: one event cancels them all.
LEMMA CancelsOne ==
    ASSUME TypeInv, OneWaiting, NEW ids \in SUBSET Requests,
           \A r, q \in ids : Waiting(r) /\ stream[r].op = stream[q].op,
           Emit(CancelEvents(ids))
    PROVE  \/ ids = {} /\ UNCHANGED toNative
           \/ \E r \in ids : ids = {r} /\ Emitted(CancelRequest(r))
<1>1. toNative \in Seq(Events)
  BY DEF TypeInv, TypeOK, ChannelTypeOK
<1>2. CASE ids = {}
  BY <1>1, <1>2, ConcatEmptySeq DEF Emit, CancelEvents
<1>3. CASE ids # {}
  <2>. DEFINE r == CHOOSE q \in ids : TRUE
  <2>1. r \in ids
    BY <1>3
  <2>. HIDE DEF r
  <2>2. ids = {r}
    BY <2>1 DEF OneWaiting
  <2>3. CancelRequest(r) \in Events
    BY <2>1 DEF CancelRequest, Event, Events, Streams, TypeInv, TypeOK, PyTypeOK
  <2>4. Emit(<<CancelRequest(r)>>)
    BY <1>3 DEF CancelEvents, r
  <2>. QED
    BY <1>1, <2>1, <2>2, <2>3, <2>4, EmitIsEmitted
<1>. QED
  BY <1>2, <1>3

-----------------------------------------------------------------------------
(* The steps of receive().                                                  *)

LEMMA ReceiveResultRemembers ==
    ASSUME TypeInv, BridgeInv, RequestsRemembered, TurnsKnown, ReceiveResult
    PROVE  RequestsRemembered' /\ TurnsKnown'
<1>. DEFINE e == Head(toPython)
<1>1. NativeKnown /\ LengthKnown /\ stream \in [Requests -> Streams]
  BY NativeLength, TypesGiveNumbers DEF TypeInv, TypeOK, PyTypeOK
<1>2. Took
  BY ConsumeIsTook DEF ReceiveResult, Received, TypeInv, TypeOK, ChannelTypeOK
<1>3. e = toPython[1] /\ e.kind \in ResultKinds /\ e.request \in Requests
  BY <1>2, HeadResult
     DEF ReceiveResult, Received, Took, TypeInv, TypeOK, ChannelTypeOK, ResultEvents
<1>4. UNCHANGED hostVars
      /\ UNCHANGED <<session, turn, turns, turnSession, control, suspended, interrupts, muted>>
  BY DEF ReceiveResult
<1>5. CASE UNCHANGED stream
  <2>1. StreamsKept /\ StatesMove /\ \A r \in Requests : Waiting(r)' => Waiting(r)
    BY <1>5 DEF StreamsKept, StatesMove, Waiting
  <2>2. UNCHANGED toNative \/ (Emit(<<Untagged>>) /\ Pending(e.request))
    BY <1>1, <1>5 DEF ReceiveResult
  <2>3. UNCHANGED toNative \/ Emitted(Untagged)
    <3>1. Untagged \in Events
      BY BridgeAssumption DEF Untagged, Event, Events, Causes, SessionIds, TurnIds, None
    <3>. QED
      BY <2>2, <3>1, EmitIsEmitted DEF TypeInv, TypeOK, ChannelTypeOK
  <2>4. Emitted(Untagged) => FailureComes' /\ EventFits(Untagged)
    <3>1. /\ Untagged.kind = "error" /\ Untagged.session = None /\ Untagged.turn = None
      BY DEF Untagged, Event
    <3>. QED
      BY <1>1, <3>1 DEF EventFits, Emitted, NativeKnown, FailureComes, Unconditional, None
  <2>5. ASSUME NEW r \in Requests, Waiting(r)', Answered(r)
        PROVE  Answered(r)' \/ FailureComes'
    <3>1. CASE e.kind \in Answers /\ e.request = r
      <4>1. Pending(e.request)
        BY <1>5, <2>5, <3>1 DEF Pending, Waiting
      <4>2. CASE Len(stream[r].queue) < QueueSize
        <5>1. stream'[r].queue = Append(stream[r].queue, e.kind)
          BY <1>1, <3>1, <4>1, <4>2 DEF ReceiveResult, Streams
        <5>2. stream[r].queue \in Seq(ResultKinds)
          BY <1>1 DEF Streams
        <5>3. stream'[r].queue # stream[r].queue
          BY <1>3, <5>1, <5>2, AppendProperties, LenProperties
        <5>. QED
          BY <1>5, <5>3
      <4>3. CASE ~(Len(stream[r].queue) < QueueSize)
        <5>1. Emit(<<Untagged>>)
          BY <3>1, <4>1, <4>3 DEF ReceiveResult
        <5>2. Untagged \in Events
          BY BridgeAssumption DEF Untagged, Event, Events, Causes, SessionIds, TurnIds, None
        <5>. QED
          BY <2>4, <5>1, <5>2, EmitIsEmitted DEF TypeInv, TypeOK, ChannelTypeOK
      <4>. QED
        BY <4>2, <4>3
    <3>2. CASE ~(e.kind \in Answers /\ e.request = r)
      BY <1>1, <1>2, <1>3, <1>5, <2>5, <3>2, AnsweredStays
    <3>. QED
      BY <3>1, <3>2
  <2>6. WaitsKept
    BY <1>2, <1>3, <1>4, <2>1, <2>5, StillWaits DEF ResultKinds
  <2>7. RequestsRemembered'
    BY <1>4, <2>1, <2>3, <2>4, <2>6, PythonRemembers
  <2>8. TurnsKnown'
    BY <1>4, <2>1, OvertakenStays, SpeechWaitsStays DEF TurnsKnown, TurnOfSession
  <2>. QED
    BY <2>7, <2>8
<1>6. CASE ~UNCHANGED stream
  <2>1. /\ stream' = [stream EXCEPT ![e.request].queue = Append(stream[e.request].queue, e.kind)]
        /\ UNCHANGED toNative
    BY <1>6 DEF ReceiveResult
  <2>2. /\ StreamsKept /\ StatesMove /\ \A r \in Requests : Waiting(r)' => Waiting(r)
        /\ stream'[e.request].queue = Append(stream[e.request].queue, e.kind)
        /\ \A r \in Requests : r # e.request => stream'[r].queue = stream[r].queue
    BY <1>1, <1>3, <2>1 DEF StreamsKept, StatesMove, Waiting, Streams
  <2>3. ASSUME NEW r \in Requests, Answered(r)
        PROVE  Answered(r)'
    <3>1. CASE r # e.request
      BY <1>1, <1>2, <1>3, <2>2, <2>3, <3>1, AnsweredStays
    <3>2. CASE r = e.request
      <4>. DEFINE q == stream[r].queue
      <4>1. q \in Seq(ResultKinds)
        BY <1>1 DEF Streams
      <4>. HIDE DEF q
      <4>2. /\ Len(Append(q, e.kind)) = Len(q) + 1 /\ Append(q, e.kind)[Len(q) + 1] = e.kind
            /\ \A i \in 1 .. Len(q) : Append(q, e.kind)[i] = q[i]
            /\ Len(q) \in Nat
        BY <1>3, <4>1, AppendProperties, LenProperties
      <4>3. stream'[r].queue = Append(q, e.kind)
        BY <2>2, <3>2 DEF q
      <4>4. CASE \E i \in 1 .. Len(q) : q[i] \in Answers
        BY <4>2, <4>3, <4>4 DEF Answered, Answers
      <4>5. CASE e.kind \in Answers
        BY <4>2, <4>3, <4>5 DEF Answered, Answers
      <4>6. CASE \E i \in 2 .. Len(toPython) : toPython[i].kind \in Answers /\ toPython[i].request = r
        <5>1. \A i \in 2 .. Len(toPython) :
                 i - 1 \in 1 .. Len(toPython') /\ toPython'[i - 1] = toPython[i]
          BY <1>1, <1>2 DEF Took, LengthKnown
        <5>. QED
          BY <4>6, <5>1 DEF Answered, Answers
      <4>7. \A i \in 1 .. Len(toPython) : i = 1 \/ i \in 2 .. Len(toPython)
        BY <1>1 DEF LengthKnown
      <4>. QED
        BY <1>3, <2>3, <4>4, <4>5, <4>6, <4>7 DEF Answered, q
    <3>. QED
      BY <3>1, <3>2
  <2>4. WaitsKept
    BY <1>2, <1>3, <1>4, <2>2, <2>3, StillWaits DEF ResultKinds
  <2>5. RequestsRemembered'
    BY <1>4, <2>1, <2>2, <2>4, PythonRemembers
  <2>6. TurnsKnown'
    BY <1>4, <2>2, OvertakenStays, SpeechWaitsStays DEF TurnsKnown, TurnOfSession
  <2>. QED
    BY <2>5, <2>6
<1>. QED
  BY <1>5, <1>6

LEMMA ReceiveStartRemembers ==
    ASSUME TypeInv, BridgeInv, RequestsRemembered, TurnsKnown, ReceiveStart
    PROVE  RequestsRemembered' /\ TurnsKnown'
<1>1. LengthKnown
  BY TypesGiveNumbers
<1>2. Took /\ toPython[1].kind = "start"
  BY ConsumeIsTook DEF ReceiveStart, Received, TypeInv, TypeOK, ChannelTypeOK, Took
<1>3. UNCHANGED hostVars /\ interrupts \subseteq interrupts'
      /\ UNCHANGED <<session, turn, turns, turnSession, control, suspended, muted, stream, toNative>>
  BY DEF ReceiveStart
<1>4. StreamsKept /\ StatesMove /\ \A r \in Requests : Waiting(r)' => Waiting(r)
  BY <1>3 DEF StreamsKept, StatesMove, Waiting
<1>5. \A r \in Requests : Answered(r) => Answered(r)'
  BY <1>1, <1>2, <1>3, AnsweredStays DEF Answers
<1>6. WaitsKept
  BY <1>2, <1>3, <1>4, <1>5, StillWaits
<1>7. RequestsRemembered'
  BY <1>3, <1>4, <1>6, PythonRemembers
<1>8. TurnsKnown'
  BY <1>3, <1>4, OvertakenStays, SpeechWaitsStays DEF TurnsKnown, TurnOfSession
<1>. QED
  BY <1>7, <1>8

LEMMA StaleStates ==
    ASSUME TypeInv, stream' = stream \/ stream' = Stale
    PROVE  /\ StreamsKept /\ StatesMove /\ \A r \in Requests : Waiting(r)' => Waiting(r)
           /\ \A r \in Requests : stream'[r].queue = stream[r].queue
BY DEF StreamsKept, StatesMove, Waiting, Stale, Streams, TypeInv, TypeOK, PyTypeOK

LEMMA SessionStartedRemembers ==
    ASSUME TypeInv, BridgeInv, RequestsRemembered, TurnsKnown, SessionStarted
    PROVE  RequestsRemembered' /\ TurnsKnown'
<1>. DEFINE e == Control("start", starting)
<1>1. LengthKnown
  BY TypesGiveNumbers
<1>2. UNCHANGED hostVars
      /\ UNCHANGED <<turns, turnSession, suspended, interrupts, toNative, toPython>>
      /\ session' = starting /\ control' = Append(control, e) /\ muted' = FALSE
      /\ turn' = None /\ stream' = Stale
  BY DEF SessionStarted
<1>3. e \in ControlEvents /\ e.session = starting /\ e.kind = "start"
  BY ControlType DEF TypeInv, TypeOK, PyTypeOK, ControlKinds, Control
<1>. HIDE DEF e
<1>4. ControlWaits(ControlKinds)' /\ ControlWaits(Interrupting)'
  <2>1. \A kinds : e.kind \in kinds => ControlWaits(kinds)'
    BY <1>2, <1>3, ControlAppended DEF TypeInv, TypeOK, PyTypeOK
  <2>. QED
    BY <1>3, <2>1 DEF ControlKinds, Interrupting
<1>5. \A r \in Requests : Overtaken(r)'
  BY <1>4 DEF Overtaken
<1>6. /\ StreamsKept /\ StatesMove /\ \A r \in Requests : Waiting(r)' => Waiting(r)
      /\ \A r \in Requests : stream'[r].queue = stream[r].queue
  BY <1>2, StaleStates
<1>7. \A r \in Requests : Answered(r) => Answered(r)'
  BY <1>1, <1>2, <1>6, AnsweredStays
<1>8. WaitsKept
  BY <1>5, <1>7 DEF WaitsKept, Doomed
<1>9. RequestsRemembered'
  BY <1>2, <1>6, <1>8, PythonRemembers
<1>10. TurnsKnown'
  BY <1>2, <1>4, <1>6
     DEF TurnsKnown, TurnOfSession, SpeechWaits, Finalizing, StreamsKept, IsFinalization,
         ControlKinds, None
<1>. QED
  BY <1>9, <1>10

LEMMA StartRaisesRemembers ==
    ASSUME TypeInv, BridgeInv, RequestsRemembered, TurnsKnown, StartRaises
    PROVE  RequestsRemembered' /\ TurnsKnown'
<1>1. LengthKnown
  BY TypesGiveNumbers
<1>2. UNCHANGED hostVars
      /\ UNCHANGED <<session, turn, turns, turnSession, control, suspended, interrupts, muted,
                     stream, toPython>>
  BY DEF StartRaises
<1>3. Emitted(Untagged) /\ EventFits(Untagged)
  <2>1. Untagged \in Events /\ Untagged.kind = "error"
    BY BridgeAssumption DEF Untagged, Event, Events, Causes, SessionIds, TurnIds, None
  <2>. QED
    BY <2>1, EmitIsEmitted DEF StartRaises, EventFits, TypeInv, TypeOK, ChannelTypeOK
<1>4. /\ StreamsKept /\ StatesMove /\ \A r \in Requests : Waiting(r)' => Waiting(r)
      /\ \A r \in Requests : stream'[r].queue = stream[r].queue
  BY <1>2, StaleStates
<1>5. \A r \in Requests : Answered(r) => Answered(r)'
  BY <1>1, <1>2, <1>4, AnsweredStays
<1>6. WaitsKept
  BY <1>2, <1>4, <1>5, StillWaits
<1>7. RequestsRemembered'
  BY <1>2, <1>3, <1>4, <1>6, PythonRemembers
<1>8. TurnsKnown'
  BY <1>2, <1>4, OvertakenStays, SpeechWaitsStays DEF TurnsKnown, TurnOfSession
<1>. QED
  BY <1>7, <1>8

LEMMA ReceiveControlRemembers ==
    ASSUME TypeInv, BridgeInv, RequestsRemembered, TurnsKnown, ReceiveControl
    PROVE  RequestsRemembered' /\ TurnsKnown'
<1>. DEFINE e == Head(toPython)
<1>1. LengthKnown /\ control \in Seq(ControlEvents)
  BY TypesGiveNumbers DEF TypeInv, TypeOK, PyTypeOK
<1>2. Took
  BY ConsumeIsTook DEF ReceiveControl, Received, TypeInv, TypeOK, ChannelTypeOK
<1>3. e = toPython[1] /\ e.kind \in ControlKinds \ {"start"} /\ e \in ControlEvents
  BY <1>2, HeadResult
     DEF ReceiveControl, Received, Took, TypeInv, TypeOK, ChannelTypeOK
<1>4. UNCHANGED hostVars
      /\ UNCHANGED <<session, turn, turns, turnSession, suspended, interrupts, toNative>>
      /\ (stream' = stream \/ stream' = Stale)
  BY DEF ReceiveControl
<1>5. /\ StreamsKept /\ StatesMove /\ \A r \in Requests : Waiting(r)' => Waiting(r)
      /\ \A r \in Requests : stream'[r].queue = stream[r].queue
  BY <1>4, StaleStates
<1>6. e.session \notin {None, session} => UNCHANGED <<control, muted>>
  BY DEF ReceiveControl
<1>7. e.session \in {None, session} =>
         /\ control' = Append(control, e)
         /\ muted' = IF e.kind \in {"mute", "unmute"} THEN e.kind = "mute" ELSE muted
  BY DEF ReceiveControl
<1>. HIDE DEF e
<1>8. /\ \A kinds : ControlWaits(kinds) => ControlWaits(kinds)'
      /\ e.session \in {None, session} => \A kinds : e.kind \in kinds => ControlWaits(kinds)'
  <2>1. CASE e.session \in {None, session}
    BY <1>1, <1>3, <1>4, <1>7, <2>1, ControlAppended
  <2>2. CASE e.session \notin {None, session}
    BY <1>4, <1>6, <2>2 DEF ControlWaits, None
  <2>. QED
    BY <2>1, <2>2
<1>9. \A r \in Requests : Overtaken(r) => Overtaken(r)'
  BY <1>4, <1>5, <1>8
     DEF Overtaken, StreamsKept, IsFinalization, ControlKinds, Interrupting
<1>10. \A r \in Requests : Answered(r) => Answered(r)'
  <2>1. toPython[1].kind \notin Answers
    BY <1>3 DEF ControlKinds, Answers
  <2>. QED
    BY <1>1, <1>2, <1>5, <2>1, AnsweredStays
<1>11. ASSUME NEW r \in Requests, Waiting(r), CalledOff(r)
       PROVE  Doomed(r)'
  <2>. DEFINE kinds == {"stop", "interrupt"} \cup (IF IsFinalization(r) THEN {"mute"} ELSE {})
  <2>1. PICK i \in 1 .. Len(toPython) :
           toPython[i].kind \in kinds /\ toPython[i].session = stream[r].session
    BY <1>11 DEF CalledOff, Announced
  <2>2. stream'[r].session = stream[r].session /\ (IsFinalization(r)' <=> IsFinalization(r))
    BY <1>5 DEF StreamsKept, IsFinalization
  <2>3. CASE i # 1
    <3>1. i - 1 \in 1 .. Len(toPython') /\ toPython'[i - 1] = toPython[i]
      BY <1>1, <1>2, <2>3 DEF Took, LengthKnown
    <3>. QED
      BY <2>1, <2>2, <3>1 DEF Doomed, CalledOff, Announced
  <2>4. CASE i = 1 /\ stream[r].session # session
    BY <1>9, <1>11, <2>4 DEF RequestsRemembered, OldDoomed, Doomed
  <2>5. CASE i = 1 /\ stream[r].session = session
    <3>1. e.kind \in kinds /\ e.session = session
      BY <1>3, <2>1, <2>5
    <3>2. CASE IsFinalization(r)
      <4>1. ControlWaits(ControlKinds)'
        BY <1>3, <1>8, <3>1 DEF ControlKinds
      <4>. QED
        BY <2>2, <3>2, <4>1 DEF Doomed, Overtaken, ControlKinds
    <3>3. CASE ~IsFinalization(r)
      <4>1. ControlWaits(Interrupting)'
        BY <1>8, <3>1, <3>3 DEF Interrupting
      <4>. QED
        BY <2>2, <3>3, <4>1 DEF Doomed, Overtaken, Interrupting
    <3>. QED
      BY <3>2, <3>3
  <2>. QED
    BY <2>3, <2>4, <2>5
<1>12. WaitsKept
  BY <1>4, <1>5, <1>9, <1>10, <1>11 DEF WaitsKept
<1>13. RequestsRemembered'
  BY <1>4, <1>5, <1>12, PythonRemembers
<1>14. SpeechWaits'
  <2>1. muted' => muted \/ e.session \in {None, session}
    BY <1>6
  <2>2. suspended = "speech" /\ muted' => ControlWaits(ControlKinds)'
    <3>1. e.session \in {None, session} => ControlWaits(ControlKinds)'
      BY <1>3, <1>8 DEF ControlKinds
    <3>. QED
      BY <1>8, <2>1, <3>1 DEF TurnsKnown, SpeechWaits
  <2>3. suspended' \in ControlKinds => Finalizing' = {}
    BY <1>4, <1>5
       DEF TurnsKnown, SpeechWaits, Finalizing, StreamsKept, IsFinalization, ControlKinds
  <2>. QED
    BY <1>4, <2>2, <2>3 DEF SpeechWaits, ControlKinds
<1>15. TurnOfSession'
  BY <1>4 DEF TurnsKnown, TurnOfSession
<1>. QED
  BY <1>13, <1>14, <1>15 DEF TurnsKnown

-----------------------------------------------------------------------------
(* The steps of the STT service's input.                                    *)

LEMMA FinalizingIds ==
    ASSUME TypeInv
    PROVE  /\ Finalizing \in SUBSET Requests
           /\ \A r \in Finalizing : Pending(r) /\ Waiting(r) /\ IsFinalization(r)
           /\ \A r, q \in Finalizing : Waiting(r) /\ stream[r].op = stream[q].op
BY DEF Finalizing, Waiting, Pending, IsFinalization

\* Cancelling what finalizes, as ResetInput and SpeechResumes do.
LEMMA FinalizingCancelled ==
    ASSUME TypeInv, OneWaiting, stream' = Cancelled(Finalizing), Emit(CancelEvents(Finalizing))
    PROVE  /\ StreamsKept /\ StatesMove
           /\ UNCHANGED toNative \/ \E e : Emitted(e) /\ EventFits(e)
           /\ \A r \in Requests : Waiting(r)' => ~IsFinalization(r)' /\ stream'[r] = stream[r]
           /\ Finalizing' = {}
<1>1. \/ Finalizing = {} /\ UNCHANGED toNative
      \/ \E r \in Finalizing : Finalizing = {r} /\ Emitted(CancelRequest(r))
  BY FinalizingIds, CancelsOne
<1>2. Closing(Finalizing, "cancelled")
  BY DEF Closing, Cancelled
<1>. DEFINE ids == Finalizing
<1>3. ids \in SUBSET Requests /\ \A r \in ids : Pending(r)
  BY FinalizingIds
<1>4. \/ UNCHANGED toNative /\ (ids = {} \/ "cancelled" = "done")
      \/ \E r \in ids : ids = {r} /\ Emitted(CancelRequest(r)) /\ "cancelled" \in GivenUp
  BY <1>1 DEF GivenUp
<1>. HIDE DEF ids
<1>5. /\ StreamsKept /\ StatesMove
      /\ UNCHANGED toNative \/ \E e : Emitted(e) /\ EventFits(e)
      /\ \A r \in Requests : Waiting(r)' => r \notin ids /\ stream'[r] = stream[r]
  <2>1. Closing(ids, "cancelled")
    BY <1>2 DEF ids
  <2>. QED
    BY <1>3, <1>4, <2>1, Closes
<1>6. \A r \in Requests : Waiting(r)' => ~IsFinalization(r)' /\ stream'[r] = stream[r]
  BY <1>5 DEF ids, Finalizing, Waiting, IsFinalization
<1>7. Finalizing' = {}
  BY <1>6 DEF Finalizing
<1>. QED
  BY <1>5, <1>6, <1>7

LEMMA ResetInputRemembers ==
    ASSUME TypeInv, BridgeInv, RequestsRemembered, TurnsKnown, ResetInput
    PROVE  RequestsRemembered' /\ TurnsKnown'
<1>. DEFINE e == Head(control)
            skipped == e.session # None /\ e.session # session
<1>1. LengthKnown /\ control \in Seq(ControlEvents) /\ OneWaiting
  BY TypesGiveNumbers DEF TypeInv, TypeOK, PyTypeOK, RequestsRemembered
<1>2. UNCHANGED hostVars /\ suspended = "none"
      /\ UNCHANGED <<session, turn, turns, turnSession, interrupts, muted, toPython>>
  BY DEF ResetInput
<1>3. /\ Len(control) \in Nat \ {0} /\ Len(control') = Len(control) - 1 /\ e = control[1]
      /\ \A i \in 1 .. Len(control') : control'[i] = control[i + 1]
      /\ e.kind \in ControlKinds
  <2>1. control # <<>> /\ control' = Tail(control)
    BY DEF ResetInput
  <2>2. e \in ControlEvents
    BY <1>1, <2>1, HeadTailProperties
  <2>. QED
    BY <1>1, <2>1, <2>2, HeadTailProperties, EmptySeq, LenProperties DEF ControlEvents
<1>4. skipped => UNCHANGED <<stream, suspended, toNative>>
  BY DEF ResetInput
<1>5. ~skipped => /\ stream' = Cancelled(Finalizing) /\ Emit(CancelEvents(Finalizing))
                  /\ suspended' = e.kind
  BY DEF ResetInput
<1>. HIDE DEF e
<1>6. skipped => \A kinds : ControlWaits(kinds) => ControlWaits(kinds)'
  <2>. SUFFICES ASSUME skipped, NEW kinds, NEW i \in 1 .. Len(control),
                       control[i].kind \in kinds, control[i].session \in {None, session}
                PROVE  ControlWaits(kinds)'
    BY DEF ControlWaits
  <2>1. i # 1
    BY <1>3
  <2>2. i - 1 \in 1 .. Len(control') /\ control'[i - 1] = control[i]
    BY <1>3, <2>1
  <2>. QED
    BY <1>2, <2>2 DEF ControlWaits, None
<1>7. /\ StreamsKept /\ StatesMove
      /\ UNCHANGED toNative \/ \E ev : Emitted(ev) /\ EventFits(ev)
      /\ \A r \in Requests : Waiting(r)' => Waiting(r) /\ stream'[r] = stream[r]
      /\ \A r \in Requests : Waiting(r)' => skipped \/ ~IsFinalization(r)'
      /\ suspended' \in ControlKinds => Finalizing' = {}
  <2>1. CASE skipped
    <3>1. StreamsKept /\ StatesMove /\ \A r \in Requests : Waiting(r)' => Waiting(r) /\ stream'[r] = stream[r]
      BY <1>4, <2>1 DEF StreamsKept, StatesMove, Waiting
    <3>. QED
      BY <1>2, <1>4, <2>1, <3>1 DEF ControlKinds
  <2>2. CASE ~skipped
    BY <1>1, <1>5, <2>2, FinalizingCancelled DEF Waiting
  <2>. QED
    BY <2>1, <2>2
<1>8. ASSUME NEW r \in Requests, Waiting(r)', Overtaken(r)
      PROVE  Overtaken(r)'
  <2>1. stream'[r] = stream[r] /\ (IsFinalization(r)' <=> IsFinalization(r))
    BY <1>7, <1>8 DEF IsFinalization
  <2>2. CASE skipped
    BY <1>2, <1>4, <1>6, <1>8, <2>1, <2>2 DEF Overtaken, ControlKinds, Interrupting
  <2>3. CASE ~skipped
    <3>1. ~IsFinalization(r)
      BY <1>7, <1>8, <2>1, <2>3
    <3>2. CASE stream[r].op \in interrupts
      BY <1>2, <2>1, <3>1, <3>2 DEF Overtaken, Interrupting
    <3>3. CASE e.kind \in Interrupting
      BY <1>5, <2>1, <2>3, <3>1, <3>3 DEF Overtaken, Interrupting
    <3>4. CASE e.kind \notin Interrupting /\ ControlWaits(Interrupting)
      <4>1. PICK i \in 1 .. Len(control) :
               control[i].kind \in Interrupting /\ control[i].session \in {None, session}
        BY <3>4 DEF ControlWaits
      <4>2. i # 1
        BY <1>3, <3>4, <4>1
      <4>3. i - 1 \in 1 .. Len(control') /\ control'[i - 1] = control[i]
        BY <1>3, <4>2
      <4>4. ControlWaits(Interrupting)'
        BY <1>2, <4>1, <4>3 DEF ControlWaits, None, Interrupting
      <4>. QED
        BY <2>1, <3>1, <4>4 DEF Overtaken, Interrupting
    <3>5. suspended \notin Interrupting
      BY <1>2 DEF Interrupting
    <3>. QED
      BY <1>8, <3>1, <3>2, <3>3, <3>4, <3>5 DEF Overtaken
  <2>. QED
    BY <2>2, <2>3
<1>9. WaitsKept
  <2>1. \A r \in Requests : CalledOff(r) => CalledOff(r)'
    BY <1>1, <1>2, <1>7, CalledOffStays
  <2>2. \A r \in Requests : Waiting(r)' /\ Answered(r) => Answered(r)'
    BY <1>1, <1>2, <1>7, AnsweredStays
  <2>. QED
    BY <1>2, <1>8, <2>1, <2>2 DEF WaitsKept, Doomed
<1>10. RequestsRemembered'
  BY <1>2, <1>7, <1>9, PythonRemembers
<1>11. TurnsKnown'
  <2>1. suspended' # "speech"
    BY <1>2, <1>3, <1>4, <1>5 DEF ControlKinds
  <2>. QED
    BY <1>2, <1>7, <2>1 DEF TurnsKnown, TurnOfSession, SpeechWaits, ControlKinds
<1>. QED
  BY <1>10, <1>11


\* A step that interrupts the turn's services while nothing finalizes.
LEMMA InterruptsAll ==
    ASSUME Opened, Finalizing = {}, UNCHANGED stream, TurnOps \subseteq interrupts'
    PROVE  \A r \in Requests : Waiting(r)' => Overtaken(r)' /\ ~IsFinalization(r)'
<1>. SUFFICES ASSUME NEW r \in Requests, Waiting(r)' PROVE Overtaken(r)' /\ ~IsFinalization(r)'
  OBVIOUS
<1>1. Waiting(r) /\ stream'[r] = stream[r]
  BY DEF Waiting
<1>2. ~IsFinalization(r) /\ stream[r].op \in Ops
  BY <1>1 DEF Finalizing, Opened, Waiting
<1>3. stream'[r].op \in interrupts' /\ ~IsFinalization(r)'
  BY <1>1, <1>2 DEF IsFinalization, TurnOps
<1>. QED
  BY <1>3 DEF Overtaken

LEMMA ControlProcessedRemembers ==
    ASSUME TypeInv, BridgeInv, RequestsRemembered, TurnsKnown, ControlProcessed
    PROVE  RequestsRemembered' /\ TurnsKnown'
<1>. DEFINE e == Event("cancel_turn", None, turn, session, "none")
<1>1. LengthKnown /\ toNative \in Seq(Events)
  BY TypesGiveNumbers DEF TypeInv, TypeOK, ChannelTypeOK
<1>2. UNCHANGED hostVars /\ suspended' = "none"
      /\ UNCHANGED <<session, turns, turnSession, control, muted, stream, toPython>>
  BY DEF ControlProcessed
<1>3. /\ StreamsKept /\ StatesMove /\ \A r \in Requests : Waiting(r)' => Waiting(r)
      /\ \A r \in Requests : stream'[r].queue = stream[r].queue
  BY <1>2, StaleStates
<1>4. \A r \in Requests : CalledOff(r) => CalledOff(r)'
  BY <1>1, <1>2, <1>3, CalledOffStays
<1>5. \A r \in Requests : Answered(r) => Answered(r)'
  BY <1>1, <1>2, <1>3, AnsweredStays
<1>6. TurnsKnown'
  <2>1. turn' = turn \/ turn' = None
    BY DEF ControlProcessed
  <2>2. SpeechWaits'
    BY <1>2 DEF SpeechWaits, ControlKinds
  <2>. QED
    BY <1>2, <2>1, <2>2 DEF TurnsKnown, TurnOfSession, None
<1>7. CASE suspended \in Interrupting
  <2>1. Finalizing = {} /\ Opened
    BY <1>7 DEF TurnsKnown, SpeechWaits, RequestsRemembered, Interrupting, ControlKinds
  <2>2. TurnOps \subseteq interrupts' /\ Emit(<<e>>)
    BY <1>7 DEF ControlProcessed, Interrupting
  <2>3. \A r \in Requests : Waiting(r)' => Overtaken(r)' /\ ~IsFinalization(r)'
    BY <1>2, <2>1, <2>2, InterruptsAll
  <2>4. e \in Events /\ e.kind = "cancel_turn"
    BY BridgeAssumption
       DEF Event, Events, Causes, TypeInv, TypeOK, PyTypeOK, None
  <2>. HIDE DEF e
  <2>5. Emitted(e) /\ EventFits(e)
    BY <1>1, <2>2, <2>3, <2>4, EmitIsEmitted DEF EventFits
  <2>6. WaitsKept
    BY <1>2, <1>5, <2>3 DEF WaitsKept, Doomed
  <2>7. RequestsRemembered'
    BY <1>2, <1>3, <2>5, <2>6, PythonRemembers
  <2>. QED
    BY <1>6, <2>7
<1>8. CASE suspended \notin Interrupting
  <2>1. UNCHANGED <<interrupts, toNative>>
    BY <1>8 DEF ControlProcessed, Interrupting
  <2>2. \A r \in Requests : Overtaken(r) => Overtaken(r)'
    BY <1>2, <1>8, <2>1
       DEF Overtaken, ControlWaits, IsFinalization, ControlKinds, Interrupting, None
  <2>3. WaitsKept
    BY <1>2, <1>4, <1>5, <2>2 DEF WaitsKept, Doomed
  <2>4. RequestsRemembered'
    BY <1>2, <1>3, <2>1, <2>3, PythonRemembers
  <2>. QED
    BY <1>6, <2>4
<1>. QED
  BY <1>7, <1>8

LEMMA BeginTurnRemembers ==
    ASSUME TypeInv, BridgeInv, RequestsRemembered, TurnsKnown, BeginTurn
    PROVE  RequestsRemembered' /\ TurnsKnown'
<1>. DEFINE e == Event("user_turn", None, turns + 1, session, "none")
<1>1. LengthKnown /\ toNative \in Seq(Events)
  BY TypesGiveNumbers DEF TypeInv, TypeOK, ChannelTypeOK
<1>2. /\ UNCHANGED hostVars /\ Finalizing = {} /\ TurnOps \subseteq interrupts'
      /\ UNCHANGED <<session, control, suspended, muted, stream, toPython>>
      /\ turns' = turns + 1 /\ turn' = turns + 1 /\ Emit(<<e>>)
      /\ turnSession' = [turnSession EXCEPT ![turns + 1] = session]
  BY DEF BeginTurn
<1>3. turns + 1 \in 1 .. MaxTurns
  BY BridgeAssumption DEF BeginTurn, TypeInv, TypeOK, PyTypeOK, TurnIds
<1>4. /\ StreamsKept /\ StatesMove /\ \A r \in Requests : Waiting(r)' => Waiting(r)
      /\ \A r \in Requests : stream'[r].queue = stream[r].queue
  BY <1>2, StaleStates
<1>5. \A r \in Requests : Waiting(r)' => Overtaken(r)' /\ ~IsFinalization(r)'
  BY <1>2, InterruptsAll DEF RequestsRemembered
<1>6. \A r \in Requests : Answered(r) => Answered(r)'
  BY <1>1, <1>2, <1>4, AnsweredStays
<1>7. WaitsKept
  BY <1>5, <1>6 DEF WaitsKept, Doomed
<1>8. e \in Events /\ e.kind = "user_turn"
  <2>1. session \in SessionIds \ {None}
    BY DEF BeginTurn, SpeechGoesOn, InputOpen, TypeInv, TypeOK, PyTypeOK
  <2>2. turns + 1 \in TurnIds \ {None}
    BY <1>3, BridgeAssumption DEF TurnIds, None
  <2>. QED
    BY <2>1, <2>2 DEF Event, Events
<1>. HIDE DEF e
<1>9. Emitted(e) /\ EventFits(e)
  BY <1>1, <1>2, <1>5, <1>8, EmitIsEmitted DEF EventFits
<1>10. RequestsRemembered'
  BY <1>2, <1>4, <1>7, <1>9, PythonRemembers
<1>11. SpeechWaits'
  <2>1. Finalizing' = Finalizing
    BY <1>2 DEF Finalizing, Waiting, IsFinalization
  <2>2. \A kinds : ControlWaits(kinds) => ControlWaits(kinds)'
    BY <1>2 DEF ControlWaits, None
  <2>. QED
    BY <1>2, <2>1, <2>2 DEF TurnsKnown, SpeechWaits, ControlKinds
<1>12. TurnOfSession'
  BY <1>2, <1>3 DEF TurnOfSession, TypeInv, TypeOK, PyTypeOK, None
<1>. QED
  BY <1>10, <1>11, <1>12 DEF TurnsKnown

LEMMA SpeechResumesRemembers ==
    ASSUME TypeInv, BridgeInv, RequestsRemembered, TurnsKnown, SpeechResumes
    PROVE  RequestsRemembered' /\ TurnsKnown'
<1>1. LengthKnown /\ OneWaiting
  BY TypesGiveNumbers DEF RequestsRemembered
<1>2. /\ UNCHANGED hostVars /\ suspended = "none" /\ suspended' = "speech" /\ ~muted
      /\ UNCHANGED <<session, turn, turns, turnSession, interrupts, control, muted, toPython>>
      /\ stream' = Cancelled(Finalizing) /\ Emit(CancelEvents(Finalizing))
  BY DEF SpeechResumes, InputOpen
<1>3. /\ StreamsKept /\ StatesMove
      /\ UNCHANGED toNative \/ \E e : Emitted(e) /\ EventFits(e)
      /\ \A r \in Requests : Waiting(r)' => ~IsFinalization(r)' /\ stream'[r] = stream[r]
  BY <1>1, <1>2, FinalizingCancelled
<1>4. \A r \in Requests : Waiting(r)' /\ Overtaken(r) => Overtaken(r)'
  <2>1. \A kinds : ControlWaits(kinds) => ControlWaits(kinds)'
    BY <1>2 DEF ControlWaits, None
  <2>2. suspended \notin Interrupting
    BY <1>2 DEF Interrupting
  <2>. QED
    BY <1>2, <1>3, <2>1, <2>2 DEF Overtaken, IsFinalization, Interrupting
<1>5. \A r \in Requests : CalledOff(r) => CalledOff(r)'
  BY <1>1, <1>2, <1>3, CalledOffStays
<1>6. \A r \in Requests : Waiting(r)' /\ Answered(r) => Answered(r)'
  BY <1>1, <1>2, <1>3, AnsweredStays
<1>7. WaitsKept
  BY <1>2, <1>4, <1>5, <1>6 DEF WaitsKept, Doomed
<1>8. RequestsRemembered'
  BY <1>2, <1>3, <1>7, PythonRemembers
<1>9. TurnsKnown'
  BY <1>2 DEF TurnsKnown, TurnOfSession, SpeechWaits, ControlKinds, None
<1>. QED
  BY <1>8, <1>9
-----------------------------------------------------------------------------
(* The steps of stream() and of the services that consume it.               *)

LEMMA ServiceRemembers ==
    ASSUME TypeInv, BridgeInv, RequestsRemembered, TurnsKnown, UNCHANGED hostVars,
           UNCHANGED <<session, turn, turns, turnSession, control, suspended, muted, toPython>>,
           StreamsKept, StatesMove, UNCHANGED toNative \/ \E e : Emitted(e) /\ EventFits(e),
           \A r \in Requests : Waiting(r)' =>
              /\ stream[r].op \in interrupts => stream[r].op \in interrupts'
              /\ Answered(r) => Answered(r)'
    PROVE  RequestsRemembered' /\ TurnsKnown'
<1>1. LengthKnown
  BY TypesGiveNumbers
<1>2. \A kinds : ControlWaits(kinds) => ControlWaits(kinds)'
  BY DEF ControlWaits, None
<1>3. \A r \in Requests : Waiting(r)' /\ Overtaken(r) => Overtaken(r)'
  BY <1>2 DEF Overtaken, StreamsKept, IsFinalization, ControlKinds, Interrupting
<1>4. \A r \in Requests : CalledOff(r) => CalledOff(r)'
  BY <1>1, CalledOffStays
<1>5. WaitsKept
  BY <1>3, <1>4 DEF WaitsKept, Doomed
<1>6. RequestsRemembered'
  BY <1>5, PythonRemembers
<1>7. \A r \in Requests : Waiting(r)' => Waiting(r)
  BY DEF StatesMove
<1>8. TurnsKnown'
  BY <1>2, <1>7, SpeechWaitsStays DEF TurnsKnown, TurnOfSession
<1>. QED
  BY <1>6, <1>8

\* The request leaves stream(), and the event that cancels it goes with it.
LEMMA ClosedRemembers ==
    ASSUME TypeInv, BridgeInv, RequestsRemembered, TurnsKnown, UNCHANGED hostVars,
           UNCHANGED <<session, turn, turns, turnSession, control, suspended, muted, toPython>>,
           NEW ids \in SUBSET Requests, \A r \in ids : Pending(r),
           NEW state \in {"done", "failed", "cancelled"}, Closing(ids, state),
           \/ UNCHANGED toNative /\ (ids = {} \/ state = "done")
           \/ \E r \in ids : ids = {r} /\ Emitted(CancelRequest(r)) /\ state \in GivenUp,
           state = "done" => \A r \in ids : task[r] = "finished",
           \A r \in Requests \ ids :
              Waiting(r) /\ stream[r].op \in interrupts => stream[r].op \in interrupts'
    PROVE  RequestsRemembered' /\ TurnsKnown'
<1>1. LengthKnown
  BY TypesGiveNumbers
<1>2. /\ StreamsKept /\ StatesMove
      /\ UNCHANGED toNative \/ \E e : Emitted(e) /\ EventFits(e)
      /\ \A r \in Requests : Waiting(r)' => r \notin ids /\ stream'[r] = stream[r]
  BY Closes
<1>3. \A r \in Requests : Waiting(r)' =>
         /\ stream[r].op \in interrupts => stream[r].op \in interrupts'
         /\ Answered(r) => Answered(r)'
  BY <1>1, <1>2, AnsweredStays DEF Waiting
<1>. QED
  BY <1>2, <1>3, ServiceRemembers

LEMMA CancelEmitted ==
    ASSUME TypeInv, NEW r \in Requests, Emit(<<CancelRequest(r)>>)
    PROVE  Emitted(CancelRequest(r))
<1>1. CancelRequest(r) \in Events
  BY DEF CancelRequest, Event, Events, Streams, TypeInv, TypeOK, PyTypeOK
<1>. QED
  BY <1>1, EmitIsEmitted DEF TypeInv, TypeOK, ChannelTypeOK

LEMMA RaisedRemembers ==
    ASSUME TypeInv, BridgeInv, RequestsRemembered, TurnsKnown, UNCHANGED hostVars,
           UNCHANGED <<session, turn, turns, turnSession, control, suspended, muted, interrupts,
                       toPython>>,
           NEW r \in Requests, Waiting(r), NEW cause, Raise(r, cause)
    PROVE  RequestsRemembered' /\ TurnsKnown'
<1>1. Emitted(CancelRequest(r))
  BY CancelEmitted DEF Raise
<1>2. Closing({r}, "failed")
  BY DEF Closing, Raise, TypeInv, TypeOK, PyTypeOK
<1>. DEFINE ids == {r}
<1>3. /\ ids \in SUBSET Requests /\ \A q \in ids : Pending(q)
      /\ \E q \in ids : ids = {q} /\ Emitted(CancelRequest(q)) /\ "failed" \in GivenUp
  BY <1>1 DEF Pending, Waiting, GivenUp
<1>4. Closing(ids, "failed")
  BY <1>2
<1>. HIDE DEF ids
<1>. QED
  BY <1>3, <1>4, ClosedRemembers

LEMMA TimeOutRemembers ==
    ASSUME TypeInv, BridgeInv, RequestsRemembered, TurnsKnown, NEW r \in Requests, TimeOut(r)
    PROVE  RequestsRemembered' /\ TurnsKnown'
BY RaisedRemembers DEF TimeOut

LEMMA ConsumeRemembers ==
    ASSUME TypeInv, BridgeInv, RequestsRemembered, TurnsKnown, NEW r \in Requests, Consume(r)
    PROVE  RequestsRemembered' /\ TurnsKnown'
<1>. DEFINE q == stream[r].queue
<1>1. /\ UNCHANGED hostVars /\ Waiting(r) /\ q # <<>> /\ q \in Seq(ResultKinds)
      /\ UNCHANGED <<session, turn, turns, turnSession, control, suspended, muted, interrupts,
                     toPython>>
      /\ stream \in [Requests -> Streams] /\ stream[r] \in Streams
  BY DEF Consume, TypeInv, TypeOK, PyTypeOK, Streams
<1>. DEFINE first == Head(q)
<1>. HIDE DEF q
<1>2. /\ first \in ResultKinds /\ first = q[1] /\ Len(q) \in Nat \ {0}
      /\ Len(Tail(q)) = Len(q) - 1
      /\ \A i \in 1 .. Len(Tail(q)) : Tail(q)[i] = q[i + 1]
  BY <1>1, HeadTailProperties, LenProperties, EmptySeq
<1>3. CASE first = "delta"
  <2>1. /\ stream' = [stream EXCEPT ![r] = [stream[r] EXCEPT
               !.queue = Tail(q),
               !.state = IF turn = stream[r].turn /\ active THEN "waiting" ELSE "abandoned"]]
        /\ UNCHANGED toNative
    BY <1>3 DEF Consume, q
  <2>2. /\ stream'[r].queue = Tail(q) /\ stream'[r].state \in {"waiting", "abandoned"}
        /\ stream'[r].op = stream[r].op /\ stream'[r].turn = stream[r].turn
        /\ stream'[r].session = stream[r].session
        /\ \A p \in Requests : p # r => stream'[p] = stream[p]
    BY <1>1, <2>1 DEF Streams
  <2>3. StreamsKept
    BY <1>1, <2>2 DEF StreamsKept, Waiting
  <2>4. StatesMove
    BY <1>1, <2>2 DEF StatesMove, Waiting, GivenUp
  <2>5. LengthKnown
    BY TypesGiveNumbers
  <2>6. ASSUME NEW p \in Requests, Answered(p) PROVE Answered(p)'
    <3>1. CASE p # r
      BY <1>1, <2>2, <2>5, <2>6, <3>1, AnsweredStays
    <3>2. CASE p = r
      <4>1. CASE \E i \in 1 .. Len(q) : q[i] \in Answers
        <5>1. PICK i \in 1 .. Len(q) : q[i] \in Answers
          BY <4>1
        <5>2. i # 1
          BY <1>2, <1>3, <5>1 DEF Answers
        <5>3. i - 1 \in 1 .. Len(Tail(q)) /\ Tail(q)[i - 1] = q[i]
          BY <1>2, <5>2
        <5>. QED
          BY <2>2, <3>2, <5>1, <5>3 DEF Answered, Answers
      <4>2. CASE \E i \in 1 .. Len(toPython) :
                    toPython[i].kind \in Answers /\ toPython[i].request = p
        BY <1>1, <4>2 DEF Answered, Answers
      <4>. QED
        BY <2>6, <3>2, <4>1, <4>2 DEF Answered, q
    <3>. QED
      BY <3>1, <3>2
  <2>. QED
    BY <1>1, <2>1, <2>3, <2>4, <2>6, ServiceRemembers
<1>4. CASE first = "done"
  <2>1. Closing({r}, "done") /\ UNCHANGED toNative
    BY <1>1, <1>4 DEF Closing, Consume, q
  <2>2. task[r] = "finished"
    <3>1. \E i \in 1 .. Len(stream[r].queue) : stream[r].queue[i] = "done"
      BY <1>2, <1>4 DEF q
    <3>. QED
      BY <3>1 DEF BridgeInv, DoneWasFinished, DoneQueued
  <2>. DEFINE ids == {r}
  <2>3. ids \in SUBSET Requests /\ \A p \in ids : Pending(p) /\ task[p] = "finished"
    BY <1>1, <2>2 DEF Pending, Waiting
  <2>4. Closing(ids, "done")
    BY <2>1
  <2>. HIDE DEF ids
  <2>. QED
    BY <1>1, <2>1, <2>3, <2>4, ClosedRemembers
<1>5. CASE first = "error"
  BY <1>1, <1>5, RaisedRemembers DEF Consume, q
<1>6. CASE first = "refused"
  BY <1>1, <1>6, RaisedRemembers DEF Consume, q
<1>. QED
  BY <1>2, <1>3, <1>4, <1>5, <1>6 DEF ResultKinds

LEMMA InterruptedRemembers ==
    ASSUME TypeInv, BridgeInv, RequestsRemembered, TurnsKnown, NEW op \in Ops, Interrupted(op)
    PROVE  RequestsRemembered' /\ TurnsKnown'
<1>. DEFINE ids == {r \in Requests : Waiting(r) /\ stream[r].op = op}
<1>1. /\ UNCHANGED hostVars /\ interrupts' = interrupts \ {op}
      /\ UNCHANGED <<session, turn, turns, turnSession, control, suspended, muted, toPython>>
      /\ stream \in [Requests -> Streams] /\ LengthKnown
  BY TypesGiveNumbers DEF Interrupted, TypeInv, TypeOK, PyTypeOK
<1>2. /\ ids \in SUBSET Requests /\ \A r \in ids : Pending(r)
      /\ \A r, q \in ids : Waiting(r) /\ stream[r].op = stream[q].op
      /\ \A r \in Requests \ ids :
            Waiting(r) /\ stream[r].op \in interrupts => stream[r].op \in interrupts'
  BY <1>1 DEF Pending, Waiting
<1>3. \/ stream' = Cancelled(ids) /\ Emit(CancelEvents(ids))
      \/ stream' = Abandoned(ids) /\ UNCHANGED toNative
  BY DEF Interrupted
<1>. HIDE DEF ids
<1>4. CASE stream' = Cancelled(ids) /\ Emit(CancelEvents(ids))
  <2>1. \/ ids = {} /\ UNCHANGED toNative
        \/ \E r \in ids : ids = {r} /\ Emitted(CancelRequest(r))
    BY <1>2, <1>4, CancelsOne DEF RequestsRemembered
  <2>2. Closing(ids, "cancelled")
    BY <1>4 DEF Closing, Cancelled
  <2>3. \/ UNCHANGED toNative /\ (ids = {} \/ "cancelled" = "done")
        \/ \E r \in ids : ids = {r} /\ Emitted(CancelRequest(r)) /\ "cancelled" \in GivenUp
    BY <2>1 DEF GivenUp
  <2>. QED
    BY <1>1, <1>2, <2>2, <2>3, ClosedRemembers
<1>5. CASE stream' = Abandoned(ids) /\ UNCHANGED toNative
  <2>1. StreamsKept
    BY <1>1, <1>2, <1>5, CancelledKept
  <2>2. /\ \A r \in ids : stream'[r].state = "abandoned"
        /\ \A r \in Requests \ ids : stream'[r] = stream[r]
    BY <1>1, <1>2, <1>5 DEF Abandoned, Streams
  <2>3. StatesMove
    <3>. SUFFICES ASSUME NEW r \in Requests
                  PROVE  /\ Waiting(r)' => Waiting(r)
                         /\ stream[r].state \in GivenUp => stream'[r].state \in GivenUp
                         /\ stream'[r].state = "done" =>
                               stream[r].state = "done" \/ task[r] = "finished"
                         /\ stream'[r].state \in GivenUp =>
                               stream[r].state \in GivenUp \/ Emitted(CancelRequest(r))
      BY DEF StatesMove
    <3>1. CASE r \in ids
      BY <1>2, <2>2, <3>1 DEF Waiting, Pending, GivenUp
    <3>2. CASE r \notin ids
      BY <2>2, <3>2 DEF Waiting
    <3>. QED
      BY <3>1, <3>2
  <2>4. \A r \in Requests : Waiting(r)' =>
           /\ stream[r].op \in interrupts => stream[r].op \in interrupts'
           /\ Answered(r) => Answered(r)'
    <3>1. \A r \in Requests : Waiting(r)' => r \notin ids /\ Waiting(r) /\ stream'[r] = stream[r]
      BY <2>2 DEF Waiting
    <3>. QED
      BY <1>1, <1>2, <3>1, AnsweredStays
  <2>. QED
    BY <1>1, <1>5, <2>1, <2>3, <2>4, ServiceRemembers
<1>. QED
  BY <1>3, <1>4, <1>5

LEMMA CloseAbandonedRemembers ==
    ASSUME TypeInv, BridgeInv, RequestsRemembered, TurnsKnown, NEW r \in Requests,
           CloseAbandoned(r)
    PROVE  RequestsRemembered' /\ TurnsKnown'
<1>1. /\ UNCHANGED hostVars /\ Pending(r) /\ UNCHANGED interrupts
      /\ UNCHANGED <<session, turn, turns, turnSession, control, suspended, muted, toPython>>
      /\ stream' = Cancelled({r}) /\ Emitted(CancelRequest(r))
  BY CancelEmitted DEF CloseAbandoned, Pending
<1>. DEFINE ids == {r}
<1>2. /\ ids \in SUBSET Requests /\ \A q \in ids : Pending(q) /\ Closing(ids, "cancelled")
      /\ \E q \in ids : ids = {q} /\ Emitted(CancelRequest(q)) /\ "cancelled" \in GivenUp
  BY <1>1 DEF GivenUp, Closing, Cancelled
<1>3. Closing(ids, "cancelled")
  BY <1>1 DEF Closing, Cancelled
<1>. HIDE DEF ids
<1>. QED
  BY <1>1, <1>2, <1>3, ClosedRemembers

LEMMA PipelineErrorRemembers ==
    ASSUME TypeInv, BridgeInv, RequestsRemembered, TurnsKnown, NEW e \in errors, PipelineError(e)
    PROVE  RequestsRemembered' /\ TurnsKnown'
<1>. DEFINE ev == Event("error", None, e.turn, e.session, e.cause)
<1>1. /\ UNCHANGED hostVars /\ UNCHANGED <<interrupts, stream>> /\ LengthKnown
      /\ UNCHANGED <<session, turn, turns, turnSession, control, suspended, muted, toPython>>
      /\ UNCHANGED toNative \/ Emit(<<ev>>)
  BY TypesGiveNumbers DEF PipelineError
<1>2. ev \in Events /\ ev.kind = "error"
  BY DEF Event, Events, TypeInv, TypeOK, PyTypeOK, ErrorFrames
<1>. HIDE DEF ev
<1>3. UNCHANGED toNative \/ \E f : Emitted(f) /\ EventFits(f)
  <2>1. EventFits(ev)
    BY <1>2 DEF EventFits
  <2>2. Emit(<<ev>>) => Emitted(ev)
    BY <1>2, EmitIsEmitted DEF TypeInv, TypeOK, ChannelTypeOK
  <2>. QED
    BY <1>1, <2>1, <2>2
<1>4. /\ StreamsKept /\ StatesMove /\ \A r \in Requests : Waiting(r)' => Waiting(r)
      /\ \A r \in Requests : stream'[r].queue = stream[r].queue
  BY <1>1, StaleStates
<1>5. \A r \in Requests : Answered(r) => Answered(r)'
  BY <1>1, <1>4, AnsweredStays
<1>. QED
  BY <1>1, <1>3, <1>4, <1>5, ServiceRemembers

\* A turn that is not over was begun in the session that is not over.
LEMMA OpenTurnIsOfSession ==
    ASSUME TypeInv, TurnOfSession PROVE SessionOf(turn) = session
<1>1. turn # None => turn + MaxTurnSessions > turns
  BY BridgeAssumption DEF TurnOfSession, TypeInv, TypeOK, PyTypeOK, TurnIds
<1>. QED
  BY <1>1 DEF SessionOf, TurnOfSession

\* Nobody asks for speech that is known to be muted or of an ended session.
LEMMA OpenedDoomed ==
    ASSUME TypeInv, SessionsKnown, TurnsKnown, NEW op \in Ops, OpenRequest(op)
    PROVE  /\ session # sessionGeneration =>
                 \/ Announced({"stop"}, session)
                 \/ op = "finalize_asr" /\ ControlWaits(ControlKinds)
           /\ op = "finalize_asr" /\ hostMuted /\ session = sessionGeneration =>
                 Announced({"mute"}, session) \/ ControlWaits(ControlKinds)
<1>1. /\ op = "finalize_asr" => (active /\ ~muted /\ suspended = "none") \/ suspended = "speech"
      /\ op # "finalize_asr" => active
  BY DEF OpenRequest, SpeechGoesOn, InputOpen
<1>2. session # None
  BY <1>1 DEF TypeInv
<1>3. ASSUME session # sessionGeneration
      PROVE  \/ Announced({"stop"}, session)
             \/ op = "finalize_asr" /\ ControlWaits(ControlKinds)
  BY <1>1, <1>2, <1>3 DEF SessionsKnown, StopsFollow
<1>4. ASSUME op = "finalize_asr", hostMuted, session = sessionGeneration
      PROVE  Announced({"mute"}, session) \/ ControlWaits(ControlKinds)
  <2>1. stage = "live"
    BY <1>4 DEF SessionsKnown, HostStages
  <2>2. MuteSaid("mute") \/ muted
    BY <1>4, <2>1 DEF SessionsKnown, LastMute
  <2>3. MuteSaid("mute") => Announced({"mute"}, session)
    BY <1>4 DEF MuteSaid, MuteWord, Announced
  <2>4. muted => ControlWaits(ControlKinds)
    BY <1>1, <1>4 DEF TurnsKnown, SpeechWaits
  <2>. QED
    BY <2>2, <2>3, <2>4
<1>. QED
  BY <1>3, <1>4

LEMMA OpenRequestRemembers ==
    ASSUME TypeInv, BridgeInv, SessionsKnown, RequestsRemembered, TurnsKnown,
           NEW op \in Ops, OpenRequest(op)
    PROVE  RequestsRemembered' /\ TurnsKnown'
<1>. USE DEF RequestsRemembered
<1>0. PICK new \in Requests : new = requests + 1
  BY BridgeAssumption DEF OpenRequest, Requests, TypeInv, TypeOK, PyTypeOK
<1>. DEFINE opened == [state |-> "waiting", op |-> op, turn |-> turn,
                       session |-> session, fresh |-> TRUE, queue |-> <<>>]
            event == Event("request", new, turn, session, "none")
<1>1. /\ stream' = [stream EXCEPT ![new] = opened] /\ Emit(<<event>>)
      /\ UNCHANGED hostVars
      /\ UNCHANGED <<session, turn, turns, turnSession, interrupts, control, suspended, muted,
                     toPython>>
  <2>1. SessionOf(turn) = session
    BY OpenTurnIsOfSession DEF TurnsKnown
  <2>. QED
    BY <1>0, <2>1 DEF OpenRequest
<1>2. UNCHANGED <<task, sessionGeneration, hostMuted>>
  BY <1>1 DEF hostVars, lifeVars
<1>3. task[new] = "none" /\ stream[new].state = "unused"
  BY <1>0 DEF BridgeInv, NumberedInOrder, TypeInv, TypeOK, PyTypeOK
<1>4. /\ opened.state = "waiting" /\ opened.op = op /\ opened.session = session
      /\ event.kind = "request" /\ event.request = new
  BY DEF Event
<1>5. NativeKnown /\ Emitted(event) /\ Len(toNative) \in Nat
  <2>1. event \in Events
    BY <1>1 DEF Event, Events, TypeInv, TypeOK, PyTypeOK
  <2>. HIDE DEF event
  <2>. QED
    BY <1>1, <2>1, EmitIsEmitted, NativeLength DEF NativeKnown, TypeInv, TypeOK, ChannelTypeOK
<1>. HIDE DEF opened, event
<1>6. \A r \in Requests : stream'[r] = IF r = new THEN opened ELSE stream[r]
  BY <1>1 DEF TypeInv, TypeOK, PyTypeOK
<1>. PICK n : n = Len(toNative) + 1
  OBVIOUS
<1>7. /\ Len(toNative') = n /\ n \in 1 .. Len(toNative') /\ n > Len(toNative)
      /\ \A i \in 1 .. Len(toNative) : i \in 1 .. Len(toNative') /\ toNative'[i] = toNative[i]
      /\ \A i \in 1 .. Len(toNative') : i \in 1 .. Len(toNative) \/ i = n
      /\ toNative'[n] = event
  BY <1>5 DEF Emitted
<1>8. RequestAt(n, new)' /\ \A r \in Requests : RequestAt(n, r)' => r = new
  BY <1>4, <1>7 DEF RequestAt
<1>9. \A r \in Requests : \A i \in 1 .. Len(toNative) : RequestAt(i, r)' <=> RequestAt(i, r)
  BY <1>7 DEF RequestAt
<1>10. ControlWaits(ControlKinds) => ControlWaits(ControlKinds)'
  BY <1>1 DEF ControlWaits, ControlKinds, None
<1>11. ASSUME NEW r \in Requests, r # new
       PROVE  /\ (Waiting(r)' <=> Waiting(r)) /\ (IsFinalization(r)' <=> IsFinalization(r))
              /\ (Overtaken(r) => Overtaken(r)') /\ (CalledOff(r) => CalledOff(r)')
              /\ (Answered(r) => Answered(r)') /\ (Live(r)' <=> Live(r))
  <2>1. stream'[r] = stream[r]
    BY <1>6, <1>11
  <2>2. Overtaken(r) => Overtaken(r)'
    BY <1>1, <2>1 DEF Overtaken, ControlWaits, IsFinalization, ControlKinds, Interrupting, None
  <2>3. CalledOff(r) => CalledOff(r)'
    BY <1>1, <2>1 DEF CalledOff, Announced, IsFinalization
  <2>4. Answered(r) => Answered(r)'
    BY <1>1, <2>1 DEF Answered, Answers
  <2>. QED
    BY <1>2, <2>1, <2>2, <2>3, <2>4 DEF Waiting, IsFinalization, Live
<1>12. Waiting(new)' /\ ~Live(new)' /\ (IsFinalization(new)' <=> op = "finalize_asr")
  BY <1>1, <1>2, <1>3, <1>4, <1>6 DEF Waiting, Live, IsFinalization
<1>13. session # sessionGeneration => Doomed(new)'
  <2>1. stream'[new].session = session
    BY <1>1, <1>4, <1>6
  <2>2. Announced({"stop"}, session) => CalledOff(new)'
    BY <1>1, <2>1 DEF Announced, CalledOff
  <2>3. op = "finalize_asr" /\ ControlWaits(ControlKinds) => Overtaken(new)'
    BY <1>10, <1>12 DEF Overtaken, ControlKinds
  <2>. QED
    BY <2>2, <2>3, OpenedDoomed DEF Doomed
<1>14. op = "finalize_asr" /\ hostMuted => Doomed(new)'
  <2>1. stream'[new].session = session
    BY <1>1, <1>4, <1>6
  <2>2. op = "finalize_asr" /\ Announced({"mute"}, session) => CalledOff(new)'
    BY <1>1, <1>12, <2>1 DEF Announced, CalledOff
  <2>3. op = "finalize_asr" /\ ControlWaits(ControlKinds) => Overtaken(new)'
    BY <1>10, <1>12 DEF Overtaken, ControlKinds
  <2>. QED
    BY <1>13, <2>2, <2>3, OpenedDoomed DEF Doomed
<1>15. OldDoomed'
  BY <1>1, <1>4, <1>6, <1>11 DEF OldDoomed
<1>16. StoppedDoomed'
  <2>1. \A r \in Requests : r # new /\ Doomed(r) => Doomed(r)'
    BY <1>11 DEF Doomed
  <2>. QED
    BY <1>1, <1>2, <1>4, <1>6, <1>11, <1>13, <2>1 DEF StoppedDoomed
<1>17. MutedDoomed'
  <2>1. \A r \in Requests : r # new /\ Doomed(r) => Doomed(r)'
    BY <1>11 DEF Doomed
  <2>. QED
    BY <1>2, <1>11, <1>12, <1>14, <2>1 DEF MutedDoomed
<1>18. FencesDoom'
  <2>. SUFFICES ASSUME NEW r \in Requests, NEW i \in 1 .. Len(toNative'), Waiting(r)',
                       toNative'[i].kind \in {"user_turn", "cancel_turn"}
                PROVE  \/ Overtaken(r)' /\ ~IsFinalization(r)'
                       \/ \E j \in i + 1 .. Len(toNative') : RequestAt(j, r)'
    BY DEF FencesDoom
  <2>1. i \in 1 .. Len(toNative) /\ toNative'[i] = toNative[i]
    BY <1>4, <1>7
  <2>2. CASE r = new
    <3>1. n \in i + 1 .. Len(toNative')
      BY <1>5, <1>7, <2>1
    <3>. QED
      BY <1>8, <2>2, <3>1
  <2>3. CASE r # new
    <3>1. \/ Overtaken(r) /\ ~IsFinalization(r)
          \/ \E j \in i + 1 .. Len(toNative) : RequestAt(j, r)
      BY <1>11, <2>1, <2>3 DEF FencesDoom
    <3>2. \A j \in i + 1 .. Len(toNative) :
             j \in 1 .. Len(toNative) /\ j \in i + 1 .. Len(toNative')
      BY <1>5, <1>7, <2>1
    <3>. QED
      BY <1>9, <1>11, <2>3, <3>1, <3>2
  <2>. QED
    BY <2>2, <2>3
<1>19. CancelsGivenUp'
  <2>. SUFFICES ASSUME NEW i \in 1 .. Len(toNative'), toNative'[i].kind = "cancel_request"
                PROVE  stream'[toNative'[i].request].state \in {"failed", "cancelled"}
    BY DEF CancelsGivenUp
  <2>1. i \in 1 .. Len(toNative) /\ toNative'[i] = toNative[i]
    BY <1>4, <1>7
  <2>2. toNative[i].request \in Requests
    BY <2>1, ElementOfSeq DEF TypeInv, TypeOK, ChannelTypeOK, Events
  <2>3. stream[toNative[i].request].state \in {"failed", "cancelled"}
    BY <2>1 DEF CancelsGivenUp
  <2>. QED
    BY <1>3, <1>6, <2>1, <2>2, <2>3
<1>20. FailureComes => FailureComes'
  BY <1>5, FailureStays
<1>21. Remembered'
  <2>. SUFFICES ASSUME NEW r \in Requests, Waiting(r)'
                PROVE  (Live(r) \/ Requested(r) \/ Answered(r) \/ Doomed(r) \/ FailureComes)'
    BY DEF Remembered
  <2>1. CASE r = new
    BY <1>7, <1>8, <2>1 DEF Requested
  <2>2. CASE r # new
    <3>1. Requested(r) => Requested(r)'
      BY <1>7, <1>9 DEF Requested
    <3>. QED
      BY <1>11, <1>20, <2>2, <3>1 DEF Remembered, Doomed
  <2>. QED
    BY <2>1, <2>2
<1>22. OneWaiting'
  <2>1. \A r \in Requests : ~(Waiting(r) /\ stream[r].op = op)
    BY DEF OpenRequest
  <2>. QED
    BY <1>4, <1>6, <1>11, <2>1 DEF OneWaiting
<1>23. CancelFollows'
  <2>. SUFFICES ASSUME NEW r \in Requests, stream'[r].state \in {"failed", "cancelled"}
                PROVE  /\ Live(r)' => \E i \in 1 .. Len(toNative') : CancelAt(i, r)'
                       /\ \A i \in 1 .. Len(toNative') : RequestAt(i, r)' =>
                             \E j \in i + 1 .. Len(toNative') : CancelAt(j, r)'
    BY DEF CancelFollows
  <2>1. r # new /\ stream'[r] = stream[r]
    BY <1>4, <1>6
  <2>2. \A i \in 1 .. Len(toNative) : CancelAt(i, r) => CancelAt(i, r)'
    BY <1>7, <2>1 DEF CancelAt
  <2>3. /\ Live(r) => \E i \in 1 .. Len(toNative) : CancelAt(i, r)
        /\ \A i \in 1 .. Len(toNative) : RequestAt(i, r) =>
              \E j \in i + 1 .. Len(toNative) : CancelAt(j, r)
    BY <2>1 DEF CancelFollows
  <2>4. Live(r)' => \E i \in 1 .. Len(toNative') : CancelAt(i, r)'
    BY <1>7, <1>11, <2>1, <2>2, <2>3
  <2>5. ASSUME NEW i \in 1 .. Len(toNative'), RequestAt(i, r)'
        PROVE  \E j \in i + 1 .. Len(toNative') : CancelAt(j, r)'
    <3>1. i \in 1 .. Len(toNative) /\ RequestAt(i, r)
      BY <1>7, <1>8, <1>9, <2>1, <2>5
    <3>2. PICK j \in i + 1 .. Len(toNative) : CancelAt(j, r)
      BY <2>3, <3>1
    <3>3. j \in i + 1 .. Len(toNative') /\ j \in 1 .. Len(toNative)
      BY <1>5, <1>7, <3>1
    <3>. QED
      BY <2>2, <3>2, <3>3
  <2>. QED
    BY <2>4, <2>5
<1>24. Opened'
  BY <1>4, <1>6 DEF Opened
<1>25. DoneIsFinished'
  BY <1>2, <1>4, <1>6 DEF DoneIsFinished
<1>26. TurnsKnown'
  <2>1. suspended \in ControlKinds => Finalizing' = {}
    <3>. SUFFICES ASSUME suspended \in ControlKinds, NEW r \in Requests, Waiting(r)', IsFinalization(r)'
                  PROVE  FALSE
      BY DEF Finalizing
    <3>1. op # "finalize_asr"
      BY DEF OpenRequest, SpeechGoesOn, InputOpen, ControlKinds
    <3>2. r # new
      BY <1>12, <3>1
    <3>3. Waiting(r) /\ IsFinalization(r)
      BY <1>11, <3>2
    <3>. QED
      BY <3>3 DEF TurnsKnown, SpeechWaits, Finalizing
  <2>. QED
    BY <1>1, <1>10, <2>1 DEF TurnsKnown, SpeechWaits, TurnOfSession, ControlKinds
<1>. QED
  BY <1>15, <1>16, <1>17, <1>18, <1>19, <1>21, <1>22, <1>23, <1>24, <1>25, <1>26
-----------------------------------------------------------------------------
(* A step of the host.                                                      *)

Grows ==
    \A i \in 1 .. Len(toPython) : i \in 1 .. Len(toPython') /\ toPython'[i] = toPython[i]
TasksMove ==
    \A r \in Requests :
        /\ task[r] = "finished" => task'[r] = "finished"
        /\ Live(r)' => Live(r) \/ (NativeTook /\ RequestAt(1, r))
        /\ NativeTook /\ CancelAt(1, r) => ~Live(r)'

LEMMA SentGrows ==
    ASSUME LengthKnown, UNCHANGED toPython \/ SentStop \/ \E e : Sent(e)
    PROVE  Grows
BY DEF LengthKnown, Grows, Sent, SentStop

LEMMA DoomedStays ==
    ASSUME UNCHANGED pyVars, Grows
    PROVE  \A r \in Requests :
              /\ (Waiting(r)' <=> Waiting(r)) /\ (IsFinalization(r)' <=> IsFinalization(r))
              /\ (Overtaken(r) <=> Overtaken(r)') /\ (Doomed(r) => Doomed(r)')
              /\ (Answered(r) => Answered(r)')
<1>. SUFFICES ASSUME NEW r \in Requests
              PROVE  /\ (Waiting(r)' <=> Waiting(r)) /\ (IsFinalization(r)' <=> IsFinalization(r))
                     /\ (Overtaken(r) <=> Overtaken(r)') /\ (Doomed(r) => Doomed(r)')
                     /\ (Answered(r) => Answered(r)')
  OBVIOUS
<1>1. UNCHANGED <<stream, control, interrupts, suspended, session>>
  BY DEF pyVars
<1>2. Overtaken(r) <=> Overtaken(r)'
  BY <1>1 DEF Overtaken, ControlWaits, IsFinalization, ControlKinds, Interrupting, None
<1>3. CalledOff(r) => CalledOff(r)'
  BY <1>1 DEF CalledOff, Announced, IsFinalization, Grows
<1>4. Answered(r) => Answered(r)'
  BY <1>1 DEF Answered, Answers, Grows
<1>. QED
  BY <1>1, <1>2, <1>3, <1>4 DEF Doomed, Waiting, IsFinalization

\* What follows an event stays behind it when the first event is taken.
LEMMA NativeShift ==
    ASSUME NativeKnown, UNCHANGED stream, UNCHANGED toNative \/ NativeTook
    PROVE  /\ \A i \in 1 .. Len(toNative') : \E j \in 1 .. Len(toNative) :
                 /\ toNative'[i] = toNative[j]
                 /\ \A r \in Requests :
                       /\ RequestAt(i, r)' => RequestAt(j, r)
                       /\ (\E k \in j + 1 .. Len(toNative) : RequestAt(k, r))
                             => \E k \in i + 1 .. Len(toNative') : RequestAt(k, r)'
                       /\ (\E k \in j + 1 .. Len(toNative) : CancelAt(k, r))
                             => \E k \in i + 1 .. Len(toNative') : CancelAt(k, r)'
           /\ \A i \in 1 .. Len(toNative), r \in Requests :
                 (i = 1 => UNCHANGED toNative) =>
                    \E j \in 1 .. Len(toNative') :
                       /\ toNative'[j] = toNative[i]
                       /\ RequestAt(i, r) => RequestAt(j, r)'
                       /\ CancelAt(i, r) => CancelAt(j, r)'
<1>1. CASE UNCHANGED toNative
  <2>1. \A i, r : (RequestAt(i, r)' <=> RequestAt(i, r)) /\ (CancelAt(i, r)' <=> CancelAt(i, r))
    BY <1>1 DEF RequestAt, CancelAt
  <2>. QED
    BY <1>1, <2>1
<1>2. CASE NativeTook
  <2>1. /\ Len(toNative') = Len(toNative) - 1 /\ Len(toNative) \in Nat \ {0}
        /\ \A i \in 1 .. Len(toNative') : toNative'[i] = toNative[i + 1]
    BY <1>2 DEF NativeTook, NativeKnown
  <2>2. \A i \in 1 .. Len(toNative'), r \in Requests :
           (RequestAt(i, r)' <=> RequestAt(i + 1, r)) /\ (CancelAt(i, r)' <=> CancelAt(i + 1, r))
    BY <2>1 DEF RequestAt, CancelAt
  <2>3. ASSUME NEW i \in 1 .. Len(toNative')
        PROVE  LET j == i + 1 IN
               /\ j \in 1 .. Len(toNative) /\ toNative'[i] = toNative[j]
               /\ \A r \in Requests :
                     /\ RequestAt(i, r)' => RequestAt(j, r)
                     /\ (\E k \in j + 1 .. Len(toNative) : RequestAt(k, r))
                           => \E k \in i + 1 .. Len(toNative') : RequestAt(k, r)'
                     /\ (\E k \in j + 1 .. Len(toNative) : CancelAt(k, r))
                           => \E k \in i + 1 .. Len(toNative') : CancelAt(k, r)'
    <3>1. PICK j : j = i + 1
      OBVIOUS
    <3>2. j \in 1 .. Len(toNative) /\ toNative'[i] = toNative[j]
      BY <2>1, <3>1
    <3>3. \A k \in j + 1 .. Len(toNative) : \E m \in i + 1 .. Len(toNative') :
             m \in 1 .. Len(toNative') /\ k = m + 1
      <4>. SUFFICES ASSUME NEW k \in j + 1 .. Len(toNative)
                    PROVE  \E m \in i + 1 .. Len(toNative') : m \in 1 .. Len(toNative') /\ k = m + 1
        OBVIOUS
      <4>1. k - 1 \in i + 1 .. Len(toNative') /\ k - 1 \in 1 .. Len(toNative') /\ k = (k - 1) + 1
        BY <2>1, <3>1
      <4>. QED
        BY <4>1
    <3>4. \A r \in Requests : RequestAt(i, r)' => RequestAt(j, r)
      BY <2>2, <3>1
    <3>5. ASSUME NEW r \in Requests, NEW k \in j + 1 .. Len(toNative)
          PROVE  /\ RequestAt(k, r) => \E m \in i + 1 .. Len(toNative') : RequestAt(m, r)'
                 /\ CancelAt(k, r) => \E m \in i + 1 .. Len(toNative') : CancelAt(m, r)'
      <4>1. PICK m \in i + 1 .. Len(toNative') : m \in 1 .. Len(toNative') /\ k = m + 1
        BY <3>3
      <4>. QED
        BY <2>2, <4>1
    <3>. QED
      BY <3>1, <3>2, <3>4, <3>5
  <2>4. ASSUME NEW i \in 1 .. Len(toNative), NEW r \in Requests, i = 1 => UNCHANGED toNative
        PROVE  \E j \in 1 .. Len(toNative') :
                  /\ toNative'[j] = toNative[i]
                  /\ RequestAt(i, r) => RequestAt(j, r)'
                  /\ CancelAt(i, r) => CancelAt(j, r)'
    <3>1. i # 1
      BY <2>1, <2>4
    <3>2. PICK j : j = i - 1
      OBVIOUS
    <3>3. j \in 1 .. Len(toNative') /\ j + 1 = i
      BY <2>1, <3>1, <3>2
    <3>. QED
      BY <2>1, <2>2, <3>3
  <2>. QED
    BY <2>3, <2>4
<1>. QED
  BY <1>1, <1>2

LEMMA HostRemembers ==
    ASSUME TypeInv, BridgeInv, RequestsRemembered, TurnsKnown, UNCHANGED pyVars, Grows,
           UNCHANGED toNative \/ NativeTook, TasksMove,
           \/ UNCHANGED sessionGeneration
           \/ \A r \in Requests : Waiting(r) /\ stream[r].session = sessionGeneration => Doomed(r)',
           \/ hostMuted' => hostMuted
           \/ \A r \in Requests : Waiting(r) /\ IsFinalization(r) => Doomed(r)',
           \A r \in Requests :
              /\ Waiting(r)
              /\ Live(r) \/ (~UNCHANGED toNative /\ (RequestAt(1, r) \/ Unconditional(toNative[1])))
              => Live(r)' \/ Answered(r)' \/ Doomed(r)'
    PROVE  RequestsRemembered' /\ TurnsKnown'
<1>. USE DEF RequestsRemembered
<1>1. NativeKnown /\ UNCHANGED <<stream, session, turn, turns, turnSession, suspended, muted, control>>
  BY NativeLength DEF pyVars
<1>2. \A r \in Requests :
         /\ (Waiting(r)' <=> Waiting(r)) /\ (IsFinalization(r)' <=> IsFinalization(r))
         /\ (Overtaken(r) <=> Overtaken(r)') /\ (Doomed(r) => Doomed(r)')
         /\ (Answered(r) => Answered(r)')
  BY DoomedStays
<1>3. OldDoomed'
  BY <1>1, <1>2 DEF OldDoomed
<1>4. StoppedDoomed'
  BY <1>1, <1>2 DEF StoppedDoomed
<1>5. MutedDoomed'
  BY <1>1, <1>2 DEF MutedDoomed
<1>6. /\ \A i \in 1 .. Len(toNative') : \E j \in 1 .. Len(toNative) :
            /\ toNative'[i] = toNative[j]
            /\ \A r \in Requests :
                  /\ RequestAt(i, r)' => RequestAt(j, r)
                  /\ (\E k \in j + 1 .. Len(toNative) : RequestAt(k, r))
                        => \E k \in i + 1 .. Len(toNative') : RequestAt(k, r)'
                  /\ (\E k \in j + 1 .. Len(toNative) : CancelAt(k, r))
                        => \E k \in i + 1 .. Len(toNative') : CancelAt(k, r)'
      /\ \A i \in 1 .. Len(toNative), r \in Requests :
            (i = 1 => UNCHANGED toNative) =>
               \E j \in 1 .. Len(toNative') :
                  /\ toNative'[j] = toNative[i]
                  /\ RequestAt(i, r) => RequestAt(j, r)'
                  /\ CancelAt(i, r) => CancelAt(j, r)'
  BY <1>1, NativeShift
<1>7. FencesDoom'
  <2>. SUFFICES ASSUME NEW r \in Requests, NEW i \in 1 .. Len(toNative'), Waiting(r)',
                       toNative'[i].kind \in {"user_turn", "cancel_turn"}
                PROVE  \/ Overtaken(r)' /\ ~IsFinalization(r)'
                       \/ \E k \in i + 1 .. Len(toNative') : RequestAt(k, r)'
    BY DEF FencesDoom
  <2>1. PICK j \in 1 .. Len(toNative) :
           /\ toNative'[i] = toNative[j]
           /\ (\E k \in j + 1 .. Len(toNative) : RequestAt(k, r))
                 => \E k \in i + 1 .. Len(toNative') : RequestAt(k, r)'
    BY <1>6
  <2>2. \/ Overtaken(r) /\ ~IsFinalization(r)
        \/ \E k \in j + 1 .. Len(toNative) : RequestAt(k, r)
    BY <1>2, <2>1 DEF FencesDoom
  <2>. QED
    BY <1>2, <2>1, <2>2
<1>8. CancelsGivenUp'
  <2>. SUFFICES ASSUME NEW i \in 1 .. Len(toNative'), toNative'[i].kind = "cancel_request"
                PROVE  stream'[toNative'[i].request].state \in {"failed", "cancelled"}
    BY DEF CancelsGivenUp
  <2>1. PICK j \in 1 .. Len(toNative) : toNative'[i] = toNative[j]
    BY <1>6
  <2>. QED
    BY <1>1, <2>1 DEF CancelsGivenUp
<1>9. Remembered'
  <2>. SUFFICES ASSUME NEW r \in Requests, Waiting(r)', ~Live(r)', ~Answered(r)', ~Doomed(r)'
                PROVE  Requested(r)' \/ FailureComes'
    BY DEF Remembered
  <2>1. Waiting(r) /\ ~Live(r) /\ ~Answered(r) /\ ~Doomed(r)
    BY <1>2
  <2>2. ~UNCHANGED toNative => ~RequestAt(1, r) /\ ~Unconditional(toNative[1])
    BY <2>1
  <2>3. CASE Requested(r)
    <3>1. PICK i \in 1 .. Len(toNative) : RequestAt(i, r)
      BY <2>3 DEF Requested
    <3>2. \E j \in 1 .. Len(toNative') : RequestAt(j, r)'
      BY <1>6, <2>2, <3>1
    <3>. QED
      BY <3>2 DEF Requested
  <2>4. CASE FailureComes
    <3>1. PICK i \in 1 .. Len(toNative) : Unconditional(toNative[i])
      BY <2>4 DEF FailureComes
    <3>2. PICK j \in 1 .. Len(toNative') : toNative'[j] = toNative[i]
      BY <1>6, <2>2, <3>1
    <3>. QED
      BY <3>1, <3>2 DEF FailureComes, Unconditional, None
  <2>. QED
    BY <2>1, <2>3, <2>4 DEF Remembered
<1>10. CancelFollows'
  <2>. SUFFICES ASSUME NEW r \in Requests, stream'[r].state \in {"failed", "cancelled"}
                PROVE  /\ Live(r)' => \E i \in 1 .. Len(toNative') : CancelAt(i, r)'
                       /\ \A i \in 1 .. Len(toNative') : RequestAt(i, r)' =>
                             \E j \in i + 1 .. Len(toNative') : CancelAt(j, r)'
    BY DEF CancelFollows
  <2>1. /\ Live(r) => \E i \in 1 .. Len(toNative) : CancelAt(i, r)
        /\ \A i \in 1 .. Len(toNative) : RequestAt(i, r) =>
              \E j \in i + 1 .. Len(toNative) : CancelAt(j, r)
    BY <1>1 DEF CancelFollows
  <2>2. ASSUME Live(r)' PROVE \E i \in 1 .. Len(toNative') : CancelAt(i, r)'
    <3>1. ~(NativeTook /\ CancelAt(1, r)) /\ (Live(r) \/ (NativeTook /\ RequestAt(1, r)))
      BY <2>2 DEF TasksMove
    <3>2. \E i \in 1 .. Len(toNative) : CancelAt(i, r) /\ (i = 1 => UNCHANGED toNative)
      <4>1. CASE Live(r)
        BY <2>1, <3>1, <4>1
      <4>2. CASE NativeTook /\ RequestAt(1, r)
        <5>1. 1 \in 1 .. Len(toNative)
          BY <1>1, <4>2 DEF NativeTook, NativeKnown
        <5>2. PICK j \in 1 + 1 .. Len(toNative) : CancelAt(j, r)
          BY <2>1, <4>2, <5>1
        <5>3. j \in 1 .. Len(toNative) /\ j # 1
          BY <1>1 DEF NativeKnown
        <5>. QED
          BY <5>2, <5>3
      <4>. QED
        BY <3>1, <4>1, <4>2
    <3>. QED
      BY <1>6, <3>2
  <2>3. ASSUME NEW i \in 1 .. Len(toNative'), RequestAt(i, r)'
        PROVE  \E j \in i + 1 .. Len(toNative') : CancelAt(j, r)'
    <3>1. PICK j \in 1 .. Len(toNative) :
             /\ RequestAt(i, r)' => RequestAt(j, r)
             /\ (\E k \in j + 1 .. Len(toNative) : CancelAt(k, r))
                   => \E k \in i + 1 .. Len(toNative') : CancelAt(k, r)'
      BY <1>6
    <3>. QED
      BY <2>1, <2>3, <3>1
  <2>. QED
    BY <2>2, <2>3
<1>11. OneWaiting' /\ Opened'
  BY <1>1, <1>2 DEF OneWaiting, Opened
<1>12. DoneIsFinished'
  BY <1>1 DEF DoneIsFinished, TasksMove
<1>13. TurnsKnown'
  BY <1>1 DEF TurnsKnown, SpeechWaits, TurnOfSession, Finalizing, Waiting, IsFinalization,
              ControlWaits, ControlKinds, None
<1>. QED
  BY <1>3, <1>4, <1>5, <1>7, <1>8, <1>9, <1>10, <1>11, <1>12, <1>13

-----------------------------------------------------------------------------
(* The steps of the user and of the session.                                *)

\* What is said of a session reaches everything asked for in it.
LEMMA SaidDooms ==
    ASSUME LengthKnown, UNCHANGED pyVars, NEW kind \in {"stop", "interrupt", "mute"},
           SentStop \/ Sent(Control(kind, sessionGeneration)), SentStop => kind = "stop",
           NEW r \in Requests, stream[r].session = sessionGeneration,
           IsFinalization(r) \/ kind # "mute"
    PROVE  Doomed(r)'
<1>1. PICK n : n = Len(toPython) + 1
  OBVIOUS
<1>2. n \in 1 .. Len(toPython') /\ toPython'[n] = Control(kind, sessionGeneration)
  BY <1>1 DEF SentStop, Sent, LengthKnown
<1>3. toPython'[n].kind = kind /\ toPython'[n].session = sessionGeneration
  BY <1>2 DEF Control
<1>4. stream' = stream /\ (IsFinalization(r)' <=> IsFinalization(r))
  BY DEF pyVars, IsFinalization
<1>. QED
  BY <1>2, <1>3, <1>4 DEF Doomed, CalledOff, Announced

LEMMA StoppedRemembers ==
    ASSUME TypeInv, BridgeInv, RequestsRemembered, TurnsKnown, UNCHANGED pyVars,
           NEW extra, StopHost(extra), extra = <<>> \/ extra = <<Control("reset", None)>>,
           UNCHANGED toNative \/ NativeTook
    PROVE  RequestsRemembered' /\ TurnsKnown'
<1>1. SentStop /\ LengthKnown /\ ~hostMuted'
  BY StopIsSent DEF TypeInv, StopHost
<1>2. Grows
  BY <1>1, SentGrows
<1>3. \A r \in Requests : Waiting(r) => Doomed(r)'
  <2>1. \A r \in Requests : stream[r].session = sessionGeneration => Doomed(r)'
    BY <1>1, SaidDooms
  <2>2. \A r \in Requests : Doomed(r) => Doomed(r)'
    BY <1>2, DoomedStays
  <2>. QED
    BY <2>1, <2>2 DEF RequestsRemembered, StoppedDoomed
<1>4. TasksMove
  BY DEF StopHost, CancelTasks, TasksMove, Live
<1>. QED
  BY <1>1, <1>2, <1>3, <1>4, HostRemembers

LEMMA TasksStay ==
    ASSUME TypeInv, UNCHANGED <<task, toNative>>
    PROVE  TasksMove /\ \A r \in Requests : Live(r) => Live(r)'
<1>1. ~NativeTook
  BY NativeLength DEF NativeKnown, NativeTook
<1>. QED
  BY <1>1 DEF TasksMove, Live

LEMMA StartRemembers ==
    ASSUME TypeInv, BridgeInv, SessionsKnown, RequestsRemembered, TurnsKnown, Start
    PROVE  RequestsRemembered' /\ TurnsKnown'
<1>1. LengthKnown /\ Numbers
  BY TypesGiveNumbers
<1>2. UNCHANGED <<pyVars, task, toNative, toPython>> /\ ~hostMuted' /\ stage = "idle"
  BY DEF Start, hostActive
<1>3. Grows /\ TasksMove
  BY <1>1, <1>2, TasksStay, SentGrows
<1>4. \A r \in Requests : stream[r].session # sessionGeneration
  BY <1>1, <1>2, BridgeAssumption
     DEF SessionsKnown, SessionsInOrder, HostStages, LatestSession, Numbers, Unannounced,
         TypeInv, TypeOK, HostTypeOK, PyTypeOK, Streams, SessionIds
<1>5. \A r \in Requests : Live(r) => Live(r)'
  BY <1>2 DEF Live
<1>. QED
  BY <1>2, <1>3, <1>4, <1>5, HostRemembers

\* Steps that leave the requests alone, whatever they send.
LEMMA IdleRemembers ==
    ASSUME TypeInv, BridgeInv, RequestsRemembered, TurnsKnown, Grows, hostMuted' => hostMuted,
           UNCHANGED <<pyVars, task, toNative, sessionGeneration>>
    PROVE  RequestsRemembered' /\ TurnsKnown'
<1>1. TasksMove /\ \A r \in Requests : Live(r) => Live(r)'
  BY TasksStay
<1>. QED
  BY <1>1, HostRemembers

LEMMA InterruptRemembers ==
    ASSUME TypeInv, BridgeInv, RequestsRemembered, TurnsKnown, Interrupt
    PROVE  RequestsRemembered' /\ TurnsKnown'
<1>1. LengthKnown
  BY TypesGiveNumbers
<1>2. UNCHANGED <<pyVars, toNative, sessionGeneration, hostMuted>> /\ task' = CancelTasks(Requests)
  BY DEF Interrupt
<1>3. Sent(Control("interrupt", sessionGeneration))
  BY SendIsSent, ControlType
     DEF Interrupt, ControlKinds, HostEvents, TypeInv, TypeOK, HostTypeOK, ChannelTypeOK
<1>4. Grows
  BY <1>1, <1>3, SentGrows
<1>5. \A r \in Requests : Waiting(r) => Doomed(r)'
  <2>1. \A r \in Requests : stream[r].session = sessionGeneration => Doomed(r)'
    <3>1. \A kind : kind = "interrupt" => kind # "stop" /\ kind # "mute"
      OBVIOUS
    <3>2. ~SentStop
      <4>1. Control("interrupt", sessionGeneration).kind # Control("stop", sessionGeneration).kind
        BY DEF Control
      <4>. QED
        BY <1>3, <4>1 DEF SentStop, Sent
    <3>. QED
      BY <1>1, <1>2, <1>3, <3>1, <3>2, SaidDooms
  <2>2. \A r \in Requests : Doomed(r) => Doomed(r)'
    BY <1>2, <1>4, DoomedStays
  <2>. QED
    BY <2>1, <2>2 DEF RequestsRemembered, StoppedDoomed
<1>6. TasksMove
  BY <1>2 DEF CancelTasks, TasksMove, Live
<1>. QED
  BY <1>2, <1>4, <1>5, <1>6, HostRemembers

LEMMA ToggleMuteRemembers ==
    ASSUME TypeInv, BridgeInv, RequestsRemembered, TurnsKnown, ToggleMute
    PROVE  RequestsRemembered' /\ TurnsKnown'
<1>1. LengthKnown /\ toPython \in Seq(HostEvents)
  BY TypesGiveNumbers DEF TypeInv, TypeOK, ChannelTypeOK
<1>2. UNCHANGED <<pyVars, toNative, task, sessionGeneration>> /\ hostMuted' = ~hostMuted
  BY DEF ToggleMute
<1>3. CASE hostMuted
  <2>1. UNCHANGED toPython
    BY <1>1, <1>3, ConcatEmptySeq DEF ToggleMute, Send
  <2>. QED
    BY <1>1, <1>2, <1>3, <2>1, SentGrows, IdleRemembers
<1>4. CASE ~hostMuted
  <2>1. Sent(Control("mute", sessionGeneration))
    BY <1>4, SendIsSent, ControlType
       DEF ToggleMute, ControlKinds, HostEvents, TypeInv, TypeOK, HostTypeOK, ChannelTypeOK
  <2>2. Grows
    BY <1>1, <2>1, SentGrows
  <2>3. ~SentStop
    <3>1. Control("mute", sessionGeneration).kind # Control("stop", sessionGeneration).kind
      BY DEF Control
    <3>. QED
      BY <2>1, <3>1 DEF SentStop, Sent
  <2>4. \A r \in Requests : Waiting(r) /\ IsFinalization(r) => Doomed(r)'
    <3>1. \A r \in Requests :
             IsFinalization(r) /\ stream[r].session = sessionGeneration => Doomed(r)'
      BY <1>1, <1>2, <2>1, <2>3, SaidDooms
    <3>2. \A r \in Requests : Doomed(r) => Doomed(r)'
      BY <1>2, <2>2, DoomedStays
    <3>. QED
      BY <3>1, <3>2 DEF RequestsRemembered, StoppedDoomed
  <2>5. TasksMove /\ \A r \in Requests : Live(r) => Live(r)'
    BY <1>2, TasksStay
  <2>. QED
    BY <1>2, <2>2, <2>4, <2>5, HostRemembers
<1>. QED
  BY <1>3, <1>4

LEMMA UserRemembers ==
    ASSUME TypeInv, BridgeInv, SessionsKnown, RequestsRemembered, TurnsKnown, User
    PROVE  RequestsRemembered' /\ TurnsKnown'
<1>1. CASE Stop \/ ClearConversation
  BY <1>1, StoppedRemembers DEF Stop, ClearConversation
<1>. QED
  BY <1>1, StartRemembers, InterruptRemembers, ToggleMuteRemembers DEF User

LEMMA SessionRemembers ==
    ASSUME TypeInv, BridgeInv, RequestsRemembered, TurnsKnown, Session
    PROVE  RequestsRemembered' /\ TurnsKnown'
<1>1. LengthKnown
  BY TypesGiveNumbers
<1>2. CASE AudioFails
  BY <1>2, StoppedRemembers DEF AudioFails
<1>3. CASE Prepared
  <2>1. Sent(Control("start", sessionGeneration))
    BY <1>3, SendIsSent, ControlType
       DEF Prepared, ControlKinds, HostEvents, TypeInv, TypeOK, HostTypeOK, ChannelTypeOK
  <2>. QED
    BY <1>1, <1>3, <2>1, SentGrows, IdleRemembers DEF Prepared
<1>4. CASE CaptureStarted
  BY <1>1, <1>4, SentGrows, IdleRemembers DEF CaptureStarted
<1>5. CASE CaptureResumed
  <2>1. Sent(Control("unmute", sessionGeneration))
    BY <1>5, SendIsSent, ControlType
       DEF CaptureResumed, ControlKinds, HostEvents, TypeInv, TypeOK, HostTypeOK, ChannelTypeOK
  <2>. QED
    BY <1>1, <1>5, <2>1, SentGrows, IdleRemembers DEF CaptureResumed
<1>. QED
  BY <1>2, <1>3, <1>4, <1>5 DEF Session

-----------------------------------------------------------------------------
(* handle() and perform().                                                  *)

\* A fence cancels no request that Python is to wait for.
LEMMA FenceRemembers ==
    ASSUME TypeInv, BridgeInv, RequestsRemembered, TurnsKnown, UNCHANGED <<pyVars, lifeVars, toPython>>,
           NativeTook, toNative[1].kind \in {"user_turn", "cancel_turn"},
           task' = task \/ task' = CancelTasks(Requests)
    PROVE  RequestsRemembered' /\ TurnsKnown'
<1>1. NativeKnown /\ LengthKnown /\ UNCHANGED <<sessionGeneration, hostMuted>>
  BY NativeLength, TypesGiveNumbers DEF lifeVars
<1>2. Grows
  BY <1>1, SentGrows
<1>3. TasksMove
  BY DEF TasksMove, CancelTasks, Live, CancelAt
<1>4. ASSUME NEW r \in Requests, Waiting(r),
             Live(r) \/ RequestAt(1, r) \/ Unconditional(toNative[1])
      PROVE  Doomed(r)'
  <2>1. Live(r)
    BY <1>4 DEF RequestAt, Unconditional
  <2>2. \A j \in 1 .. Len(toNative) : ~RequestAt(j, r)
    BY <2>1 DEF RequestAt, BridgeInv, AnnouncedOnce, Live
  <2>3. 1 \in 1 .. Len(toNative) /\ \A j \in 1 + 1 .. Len(toNative) : j \in 1 .. Len(toNative)
    BY <1>1 DEF NativeTook, NativeKnown
  <2>4. Overtaken(r)
    BY <1>4, <2>2, <2>3 DEF RequestsRemembered, FencesDoom
  <2>. QED
    BY <1>2, <2>4, DoomedStays DEF Doomed
<1>. QED
  BY <1>1, <1>2, <1>3, <1>4, HostRemembers

LEMMA HandleCancelRequestRemembers ==
    ASSUME TypeInv, BridgeInv, RequestsRemembered, TurnsKnown, HandleCancelRequest
    PROVE  RequestsRemembered' /\ TurnsKnown'
<1>. DEFINE e == toNative[1]
<1>1. NativeKnown /\ LengthKnown /\ UNCHANGED <<sessionGeneration, hostMuted, toPython, pyVars>>
  BY NativeLength, TypesGiveNumbers DEF HandleCancelRequest, lifeVars
<1>2. NativeTook /\ e.kind = "cancel_request"
  BY HandledIsTook
     DEF HandleCancelRequest, Handling, NativeTook, TypeInv, TypeOK, ChannelTypeOK
<1>3. task' = IF Foreign(e) THEN task ELSE CancelTasks({e.request})
  BY <1>2 DEF HandleCancelRequest, NativeTook
<1>. HIDE DEF e
<1>4. Grows
  BY <1>1, SentGrows
<1>5. task \in [Requests -> TaskStates]
  BY DEF TypeInv, TypeOK, HostTypeOK
<1>6. TasksMove
  <2>. SUFFICES ASSUME NEW r \in Requests
                PROVE  /\ task[r] = "finished" => task'[r] = "finished"
                       /\ Live(r)' => Live(r)
                       /\ CancelAt(1, r) => ~Live(r)'
    BY DEF TasksMove
  <2>1. (task[r] = "finished" => task'[r] = "finished") /\ (Live(r)' => Live(r))
    BY <1>3, <1>5 DEF CancelTasks, Live
  <2>2. ASSUME CancelAt(1, r), Live(r) PROVE ~Live(r)'
    <3>1. e.request = r /\ e.session = stream[r].session
      BY <2>2 DEF CancelAt, e
    <3>2. sessionGeneration = stream[r].session
      BY <2>2 DEF BridgeInv, TurnFence, Current
    <3>3. task' = CancelTasks({r})
      BY <1>3, <3>1, <3>2 DEF Foreign
    <3>. QED
      BY <3>3 DEF CancelTasks, Live
  <2>. QED
    BY <2>1, <2>2
<1>7. ASSUME NEW r \in Requests, Waiting(r),
             Live(r) \/ RequestAt(1, r) \/ Unconditional(toNative[1])
      PROVE  Live(r)'
  <2>1. Live(r)
    BY <1>2, <1>7 DEF RequestAt, Unconditional, e
  <2>2. 1 \in 1 .. Len(toNative)
    BY <1>1, <1>2 DEF NativeTook, NativeKnown
  <2>3. e.request # r
    BY <1>2, <1>7, <2>2 DEF RequestsRemembered, CancelsGivenUp, Waiting, e
  <2>. QED
    BY <1>3, <1>5, <2>1, <2>3 DEF CancelTasks, Live
<1>. QED
  BY <1>1, <1>2, <1>4, <1>6, <1>7, HostRemembers

LEMMA HandleErrorRemembers ==
    ASSUME TypeInv, BridgeInv, RequestsRemembered, TurnsKnown, HandleError
    PROVE  RequestsRemembered' /\ TurnsKnown'
<1>1. NativeKnown /\ LengthKnown /\ UNCHANGED pyVars
  BY NativeLength, TypesGiveNumbers DEF HandleError
<1>2. NativeTook /\ toNative[1].kind = "error" /\ Head(toNative) = toNative[1]
  BY HandledIsTook DEF HandleError, Handling, NativeTook, TypeInv, TypeOK, ChannelTypeOK
<1>3. CASE Fatal(toNative[1])
  BY <1>1, <1>2, <1>3, StoppedRemembers DEF HandleError
<1>4. CASE ~Fatal(toNative[1])
  <2>1. UNCHANGED <<task, toPython, sessionGeneration, hostMuted>>
    BY <1>2, <1>4 DEF HandleError
  <2>2. Grows
    BY <1>1, <2>1, SentGrows
  <2>3. TasksMove
    BY <1>2, <2>1 DEF TasksMove, Live, CancelAt
  <2>4. ~Unconditional(toNative[1]) /\ \A r \in Requests : ~RequestAt(1, r)
    BY <1>2, <1>4 DEF Unconditional, Fatal, Foreign, RequestAt
  <2>5. \A r \in Requests : Live(r) => Live(r)'
    BY <2>1 DEF Live
  <2>. QED
    BY <1>1, <1>2, <2>1, <2>2, <2>3, <2>4, <2>5, HostRemembers
<1>. QED
  BY <1>3, <1>4

\* What a task or a refusal says reaches the request it is about.
LEMMA SaidAnswers ==
    ASSUME LengthKnown, NEW kind \in Answers, NEW r \in Requests, Sent(Result(kind, r))
    PROVE  Answered(r)'
<1>1. PICK n : n = Len(toPython) + 1
  OBVIOUS
<1>2. n \in 1 .. Len(toPython') /\ toPython'[n] = Result(kind, r)
  BY <1>1 DEF Sent, LengthKnown
<1>3. toPython'[n].kind = kind /\ toPython'[n].request = r
  BY <1>2 DEF Result
<1>. QED
  BY <1>2, <1>3 DEF Answered, Answers

LEMMA ResultSent ==
    ASSUME TypeInv, NEW kind \in ResultKinds, NEW r \in Requests, Send(<<Result(kind, r)>>)
    PROVE  Sent(Result(kind, r)) /\ Grows
<1>1. Result(kind, r) \in HostEvents
  BY ResultType DEF HostEvents
<1>2. Sent(Result(kind, r)) /\ LengthKnown
  BY <1>1, SendIsSent DEF TypeInv, TypeOK, ChannelTypeOK
<1>. QED
  BY <1>2, SentGrows

LEMMA HandleRequestRemembers ==
    ASSUME TypeInv, BridgeInv, RequestsRemembered, TurnsKnown, HandleRequest
    PROVE  RequestsRemembered' /\ TurnsKnown'
<1>1. NativeKnown /\ LengthKnown /\ UNCHANGED <<sessionGeneration, hostMuted, pyVars>>
  BY NativeLength, TypesGiveNumbers DEF HandleRequest, lifeVars
<1>2. NativeTook /\ toNative[1].kind = "request" /\ Head(toNative) = toNative[1]
  BY HandledIsTook DEF HandleRequest, Handling, NativeTook, TypeInv, TypeOK, ChannelTypeOK
<1>3. 1 \in 1 .. Len(toNative)
  BY <1>1, <1>2 DEF NativeTook, NativeKnown
<1>4. PICK q \in Requests : q = toNative[1].request /\ RequestAt(1, q) /\ task[q] = "none"
  <2>1. toNative[1].request \in Requests
    BY <1>2, <1>3, ElementOfSeq DEF TypeInv, TypeOK, ChannelTypeOK, Events
  <2>. QED
    BY <1>2, <1>3, <2>1 DEF RequestAt, BridgeInv, AnnouncedOnce
<1>5. \/ task' = [task EXCEPT ![q] = "queued"] /\ UNCHANGED toPython
      \/ Send(<<Result("refused", q)>>) /\ UNCHANGED task
  BY <1>2, <1>4 DEF HandleRequest
<1>6. task \in [Requests -> TaskStates]
  BY DEF TypeInv, TypeOK, HostTypeOK
<1>7. Grows /\ (Live(q)' \/ Answered(q)')
  <2>1. CASE task' = [task EXCEPT ![q] = "queued"] /\ UNCHANGED toPython
    BY <1>1, <1>6, <2>1, SentGrows DEF Live
  <2>2. CASE Send(<<Result("refused", q)>>)
    BY <1>1, <2>2, ResultSent, SaidAnswers DEF Answers, ResultKinds
  <2>. QED
    BY <1>5, <2>1, <2>2
<1>8. \A r \in Requests : r # q => task'[r] = task[r]
  BY <1>5, <1>6
<1>9. TasksMove
  BY <1>2, <1>4, <1>8 DEF TasksMove, Live, CancelAt
<1>10. ASSUME NEW r \in Requests, Waiting(r),
             Live(r) \/ RequestAt(1, r) \/ Unconditional(toNative[1])
       PROVE  Live(r)' \/ Answered(r)'
  <2>1. CASE r = q
    BY <1>7, <2>1
  <2>2. CASE r # q
    BY <1>2, <1>4, <1>8, <1>10, <2>2 DEF Live, RequestAt, Unconditional
  <2>. QED
    BY <2>1, <2>2
<1>. QED
  BY <1>1, <1>2, <1>7, <1>9, <1>10, HostRemembers

LEMMA HandleRemembers ==
    ASSUME TypeInv, BridgeInv, RequestsRemembered, TurnsKnown, Handle
    PROVE  RequestsRemembered' /\ TurnsKnown'
<1>1. CASE HandleUserTurn \/ HandleCancelTurn
  <2>1. NativeTook /\ toNative[1].kind \in {"user_turn", "cancel_turn"}
    BY <1>1, HandledIsTook
       DEF HandleUserTurn, HandleCancelTurn, Handling, NativeTook, TypeInv, TypeOK, ChannelTypeOK
  <2>2. UNCHANGED <<pyVars, lifeVars, toPython>> /\ (task' = task \/ task' = CancelTasks(Requests))
    BY <1>1 DEF HandleUserTurn, HandleCancelTurn
  <2>. QED
    BY <2>1, <2>2, FenceRemembers
<1>. QED
  BY <1>1, HandleCancelRequestRemembers, HandleErrorRemembers, HandleRequestRemembers DEF Handle

LEMMA PerformRemembers ==
    ASSUME TypeInv, BridgeInv, RequestsRemembered, TurnsKnown, Perform
    PROVE  RequestsRemembered' /\ TurnsKnown'
<1>. PICK r \in Requests :
        TaskBegins(r) \/ TaskStreams(r) \/ TaskFinishes(r) \/ TaskThrows(r) \/ TaskUnwinds(r)
  BY DEF Perform
<1>1. LengthKnown /\ UNCHANGED <<pyVars, sessionGeneration, hostMuted, toNative>>
      /\ task \in [Requests -> TaskStates] /\ toPython \in Seq(HostEvents)
  BY TypesGiveNumbers
     DEF TaskBegins, TaskStreams, TaskFinishes, TaskThrows, TaskUnwinds, lifeVars, hostVars,
         TypeInv, TypeOK, HostTypeOK, ChannelTypeOK
<1>2. /\ \A q \in Requests : q # r => task'[q] = task[q]
      /\ \/ task'[r] = task[r]
         \/ task[r] = "queued" /\ task'[r] = "running"
         \/ task[r] # "finished" /\ task'[r] \in {"over", "finished"}
  BY <1>1 DEF TaskBegins, TaskStreams, TaskFinishes, TaskThrows, TaskUnwinds, hostVars
<1>3. TasksMove
  <2>1. ~NativeTook
    BY <1>1, NativeLength DEF NativeKnown, NativeTook
  <2>. QED
    BY <1>2, <2>1 DEF TasksMove, Live
<1>4. Live(r) => Current(r)
  BY DEF BridgeInv, TurnFence
<1>5. Grows /\ (Waiting(r) /\ Live(r) => Live(r)' \/ Answered(r)' \/ Doomed(r)')
  <2>1. CASE TaskBegins(r)
    <3>1. Grows
      BY <1>1, <2>1, SentGrows DEF TaskBegins
    <3>2. CASE IsFinalization(r) /\ hostMuted
      BY <1>1, <3>1, <3>2, DoomedStays DEF RequestsRemembered, MutedDoomed
    <3>3. CASE ~(IsFinalization(r) /\ hostMuted)
      BY <1>1, <1>4, <2>1, <3>1, <3>3 DEF TaskBegins, Live
    <3>. QED
      BY <3>1, <3>2, <3>3
  <2>2. CASE TaskStreams(r)
    BY <1>1, <2>2, ResultSent DEF TaskStreams, Live, hostVars, ResultKinds
  <2>3. CASE TaskFinishes(r)
    <3>1. Send(<<Result("done", r)>>)
      BY <1>4, <2>3 DEF TaskFinishes, Live
    <3>. QED
      BY <1>1, <3>1, ResultSent, SaidAnswers DEF ResultKinds, Answers
  <2>4. CASE TaskThrows(r)
    <3>1. CASE Current(r)
      <4>1. Send(<<Result("error", r)>>)
        BY <2>4, <3>1 DEF TaskThrows
      <4>. QED
        BY <1>1, <4>1, ResultSent, SaidAnswers DEF ResultKinds, Answers
    <3>2. CASE ~Current(r)
      <4>1. UNCHANGED toPython
        BY <1>1, <2>4, <3>2, ConcatEmptySeq DEF TaskThrows, Send
      <4>. QED
        BY <1>1, <1>4, <3>2, <4>1, SentGrows
    <3>. QED
      BY <3>1, <3>2
  <2>5. CASE TaskUnwinds(r)
    BY <1>1, <2>5, SentGrows DEF TaskUnwinds, Live
  <2>. QED
    BY <2>1, <2>2, <2>3, <2>4, <2>5
<1>6. \A q \in Requests : Waiting(q) /\ Live(q) => Live(q)' \/ Answered(q)' \/ Doomed(q)'
  <2>1. \A q \in Requests : q # r /\ Live(q) => Live(q)'
    BY <1>2 DEF Live
  <2>. QED
    BY <1>5, <2>1
<1>. QED
  BY <1>1, <1>3, <1>5, <1>6, HostRemembers

-----------------------------------------------------------------------------
(* The steps that speak of no session, one by one.                          *)

LEMMA EmitKeepsFailure ==
    ASSUME toNative \in Seq(Events), FailureComes,
           \/ UNCHANGED toNative \/ \E e : Emit(<<e>>) \/ \E ids : Emit(CancelEvents(ids))
    PROVE  FailureComes'
<1>1. NativeKnown
  BY LenProperties DEF NativeKnown
<1>2. ASSUME NEW e, Emit(<<e>>) PROVE FailureComes'
  <2>1. PICK S : S = Events \cup {e}
    OBVIOUS
  <2>2. toNative \in Seq(S)
    <3>1. toNative \in [1 .. Len(toNative) -> Events] /\ Len(toNative) \in Nat
      BY LenProperties
    <3>2. toNative \in [1 .. Len(toNative) -> S]
      BY <2>1, <3>1
    <3>. QED
      BY <3>1, <3>2, IsASeq
  <2>3. toNative' = Append(toNative, e)
    BY <1>2, <2>1, <2>2, AppendIsConcat DEF Emit
  <2>4. Emitted(e)
    BY <2>1, <2>2, <2>3, AppendProperties DEF Emitted
  <2>. QED
    BY <1>1, <2>4, FailureStays
<1>3. ASSUME NEW ids, Emit(CancelEvents(ids)) PROVE FailureComes'
  <2>1. CASE ids = {}
    <3>1. UNCHANGED toNative
      BY <1>3, <2>1, ConcatEmptySeq DEF Emit, CancelEvents
    <3>. QED
      BY <1>1, <3>1, FailureStays
  <2>2. CASE ids # {}
    BY <1>2, <1>3, <2>2 DEF CancelEvents
  <2>. QED
    BY <2>1, <2>2
<1>. QED
  BY <1>1, <1>2, <1>3, FailureStays

LEMMA UserSessions == TypeInv /\ SessionsKnown /\ User => SessionsKnown'
<1>. SUFFICES ASSUME TypeInv, SessionsKnown, User PROVE SessionsKnown'
  OBVIOUS
<1>1. CASE Stop \/ ClearConversation
  BY <1>1, StoppedSessions DEF Stop, ClearConversation
<1>2. CASE Interrupt
  <2>. DEFINE e == Control("interrupt", sessionGeneration)
  <2>1. e \in HostEvents /\ e.kind \notin SessionKinds
    BY ControlType
       DEF ControlKinds, HostEvents, TypeInv, TypeOK, HostTypeOK, Control, SessionKinds
  <2>2. Send(<<e>>) /\ UNCHANGED <<pyVars, stage, sessionGeneration, generations, hostMuted,
                                   unmuting, toNative>>
    BY <1>2 DEF Interrupt
  <2>. HIDE DEF e
  <2>3. Sent(e)
    BY <2>1, <2>2, SendIsSent DEF TypeInv, TypeOK, ChannelTypeOK
  <2>4. FailureComes => FailureComes'
    BY <2>2 DEF FailureComes, Unconditional, None
  <2>5. ControlWaits(ControlKinds) => ControlWaits(ControlKinds)'
    BY <2>2 DEF pyVars, ControlWaits, ControlKinds, None
  <2>. QED
    BY <2>1, <2>2, <2>3, <2>4, <2>5, QuietSessions DEF pyVars
<1>. QED
  BY <1>1, <1>2, StartSessions, ToggleMuteSessions DEF User

LEMMA SessionSessions == TypeInv /\ SessionsKnown /\ Session => SessionsKnown'
<1>. SUFFICES ASSUME TypeInv, SessionsKnown, Session PROVE SessionsKnown'
  OBVIOUS
<1>1. CASE AudioFails
  BY <1>1, StoppedSessions DEF AudioFails
<1>. QED
  BY <1>1, PreparedSessions, CaptureStartedSessions, CaptureResumedSessions DEF Session

\* A step of the host that leaves the session alone and at most answers.
LEMMA AnsweringSessions ==
    ASSUME TypeInv, SessionsKnown,
           UNCHANGED <<pyVars, stage, sessionGeneration, generations, hostMuted, unmuting>>,
           \/ UNCHANGED toPython
           \/ \E kind \in ResultKinds, r \in Requests : Send(<<Result(kind, r)>>),
           FailureComes => FailureComes'
    PROVE  SessionsKnown'
<1>1. UNCHANGED toPython \/ \E e \in HostEvents : e.kind \notin SessionKinds /\ Sent(e)
  <2>. SUFFICES ASSUME NEW kind \in ResultKinds, NEW r \in Requests, Send(<<Result(kind, r)>>)
                PROVE  \E e \in HostEvents : e.kind \notin SessionKinds /\ Sent(e)
    OBVIOUS
  <2>1. Sent(Result(kind, r))
    BY ResultSent
  <2>2. Result(kind, r) \in HostEvents /\ Result(kind, r).kind = kind
    BY ResultType DEF HostEvents, Result
  <2>. QED
    BY <2>1, <2>2 DEF ResultKinds, SessionKinds
<1>2. ControlWaits(ControlKinds) => ControlWaits(ControlKinds)'
  BY DEF pyVars, ControlWaits, ControlKinds, None
<1>. QED
  BY <1>1, <1>2, QuietSessions DEF pyVars

LEMMA HandleSessions == TypeInv /\ BridgeInv /\ SessionsKnown /\ Handle => SessionsKnown'
<1>. SUFFICES ASSUME TypeInv, BridgeInv, SessionsKnown, Handle PROVE SessionsKnown'
  OBVIOUS
<1>1. toNative # <<>> /\ NativeTook /\ Head(toNative) = toNative[1] /\ NativeKnown /\ UNCHANGED pyVars
  <2>1. toNative # <<>> /\ Handled /\ UNCHANGED pyVars
    BY DEF Handle, HandleUserTurn, HandleCancelRequest, HandleCancelTurn, HandleError,
           HandleRequest, Handling
  <2>. QED
    BY <2>1, HandledIsTook, NativeLength DEF NativeTook, TypeInv, TypeOK, ChannelTypeOK
<1>2. CASE HandleError /\ Fatal(toNative[1])
  BY <1>1, <1>2, StoppedSessions DEF HandleError
<1>3. CASE ~(HandleError /\ Fatal(toNative[1]))
  <2>1. ~Unconditional(toNative[1])
    <3>1. toNative[1].kind = "error" => HandleError
      BY <1>1 DEF Handle, HandleUserTurn, HandleCancelRequest, HandleCancelTurn, HandleRequest,
                  Handling
    <3>. QED
      BY <1>3, <3>1 DEF Unconditional, Fatal, Foreign
  <2>2. FailureComes => FailureComes'
    BY <1>1, <2>1, FailureStays
  <2>3. UNCHANGED <<stage, sessionGeneration, generations, hostMuted, unmuting>>
    BY <1>1, <1>3 DEF Handle, HandleUserTurn, HandleCancelRequest, HandleCancelTurn, HandleError,
                      HandleRequest, lifeVars
  <2>4. CASE HandleRequest
    <3>1. toNative[1].request \in Requests
      <4>1. toNative[1] \in Events /\ toNative[1].kind = "request"
        BY <1>1, <2>4, HeadEvent DEF HandleRequest, Handling, TypeInv, TypeOK, ChannelTypeOK
      <4>. QED
        BY <4>1 DEF Events
    <3>2. UNCHANGED toPython \/ Send(<<Result("refused", toNative[1].request)>>)
      BY <1>1, <2>4 DEF HandleRequest
    <3>. QED
      BY <1>1, <2>2, <2>3, <3>1, <3>2, AnsweringSessions DEF ResultKinds
  <2>5. CASE ~HandleRequest
    <3>1. UNCHANGED toPython
      BY <1>1, <1>3, <2>5
         DEF Handle, HandleUserTurn, HandleCancelRequest, HandleCancelTurn, HandleError
    <3>. QED
      BY <1>1, <2>2, <2>3, <3>1, AnsweringSessions
  <2>. QED
    BY <2>4, <2>5
<1>. QED
  BY <1>2, <1>3

LEMMA PerformSessions == TypeInv /\ BridgeInv /\ SessionsKnown /\ Perform => SessionsKnown'
<1>. SUFFICES ASSUME TypeInv, BridgeInv, SessionsKnown, Perform PROVE SessionsKnown'
  OBVIOUS
<1>. PICK r \in Requests :
        TaskBegins(r) \/ TaskStreams(r) \/ TaskFinishes(r) \/ TaskThrows(r) \/ TaskUnwinds(r)
  BY DEF Perform
<1>1. UNCHANGED <<pyVars, toNative, stage, sessionGeneration, generations, hostMuted, unmuting>>
  BY DEF TaskBegins, TaskStreams, TaskFinishes, TaskThrows, TaskUnwinds, lifeVars, hostVars
<1>2. FailureComes => FailureComes'
  BY <1>1 DEF FailureComes, Unconditional, None
<1>3. UNCHANGED toPython \/ \E kind \in ResultKinds : Send(<<Result(kind, r)>>)
  <2>1. Send(<<>>) => UNCHANGED toPython
    BY ConcatEmptySeq DEF Send, TypeInv, TypeOK, ChannelTypeOK
  <2>2. Send(<<Result("delta", r)>>) \/ Send(<<Result("done", r)>>) \/ Send(<<Result("error", r)>>)
           \/ UNCHANGED toPython
    BY <2>1 DEF TaskBegins, TaskStreams, TaskFinishes, TaskThrows, TaskUnwinds
  <2>. QED
    BY <2>2 DEF ResultKinds
<1>. QED
  BY <1>1, <1>2, <1>3, AnsweringSessions

LEMMA ReceiveSessions ==
    TypeInv /\ BridgeInv /\ SessionsKnown /\ Receive => SessionsKnown'
<1>. SUFFICES ASSUME TypeInv, SessionsKnown, ReceiveResult PROVE SessionsKnown'
  BY ReceiveStartSessions, SessionStartedSessions, StartRaisesSessions, ReceiveControlSessions
     DEF Receive
<1>1. UNCHANGED <<session, starting, active, muted, suspended, control, lifeVars>>
  BY DEF ReceiveResult, hostVars
<1>2. Took
  BY ConsumeIsTook DEF ReceiveResult, Received, TypeInv, TypeOK, ChannelTypeOK
<1>3. toPython[1].kind \in ResultKinds
  BY <1>2 DEF ReceiveResult, Took
<1>4. \A r \in Requests : stream'[r].session = stream[r].session
  <2>1. Head(toPython).request \in Requests /\ stream \in [Requests -> Streams]
    BY <1>2, <1>3, HeadResult
       DEF ReceiveResult, Received, Took, TypeInv, TypeOK, PyTypeOK, ChannelTypeOK, ResultEvents
  <2>2. \/ UNCHANGED stream
        \/ stream' = [stream EXCEPT ![Head(toPython).request].queue =
                          Append(stream[Head(toPython).request].queue, Head(toPython).kind)]
    BY DEF ReceiveResult
  <2>. QED
    BY <2>1, <2>2 DEF Streams
<1>5. FailureComes => FailureComes'
  <2>1. UNCHANGED toNative \/ Emit(<<Untagged>>)
    BY DEF ReceiveResult
  <2>. QED
    BY <2>1, EmitKeepsFailure DEF TypeInv, TypeOK, ChannelTypeOK
<1>6. ControlWaits(ControlKinds) => ControlWaits(ControlKinds)'
  BY <1>1 DEF ControlWaits, ControlKinds, None
<1>. QED
  BY <1>1, <1>2, <1>3, <1>4, <1>5, <1>6, QuietSessions

LEMMA SpeechSessions == TypeInv /\ BridgeInv /\ SessionsKnown /\ Speech => SessionsKnown'
<1>. SUFFICES ASSUME TypeInv, SessionsKnown, Speech PROVE SessionsKnown'
  OBVIOUS
<1>1. UNCHANGED <<session, starting, active, muted, lifeVars, toPython>>
  BY DEF Speech, ResetInput, ControlProcessed, BeginTurn, SpeechResumes, hostVars
<1>2. \A r \in Requests : stream'[r].session = stream[r].session
  <2>1. UNCHANGED stream \/ stream' = Cancelled(Finalizing)
    BY DEF Speech, ResetInput, ControlProcessed, BeginTurn, SpeechResumes
  <2>2. stream' = Cancelled(Finalizing) => StreamsKept
    BY FinalizingIds, CancelledKept DEF TypeInv, TypeOK, PyTypeOK
  <2>. QED
    BY <2>1, <2>2 DEF StreamsKept
<1>3. FailureComes => FailureComes'
  <2>1. UNCHANGED toNative \/ Emit(CancelEvents(Finalizing))
           \/ \E e : Emit(<<e>>)
    BY DEF Speech, ResetInput, ControlProcessed, BeginTurn, SpeechResumes
  <2>. QED
    BY <2>1, EmitKeepsFailure DEF TypeInv, TypeOK, ChannelTypeOK
<1>4. suspended' = "speech" /\ ~active =>
         suspended = "speech" /\ (ControlWaits(ControlKinds) => ControlWaits(ControlKinds)')
  <2>1. CASE ResetInput
    <3>1. Head(control).kind \in ControlKinds
      <4>1. control \in Seq(ControlEvents) /\ control # <<>>
        BY <2>1 DEF ResetInput, TypeInv, TypeOK, PyTypeOK
      <4>2. Head(control) \in ControlEvents
        BY <4>1, HeadTailProperties
      <4>. QED
        BY <4>2 DEF ControlEvents
    <3>. QED
      BY <2>1, <3>1 DEF ResetInput, ControlKinds
  <2>2. CASE BeginTurn
    <3>1. ControlWaits(ControlKinds) => ControlWaits(ControlKinds)'
      BY <2>2 DEF BeginTurn, ControlWaits, ControlKinds, None
    <3>. QED
      BY <2>2, <3>1 DEF BeginTurn
  <2>3. CASE ControlProcessed \/ SpeechResumes
    BY <2>3 DEF ControlProcessed, SpeechResumes, InputOpen
  <2>. QED
    BY <2>1, <2>2, <2>3 DEF Speech
<1>. QED
  BY <1>1, <1>2, <1>3, <1>4, QuietSessions

LEMMA DeltaKept ==
    ASSUME stream \in [Requests -> Streams], NEW r \in Requests, Waiting(r), NEW q,
           NEW state \in {"waiting", "abandoned"},
           stream' = [stream EXCEPT ![r] = [stream[r] EXCEPT !.queue = q, !.state = state]]
    PROVE  StreamsKept
<1>1. /\ stream'[r].op = stream[r].op /\ stream'[r].turn = stream[r].turn
      /\ stream'[r].session = stream[r].session /\ stream'[r].state = state
      /\ \A p \in Requests : p # r => stream'[p] = stream[p]
  BY DEF Streams
<1>. QED
  BY <1>1 DEF StreamsKept, Waiting

LEMMA ServiceSessions ==
    TypeInv /\ BridgeInv /\ SessionsKnown /\ TurnsKnown /\ Service => SessionsKnown'
<1>. SUFFICES ASSUME TypeInv, SessionsKnown, TurnsKnown, Service PROVE SessionsKnown'
  OBVIOUS
<1>. USE DEF Service, OpenRequest, Interrupted, Consume, TimeOut, CloseAbandoned, PipelineError
<1>1. UNCHANGED <<session, starting, active, muted, suspended, control, lifeVars, toPython>>
  BY DEF hostVars
<1>2. \A r \in Requests : stream'[r].session \in {stream[r].session, session}
  <2>0. stream \in [Requests -> Streams]
    BY DEF TypeInv, TypeOK, PyTypeOK
  <2>1. ASSUME NEW op \in Ops, OpenRequest(op)
        PROVE  \A r \in Requests : stream'[r].session \in {stream[r].session, session}
    <3>1. SessionOf(turn) = session
      BY OpenTurnIsOfSession DEF TurnsKnown
    <3>. QED
      BY <2>0, <2>1, <3>1
  <2>2. ASSUME NEW op \in Ops, Interrupted(op) PROVE StreamsKept
    <3>1. PICK ids \in SUBSET Requests : ids = {r \in Requests : Waiting(r) /\ stream[r].op = op}
      OBVIOUS
    <3>2. \A r \in ids : Pending(r)
      BY <3>1 DEF Waiting, Pending
    <3>3. stream' = Cancelled(ids) \/ stream' = Abandoned(ids)
      BY <2>2, <3>1
    <3>. QED
      BY <2>0, <3>2, <3>3, CancelledKept
  <2>3. ASSUME NEW r \in Requests, Consume(r) PROVE StreamsKept
    <3>1. \/ stream' = [stream EXCEPT ![r] = [stream[r] EXCEPT
                 !.queue = Tail(stream[r].queue),
                 !.state = IF turn = stream[r].turn /\ active THEN "waiting" ELSE "abandoned"]]
          \/ stream' = [stream EXCEPT ![r] = Closed(r, "done")]
          \/ stream' = [stream EXCEPT ![r] = Closed(r, "failed")]
      <4>1. Head(stream[r].queue) \in ResultKinds
        <5>1. stream[r].queue \in Seq(ResultKinds) /\ stream[r].queue # <<>>
          BY <2>0, <2>3 DEF Streams
        <5>. QED
          BY <5>1, HeadTailProperties
      <4>. QED
        BY <2>3, <4>1 DEF Raise, ResultKinds
    <3>2. Waiting(r)
      BY <2>3
    <3>3. CASE stream' = [stream EXCEPT ![r] = [stream[r] EXCEPT
                 !.queue = Tail(stream[r].queue),
                 !.state = IF turn = stream[r].turn /\ active THEN "waiting" ELSE "abandoned"]]
      <4>1. PICK state \in {"waiting", "abandoned"} :
               state = IF turn = stream[r].turn /\ active THEN "waiting" ELSE "abandoned"
        OBVIOUS
      <4>. QED
        BY <2>0, <3>2, <3>3, <4>1, DeltaKept
    <3>. QED
      BY <2>0, <3>1, <3>2, <3>3, ClosedKept
  <2>4. ASSUME NEW r \in Requests, TimeOut(r) \/ CloseAbandoned(r) PROVE StreamsKept
    <3>1. CASE TimeOut(r)
      BY <2>0, <3>1, ClosedKept DEF Raise
    <3>2. CASE CloseAbandoned(r)
      <4>1. PICK ids \in SUBSET Requests : ids = {r}
        OBVIOUS
      <4>. QED
        BY <2>0, <3>2, <4>1, CancelledKept DEF Pending
    <3>. QED
      BY <2>4, <3>1, <3>2
  <2>5. ASSUME NEW e \in errors, PipelineError(e)
        PROVE  UNCHANGED stream
    BY <2>5
  <2>. QED
    BY <2>1, <2>2, <2>3, <2>4, <2>5 DEF StreamsKept
<1>3. FailureComes => FailureComes'
  <2>1. UNCHANGED toNative \/ (\E ids : Emit(CancelEvents(ids))) \/ \E e : Emit(<<e>>)
    <3>1. ASSUME NEW r \in Requests, Consume(r)
          PROVE  UNCHANGED toNative \/ Emit(<<CancelRequest(r)>>)
      <4>1. Head(stream[r].queue) \in ResultKinds
        BY <3>1, HeadTailProperties DEF TypeInv, TypeOK, PyTypeOK, Streams
      <4>. QED
        BY <3>1, <4>1 DEF Raise, ResultKinds
    <3>2. ASSUME NEW r \in Requests, TimeOut(r) \/ CloseAbandoned(r)
          PROVE  Emit(<<CancelRequest(r)>>)
      BY <3>2 DEF Raise
    <3>3. ASSUME NEW e \in errors, PipelineError(e)
          PROVE  UNCHANGED toNative \/ \E ev : Emit(<<ev>>)
      BY <3>3
    <3>4. ASSUME NEW op \in Ops, OpenRequest(op) \/ Interrupted(op)
          PROVE  UNCHANGED toNative \/ (\E ids : Emit(CancelEvents(ids))) \/ \E e : Emit(<<e>>)
      BY <3>4
    <3>. QED
      BY <3>1, <3>2, <3>3, <3>4
  <2>. QED
    BY <2>1, EmitKeepsFailure DEF TypeInv, TypeOK, ChannelTypeOK
<1>4. ControlWaits(ControlKinds) => ControlWaits(ControlKinds)'
  BY <1>1 DEF ControlWaits, ControlKinds, None
<1>. QED
  BY <1>1, <1>2, <1>3, <1>4, QuietSessions

-----------------------------------------------------------------------------
(* The theorems.                                                            *)

BridgeMemory == SessionsKnown /\ RequestsRemembered /\ TurnsKnown

LEMMA InitMemory == Init => BridgeMemory
<1>. SUFFICES ASSUME Init PROVE BridgeMemory
  OBVIOUS
<1>1. /\ session = 0 /\ starting = 0 /\ generations = 0 /\ stage = "idle" /\ active = FALSE
      /\ sessionGeneration = Unannounced /\ hostMuted = FALSE /\ unmuting = FALSE
      /\ turn = None /\ suspended = "none" /\ control = <<>> /\ toNative = <<>> /\ toPython = <<>>
      /\ \A r \in Requests : stream[r].state = "unused" /\ stream[r].session = 0
  BY DEF Init, NoStream, None
<1>2. /\ \A i \in 1 .. Len(toPython) : FALSE
      /\ \A i \in 1 .. Len(toNative) : FALSE
  BY <1>1
<1>3. SessionsKnown
  BY <1>1, <1>2
     DEF SessionsKnown, HostStages, SessionsInOrder, EventsInOrder, StopsFollow, StartsArrive,
         LastMute, LatestSession, None
<1>4. RequestsRemembered
  BY <1>1, <1>2
     DEF RequestsRemembered, OldDoomed, StoppedDoomed, MutedDoomed, FencesDoom, CancelsGivenUp,
         Remembered, OneWaiting, CancelFollows, Opened, DoneIsFinished, Waiting
<1>5. TurnsKnown
  BY <1>1 DEF TurnsKnown, SpeechWaits, TurnOfSession, ControlKinds
<1>. QED
  BY <1>3, <1>4, <1>5 DEF BridgeMemory

LEMMA StepSessions ==
    TypeInv /\ BridgeInv /\ SessionsKnown /\ TurnsKnown /\ [Next]_vars => SessionsKnown'
<1>. SUFFICES ASSUME TypeInv, SessionsKnown, UNCHANGED vars PROVE SessionsKnown'
  BY UserSessions, SessionSessions, HandleSessions, PerformSessions, ReceiveSessions,
     SpeechSessions, ServiceSessions DEF Next
<1>1. UNCHANGED <<pyVars, hostVars, toNative, toPython>>
  BY DEF vars
<1>2. FailureComes => FailureComes'
  BY <1>1 DEF FailureComes, Unconditional, None
<1>. QED
  BY <1>1, <1>2, AnsweringSessions DEF hostVars, lifeVars

LEMMA StepRemembers ==
    ASSUME TypeInv, BridgeInv, SessionsKnown, RequestsRemembered, TurnsKnown, [Next]_vars
    PROVE  RequestsRemembered' /\ TurnsKnown'
<1>1. CASE UNCHANGED vars
  <2>1. Grows
    BY <1>1, TypesGiveNumbers, SentGrows DEF vars
  <2>2. UNCHANGED <<pyVars, task, toNative, sessionGeneration, hostMuted>>
    BY <1>1 DEF vars, hostVars, lifeVars
  <2>. QED
    BY <2>1, <2>2, IdleRemembers
<1>2. CASE Receive
  BY <1>2, ReceiveResultRemembers, ReceiveStartRemembers, SessionStartedRemembers,
     StartRaisesRemembers, ReceiveControlRemembers DEF Receive
<1>3. CASE Speech
  BY <1>3, ResetInputRemembers, ControlProcessedRemembers, BeginTurnRemembers,
     SpeechResumesRemembers DEF Speech
<1>4. CASE Service
  BY <1>4, OpenRequestRemembers, InterruptedRemembers, ConsumeRemembers, TimeOutRemembers,
     CloseAbandonedRemembers, PipelineErrorRemembers DEF Service
<1>. QED
  BY <1>1, <1>2, <1>3, <1>4, UserRemembers, SessionRemembers, HandleRemembers, PerformRemembers
     DEF Next

\* Neither side forgets the other: every request one of them gave up and every
\* session the host is done with leaves something in a queue that the other
\* side will meet, in every reachable state and for every bound.
THEOREM BridgeRemembers == Spec => []BridgeMemory
<1>1. TypeInv /\ BridgeInv /\ BridgeMemory /\ [Next]_vars => BridgeMemory'
  BY StepSessions, StepRemembers DEF BridgeMemory
<1>. QED
  BY <1>1, InitMemory, BridgeInvariant, PTL DEF Spec

\* Nothing waits and nothing is under way once every queue has drained.
LEMMA DrainedQuiet ==
    ASSUME Drained
    PROVE  /\ \A i \in 1 .. Len(toNative) : FALSE
           /\ \A i \in 1 .. Len(toPython) : FALSE
           /\ \A kinds, s : ~Announced(kinds, s)
           /\ \A r \in Requests : ~Requested(r) /\ ~Answered(r) /\ ~Doomed(r)
           /\ ~FailureComes
<1>1. /\ \A i \in 1 .. Len(toNative) : FALSE
      /\ \A i \in 1 .. Len(toPython) : FALSE
      /\ \A i \in 1 .. Len(control) : FALSE
      /\ \A r \in Requests : \A i \in 1 .. Len(stream[r].queue) : FALSE
      /\ interrupts = {} /\ suspended = "none"
  BY DEF Drained
<1>2. \A kinds, s : ~Announced(kinds, s)
  BY <1>1 DEF Announced
<1>3. \A r \in Requests : ~Requested(r) /\ ~Answered(r) /\ ~Doomed(r)
  BY <1>1, <1>2 DEF Requested, Answered, Doomed, Overtaken, CalledOff, ControlWaits, Interrupting
<1>. QED
  BY <1>1, <1>2, <1>3 DEF FailureComes

\* No request Python waits for is ever dropped without a word to Python.
THEOREM NothingForgotten == Spec => []NoForgottenRequest
<1>1. BridgeMemory => NoForgottenRequest
  BY DrainedQuiet DEF BridgeMemory, RequestsRemembered, Remembered, NoForgottenRequest
<1>. QED
  BY <1>1, BridgeRemembers, PTL

\* No Swift task is left working for a request Python gave up, whichever of
\* timeout, interruption, error and stop ended it there.
THEOREM NoOrphans == Spec => []NoOrphanWork
<1>1. TypeInv /\ BridgeInv /\ BridgeMemory => NoOrphanWork
  <2>. SUFFICES ASSUME TypeInv, BridgeInv, BridgeMemory, Drained, NEW r \in Requests, Live(r)
                PROVE  Pending(r)
    BY DEF NoOrphanWork
  <2>1. stream[r].state \in StreamStates
    BY DEF TypeInv, TypeOK, PyTypeOK, Streams
  <2>2. stream[r].state # "unused"
    BY DEF BridgeInv, NumberedInOrder, Live
  <2>3. stream[r].state # "done"
    BY DEF BridgeMemory, RequestsRemembered, DoneIsFinished, Live
  <2>4. stream[r].state \notin {"failed", "cancelled"}
    BY DrainedQuiet DEF BridgeMemory, RequestsRemembered, CancelFollows
  <2>. QED
    BY <2>1, <2>2, <2>3, <2>4 DEF StreamStates, Pending
<1>. QED
  BY <1>1, BridgeInvariant, BridgeRemembers, PTL

\* The two sides agree on the conversation, its session and mute whenever no
\* message is left between them, however their steps interleaved before.
THEOREM SidesAgree == Spec => []Agreement
<1>1. TypeInv /\ BridgeMemory => Agreement
  <2>. SUFFICES ASSUME TypeInv, BridgeMemory, Drained, stage \in {"idle", "live"}, ~unmuting
                PROVE  /\ active = hostActive
                       /\ hostActive => session = sessionGeneration /\ muted = hostMuted
    BY DEF Agreement
  <2>1. Numbers
    BY TypesGiveNumbers
  <2>2. active \in BOOLEAN /\ starting = None
    BY DEF TypeInv, TypeOK, PyTypeOK, Drained
  <2>3. CASE stage = "idle"
    <3>1. session # sessionGeneration
      BY <2>1, <2>3
         DEF BridgeMemory, SessionsKnown, SessionsInOrder, HostStages, LatestSession, Numbers
    <3>2. ~active
      BY <3>1, DrainedQuiet DEF BridgeMemory, SessionsKnown, StopsFollow, TypeInv
    <3>. QED
      BY <2>2, <2>3, <3>2 DEF hostActive
  <2>4. CASE stage = "live"
    <3>1. session = sessionGeneration /\ active
      BY <2>1, <2>2, <2>4, DrainedQuiet DEF BridgeMemory, SessionsKnown, StartsArrive, Numbers
    <3>2. muted <=> hostMuted \/ unmuting
      BY <2>1, <2>2, <2>4, <3>1, DrainedQuiet
         DEF BridgeMemory, SessionsKnown, LastMute, MuteSaid, Numbers
    <3>. QED
      BY <2>1, <2>2, <2>4, <3>1, <3>2 DEF hostActive, Numbers
  <2>. QED
    BY <2>3, <2>4
<1>. QED
  BY <1>1, BridgeInvariant, BridgeRemembers, PTL

\* Confirming a turn never cancels the finalization that supplied its words,
\* nor any other one Python waits for.
THEOREM ConfirmationSpares == Spec => ConfirmationKeepsFinalization
<1>1. TypeInv /\ BridgeInv /\ BridgeMemory /\ [Next]_vars =>
         [HandleUserTurn => \A r \in Requests :
             Waiting(r) /\ IsFinalization(r) => task'[r] = task[r]]_vars
  <2>. SUFFICES ASSUME TypeInv, BridgeInv, BridgeMemory, HandleUserTurn, NEW r \in Requests,
                       Waiting(r), IsFinalization(r)
                PROVE  task'[r] = task[r]
    OBVIOUS
  <2>1. NativeKnown /\ NativeTook /\ toNative[1].kind = "user_turn"
    BY NativeLength, HandledIsTook
       DEF HandleUserTurn, Handling, NativeTook, TypeInv, TypeOK, ChannelTypeOK
  <2>2. 1 \in 1 .. Len(toNative) /\ \A j \in 1 + 1 .. Len(toNative) : j \in 1 .. Len(toNative)
    BY <2>1 DEF NativeTook, NativeKnown
  <2>3. PICK j \in 1 .. Len(toNative) : RequestAt(j, r)
    BY <2>1, <2>2 DEF BridgeMemory, RequestsRemembered, FencesDoom
  <2>4. task[r] = "none"
    BY <2>3 DEF RequestAt, BridgeInv, AnnouncedOnce
  <2>5. task' = task \/ task' = CancelTasks(Requests)
    BY DEF HandleUserTurn
  <2>. QED
    BY <2>4, <2>5 DEF CancelTasks, Live
<1>. QED
  BY <1>1, BridgeInvariant, BridgeRemembers, PTL DEF Spec, ConfirmationKeepsFinalization

-----------------------------------------------------------------------------
(* Bounding the context: the length of a history. *)

Messages == [role : {"user", "assistant"}, length : Nat]

LEMMA MessagesOf ==
    ASSUME NEW q \in Seq(Messages)
    PROVE  /\ Len(q) \in Nat /\ DOMAIN q = 1 .. Len(q)
           /\ \A k \in 1 .. Len(q) : q[k] \in Messages /\ q[k].length \in Nat
<1>1. Len(q) \in Nat /\ DOMAIN q = 1 .. Len(q) /\ \A k \in 1 .. Len(q) : q[k] \in Messages
  OBVIOUS
<1>2. \A m \in Messages : m.length \in Nat
  BY DEF Messages
<1>. QED
  BY <1>1, <1>2

LEMMA LeastNumber == ASSUME NEW B \in SUBSET Nat, B # {} PROVE \E n \in B : \A m \in B : n <= m
<1>. DEFINE R == OpToRel(<, Nat)
<1>1. \A m, n \in Nat : m < n <=> <<m, n>> \in R
  BY DEF OpToRel
<1>2. IsWellFoundedOn(R, Nat)
  BY NatLessThanWellFounded
<1>. HIDE DEF R
<1>3. \E n \in B : \A m \in B : <<m, n>> \notin R
  BY <1>2, WFMin
<1>4. \A m, n \in Nat : ~(m < n) => n <= m
  OBVIOUS
<1>. QED
  BY <1>1, <1>3, <1>4

\* What holds of 0 and goes from each number to the next holds of all.
LEMMA AllUpTo ==
    ASSUME NEW n \in Nat, NEW G, 0 \in G, \A k \in 1 .. n : k - 1 \in G => k \in G
    PROVE  \A k \in 0 .. n : k \in G
<1>. DEFINE B == {k \in 0 .. n : k \notin G}
<1>. SUFFICES ASSUME B # {} PROVE FALSE
  OBVIOUS
<1>1. B \in SUBSET Nat
  OBVIOUS
<1>2. PICK m \in B : \A k \in B : m <= k
  BY <1>1, LeastNumber
<1>3. m \in 1 .. n /\ m - 1 \in 0 .. n /\ m - 1 \notin B
  BY <1>2
<1>. QED
  BY <1>2, <1>3

\* What Length adds up of the first n messages.
Sums(q, n, upTo) ==
    upTo = [i \in 0 .. n |-> IF i = 0 THEN 0 ELSE upTo[i - 1] + q[i].length]

LEMMA SumsExist == ASSUME NEW q, NEW n \in Nat PROVE \E upTo : Sums(q, n, upTo)
<1>. DEFINE G == {m \in Nat : \E upTo : Sums(q, m, upTo)}
<1>1. 0 \in G
  <2>1. Sums(q, 0, [i \in 0 .. 0 |-> 0])
    BY DEF Sums
  <2>. QED
    BY <2>1
<1>2. ASSUME NEW m \in 1 .. n, m - 1 \in G PROVE m \in G
  <2>1. m \in Nat /\ m - 1 \in Nat /\ m # 0
    OBVIOUS
  <2>2. PICK before : Sums(q, m - 1, before)
    BY <1>2
  <2>. DEFINE all == [i \in 0 .. m |-> IF i # m THEN before[i] ELSE before[m - 1] + q[m].length]
  <2>3. \A i \in 0 .. m - 1 : before[i] = IF i = 0 THEN 0 ELSE before[i - 1] + q[i].length
    BY <2>1, <2>2 DEF Sums
  <2>4. \A i \in 0 .. m : all[i] = IF i = 0 THEN 0 ELSE all[i - 1] + q[i].length
    BY <2>1, <2>3
  <2>5. Sums(q, m, all)
    BY <2>4 DEF Sums
  <2>. QED
    BY <2>1, <2>5
<1>. HIDE DEF G
<1>3. \A k \in 0 .. n : k \in G
  BY <1>1, <1>2, AllUpTo
<1>4. n \in G
  BY <1>3
<1>. QED
  BY <1>4 DEF G

LEMMA SumsStep ==
    ASSUME NEW q \in Seq(Messages), NEW upTo, Sums(q, Len(q), upTo)
    PROVE  /\ upTo[0] = 0
           /\ \A k \in 1 .. Len(q) : upTo[k] = upTo[k - 1] + q[k].length
           /\ \A k \in 0 .. Len(q) : upTo[k] \in Nat
<1>. DEFINE G == {k \in Nat : upTo[k] \in Nat}
<1>1. Len(q) \in Nat /\ \A k \in 1 .. Len(q) : q[k].length \in Nat
  BY MessagesOf
<1>2. \A k \in 0 .. Len(q) : upTo[k] = IF k = 0 THEN 0 ELSE upTo[k - 1] + q[k].length
  BY DEF Sums
<1>3. upTo[0] = 0 /\ \A k \in 1 .. Len(q) : upTo[k] = upTo[k - 1] + q[k].length
  <2>1. 0 \in 0 .. Len(q) /\ \A k \in 1 .. Len(q) : k \in 0 .. Len(q) /\ k # 0
    BY <1>1
  <2>. QED
    BY <1>2, <2>1
<1>4. 0 \in G /\ \A k \in 1 .. Len(q) : k - 1 \in G => k \in G
  BY <1>1, <1>3
<1>. HIDE DEF G
<1>5. \A k \in 0 .. Len(q) : k \in G
  BY <1>1, <1>4, AllUpTo
<1>. QED
  BY <1>3, <1>5 DEF G

LEMMA LengthSums ==
    ASSUME NEW q \in Seq(Messages)
    PROVE  \E upTo : Sums(q, Len(q), upTo) /\ Length(q) = upTo[Len(q)]
<1>. DEFINE upTo == CHOOSE u : Sums(q, Len(q), u)
<1>1. Sums(q, Len(q), upTo)
  BY SumsExist
<1>2. Length(q) = upTo[Len(q)]
  BY DEF Length, Sums
<1>. QED
  BY <1>1, <1>2

\* The length of what is joined.
LEMMA LengthJoined ==
    ASSUME NEW q \in Seq(Messages), NEW r \in Seq(Messages)
    PROVE  /\ Length(q) \in Nat
           /\ Length(q \o r) = Length(q) + Length(r)
<1>1. PICK u : Sums(q, Len(q), u) /\ Length(q) = u[Len(q)]
  BY LengthSums
<1>2. PICK v : Sums(r, Len(r), v) /\ Length(r) = v[Len(r)]
  BY LengthSums
<1>. DEFINE p == q \o r
<1>3. /\ p \in Seq(Messages) /\ Len(q) \in Nat /\ Len(r) \in Nat /\ Len(p) = Len(q) + Len(r)
      /\ \A k \in 1 .. Len(q) : p[k] = q[k]
      /\ \A k \in 1 .. Len(r) : p[Len(q) + k] = r[k]
  OBVIOUS
<1>4. PICK w : Sums(p, Len(p), w) /\ Length(p) = w[Len(p)]
  BY <1>3, LengthSums
<1>. HIDE DEF p
<1>5. /\ u[0] = 0 /\ \A k \in 1 .. Len(q) : u[k] = u[k - 1] + q[k].length
      /\ \A k \in 0 .. Len(q) : u[k] \in Nat
  BY <1>1, SumsStep
<1>6. /\ v[0] = 0 /\ \A k \in 1 .. Len(r) : v[k] = v[k - 1] + r[k].length
      /\ \A k \in 0 .. Len(r) : v[k] \in Nat
  BY <1>2, SumsStep
<1>7. w[0] = 0 /\ \A k \in 1 .. Len(p) : w[k] = w[k - 1] + p[k].length
  BY <1>3, <1>4, SumsStep
<1>. DEFINE G == {k \in Nat : w[k] = u[k]}
            H == {k \in Nat : w[Len(q) + k] = u[Len(q)] + v[k]}
<1>8. 0 \in G /\ \A k \in 1 .. Len(q) : k - 1 \in G => k \in G
  <2>1. \A k \in 1 .. Len(q) : k \in 1 .. Len(p) /\ k \in Nat /\ w[k] = w[k - 1] + q[k].length
    BY <1>3, <1>7
  <2>. QED
    BY <1>5, <1>7, <2>1
<1>9. \A k \in 0 .. Len(q) : k \in G
  <2>. HIDE DEF G
  <2>. QED
    BY <1>3, <1>8, AllUpTo
<1>10. w[Len(q)] = u[Len(q)] /\ u[Len(q)] \in Nat
  BY <1>3, <1>5, <1>9
<1>11. 0 \in H
  BY <1>3, <1>6, <1>10
<1>12. ASSUME NEW k \in 1 .. Len(r), k - 1 \in H PROVE k \in H
  <2>1. /\ k \in Nat /\ k - 1 \in 0 .. Len(r)
        /\ Len(q) + k \in 1 .. Len(p) /\ (Len(q) + k) - 1 = Len(q) + (k - 1)
    BY <1>3
  <2>2. w[Len(q) + k] = w[Len(q) + (k - 1)] + r[k].length
    BY <1>3, <1>7, <2>1
  <2>3. r[k].length \in Nat /\ v[k - 1] \in Nat
    BY <1>6, <2>1, MessagesOf
  <2>4. w[Len(q) + (k - 1)] = u[Len(q)] + v[k - 1]
    BY <1>12
  <2>5. v[k] = v[k - 1] + r[k].length
    BY <1>6
  <2>6. w[Len(q) + k] = u[Len(q)] + v[k]
    BY <1>10, <2>2, <2>3, <2>4, <2>5
  <2>. QED
    BY <2>1, <2>6
<1>13. \A k \in 0 .. Len(r) : k \in H
  <2>. HIDE DEF H
  <2>. QED
    BY <1>3, <1>11, <1>12, AllUpTo
<1>14. Len(r) \in H
  BY <1>3, <1>13
<1>. QED
  BY <1>1, <1>2, <1>3, <1>4, <1>10, <1>14 DEF p

LEMMA LengthOfNone == Length(<<>>) = 0
<1>1. <<>> \in Seq(Messages) /\ Len(<<>>) = 0
  OBVIOUS
<1>2. PICK u : Sums(<<>>, 0, u) /\ Length(<<>>) = u[0]
  BY <1>1, LengthSums
<1>. QED
  BY <1>1, <1>2, SumsStep
-----------------------------------------------------------------------------
(* What is left of a history from a message on. *)

LEMMA SameMessages ==
    ASSUME NEW q \in Seq(Messages), NEW r \in Seq(Messages), Len(q) = Len(r),
           \A k \in 1 .. Len(q) : q[k] = r[k]
    PROVE  q = r
  OBVIOUS

LEMMA FromOf ==
    ASSUME NEW q \in Seq(Messages), NEW i \in 1 .. Len(q) + 1
    PROVE  LET f == From(q, i)
           IN  /\ f \in Seq(Messages) /\ Len(f) = Len(q) + 1 - i
               /\ \A k \in 1 .. Len(f) : f[k] = q[i + k - 1]
               /\ UserAt(f) = {k \in 1 .. Len(f) : i + k - 1 \in UserAt(q)}
<1>. DEFINE f == From(q, i)
<1>1. Len(q) \in Nat /\ i \in Nat /\ i <= Len(q) + 1 /\ i >= 1 /\ DOMAIN q = 1 .. Len(q)
  OBVIOUS
<1>2. f \in Seq(Messages) /\ Len(f) = Len(q) + 1 - i /\ \A k \in 1 .. Len(f) : f[k] = q[i + k - 1]
  BY <1>1 DEF From
<1>. HIDE DEF f
<1>3. DOMAIN f = 1 .. Len(f) /\ \A k \in 1 .. Len(f) : i + k - 1 \in DOMAIN q
  BY <1>1, <1>2
<1>4. UserAt(f) = {k \in 1 .. Len(f) : i + k - 1 \in UserAt(q)}
  BY <1>2, <1>3 DEF UserAt
<1>. QED
  BY <1>2, <1>4 DEF f

LEMMA FromFrom ==
    ASSUME NEW q \in Seq(Messages), NEW i \in 1 .. Len(q) + 1, NEW j \in 1 .. Len(q) + 2 - i
    PROVE  /\ i + j - 1 \in 1 .. Len(q) + 1
           /\ From(From(q, i), j) = From(q, i + j - 1)
<1>. DEFINE f == From(q, i)
            g == From(f, j)
            h == From(q, i + j - 1)
<1>1. Len(q) \in Nat /\ i \in Nat /\ j \in Nat /\ i + j - 1 \in 1 .. Len(q) + 1
  OBVIOUS
<1>2. f \in Seq(Messages) /\ Len(f) = Len(q) + 1 - i /\ \A k \in 1 .. Len(f) : f[k] = q[i + k - 1]
  BY FromOf
<1>. HIDE DEF f
<1>3. j \in 1 .. Len(f) + 1
  BY <1>1, <1>2
<1>4. g \in Seq(Messages) /\ Len(g) = Len(f) + 1 - j /\ \A k \in 1 .. Len(g) : g[k] = f[j + k - 1]
  BY <1>2, <1>3, FromOf
<1>5. h \in Seq(Messages) /\ Len(h) = Len(q) + 1 - (i + j - 1)
      /\ \A k \in 1 .. Len(h) : h[k] = q[(i + j - 1) + k - 1]
  BY <1>1, FromOf
<1>. HIDE DEF g, h
<1>6. Len(g) = Len(h) /\ Len(g) \in Nat
  BY <1>1, <1>2, <1>4, <1>5
<1>7. ASSUME NEW k \in 1 .. Len(g) PROVE g[k] = h[k]
  <2>0. k \in Nat /\ k >= 1 /\ k <= Len(f) + 1 - j /\ Len(f) \in Nat
    BY <1>2, <1>4, <1>6
  <2>1. k \in Nat /\ j + k - 1 \in 1 .. Len(f) /\ k \in 1 .. Len(h)
    BY <1>1, <1>6, <2>0
  <2>2. i + (j + k - 1) - 1 = (i + j - 1) + k - 1
    BY <1>1, <2>1
  <2>. QED
    BY <1>2, <1>4, <1>5, <2>1, <2>2
<1>8. g = h
  BY <1>4, <1>5, <1>6, <1>7, SameMessages
<1>. QED
  BY <1>1, <1>8 DEF f, g, h

LEMMA FromAppended ==
    ASSUME NEW q \in Seq(Messages), NEW m \in Messages, NEW i \in 1 .. Len(q) + 1
    PROVE  From(Append(q, m), i) = Append(From(q, i), m)
<1>. DEFINE f == From(q, i)
            p == Append(q, m)
            g == From(p, i)
            h == Append(f, m)
<1>1. Len(q) \in Nat /\ i \in Nat /\ i \in 1 .. Len(q) + 1
  OBVIOUS
<1>2. f \in Seq(Messages) /\ Len(f) = Len(q) + 1 - i /\ \A k \in 1 .. Len(f) : f[k] = q[i + k - 1]
  BY FromOf
<1>3. p \in Seq(Messages) /\ Len(p) = Len(q) + 1 /\ p[Len(q) + 1] = m /\ \A k \in 1 .. Len(q) : p[k] = q[k]
  OBVIOUS
<1>. HIDE DEF f, p
<1>4. h \in Seq(Messages) /\ Len(h) = Len(f) + 1 /\ h[Len(f) + 1] = m /\ \A k \in 1 .. Len(f) : h[k] = f[k]
  BY <1>2
<1>5. i \in 1 .. Len(p) + 1
  BY <1>1, <1>3
<1>6. g \in Seq(Messages) /\ Len(g) = Len(p) + 1 - i /\ \A k \in 1 .. Len(g) : g[k] = p[i + k - 1]
  BY <1>3, <1>5, FromOf
<1>. HIDE DEF g, h
<1>7. Len(g) = Len(h) /\ Len(g) \in Nat
  BY <1>1, <1>2, <1>3, <1>4, <1>6
<1>8. ASSUME NEW k \in 1 .. Len(g) PROVE g[k] = h[k]
  <2>1. k \in Nat /\ g[k] = p[i + k - 1]
    BY <1>6
  <2>2. CASE k = Len(f) + 1
    <3>1. i + k - 1 = Len(q) + 1
      BY <1>1, <1>2, <2>2
    <3>. QED
      BY <1>3, <1>4, <2>1, <2>2, <3>1
  <2>3. CASE k # Len(f) + 1
    <3>1. Len(f) \in Nat /\ k <= Len(f) + 1 /\ k >= 1
      BY <1>1, <1>2, <1>4, <1>7
    <3>2. k \in 1 .. Len(f)
      BY <2>1, <2>3, <3>1
    <3>3. i + k - 1 \in 1 .. Len(q)
      BY <1>1, <1>2, <2>1, <3>2
    <3>. QED
      BY <1>2, <1>3, <1>4, <2>1, <3>2, <3>3
  <2>. QED
    BY <2>2, <2>3
<1>9. g = h
  BY <1>4, <1>6, <1>7, <1>8, SameMessages
<1>. QED
  BY <1>9 DEF f, g, h, p

\* The user messages from a place on are those of what is left.
UsersFrom(q, i) == {k \in UserAt(q) : k >= i}

LEMMA UsersCounted ==
    ASSUME NEW q \in Seq(Messages), NEW i \in 1 .. Len(q) + 1
    PROVE  /\ IsFiniteSet(UsersFrom(q, i)) /\ Cardinality(UsersFrom(q, i)) \in Nat
           /\ Cardinality(UserAt(From(q, i))) = Cardinality(UsersFrom(q, i))
<1>. DEFINE f == From(q, i)
            S == UsersFrom(q, i)
            T == UserAt(f)
            shift == [k \in S |-> k - i + 1]
<1>1. Len(q) \in Nat /\ i \in Nat /\ DOMAIN q = 1 .. Len(q)
  OBVIOUS
<1>2. Len(f) = Len(q) + 1 - i /\ T = {k \in 1 .. Len(f) : i + k - 1 \in UserAt(q)}
  BY FromOf
<1>3. S \subseteq 1 .. Len(q) /\ \A k \in S : k >= i
  BY <1>1 DEF UsersFrom, UserAt
<1>4. IsFiniteSet(S) /\ Cardinality(S) \in Nat
  <2>1. IsFiniteSet(1 .. Len(q))
    BY <1>1, FS_Interval
  <2>2. IsFiniteSet(S)
    BY <1>3, <2>1, FS_Subset
  <2>. QED
    BY <2>2, FS_CardinalityType
<1>. HIDE DEF f
<1>5. ASSUME NEW k \in S PROVE k - i + 1 \in T
  <2>1. k \in Nat /\ k >= i /\ k <= Len(q) /\ k \in UserAt(q)
    BY <1>1, <1>3 DEF UsersFrom
  <2>2. i + (k - i + 1) - 1 = k /\ k - i + 1 \in 1 .. Len(f)
    BY <1>1, <1>2, <2>1
  <2>. QED
    BY <1>2, <2>1, <2>2
<1>6. ASSUME NEW k \in T PROVE \E l \in S : l - i + 1 = k
  <2>1. k \in 1 .. Len(f) /\ i + k - 1 \in UserAt(q) /\ i + k - 1 >= i /\ (i + k - 1) - i + 1 = k
    BY <1>1, <1>2
  <2>. QED
    BY <2>1 DEF UsersFrom
<1>7. \A k, l \in S : k - i + 1 = l - i + 1 => k = l
  BY <1>1, <1>3
<1>. HIDE DEF S, T
<1>8. shift \in Bijection(S, T)
  <2>1. shift \in [S -> T] /\ \A k \in S : shift[k] = k - i + 1
    BY <1>5
  <2>2. IsInjective(shift)
    BY <1>7, <2>1 DEF IsInjective
  <2>3. \A k \in T : \E l \in S : shift[l] = k
    BY <1>6, <2>1
  <2>. HIDE DEF shift
  <2>. QED
    BY <2>1, <2>2, <2>3 DEF Bijection, Injection, Surjection
<1>9. ExistsBijection(S, T)
  BY <1>8 DEF ExistsBijection
<1>10. Cardinality(T) = Cardinality(S)
  BY <1>4, <1>9, FS_Bijection
<1>. QED
  BY <1>4, <1>10 DEF S, T, f

-----------------------------------------------------------------------------
(* What fits. *)

LEMMA TurnsShifted ==
    ASSUME NEW q \in Seq(Messages), NEW i \in 1 .. Len(q) + 1, NEW j \in 1 .. Len(q) + 2 - i
    PROVE  /\ j \in TurnStarts(From(q, i)) <=> i + j - 1 \in TurnStarts(q)
           /\ FitFrom(From(q, i), j) <=> FitFrom(q, i + j - 1)
<1>. DEFINE f == From(q, i)
<1>1. Len(q) \in Nat /\ i \in Nat /\ j \in Nat /\ DOMAIN q = 1 .. Len(q)
  OBVIOUS
<1>2. Len(f) = Len(q) + 1 - i /\ UserAt(f) = {k \in 1 .. Len(f) : i + k - 1 \in UserAt(q)}
  BY FromOf
<1>. HIDE DEF f
<1>3. UserAt(q) \subseteq 1 .. Len(q)
  BY <1>1 DEF UserAt
<1>4. j = Len(f) + 1 <=> i + j - 1 = Len(q) + 1
  BY <1>1, <1>2
<1>5. j \in UserAt(f) <=> i + j - 1 \in UserAt(q)
  <2>1. i + j - 1 \in 1 .. Len(q) => j \in 1 .. Len(f)
    BY <1>1, <1>2
  <2>. QED
    BY <1>2, <1>3, <2>1
<1>6. j \in TurnStarts(f) <=> i + j - 1 \in TurnStarts(q)
  BY <1>4, <1>5 DEF TurnStarts
<1>7. From(f, j) = From(q, i + j - 1)
  BY FromFrom DEF f
<1>. QED
  BY <1>6, <1>7 DEF f, FitFrom

\* A turn that fits would have fitted before the last message.
LEMMA FitsWithout ==
    ASSUME NEW q \in Seq(Messages), NEW m \in Messages, NEW i \in 1 .. Len(q) + 1,
           FitFrom(Append(q, m), i)
    PROVE  FitFrom(q, i)
<1>. DEFINE f == From(q, i)
            g == Append(f, m)
<1>1. f \in Seq(Messages)
  BY FromOf
<1>2. From(Append(q, m), i) = g
  BY FromAppended
<1>. HIDE DEF f
<1>3. g \in Seq(Messages) /\ g = f \o <<m>> /\ <<m>> \in Seq(Messages)
  BY <1>1
<1>4. /\ Len(f) \in Nat /\ DOMAIN f = 1 .. Len(f) /\ DOMAIN g = 1 .. Len(f) + 1
      /\ \A k \in 1 .. Len(f) : g[k] = f[k]
  BY <1>1
<1>5. UserAt(f) \subseteq UserAt(g) /\ UserAt(g) \subseteq 1 .. Len(f) + 1
  <2>1. \A k \in DOMAIN f : k \in DOMAIN g /\ g[k] = f[k]
    BY <1>4
  <2>. HIDE DEF g
  <2>. QED
    BY <1>4, <2>1 DEF UserAt
<1>6. /\ Cardinality(UserAt(f)) \in Nat /\ Cardinality(UserAt(g)) \in Nat
      /\ Cardinality(UserAt(f)) <= Cardinality(UserAt(g))
  <2>1. IsFiniteSet(1 .. Len(f) + 1)
    BY <1>4, FS_Interval
  <2>2. IsFiniteSet(UserAt(g))
    BY <1>5, <2>1, FS_Subset
  <2>3. IsFiniteSet(UserAt(f)) /\ Cardinality(UserAt(f)) <= Cardinality(UserAt(g))
    BY <1>5, <2>2, FS_Subset
  <2>. QED
    BY <2>2, <2>3, FS_CardinalityType
<1>. HIDE DEF g
<1>7. Length(f) \in Nat /\ Length(<<m>>) \in Nat
      /\ Length(g) = Length(f) + Length(<<m>>)
  BY <1>1, <1>3, LengthJoined
<1>8. Cardinality(UserAt(g)) <= MaxHistoryTurns /\ Length(g) <= MaxHistoryCharacters
  BY <1>2 DEF FitFrom
<1>9. MaxHistoryTurns \in Nat /\ MaxHistoryCharacters \in Nat
  BY ContextAssumption
<1>. QED
  BY <1>6, <1>7, <1>8, <1>9 DEF FitFrom, f

\* What is left from i on is what is before j and what is left from j on.
LEMMA FromSplit ==
    ASSUME NEW q \in Seq(Messages), NEW i \in 1 .. Len(q) + 1, NEW j \in i .. Len(q) + 1
    PROVE  /\ Length(SubSeq(q, i, j - 1)) \in Nat /\ Length(From(q, j)) \in Nat
           /\ Length(From(q, i))
                = Length(SubSeq(q, i, j - 1)) + Length(From(q, j))
<1>. DEFINE f == From(q, i)
            g == SubSeq(q, i, j - 1)
            h == From(q, j)
            r == g \o h
<1>1. Len(q) \in Nat /\ i \in Nat /\ j \in Nat /\ j \in 1 .. Len(q) + 1 /\ i >= 1 /\ i <= j
  OBVIOUS
<1>2. f \in Seq(Messages) /\ Len(f) = Len(q) + 1 - i /\ \A k \in 1 .. Len(f) : f[k] = q[i + k - 1]
  BY FromOf
<1>3. h \in Seq(Messages) /\ Len(h) = Len(q) + 1 - j /\ \A k \in 1 .. Len(h) : h[k] = q[j + k - 1]
  BY <1>1, FromOf
<1>4. g \in Seq(Messages) /\ Len(g) = j - i /\ \A k \in 1 .. Len(g) : g[k] = q[i + k - 1]
  BY <1>1
<1>. HIDE DEF f, g, h
<1>5. /\ r \in Seq(Messages) /\ Len(r) = Len(g) + Len(h)
      /\ \A k \in 1 .. Len(g) : r[k] = g[k]
      /\ \A k \in 1 .. Len(r) : k > Len(g) => r[k] = h[k - Len(g)]
  BY <1>3, <1>4
<1>. HIDE DEF r
<1>6. Len(r) = Len(f) /\ Len(r) \in Nat
  BY <1>1, <1>2, <1>3, <1>4, <1>5
<1>7. ASSUME NEW k \in 1 .. Len(r) PROVE r[k] = f[k]
  <2>0. k \in Nat /\ k \in 1 .. Len(f)
    BY <1>6
  <2>1. f[k] = q[i + k - 1] /\ Len(g) \in Nat /\ Len(h) \in Nat
    <3>1. f[k] = q[i + k - 1]
      BY <1>2, <2>0
    <3>2. Len(g) \in Nat /\ Len(h) \in Nat
      BY <1>3, <1>4, MessagesOf
    <3>. QED
      BY <3>1, <3>2
  <2>2. CASE k <= Len(g)
    <3>1. k \in 1 .. Len(g)
      BY <2>0, <2>1, <2>2
    <3>2. r[k] = g[k] /\ g[k] = q[i + k - 1]
      BY <1>4, <1>5, <3>1
    <3>. QED
      BY <2>1, <3>2
  <2>3. CASE k > Len(g)
    <3>1. k - Len(g) \in 1 .. Len(h) /\ j + (k - Len(g)) - 1 = i + k - 1
      BY <1>1, <1>4, <1>5, <2>0, <2>1, <2>3
    <3>. QED
      BY <1>3, <1>5, <2>1, <2>3, <3>1
  <2>. QED
    BY <2>0, <2>1, <2>2, <2>3
<1>8. r = f
  BY <1>2, <1>5, <1>6, <1>7, SameMessages
<1>9. /\ Length(r) = Length(g) + Length(h)
      /\ Length(g) \in Nat /\ Length(h) \in Nat
  BY <1>3, <1>4, LengthJoined DEF r
<1>. QED
  BY <1>8, <1>9 DEF f, g, h

\* What FitFrom says, counted in the whole history.
LEMMA FitCounts ==
    ASSUME NEW q \in Seq(Messages), NEW i \in 1 .. Len(q) + 1
    PROVE  FitFrom(q, i)
             <=> /\ Cardinality(UsersFrom(q, i)) <= MaxHistoryTurns
                 /\ Length(From(q, i)) <= MaxHistoryCharacters
  BY UsersCounted DEF FitFrom

\* What begins later fits if what begins earlier does.
LEMMA FitsLater ==
    ASSUME NEW q \in Seq(Messages), NEW i \in 1 .. Len(q) + 1,
           NEW j \in i .. Len(q) + 1, FitFrom(q, i)
    PROVE  FitFrom(q, j)
<1>1. Len(q) \in Nat /\ i \in Nat /\ j \in Nat /\ j \in 1 .. Len(q) + 1 /\ i <= j
  OBVIOUS
<1>2. MaxHistoryTurns \in Nat /\ MaxHistoryCharacters \in Nat
  BY ContextAssumption
<1>3. UsersFrom(q, j) \subseteq UsersFrom(q, i)
  <2>1. \A k \in UserAt(q) : k \in Nat /\ (k >= j => k >= i)
    BY <1>1, MessagesOf DEF UserAt
  <2>. QED
    BY <2>1 DEF UsersFrom
<1>4. /\ Cardinality(UsersFrom(q, j)) \in Nat /\ Cardinality(UsersFrom(q, i)) \in Nat
      /\ Cardinality(UsersFrom(q, j)) <= Cardinality(UsersFrom(q, i))
  <2>1. IsFiniteSet(UsersFrom(q, i)) /\ Cardinality(UsersFrom(q, i)) \in Nat
    BY UsersCounted
  <2>2. Cardinality(UsersFrom(q, j)) \in Nat
    BY <1>1, UsersCounted
  <2>. QED
    BY <1>3, <2>1, <2>2, FS_Subset
<1>. DEFINE f == Length(From(q, i))
            g == Length(SubSeq(q, i, j - 1))
            h == Length(From(q, j))
<1>5. f = g + h /\ g \in Nat /\ h \in Nat
  BY FromSplit
<1>6. Cardinality(UsersFrom(q, i)) <= MaxHistoryTurns /\ f <= MaxHistoryCharacters
  BY FitCounts
<1>. HIDE DEF f, g, h
<1>7. Cardinality(UsersFrom(q, j)) <= MaxHistoryTurns /\ h <= MaxHistoryCharacters
  BY <1>2, <1>4, <1>5, <1>6
<1>. QED
  BY <1>1, <1>7, FitCounts DEF h

-----------------------------------------------------------------------------
(* The walk keeps as many turns as fit. *)

Kept(q, w) ==
    /\ w \in [turns : Nat, characters : Nat, start : Nat, stopped : BOOLEAN]
    /\ w.start \in TurnStarts(q) /\ FitFrom(q, w.start)
    /\ w.turns = Cardinality(UsersFrom(q, w.start))
    /\ w.characters = Length(From(q, w.start))

\* What has become of the walk when it has come to message i.
WalkedTo(q, w, i) ==
    /\ Kept(q, w) /\ w.start >= i
    /\ ~w.stopped => \A j \in UserAt(q) : j >= i => j >= w.start
    /\ w.stopped => \A j \in TurnStarts(q) : FitFrom(q, j) => w.start <= j

Longest(q, i) ==
    /\ i \in TurnStarts(q) /\ FitFrom(q, i)
    /\ \A j \in TurnStarts(q) : FitFrom(q, j) => i <= j

LEMMA TurnsOf ==
    ASSUME NEW q \in Seq(Messages)
    PROVE  /\ Len(q) \in Nat /\ UserAt(q) \subseteq 1 .. Len(q)
           /\ TurnStarts(q) = UserAt(q) \union {Len(q) + 1}
           /\ TurnStarts(q) \subseteq 1 .. Len(q) + 1
<1>1. Len(q) \in Nat /\ UserAt(q) \subseteq 1 .. Len(q)
  BY MessagesOf DEF UserAt
<1>. QED
  BY <1>1 DEF TurnStarts

LEMMA WalkStep ==
    ASSUME NEW q \in Seq(Messages), NEW i \in 1 .. Len(q), NEW w, WalkedTo(q, w, i + 1)
    PROVE  WalkedTo(q, Back(q, w, i, MaxHistoryTurns, MaxHistoryCharacters), i)
<1>. DEFINE size == Length(SubSeq(q, i, w.start - 1))
            b == Back(q, w, i, MaxHistoryTurns, MaxHistoryCharacters)
<1>1. /\ Len(q) \in Nat /\ i \in Nat /\ i \in 1 .. Len(q) + 1 /\ UserAt(q) \subseteq 1 .. Len(q)
      /\ TurnStarts(q) = UserAt(q) \union {Len(q) + 1}
      /\ TurnStarts(q) \subseteq 1 .. Len(q) + 1
  BY TurnsOf
<1>2. /\ Kept(q, w) /\ w.start \in Nat /\ w.turns \in Nat /\ w.characters \in Nat /\ w.stopped \in BOOLEAN
      /\ w.start >= i + 1 /\ w.start \in 1 .. Len(q) + 1
  BY <1>1 DEF WalkedTo, Kept
<1>3. MaxHistoryTurns \in Nat /\ MaxHistoryCharacters \in Nat
  BY ContextAssumption
<1>4. CASE w.stopped
  <2>1. b = w
    BY <1>4 DEF Back
  <2>. QED
    BY <1>1, <1>2, <1>4, <2>1 DEF WalkedTo
<1>5. CASE ~w.stopped /\ i \notin UserAt(q)
  <2>1. b = w
    BY <1>5 DEF Back
  <2>2. ASSUME NEW j \in UserAt(q), j >= i PROVE j >= w.start
    <3>1. j \in Nat /\ j # i /\ j >= i + 1
      BY <1>1, <1>5, <2>2
    <3>. QED
      BY <1>5, <3>1 DEF WalkedTo
  <2>. QED
    BY <1>1, <1>2, <1>5, <2>1, <2>2 DEF WalkedTo
<1>6. CASE ~w.stopped /\ i \in UserAt(q)
  <2>1. \A j \in UserAt(q) : j >= i => j = i \/ j >= w.start
    <3>1. ASSUME NEW j \in UserAt(q), j >= i, j # i PROVE j >= w.start
      <4>1. j \in Nat /\ j >= i + 1
        BY <1>1, <3>1
      <4>. QED
        BY <1>6, <4>1 DEF WalkedTo
    <3>. QED
      BY <3>1
  <2>2. Cardinality(UsersFrom(q, i)) = w.turns + 1
    <3>1. UsersFrom(q, i) = UsersFrom(q, w.start) \cup {i} /\ i \notin UsersFrom(q, w.start)
      <4>1. \A j \in UserAt(q) : j \in Nat /\ (j >= i <=> j >= w.start \/ j = i)
        BY <1>1, <1>2, <2>1
      <4>2. ~(i >= w.start)
        BY <1>1, <1>2
      <4>. QED
        BY <1>6, <4>1, <4>2 DEF UsersFrom
    <3>2. IsFiniteSet(UsersFrom(q, w.start))
      BY <1>2, UsersCounted
    <3>3. Cardinality(UsersFrom(q, i)) = Cardinality(UsersFrom(q, w.start)) + 1
      BY <3>1, <3>2, FS_AddElement
    <3>. QED
      BY <1>2, <3>3 DEF Kept
  <2>3. Length(From(q, i)) = w.characters + size /\ size \in Nat
    <3>1. w.start \in i .. Len(q) + 1
      BY <1>1, <1>2
    <3>2. /\ size \in Nat /\ Length(From(q, w.start)) \in Nat
          /\ Length(From(q, i)) = size + Length(From(q, w.start))
      BY <1>1, <3>1, FromSplit
    <3>. QED
      BY <1>2, <3>2 DEF Kept
  <2>. DEFINE count == w.turns + 1
              characters == w.characters + size
              all == [turns : Nat, characters : Nat, start : Nat, stopped : BOOLEAN]
  <2>4. count \in Nat /\ characters \in Nat /\ w \in all
    <3>1. w \in all
      BY <1>2 DEF Kept
    <3>. HIDE DEF size
    <3>. QED
      BY <1>2, <2>3, <3>1
  <2>5. b = IF i \notin UserAt(q) \/ w.stopped THEN w
            ELSE IF count > MaxHistoryTurns \/ characters > MaxHistoryCharacters
                 THEN [w EXCEPT !.stopped = TRUE]
                 ELSE [w EXCEPT !.turns = count, !.characters = characters, !.start = i]
    BY DEF Back
  <2>6. /\ Cardinality(UsersFrom(q, i)) = count /\ Length(From(q, i)) = characters
        /\ FitFrom(q, i) <=> count <= MaxHistoryTurns /\ characters <= MaxHistoryCharacters
    BY <1>1, <2>2, <2>3, FitCounts
  <2>. HIDE DEF count, characters, b
  <2>7. CASE FitFrom(q, i)
    <3>1. ~(count > MaxHistoryTurns \/ characters > MaxHistoryCharacters)
      BY <1>3, <2>4, <2>6, <2>7
    <3>2. b = [w EXCEPT !.turns = count, !.characters = characters, !.start = i]
      BY <1>6, <2>5, <3>1
    <3>3. b \in all
      BY <1>1, <2>4, <3>2
    <3>4. b.turns = count /\ b.characters = characters /\ b.start = i /\ ~b.stopped
      BY <1>6, <2>4, <3>2
    <3>5. Kept(q, b)
      BY <1>1, <1>6, <2>6, <2>7, <3>3, <3>4 DEF Kept
    <3>. QED
      BY <1>1, <3>4, <3>5 DEF WalkedTo, b
  <2>8. CASE ~FitFrom(q, i)
    <3>1. count > MaxHistoryTurns \/ characters > MaxHistoryCharacters
      BY <1>3, <2>4, <2>6, <2>8
    <3>2. b = [w EXCEPT !.stopped = TRUE]
      BY <1>6, <2>5, <3>1
    <3>3. b \in all /\ b.turns = w.turns /\ b.characters = w.characters /\ b.start = w.start /\ b.stopped
      BY <2>4, <3>2
    <3>5. Kept(q, b)
      BY <1>2, <3>3 DEF Kept
    <3>4. ASSUME NEW j \in TurnStarts(q), FitFrom(q, j) PROVE w.start <= j
      <4>1. CASE j <= i
        <5>1. j \in 1 .. Len(q) + 1 /\ i \in j .. Len(q) + 1
          BY <1>1, <4>1
        <5>. QED
          BY <2>8, <3>4, <5>1, FitsLater
      <4>2. CASE ~(j <= i)
        <5>1. j \in Nat /\ j >= i /\ j # i
          BY <1>1, <4>2
        <5>2. j \in UserAt(q) => j >= w.start
          BY <2>1, <5>1
        <5>3. j \in UserAt(q) \/ j = Len(q) + 1
          BY <1>1
        <5>. QED
          BY <1>1, <1>2, <5>1, <5>2, <5>3
      <4>. QED
        BY <4>1, <4>2
    <3>. QED
      BY <1>1, <1>2, <3>3, <3>4, <3>5 DEF WalkedTo, b
  <2>. QED
    BY <2>7, <2>8
<1>. QED
  BY <1>2, <1>4, <1>5, <1>6

\* What Walk makes of the first n messages of its way.
Walks(q, n, walk) ==
    walk = [k \in 0 .. n |->
               IF k = 0 THEN [turns |-> 0, characters |-> 0, start |-> Len(q) + 1, stopped |-> FALSE]
               ELSE Back(q, walk[k - 1], Len(q) + 1 - k, MaxHistoryTurns, MaxHistoryCharacters)]

LEMMA WalkExists == ASSUME NEW q, NEW n \in Nat PROVE \E walk : Walks(q, n, walk)
<1>. DEFINE G == {m \in Nat : \E walk : Walks(q, m, walk)}
            w0 == [turns |-> 0, characters |-> 0, start |-> Len(q) + 1, stopped |-> FALSE]
            B(w, k) == Back(q, w, Len(q) + 1 - k, MaxHistoryTurns, MaxHistoryCharacters)
<1>1. 0 \in G
  <2>1. Walks(q, 0, [i \in 0 .. 0 |-> w0])
    BY DEF Walks
  <2>. QED
    BY <2>1
<1>2. ASSUME NEW m \in 1 .. n, m - 1 \in G PROVE m \in G
  <2>1. m \in Nat /\ m - 1 \in Nat /\ m # 0
    OBVIOUS
  <2>2. PICK before : Walks(q, m - 1, before)
    BY <1>2
  <2>. DEFINE all == [i \in 0 .. m |-> IF i # m THEN before[i] ELSE B(before[m - 1], m)]
  <2>3. \A i \in 0 .. m - 1 : before[i] = IF i = 0 THEN w0 ELSE B(before[i - 1], i)
    BY <2>1, <2>2 DEF Walks
  <2>4. \A i \in 0 .. m : all[i] = IF i = 0 THEN w0 ELSE B(all[i - 1], i)
    <3>. HIDE DEF B, w0
    <3>. QED
      BY <2>1, <2>3
  <2>5. Walks(q, m, all)
    BY <2>4 DEF Walks
  <2>. QED
    BY <2>1, <2>5
<1>. HIDE DEF G
<1>3. \A k \in 0 .. n : k \in G
  BY <1>1, <1>2, AllUpTo
<1>4. n \in G
  BY <1>3
<1>. QED
  BY <1>4 DEF G

LEMMA OldestIsLongest ==
    ASSUME NEW q \in Seq(Messages) PROVE Longest(q, Oldest(q))
<1>. DEFINE walk == CHOOSE u : Walks(q, Len(q), u)
            w0 == [turns |-> 0, characters |-> 0, start |-> Len(q) + 1, stopped |-> FALSE]
            G == {k \in Nat : WalkedTo(q, walk[k], Len(q) + 1 - k)}
<1>1. /\ Len(q) \in Nat /\ UserAt(q) \subseteq 1 .. Len(q)
      /\ TurnStarts(q) = UserAt(q) \union {Len(q) + 1}
  BY TurnsOf
<1>2. Walks(q, Len(q), walk)
  BY <1>1, WalkExists
<1>3. Oldest(q) = walk[Len(q)].start
  BY DEF Oldest, Walk, Walks
<1>. HIDE DEF walk
<1>4. /\ walk[0] = w0
      /\ \A k \in 1 .. Len(q) :
            walk[k] = Back(q, walk[k - 1], Len(q) + 1 - k, MaxHistoryTurns, MaxHistoryCharacters)
  <2>1. 0 \in 0 .. Len(q) /\ \A k \in 1 .. Len(q) : k \in 0 .. Len(q) /\ k # 0
    BY <1>1
  <2>. QED
    BY <1>2, <2>1 DEF Walks
<1>5. 0 \in G
  <2>1. UsersFrom(q, Len(q) + 1) = {}
    BY <1>1 DEF UsersFrom
  <2>2. Cardinality(UsersFrom(q, Len(q) + 1)) = 0
    BY <2>1, FS_EmptySet
  <2>3. Length(From(q, Len(q) + 1)) = 0
    <3>1. From(q, Len(q) + 1) = <<>>
      BY <1>1 DEF From
    <3>. QED
      BY <3>1, LengthOfNone
  <2>4. MaxHistoryTurns \in Nat /\ MaxHistoryCharacters \in Nat
    BY ContextAssumption
  <2>5. FitFrom(q, Len(q) + 1)
    <3>1. Len(q) + 1 \in 1 .. Len(q) + 1
      BY <1>1
    <3>. QED
      BY <2>2, <2>3, <2>4, <3>1, FitCounts
  <2>6. Kept(q, w0) /\ w0.start = Len(q) + 1 /\ ~w0.stopped
    BY <1>1, <2>2, <2>3, <2>5 DEF Kept
  <2>7. WalkedTo(q, w0, Len(q) + 1 - 0)
    BY <1>1, <2>6 DEF WalkedTo
  <2>. QED
    BY <1>4, <2>7
<1>6. ASSUME NEW k \in 1 .. Len(q), k - 1 \in G PROVE k \in G
  <2>1. k \in Nat /\ Len(q) + 1 - k \in 1 .. Len(q) /\ Len(q) + 1 - (k - 1) = (Len(q) + 1 - k) + 1
    BY <1>1
  <2>2. WalkedTo(q, walk[k - 1], (Len(q) + 1 - k) + 1)
    BY <1>6, <2>1
  <2>3. WalkedTo(q, walk[k], Len(q) + 1 - k)
    BY <1>4, <2>1, <2>2, WalkStep
  <2>. QED
    BY <2>1, <2>3
<1>7. WalkedTo(q, walk[Len(q)], 1)
  <2>. HIDE DEF G
  <2>1. \A k \in 0 .. Len(q) : k \in G
    BY <1>1, <1>5, <1>6, AllUpTo
  <2>2. Len(q) \in G /\ Len(q) + 1 - Len(q) = 1
    BY <1>1, <2>1
  <2>. QED
    BY <2>2 DEF G
<1>. DEFINE w == walk[Len(q)]
<1>. HIDE DEF w
<1>8. WalkedTo(q, w, 1) /\ Oldest(q) = w.start
  BY <1>3, <1>7 DEF w
<1>9. w.start \in TurnStarts(q) /\ w.start \in 1 .. Len(q) + 1 /\ w.stopped \in BOOLEAN
  BY <1>1, <1>8 DEF WalkedTo, Kept
<1>10. ~w.stopped => \A j \in TurnStarts(q) : w.start <= j
  BY <1>1, <1>8, <1>9 DEF WalkedTo
<1>. QED
  BY <1>8, <1>9, <1>10 DEF WalkedTo, Kept, Longest

LEMMA BoundedIsRecent ==
    ASSUME NEW q \in Seq(Messages)
    PROVE  /\ bounded_history(q) = Recent(q)
           /\ Longest(q, Oldest(q)) /\ Oldest(q) \in 1 .. Len(q) + 1
           /\ bounded_history(q) = From(q, Oldest(q))
<1>. DEFINE o == Oldest(q)
            P(i) == /\ FitFrom(q, i)
                    /\ \A j \in TurnStarts(q) : FitFrom(q, j) => i <= j
<1>1. Longest(q, o) /\ o \in 1 .. Len(q) + 1
  BY OldestIsLongest, TurnsOf DEF Longest
<1>2. TurnStarts(q) \subseteq Nat
  BY TurnsOf
<1>. HIDE DEF o
<1>3. o \in TurnStarts(q) /\ P(o) /\ \A i \in TurnStarts(q) : P(i) => i <= o /\ o <= i
  BY <1>1 DEF Longest
<1>4. (CHOOSE i \in TurnStarts(q) : P(i)) = o
  <2>. HIDE DEF P
  <2>1. PICK c \in TurnStarts(q) : P(c) /\ c = (CHOOSE i \in TurnStarts(q) : P(i))
    BY <1>3
  <2>2. c \in Nat /\ o \in Nat /\ c <= o /\ o <= c
    BY <1>2, <1>3, <2>1
  <2>. QED
    BY <2>1, <2>2
<1>5. Recent(q) = From(q, o)
  BY <1>4 DEF Recent
<1>. QED
  BY <1>1, <1>5 DEF bounded_history, o

-----------------------------------------------------------------------------
(* The context is what is left of the conversation from some message on, and no
   turn that fits begins before it. *)

LeftFrom(c, q, s) ==
    /\ s \in 1 .. Len(q) + 1 /\ c = From(q, s)
    /\ \A j \in TurnStarts(q) : FitFrom(q, j) => s <= j

Left(c, q) == \E s \in 1 .. Len(q) + 1 : LeftFrom(c, q, s)

LEMMA TrimmedOnTheWay ==
    ASSUME NEW q \in Seq(Messages), NEW c, Left(c, q)
    PROVE  /\ c \in Seq(Messages) /\ bounded_history(c) = Recent(q)
           /\ bounded_history(c) \in Seq(Messages) /\ Left(bounded_history(c), q)
           /\ FitFrom(bounded_history(c), 1)
<1>1. PICK s \in 1 .. Len(q) + 1 : LeftFrom(c, q, s)
  BY DEF Left
<1>2. Len(q) \in Nat /\ s \in Nat /\ c \in Seq(Messages) /\ Len(c) = Len(q) + 1 - s /\ c = From(q, s)
  <2>1. c = From(q, s)
    BY <1>1 DEF LeftFrom
  <2>2. From(q, s) \in Seq(Messages) /\ Len(From(q, s)) = Len(q) + 1 - s
    BY FromOf
  <2>3. Len(q) \in Nat /\ s \in Nat
    OBVIOUS
  <2>. QED
    BY <2>1, <2>2, <2>3
<1>. DEFINE o == Oldest(c)
            p == Oldest(q)
<1>3. Longest(c, o) /\ o \in 1 .. Len(c) + 1 /\ bounded_history(c) = From(c, o)
  BY <1>2, BoundedIsRecent
<1>4. Longest(q, p) /\ p \in 1 .. Len(q) + 1 /\ Recent(q) = From(q, p)
  BY BoundedIsRecent
<1>. HIDE DEF o, p
<1>5. \A j \in 1 .. Len(q) + 2 - s :
          /\ s + j - 1 \in 1 .. Len(q) + 1 /\ From(c, j) = From(q, s + j - 1)
          /\ j \in TurnStarts(c) <=> s + j - 1 \in TurnStarts(q)
          /\ FitFrom(c, j) <=> FitFrom(q, s + j - 1)
  BY <1>2, FromFrom, TurnsShifted
<1>6. o \in 1 .. Len(q) + 2 - s /\ o \in Nat /\ p \in Nat
  BY <1>2, <1>3, <1>4
<1>7. p <= s + o - 1
  BY <1>3, <1>4, <1>5, <1>6 DEF Longest
<1>8. s <= p
  BY <1>1, <1>4 DEF LeftFrom, Longest
<1>9. p - s + 1 \in 1 .. Len(q) + 2 - s /\ s + (p - s + 1) - 1 = p
  BY <1>2, <1>4, <1>6, <1>8
<1>10. o <= p - s + 1
  <2>1. p - s + 1 \in TurnStarts(c) /\ FitFrom(c, p - s + 1)
    BY <1>4, <1>5, <1>9 DEF Longest
  <2>. QED
    BY <1>3, <2>1 DEF Longest
<1>11. s + o - 1 = p
  BY <1>2, <1>6, <1>7, <1>8, <1>10
<1>12. bounded_history(c) = From(q, p)
  BY <1>3, <1>5, <1>6, <1>11
<1>13. From(q, p) \in Seq(Messages)
  BY <1>4, FromOf
<1>14. LeftFrom(From(q, p), q, p)
  BY <1>4 DEF LeftFrom, Longest
<1>15. FitFrom(From(q, p), 1)
  <2>1. 1 \in 1 .. Len(q) + 2 - p /\ p + 1 - 1 = p
    BY <1>2, <1>4, <1>6
  <2>. QED
    BY <1>4, <2>1, TurnsShifted DEF Longest
<1>. QED
  BY <1>2, <1>4, <1>12, <1>13, <1>14, <1>15 DEF Left

LEMMA LeftAppended ==
    ASSUME NEW q \in Seq(Messages), NEW c, Left(c, q), NEW m \in Messages
    PROVE  Left(Append(c, m), Append(q, m))
<1>1. PICK s \in 1 .. Len(q) + 1 : LeftFrom(c, q, s)
  BY DEF Left
<1>. DEFINE r == Append(q, m)
<1>2. Len(q) \in Nat /\ r \in Seq(Messages) /\ Len(r) = Len(q) + 1 /\ s \in 1 .. Len(r) + 1
      /\ \A k \in 1 .. Len(q) : r[k] = q[k]
  OBVIOUS
<1>3. Append(c, m) = From(r, s)
  BY <1>1, FromAppended DEF LeftFrom
<1>4. ASSUME NEW j \in TurnStarts(r), FitFrom(r, j) PROVE s <= j
  <2>1. j \in 1 .. Len(q) + 2 /\ j \in UserAt(r) \union {Len(r) + 1}
    <3>1. /\ TurnStarts(r) = UserAt(r) \union {Len(r) + 1}
          /\ TurnStarts(r) \subseteq 1 .. Len(r) + 1
      BY <1>2, TurnsOf
    <3>. HIDE DEF r
    <3>2. j \in 1 .. Len(r) + 1
      BY <3>1
    <3>. QED
      BY <1>2, <3>1, <3>2
  <2>2. CASE j \in 1 .. Len(q)
    <3>1. j \in UserAt(q)
      BY <1>2, <2>1, <2>2, MessagesOf DEF UserAt
    <3>2. FitFrom(q, j)
      BY <1>2, <1>4, <2>2, FitsWithout
    <3>. QED
      BY <1>1, <3>1, <3>2 DEF LeftFrom, TurnStarts
  <2>3. CASE j \notin 1 .. Len(q)
    BY <1>2, <2>1, <2>3
  <2>. QED
    BY <2>2, <2>3
<1>5. LeftFrom(Append(c, m), r, s)
  BY <1>2, <1>3, <1>4 DEF LeftFrom
<1>. QED
  BY <1>2, <1>5 DEF Left

\* What trimming on the way has to preserve.
ContextInvariant ==
    /\ said \in Seq(Messages) /\ context \in Seq(Messages) /\ request \in Seq(Messages)
    /\ Left(context, said)
    /\ settled => context = Recent(said)
    /\ FitFrom(request, 1)

LEMMA NothingIsRecent ==
    /\ <<>> \in Seq(Messages) /\ Left(<<>>, <<>>) /\ Recent(<<>>) = <<>>
    /\ FitFrom(<<>>, 1)
<1>1. <<>> \in Seq(Messages) /\ Len(<<>>) = 0 /\ From(<<>>, 1) = <<>>
  BY DEF From
<1>2. TurnStarts(<<>>) = {1}
  <2>1. /\ UserAt(<<>>) \subseteq 1 .. Len(<<>>)
        /\ TurnStarts(<<>>) = UserAt(<<>>) \union {Len(<<>>) + 1}
    BY <1>1, TurnsOf
  <2>2. 1 .. Len(<<>>) = {} /\ Len(<<>>) + 1 = 1
    BY <1>1
  <2>. QED
    BY <2>1, <2>2
<1>3. Left(<<>>, <<>>)
  <2>1. LeftFrom(<<>>, <<>>, 1)
    BY <1>1, <1>2 DEF LeftFrom
  <2>. QED
    BY <1>1, <2>1 DEF Left
<1>4. /\ bounded_history(<<>>) = Recent(<<>>)
      /\ Longest(<<>>, Oldest(<<>>)) /\ Oldest(<<>>) \in 1 .. Len(<<>>) + 1
      /\ bounded_history(<<>>) = From(<<>>, Oldest(<<>>))
  BY <1>1, BoundedIsRecent
<1>5. Oldest(<<>>) = 1
  BY <1>1, <1>4
<1>. QED
  BY <1>1, <1>3, <1>4, <1>5 DEF Longest

LEMMA CommitKeeps ==
    ASSUME ContextInvariant, NEW m \in Messages
    PROVE  /\ Append(said, m) \in Seq(Messages) /\ Append(context, m) \in Seq(Messages)
           /\ Left(Append(context, m), Append(said, m))
  BY LeftAppended DEF ContextInvariant

\* Through commits, trims, interruptions and resets the context is what is left of
\* the conversation from some message on, and no turn that still fits is lost.
THEOREM ContextInvariantHolds == ContextSpec => []ContextInvariant
<1>1. ContextInit => ContextInvariant
  BY NothingIsRecent DEF ContextInit, ContextInvariant
<1>2. ContextInvariant /\ [ContextNext]_contextVars => ContextInvariant'
  <2>. SUFFICES ASSUME ContextInvariant, [ContextNext]_contextVars PROVE ContextInvariant'
    OBVIOUS
  <2>0. /\ said \in Seq(Messages) /\ context \in Seq(Messages) /\ request \in Seq(Messages)
        /\ Left(context, said) /\ FitFrom(request, 1)
    BY DEF ContextInvariant
  <2>1. ASSUME NEW l \in 1 .. MaxLength, UserSays(l) PROVE ContextInvariant'
    <3>. DEFINE m == Message("user", l)
    <3>1. m \in Messages
      BY DEF Message, Messages
    <3>. HIDE DEF m
    <3>2. context' = Append(context, m) /\ said' = Append(said, m) /\ ~settled'
          /\ request' \in {request, bounded_history(context)}
      BY <2>1 DEF UserSays, Commit, m
    <3>3. /\ bounded_history(context) \in Seq(Messages)
          /\ FitFrom(bounded_history(context), 1)
      BY <2>0, TrimmedOnTheWay
    <3>4. request' \in Seq(Messages) /\ FitFrom(request', 1)
      BY <2>0, <3>2, <3>3
    <3>. QED
      BY <3>1, <3>2, <3>4, CommitKeeps DEF ContextInvariant
  <2>2. ASSUME NEW m \in Messages, request' = request, settled',
               context' = bounded_history(Append(context, m)), said' = Append(said, m)
        PROVE  ContextInvariant'
    <3>1. /\ Append(said, m) \in Seq(Messages) /\ Left(Append(context, m), Append(said, m))
      BY CommitKeeps
    <3>2. /\ context' = Recent(said') /\ context' \in Seq(Messages) /\ Left(context', said')
      BY <2>2, <3>1, TrimmedOnTheWay
    <3>. QED
      BY <2>0, <2>2, <3>1, <3>2 DEF ContextInvariant
  <2>3. ASSUME NEW l \in 1 .. MaxLength, ResponseEnds(l) PROVE ContextInvariant'
    <3>1. Message("assistant", l) \in Messages
      BY DEF Message, Messages
    <3>2. settled' /\ request' = request /\ said' = Append(said, Message("assistant", l))
          /\ context' = bounded_history(Append(context, Message("assistant", l)))
      BY <2>3 DEF ResponseEnds
    <3>. QED
      BY <2>2, <3>1, <3>2
  <2>4. ASSUME NEW l \in 0 .. MaxLength, ResponseInterrupted(l) PROVE ContextInvariant'
    <3>1. CASE l = 0
      <4>1. said \o <<>> = said /\ context \o <<>> = context
        BY <2>0
      <4>2. settled' /\ request' = request /\ said' = said /\ context' = bounded_history(context)
        BY <2>4, <3>1, <4>1 DEF ResponseInterrupted
      <4>3. /\ context' = Recent(said) /\ context' \in Seq(Messages) /\ Left(context', said)
        BY <2>0, <4>2, TrimmedOnTheWay
      <4>. QED
        BY <2>0, <4>2, <4>3 DEF ContextInvariant
    <3>2. CASE l # 0
      <4>. DEFINE m == Message("assistant", l)
      <4>1. m \in Messages
        BY DEF Message, Messages
      <4>. HIDE DEF m
      <4>2. said \o <<m>> = Append(said, m) /\ context \o <<m>> = Append(context, m)
        BY <2>0, <4>1
      <4>3. settled' /\ request' = request /\ said' = said \o <<m>>
            /\ context' = bounded_history(context \o <<m>>)
        BY <2>4, <3>2 DEF ResponseInterrupted, m
      <4>. QED
        BY <2>2, <4>1, <4>2, <4>3
    <3>. QED
      BY <3>1, <3>2
  <2>5. CASE ResetContext
    BY <2>0, <2>5, NothingIsRecent DEF ResetContext, ContextInvariant
  <2>6. CASE UNCHANGED contextVars
    BY <2>6 DEF contextVars, ContextInvariant
  <2>. QED
    BY <2>1, <2>3, <2>4, <2>5, <2>6 DEF ContextNext
<1>. QED
  BY <1>1, <1>2, PTL DEF ContextSpec

\* bounded_history, applied at each response and interruption, keeps what it would
\* keep of the whole conversation; a request fits although the context has grown.
THEOREM TrimsToTheRecent == ContextSpec => []ContextIsRecent
<1>1. ContextInvariant => ContextIsRecent
  BY DEF ContextInvariant, ContextIsRecent
<1>. QED
  BY <1>1, ContextInvariantHolds, PTL
=============================================================================
