-------------------------- MODULE HostSessionProofs --------------------------
(***************************************************************************)
(* What holds of a conversation on the host for any number of starts,      *)
(* presses, stops and failures: input is admitted only from a running       *)
(* capture, and the screen tells the truth; a conversation that starts      *)
(* finds the audio engine off and no model in memory; and when every task   *)
(* is over, engine, input, model and Python are as was asked for last.      *)
(***************************************************************************)
EXTENDS HostSession, TLAPS

-----------------------------------------------------------------------------
(* The inductive invariant *)

SomeStart == SessionTasks \cup {None}
SomeToggle == CaptureTasks \cup {None}
SomeStop == StopTasks \cup {None}

Stages == {"none", "waiting", "loading", "opening", "muting", "closing", "unloading", "over"}

\* The type of every variable.
ScreenTypeOK ==
    /\ active \in BOOLEAN /\ muted \in BOOLEAN /\ inputReady \in BOOLEAN
    /\ speaking \subseteq {"user", "bot"}
HandlesTypeOK == session \in SomeStart /\ capture \in SomeToggle /\ stopTask \in SomeStop
TasksTypeOK ==
    /\ pc \in [Tasks -> Stages]
    /\ cancelled \subseteq Tasks \cup {None}
    /\ saw \in [Tasks -> [stop : SomeStop, toggle : SomeToggle, start : SomeStart,
                          mute : BOOLEAN, synth : SomeStart]]
    /\ synthesizer \in SomeStart
    /\ engine \in [configured : BOOLEAN, running : BOOLEAN, tap : BOOLEAN]
TypeOK == ScreenTypeOK /\ HandlesTypeOK /\ TasksTypeOK

Begun(t) == pc[t] # "none"
Running(t) == pc[t] \notin {"none", "over"}

\* Stops are numbered in the order they are asked for; each knows the one before it,
\* and has not got past waiting while an earlier one runs.
StopsInOrder ==
    /\ \A u, v \in StopTasks : u[2] < v[2] /\ Begun(v) => Begun(u)
    /\ \A u \in StopTasks : Begun(u) => stopTask # None /\ (u = stopTask \/ u[2] < stopTask[2])
    /\ \A u, v \in StopTasks : u[2] < v[2] /\ Begun(v) =>
           saw[v].stop # None /\ (u = saw[v].stop \/ u[2] < saw[v].stop[2])
StopsWait ==
    \A u, v \in StopTasks : u[2] < v[2] /\ Begun(v) /\ pc[v] # "waiting" => pc[u] = "over"

\* A task of an earlier conversation is over or knows that it was cancelled.
StraysCancelled ==
    /\ \A t \in SessionTasks : Running(t) => t = session \/ t \in cancelled
    /\ \A t \in Tasks : t \in cancelled => Begun(t)
    /\ session \notin cancelled \/ session = None

\* A conversation has one start, which waits for the last stop before it.
SessionKnown ==
    /\ active <=> session # None
    /\ ~active => capture = None /\ ~inputReady
    /\ active => /\ Begun(session) /\ saw[session].start = session
                 /\ saw[session].stop = stopTask
                 /\ pc[session] # "waiting" => Over(stopTask)

\* Until its start is over nothing else touches the recognizer or the microphone.
StartUndisturbed ==
    active /\ pc[session] # "over" =>
        /\ phase = "preparing" /\ ~muted /\ capture = None /\ ~inputReady
        /\ pc[session] = "opening" => told = "on" /\ epoch = session

\* The newest toggle knows what was asked for.
ToggleKnown ==
    /\ capture # None => Begun(capture) /\ saw[capture].mute = muted /\ phase # "preparing"
    /\ \A t \in CaptureTasks : pc[t] = "opening" => ~saw[t].mute

\* Input is ready when nothing that could stop it is under way.
InputSettled ==
    inputReady => /\ pc[session] = "over" /\ phase # "preparing"
                  /\ capture # None => pc[capture] = "over"

BotShown == "bot" \in speaking => phase # "muted"

IInv ==
    /\ TypeOK /\ StopsInOrder /\ StopsWait /\ StraysCancelled /\ SessionKnown
    /\ StartUndisturbed /\ ToggleKnown /\ InputSettled /\ BotShown
    /\ InputMeansCapture /\ ScreenTellsTruth

-----------------------------------------------------------------------------
(* Tasks *)

LEMMA TaskKinds ==
    /\ SessionTasks \subseteq Tasks /\ CaptureTasks \subseteq Tasks /\ StopTasks \subseteq Tasks
    /\ SessionTasks \cap CaptureTasks = {} /\ SessionTasks \cap StopTasks = {}
    /\ CaptureTasks \cap StopTasks = {}
    /\ None \notin Tasks
    /\ \A u \in StopTasks : u[2] \in Nat
    /\ \A u, v \in StopTasks : u[2] = v[2] => u = v
<1>1. \A t \in SessionTasks : t[1] = "session"
  BY DEF SessionTasks
<1>2. \A t \in CaptureTasks : t[1] = "capture"
  BY DEF CaptureTasks
<1>3. \A t \in StopTasks : t[1] = "stop" /\ t[2] \in Nat /\ t = <<"stop", t[2]>>
  BY HostAssumption DEF StopTasks
<1>4. None[1] = "none"
  BY DEF None
<1>. QED
  BY <1>1, <1>2, <1>3, <1>4 DEF Tasks

\* A task that was begun goes on: nothing that orders the tasks is disturbed.
LEMMA MovesKeep ==
    ASSUME IInv, NEW t \in Tasks, NEW stage \in Stages, stage # "none",
           Running(t), Moves(t, stage), t = session => Over(stopTask),
           UNCHANGED <<active, session, capture, stopTask>>, inputReady' => active
    PROVE  /\ pc' \in [Tasks -> Stages] /\ pc'[t] = stage /\ UNCHANGED <<cancelled, saw>>
           /\ \A u \in Tasks : u # t => pc'[u] = pc[u]
           /\ StopsInOrder' /\ StraysCancelled' /\ SessionKnown'
           /\ t \notin StopTasks => StopsWait'
<1>1. /\ pc' \in [Tasks -> Stages] /\ pc'[t] = stage /\ UNCHANGED <<cancelled, saw>>
      /\ \A u \in Tasks : u # t => pc'[u] = pc[u]
  BY DEF Moves, IInv, TypeOK, TasksTypeOK
<1>2. \A u \in Tasks : Begun(u)' <=> Begun(u)
  BY <1>1 DEF Begun, Running
<1>3. StopsInOrder'
  BY <1>1, <1>2, TaskKinds DEF IInv, StopsInOrder
<1>4. StraysCancelled'
  <2>1. \A u \in Tasks : Running(u)' => Running(u)
    BY <1>1 DEF Running
  <2>. QED
    BY <1>1, <1>2, <2>1, TaskKinds DEF IInv, StraysCancelled
<1>5. SessionKnown'
  <2>1. Over(stopTask) => Over(stopTask)'
    BY <1>1 DEF Over, Running
  <2>2. session \in SessionTasks \cup {None}
    BY DEF IInv, TypeOK, HandlesTypeOK, SomeStart
  <2>3. active => session \in Tasks
    BY <2>2, TaskKinds DEF IInv, SessionKnown
  <2>. QED
    BY <1>1, <1>2, <2>1, <2>3 DEF IInv, SessionKnown
<1>6. t \notin StopTasks => StopsWait'
  BY <1>1, <1>2, TaskKinds DEF IInv, StopsWait
<1>. QED
  BY <1>1, <1>3, <1>4, <1>5, <1>6

\* While a start that got past waiting is current, no stop is under way.
LEMMA NoStopRuns ==
    ASSUME IInv, active, pc[session] # "waiting", NEW t \in StopTasks
    PROVE  ~Running(t)
<1>. SUFFICES ASSUME Running(t) PROVE FALSE
  OBVIOUS
<1>1. Begun(t) /\ pc[t] # "over" /\ t \in Tasks
  BY TaskKinds DEF Running, Begun
<1>2. stopTask \in StopTasks /\ (t = stopTask \/ t[2] < stopTask[2])
  BY <1>1 DEF IInv, StopsInOrder, TypeOK, HandlesTypeOK, SomeStop
<1>3. stopTask \in Tasks /\ pc[stopTask] = "over"
  BY <1>2, TaskKinds DEF IInv, SessionKnown, Over
<1>4. Begun(stopTask)
  BY <1>3 DEF Begun
<1>. QED
  BY <1>1, <1>2, <1>3, <1>4 DEF IInv, StopsWait

\* A start that was not cancelled is that of the current conversation, and nothing
\* has disturbed it.
LEMMA CurrentStart ==
    ASSUME IInv, NEW t \in SessionTasks, Running(t), t \notin cancelled
    PROVE  /\ t = session /\ active /\ ~muted /\ ~inputReady /\ capture = None
           /\ pc[session] # "over" /\ phase = "preparing"
<1>1. t = session /\ session # None
  BY TaskKinds DEF IInv, StraysCancelled
<1>2. active /\ pc[session] # "over"
  BY <1>1 DEF IInv, SessionKnown, Running
<1>. QED
  BY <1>1, <1>2 DEF IInv, StartUndisturbed

LEMMA CancelledStart ==
    ASSUME IInv, NEW t \in SessionTasks, t \in cancelled
    PROVE  t # session
BY TaskKinds DEF IInv, StraysCancelled

LEMMA SessionIsTask ==
    ASSUME IInv
    PROVE  /\ active => session \in SessionTasks /\ session \in Tasks /\ Begun(session)
           /\ capture # None => capture \in CaptureTasks /\ capture \in Tasks /\ active
BY TaskKinds DEF IInv, SessionKnown, TypeOK, HandlesTypeOK, SomeStart, SomeToggle

\* A task that is not of the current start ends without a trace.
LEMMA StrayEnds ==
    ASSUME IInv, NEW t \in SessionTasks \cup CaptureTasks, t # session, Running(t),
           Moves(t, "over"), UNCHANGED <<screen, session, capture, stopTask, engine, epoch, told>>,
           synthesizer' \in SomeStart
    PROVE  IInv'
<1>1. t \in Tasks /\ t \notin StopTasks
  BY TaskKinds
<1>2. UNCHANGED <<phase, active, muted, inputReady, turn, speaking>>
  BY DEF screen
<1>3. inputReady' => active
  BY <1>2 DEF IInv, InputMeansCapture
<1>4. /\ pc' \in [Tasks -> Stages] /\ pc'[t] = "over" /\ UNCHANGED <<cancelled, saw>>
      /\ \A u \in Tasks : u # t => pc'[u] = pc[u]
      /\ StopsInOrder' /\ StraysCancelled' /\ SessionKnown' /\ StopsWait'
  <2>1. "over" \in Stages /\ "over" # "none"
    BY DEF Stages
  <2>2. UNCHANGED <<active, session, capture, stopTask>>
    BY <1>2
  <2>. HIDE DEF Running
  <2>. QED
    BY ONLY IInv, Running(t), Moves(t, "over"), t # session, <1>1, <1>3, <2>1, <2>2, MovesKeep
<1>5. TypeOK'
  BY <1>2, <1>4 DEF IInv, TypeOK, ScreenTypeOK, HandlesTypeOK, TasksTypeOK
<1>6. active => pc'[session] = pc[session]
  BY <1>4, SessionIsTask
<1>7. StartUndisturbed'
  BY <1>2, <1>6 DEF IInv, StartUndisturbed
<1>8. ToggleKnown'
  BY <1>2, <1>4, TaskKinds, SessionIsTask DEF IInv, ToggleKnown, Begun
<1>9. InputSettled' /\ BotShown' /\ InputMeansCapture'
  BY <1>2, <1>4, <1>6, SessionIsTask DEF IInv, InputSettled, BotShown, InputMeansCapture
<1>10. ScreenTellsTruth'
  BY <1>2, <1>6 DEF IInv, ScreenTellsTruth
<1>. QED
  BY <1>4, <1>5, <1>7, <1>8, <1>9, <1>10 DEF IInv

-----------------------------------------------------------------------------
(* Stops *)

\* A stop of the conversation, whatever was under way.
LEMMA StopKeeps ==
    ASSUME IInv, NEW pcs \in [Tasks -> Stages], Stop(pcs), UNCHANGED engine,
           \A u \in Tasks : pcs[u] = pc[u] \/ (u \notin StopTasks /\ Running(u) /\ pcs[u] = "over")
    PROVE  IInv'
<1>1. PICK t \in NextOf(StopTasks) :
          /\ pc' = [pcs EXCEPT ![t] = "waiting"]
          /\ saw' = [saw EXCEPT ![t] = Link(stopTask, capture, session)]
          /\ stopTask' = t
  BY DEF Stop
<1>2. /\ ~active' /\ ~muted' /\ ~inputReady' /\ phase' = "idle" /\ muted' = FALSE
      /\ active' = FALSE /\ inputReady' = FALSE
      /\ cancelled' = cancelled \cup {session, capture} /\ speaking' = {}
      /\ session' = None /\ capture' = None /\ synthesizer' = None
  BY DEF Stop
<1>3. /\ t \in StopTasks /\ t \in Tasks /\ pc[t] = "none" /\ ~Begun(t)
      /\ \A u \in StopTasks : u[2] < t[2] => Begun(u)
  BY TaskKinds DEF NextOf, Begun
<1>4. /\ pc' \in [Tasks -> Stages] /\ pc'[t] = "waiting"
      /\ \A u \in StopTasks : u # t => pc'[u] = pc[u]
      /\ \A u \in Tasks : Begun(u)' <=> Begun(u) \/ u = t
      /\ \A u \in Tasks : u # t /\ Running(u)' => Running(u)
      /\ \A u \in Tasks : u # t /\ pc'[u] = "opening" => pc[u] = "opening"
  BY <1>1, <1>3, TaskKinds DEF Stages, Begun, Running
<1>5. /\ saw'[t].stop = stopTask
      /\ \A u \in Tasks : u # t => saw'[u] = saw[u]
  BY <1>1, <1>3 DEF Link, IInv, TypeOK, TasksTypeOK
<1>6. TypeOK'
  <2>1. Link(stopTask, capture, session) \in [stop : SomeStop, toggle : SomeToggle,
            start : SomeStart, mute : BOOLEAN, synth : SomeStart]
    BY <1>2 DEF Link, IInv, TypeOK, HandlesTypeOK, TasksTypeOK
  <2>2. saw' \in [Tasks -> [stop : SomeStop, toggle : SomeToggle, start : SomeStart,
                            mute : BOOLEAN, synth : SomeStart]]
    BY <1>1, <1>3, <2>1 DEF IInv, TypeOK, TasksTypeOK
  <2>3. cancelled' \subseteq Tasks \cup {None}
    BY <1>2, TaskKinds
       DEF IInv, TypeOK, HandlesTypeOK, TasksTypeOK, SomeStart, SomeToggle
  <2>4. stopTask' \in SomeStop
    BY <1>1, <1>3 DEF SomeStop
  <2>. QED
    BY <1>2, <1>4, <2>2, <2>3, <2>4
       DEF IInv, TypeOK, ScreenTypeOK, HandlesTypeOK, TasksTypeOK, SomeStart, SomeToggle
<1>7. \A u \in StopTasks : Begun(u) => u # t /\ u[2] < t[2]
  <2>. SUFFICES ASSUME NEW u \in StopTasks, Begun(u) PROVE u # t /\ u[2] < t[2]
    OBVIOUS
  <2>1. ~(t[2] < u[2])
    BY <1>3 DEF IInv, StopsInOrder
  <2>2. t[2] # u[2]
    BY <1>3, TaskKinds
  <2>. QED
    BY <1>3, <2>1, <2>2, TaskKinds
<1>8. StopsInOrder'
  <2>1. \A u, v \in StopTasks : u[2] < v[2] /\ Begun(v)' => Begun(u)'
    BY <1>3, <1>4, TaskKinds DEF IInv, StopsInOrder
  <2>2. \A u \in StopTasks : Begun(u)' => t # None /\ (u = t \/ u[2] < t[2])
    BY <1>3, <1>4, <1>7, TaskKinds
  <2>3. \A u, v \in StopTasks : u[2] < v[2] /\ Begun(v)' =>
            saw'[v].stop # None /\ (u = saw'[v].stop \/ u[2] < saw'[v].stop[2])
    <3>. SUFFICES ASSUME NEW u \in StopTasks, NEW v \in StopTasks, u[2] < v[2], Begun(v)'
         PROVE  saw'[v].stop # None /\ (u = saw'[v].stop \/ u[2] < saw'[v].stop[2])
      OBVIOUS
    <3>1. CASE v = t
      <4>1. Begun(u)
        BY <1>3, <3>1
      <4>. QED
        BY <1>5, <3>1, <4>1 DEF IInv, StopsInOrder
    <3>2. CASE v # t
      <4>1. Begun(v) /\ saw'[v] = saw[v]
        BY <1>4, <1>5, <3>2, TaskKinds
      <4>. QED
        BY <4>1 DEF IInv, StopsInOrder
    <3>. QED
      BY <3>1, <3>2
  <2>. QED
    BY <1>1, <2>1, <2>2, <2>3 DEF StopsInOrder
<1>9. StopsWait'
  <2>. SUFFICES ASSUME NEW u \in StopTasks, NEW v \in StopTasks, u[2] < v[2], Begun(v)',
                       pc'[v] # "waiting"
       PROVE  pc'[u] = "over"
    BY DEF StopsWait
  <2>1. v # t /\ Begun(v) /\ pc'[v] = pc[v]
    BY <1>4, TaskKinds
  <2>2. Begun(u)
    BY <2>1 DEF IInv, StopsInOrder
  <2>3. u # t
    BY <1>3, <2>2
  <2>. QED
    BY <1>4, <2>1, <2>3 DEF IInv, StopsWait
<1>10. StraysCancelled'
  <2>1. \A u \in SessionTasks : Running(u)' => u \in cancelled'
    BY <1>2, <1>3, <1>4, TaskKinds DEF IInv, StraysCancelled
  <2>2. \A u \in Tasks : u \in cancelled' => Begun(u)'
    BY <1>2, <1>4, TaskKinds
       DEF IInv, StraysCancelled, SessionKnown, ToggleKnown
  <2>. QED
    BY <1>2, <2>1, <2>2 DEF StraysCancelled
<1>11. SessionKnown' /\ StartUndisturbed' /\ InputSettled' /\ BotShown'
  BY <1>2 DEF SessionKnown, StartUndisturbed, InputSettled, BotShown
<1>12. ToggleKnown'
  BY <1>2, <1>3, <1>4, <1>5, TaskKinds DEF IInv, ToggleKnown
<1>13. InputMeansCapture' /\ ScreenTellsTruth'
  BY <1>2 DEF InputMeansCapture, ScreenTellsTruth
<1>. QED
  BY <1>6, <1>8, <1>9, <1>10, <1>11, <1>12, <1>13 DEF IInv

\* A task of the session or of a toggle fails.
LEMMA FailKeeps ==
    ASSUME IInv, NEW t \in SessionTasks \cup CaptureTasks, Running(t), Fail(t),
           UNCHANGED <<engine, epoch>>
    PROVE  IInv'
<1>1. t \in Tasks /\ t \notin StopTasks
  BY TaskKinds
<1>2. CASE saw[t].start = session
  <2>. DEFINE pcs == [pc EXCEPT ![t] = "over"]
  <2>1. pcs \in [Tasks -> Stages]
    BY <1>1 DEF Stages, IInv, TypeOK, TasksTypeOK
  <2>2. \A u \in Tasks : pcs[u] = pc[u] \/ (u \notin StopTasks /\ Running(u) /\ pcs[u] = "over")
    BY <1>1 DEF IInv, TypeOK, TasksTypeOK
  <2>3. Stop(pcs)
    BY <1>2 DEF Fail
  <2>. HIDE DEF pcs
  <2>. QED
    BY <2>1, <2>2, <2>3, StopKeeps
<1>3. CASE saw[t].start # session
  <2>1. t # session
    BY <1>1, <1>3, TaskKinds DEF IInv, SessionKnown
  <2>2. Moves(t, "over") /\ UNCHANGED <<screen, handles, told>>
    BY <1>3 DEF Fail
  <2>3. UNCHANGED <<session, capture, stopTask>> /\ synthesizer' \in SomeStart
    BY <2>2 DEF handles, IInv, TypeOK, TasksTypeOK
  <2>. QED
    BY <2>1, <2>2, <2>3, StrayEnds
<1>. QED
  BY <1>2, <1>3

-----------------------------------------------------------------------------
(* The tasks of stops *)

\* A stop's task goes on, when no later stop got past waiting and its own turn came.
LEMMA StopTaskMoves ==
    ASSUME IInv, NEW t \in StopTasks, NEW stage \in Stages, stage # "none",
           Running(t), Moves(t, stage), UNCHANGED <<screen, handles, told>>,
           \A u \in StopTasks : u[2] < t[2] => pc[u] = "over",
           engine' \in [configured : BOOLEAN, running : BOOLEAN, tap : BOOLEAN]
    PROVE  IInv'
<1>1. t \in Tasks /\ t \notin SessionTasks /\ t \notin CaptureTasks
  BY TaskKinds
<1>2. /\ UNCHANGED <<phase, active, muted, inputReady, turn, speaking>>
      /\ UNCHANGED <<session, capture, stopTask, synthesizer>>
  BY DEF screen, handles
<1>3. t # session
  BY <1>1, TaskKinds DEF IInv, TypeOK, HandlesTypeOK, SomeStart
<1>4. inputReady' => active
  BY <1>2 DEF IInv, InputMeansCapture
<1>5. /\ pc' \in [Tasks -> Stages] /\ pc'[t] = stage /\ UNCHANGED <<cancelled, saw>>
      /\ \A u \in Tasks : u # t => pc'[u] = pc[u]
      /\ StopsInOrder' /\ StraysCancelled' /\ SessionKnown'
  <2>1. UNCHANGED <<active, session, capture, stopTask>>
    BY <1>2
  <2>. HIDE DEF Running
  <2>. QED
    BY ONLY IInv, stage \in Stages, stage # "none", Running(t), Moves(t, stage), <1>1, <1>3,
            <1>4, <2>1, MovesKeep
<1>6. StopsWait'
  <2>. SUFFICES ASSUME NEW u \in StopTasks, NEW v \in StopTasks, u[2] < v[2], Begun(v)',
                       pc'[v] # "waiting"
       PROVE  pc'[u] = "over"
    BY DEF StopsWait
  <2>1. CASE v = t
    BY <1>5, <2>1, TaskKinds
  <2>2. CASE v # t
    <3>1. Begun(v) /\ pc[v] # "waiting"
      BY <1>5, <2>2, TaskKinds DEF Begun
    <3>2. pc[u] = "over"
      BY <3>1 DEF IInv, StopsWait
    <3>. QED
      BY <1>5, <3>2, TaskKinds DEF Running
  <2>. QED
    BY <2>1, <2>2
<1>7. active => pc[session] = "waiting" /\ pc'[session] = "waiting"
  BY <1>3, <1>5, NoStopRuns, SessionIsTask
<1>8. ~inputReady
  BY <1>7 DEF IInv, InputSettled, InputMeansCapture
<1>9. TypeOK'
  BY <1>2, <1>5 DEF IInv, TypeOK, ScreenTypeOK, HandlesTypeOK, TasksTypeOK
<1>10. StartUndisturbed' /\ InputSettled' /\ BotShown' /\ InputMeansCapture' /\ ScreenTellsTruth'
  BY <1>2, <1>7, <1>8 DEF IInv, StartUndisturbed, InputSettled, BotShown, InputMeansCapture,
     ScreenTellsTruth
<1>11. ToggleKnown'
  BY <1>1, <1>2, <1>5, TaskKinds, SessionIsTask DEF IInv, ToggleKnown, Begun
<1>. QED
  BY <1>5, <1>6, <1>9, <1>10, <1>11 DEF IInv

\* The stops before a stop that got past waiting are over.
LEMMA EarlierStopsOver ==
    ASSUME IInv, NEW t \in StopTasks, Begun(t),
           pc[t] # "waiting" \/ Over(saw[t].stop), NEW u \in StopTasks, u[2] < t[2]
    PROVE  pc[u] = "over"
<1>1. CASE pc[t] # "waiting"
  BY <1>1 DEF IInv, StopsWait
<1>2. CASE Over(saw[t].stop)
  <2>. DEFINE before == saw[t].stop
  <2>1. before # None /\ (u = before \/ u[2] < before[2])
    BY DEF IInv, StopsInOrder
  <2>2. before \in StopTasks
    BY <2>1, TaskKinds DEF IInv, TypeOK, TasksTypeOK, SomeStop
  <2>3. pc[before] = "over"
    BY <1>2, <2>1 DEF Over
  <2>. HIDE DEF before
  <2>. QED
    BY <2>1, <2>2, <2>3 DEF IInv, StopsWait, Begun
<1>. QED
  BY <1>1, <1>2

LEMMA StopTasksKeep ==
    ASSUME IInv, NEW t \in StopTasks, StopSpeech(t) \/ StopAudio(t) \/ Unload(t)
    PROVE  IInv'
<1>1. engine \in [configured : BOOLEAN, running : BOOLEAN, tap : BOOLEAN]
  BY DEF IInv, TypeOK, TasksTypeOK
<1>2. CASE StopSpeech(t)
  <2>1. pc[t] = "waiting" /\ Over(saw[t].stop) /\ Moves(t, "closing")
        /\ UNCHANGED <<screen, handles, told>> /\ engine' = [engine EXCEPT !.tap = FALSE]
    BY <1>2 DEF StopSpeech, ResetCapture
  <2>2. Running(t) /\ Begun(t) /\ "closing" \in Stages /\ "closing" # "none"
    BY <2>1 DEF Running, Begun, Stages
  <2>3. engine' \in [configured : BOOLEAN, running : BOOLEAN, tap : BOOLEAN]
    BY <1>1, <2>1
  <2>4. \A u \in StopTasks : u[2] < t[2] => pc[u] = "over"
    BY <2>1, <2>2, EarlierStopsOver
  <2>. QED
    BY <2>1, <2>2, <2>3, <2>4, StopTaskMoves
<1>3. CASE StopAudio(t)
  <2>1. pc[t] = "closing" /\ Moves(t, "unloading") /\ UNCHANGED <<screen, handles, told>>
        /\ engine' = Off
    BY <1>3 DEF StopAudio
  <2>2. Running(t) /\ Begun(t) /\ pc[t] # "waiting"
        /\ "unloading" \in Stages /\ "unloading" # "none"
    BY <2>1 DEF Running, Begun, Stages
  <2>3. engine' \in [configured : BOOLEAN, running : BOOLEAN, tap : BOOLEAN]
    BY <2>1 DEF Off
  <2>4. \A u \in StopTasks : u[2] < t[2] => pc[u] = "over"
    BY <2>2, EarlierStopsOver
  <2>. QED
    BY <2>1, <2>2, <2>3, <2>4, StopTaskMoves
<1>4. CASE Unload(t)
  <2>1. pc[t] = "unloading" /\ Moves(t, "over") /\ UNCHANGED <<screen, handles, told, engine>>
    BY <1>4 DEF Unload
  <2>2. Running(t) /\ Begun(t) /\ pc[t] # "waiting" /\ "over" \in Stages /\ "over" # "none"
    BY <2>1 DEF Running, Begun, Stages
  <2>3. \A u \in StopTasks : u[2] < t[2] => pc[u] = "over"
    BY <2>2, EarlierStopsOver
  <2>. QED
    BY <1>1, <2>1, <2>2, <2>3, StopTaskMoves
<1>. QED
  BY <1>2, <1>3, <1>4

-----------------------------------------------------------------------------
(* The task of a start *)

\* The start of the current conversation goes on, and stays undisturbed unless it is over.
LEMMA StartGoesOn ==
    ASSUME IInv, NEW t \in SessionTasks, Running(t), t \notin cancelled,
           NEW stage \in Stages, stage # "none", Moves(t, stage), Over(stopTask),
           UNCHANGED <<active, muted, speaking, turn, session, capture, stopTask>>,
           synthesizer' \in SomeStart,
           engine' \in [configured : BOOLEAN, running : BOOLEAN, tap : BOOLEAN],
           \/ /\ stage # "over" /\ UNCHANGED <<phase, inputReady>>
              /\ stage = "opening" => told' = "on" /\ epoch' = t
           \/ /\ stage = "over" /\ phase' = "listening" /\ inputReady' = TRUE
              /\ told' = "on" /\ engine' = Capturing
    PROVE  IInv'
<1>1. /\ t = session /\ active /\ ~muted /\ ~inputReady /\ capture = None
      /\ pc[session] # "over" /\ phase = "preparing" /\ t \in Tasks /\ t \notin StopTasks
  BY CurrentStart, TaskKinds
<1>2. /\ pc' \in [Tasks -> Stages] /\ pc'[t] = stage /\ UNCHANGED <<cancelled, saw>>
      /\ \A u \in Tasks : u # t => pc'[u] = pc[u]
      /\ StopsInOrder' /\ StraysCancelled' /\ SessionKnown' /\ StopsWait'
  <2>1. UNCHANGED <<active, session, capture, stopTask>>
    OBVIOUS
  <2>. HIDE DEF Running
  <2>. QED
    BY ONLY IInv, stage \in Stages, stage # "none", Running(t), Moves(t, stage), <1>1,
            Over(stopTask), <2>1, MovesKeep
<1>3. TypeOK'
  BY <1>2 DEF IInv, TypeOK, ScreenTypeOK, HandlesTypeOK, TasksTypeOK
<1>4. StartUndisturbed' /\ InputSettled' /\ BotShown' /\ InputMeansCapture' /\ ScreenTellsTruth'
  BY <1>1, <1>2 DEF IInv, StartUndisturbed, InputSettled, BotShown, InputMeansCapture,
     ScreenTellsTruth, Capturing
<1>5. ToggleKnown'
  BY <1>1, <1>2, TaskKinds DEF IInv, ToggleKnown
<1>. QED
  BY <1>2, <1>3, <1>4, <1>5 DEF IInv

LEMMA PrepareKeeps == ASSUME IInv, NEW t \in SessionTasks, Prepare(t) PROVE IInv'
<1>1. pc[t] = "waiting" /\ Over(saw[t].stop) /\ UNCHANGED epoch
  BY DEF Prepare, StopBefore
<1>2. Running(t) /\ t \in SessionTasks \cup CaptureTasks
  BY <1>1 DEF Running
<1>3. CASE t \in cancelled
  <2>1. Moves(t, "over") /\ UNCHANGED <<screen, handles, engine, epoch, told>>
    BY <1>1, <1>3 DEF Prepare
  <2>2. UNCHANGED <<session, capture, stopTask>> /\ synthesizer' \in SomeStart
    BY <2>1 DEF handles, IInv, TypeOK, TasksTypeOK
  <2>. QED
    BY <1>2, <1>3, <2>1, <2>2, StrayEnds, CancelledStart
<1>4. CASE t \notin cancelled /\ (engine.running \/ engine.tap)
  <2>1. Fail(t) /\ UNCHANGED <<engine, epoch>>
    BY <1>1, <1>4 DEF Prepare
  <2>. QED
    BY <1>2, <2>1, FailKeeps
<1>5. CASE t \notin cancelled /\ ~(engine.running \/ engine.tap)
  <2>1. /\ engine' = Configured /\ synthesizer' = t /\ Moves(t, "loading")
        /\ UNCHANGED <<screen, session, capture, stopTask, told>>
    BY <1>5 DEF Prepare
  <2>2. UNCHANGED <<phase, active, muted, inputReady, turn, speaking>>
    BY <2>1 DEF screen
  <2>3. engine' \in [configured : BOOLEAN, running : BOOLEAN, tap : BOOLEAN]
        /\ synthesizer' \in SomeStart
    BY <2>1 DEF Configured, Off, SomeStart
  <2>4. Over(stopTask)
    BY <1>1, <1>2, <1>5, CurrentStart DEF IInv, SessionKnown
  <2>5. "loading" \in Stages /\ "loading" # "none" /\ "loading" # "over" /\ "loading" # "opening"
    BY DEF Stages
  <2>. QED
    BY <1>2, <1>5, <2>1, <2>2, <2>3, <2>4, <2>5, StartGoesOn
<1>. QED
  BY <1>3, <1>4, <1>5

LEMMA PreparedKeeps == ASSUME IInv, NEW t \in SessionTasks, Prepared(t) PROVE IInv'
<1>1. pc[t] = "loading" /\ UNCHANGED <<screen, handles>>
  BY DEF Prepared
<1>2. Running(t) /\ t \in SessionTasks \cup CaptureTasks
  BY <1>1 DEF Running
<1>3. /\ UNCHANGED <<phase, active, muted, inputReady, turn, speaking>>
      /\ UNCHANGED <<session, capture, stopTask, synthesizer>> /\ synthesizer' \in SomeStart
  BY <1>1 DEF screen, handles, IInv, TypeOK, TasksTypeOK
<1>4. CASE t \in cancelled
  <2>1. Moves(t, "over") /\ UNCHANGED <<engine, epoch, told>>
    BY <1>4 DEF Prepared
  <2>. QED
    BY <1>1, <1>2, <1>3, <1>4, <2>1, StrayEnds, CancelledStart
<1>5. CASE t \notin cancelled
  <2>1. /\ Moves(t, "opening") /\ told' = "on" /\ epoch' = t
        /\ engine' = [engine EXCEPT !.tap = FALSE]
    BY <1>5 DEF Prepared, ResetCapture
  <2>2. engine' \in [configured : BOOLEAN, running : BOOLEAN, tap : BOOLEAN]
    BY <2>1 DEF IInv, TypeOK, TasksTypeOK
  <2>3. Over(stopTask)
    BY <1>1, <1>2, <1>5, CurrentStart DEF IInv, SessionKnown
  <2>4. "opening" \in Stages /\ "opening" # "none" /\ "opening" # "over"
    BY DEF Stages
  <2>. QED
    BY <1>2, <1>3, <1>5, <2>1, <2>2, <2>3, <2>4, StartGoesOn
<1>. QED
  BY <1>4, <1>5

LEMMA LiveKeeps == ASSUME IInv, NEW t \in SessionTasks, Live(t) PROVE IInv'
<1>1. /\ pc[t] = "opening" /\ t \notin cancelled /\ Moves(t, "over") /\ engine' = Capturing
      /\ inputReady' = TRUE /\ phase' = "listening"
      /\ UNCHANGED <<active, muted, turn, speaking, handles, told>>
  BY DEF Live, Overtaken
<1>2. Running(t)
  BY <1>1 DEF Running
<1>3. UNCHANGED <<session, capture, stopTask>> /\ synthesizer' \in SomeStart
  BY <1>1 DEF handles, IInv, TypeOK, TasksTypeOK
<1>4. t = session /\ active /\ pc[session] # "over"
  BY <1>1, <1>2, CurrentStart
<1>5. Over(stopTask) /\ told = "on"
  BY <1>1, <1>4 DEF IInv, SessionKnown, StartUndisturbed
<1>6. engine' \in [configured : BOOLEAN, running : BOOLEAN, tap : BOOLEAN]
  BY <1>1 DEF Capturing
<1>7. "over" \in Stages /\ "over" # "none"
  BY DEF Stages
<1>. QED
  BY <1>1, <1>2, <1>3, <1>5, <1>6, <1>7, StartGoesOn

\* A start or a toggle that gives up is not that of the current start.
LEMMA GivesUpKeeps ==
    ASSUME IInv, NEW t \in SessionTasks \cup CaptureTasks, GivesUp(t) PROVE IInv'
<1>1. /\ pc[t] = "opening" /\ (t \in cancelled \/ epoch # t) /\ Moves(t, "over")
      /\ UNCHANGED <<screen, handles, engine, epoch, told>>
  BY DEF GivesUp, Overtaken
<1>2. Running(t)
  BY <1>1 DEF Running
<1>3. UNCHANGED <<session, capture, stopTask>> /\ synthesizer' \in SomeStart
  BY <1>1 DEF handles, IInv, TypeOK, TasksTypeOK
<1>4. t # session
  <2>1. CASE t \in CaptureTasks
    BY <2>1, TaskKinds DEF IInv, TypeOK, HandlesTypeOK, SomeStart
  <2>2. CASE t \in SessionTasks
    <3>1. t \notin cancelled => epoch = t
      BY <1>1, <1>2, <2>2, CurrentStart DEF IInv, StartUndisturbed
    <3>. QED
      BY <1>1, <2>2, <3>1, CancelledStart
  <2>. QED
    BY <2>1, <2>2
<1>. QED
  BY <1>1, <1>2, <1>3, <1>4, StrayEnds

-----------------------------------------------------------------------------
(* The task of a toggle *)

\* A toggle's task goes on while it says nothing new of the input.
LEMMA ToggleGoesOn ==
    ASSUME IInv, NEW t \in CaptureTasks, Running(t),
           NEW stage \in Stages, stage # "none", Moves(t, stage),
           stage = "opening" => ~saw[t].mute,
           UNCHANGED <<phase, active, muted, turn, speaking, handles>>,
           engine' \in [configured : BOOLEAN, running : BOOLEAN, tap : BOOLEAN],
           \/ t = capture /\ inputReady' = inputReady
           \/ stage = "over" /\ UNCHANGED <<inputReady, told, epoch>>
                 /\ (engine' = engine \/ engine' = Capturing)
           \/ t = capture /\ stage = "over" /\ ~saw[t].mute /\ inputReady' = TRUE
                 /\ told' = "on" /\ engine' = Capturing
    PROVE  IInv'
<1>1. /\ t \in Tasks /\ t \notin StopTasks /\ t \notin SessionTasks /\ t # session /\ t # None
  BY TaskKinds DEF IInv, TypeOK, HandlesTypeOK, SomeStart
<1>2. UNCHANGED <<session, capture, stopTask, synthesizer>>
  BY DEF handles
<1>3. t = capture =>
          active /\ saw[t].mute = muted /\ phase # "preparing" /\ pc[session] = "over" /\ ~inputReady
  BY <1>1, SessionIsTask DEF IInv, ToggleKnown, StartUndisturbed, InputSettled, Running
<1>4. inputReady' => active
  BY <1>3 DEF IInv, InputMeansCapture
<1>5. /\ pc' \in [Tasks -> Stages] /\ pc'[t] = stage /\ UNCHANGED <<cancelled, saw>>
      /\ \A u \in Tasks : u # t => pc'[u] = pc[u]
      /\ StopsInOrder' /\ StraysCancelled' /\ SessionKnown' /\ StopsWait'
  <2>1. UNCHANGED <<active, session, capture, stopTask>>
    BY <1>2
  <2>. HIDE DEF Running
  <2>. QED
    BY ONLY IInv, stage \in Stages, stage # "none", Running(t), Moves(t, stage), <1>1, <1>4,
            <2>1, MovesKeep
<1>6. active => pc'[session] = pc[session]
  BY <1>1, <1>5, SessionIsTask
<1>7. inputReady' \in BOOLEAN
  BY DEF IInv, TypeOK, ScreenTypeOK
<1>8. TypeOK'
  BY <1>2, <1>5, <1>7 DEF IInv, TypeOK, ScreenTypeOK, HandlesTypeOK, TasksTypeOK
<1>9. ToggleKnown'
  BY <1>1, <1>2, <1>5, TaskKinds, SessionIsTask DEF IInv, ToggleKnown, Begun, Running
<1>10. StartUndisturbed'
  <2>1. t = capture => pc[session] = "over"
    BY <1>3
  <2>. QED
    BY <1>2, <1>3, <1>6 DEF IInv, StartUndisturbed
<1>11. InputSettled' /\ InputMeansCapture'
  BY <1>2, <1>3, <1>5, <1>6, SessionIsTask DEF IInv, InputSettled, InputMeansCapture, Capturing
<1>12. BotShown' /\ ScreenTellsTruth'
  BY <1>2, <1>3, <1>6 DEF IInv, BotShown, ScreenTellsTruth
<1>. QED
  BY <1>5, <1>8, <1>9, <1>10, <1>11, <1>12 DEF IInv

LEMMA SetMutedKeeps == ASSUME IInv, NEW t \in CaptureTasks, SetMuted(t) PROVE IInv'
<1>1. pc[t] = "waiting" /\ UNCHANGED <<screen, handles, told>>
  BY DEF SetMuted
<1>2. Running(t)
  BY <1>1 DEF Running
<1>3. UNCHANGED <<phase, active, muted, inputReady, turn, speaking, handles, told>>
  BY <1>1 DEF screen
<1>4. CASE capture = t /\ t \notin cancelled /\ session = saw[t].start
  <2>. DEFINE stage == IF saw[t].mute THEN "muting" ELSE "opening"
  <2>1. engine' = [engine EXCEPT !.tap = FALSE] /\ Moves(t, stage)
    BY <1>4 DEF SetMuted, Newest, ResetCapture
  <2>2. engine' \in [configured : BOOLEAN, running : BOOLEAN, tap : BOOLEAN]
    BY <2>1 DEF IInv, TypeOK, TasksTypeOK
  <2>3. stage \in Stages /\ stage # "none" /\ (stage = "opening" => ~saw[t].mute)
    BY DEF Stages
  <2>. HIDE DEF stage
  <2>. QED
    BY <1>2, <1>3, <1>4, <2>1, <2>2, <2>3, ToggleGoesOn
<1>5. CASE ~(capture = t /\ t \notin cancelled /\ session = saw[t].start)
  <2>1. Moves(t, "over") /\ UNCHANGED <<engine, epoch>>
    BY <1>5 DEF SetMuted, Newest
  <2>2. "over" \in Stages /\ "over" # "none" /\ "over" # "opening"
    BY DEF Stages
  <2>3. engine' \in [configured : BOOLEAN, running : BOOLEAN, tap : BOOLEAN]
    BY <2>1 DEF IInv, TypeOK, TasksTypeOK
  <2>. QED
    BY <1>2, <1>3, <2>1, <2>2, <2>3, ToggleGoesOn
<1>. QED
  BY <1>4, <1>5

LEMMA MutedKeeps == ASSUME IInv, NEW t \in CaptureTasks, Muted(t) PROVE IInv'
<1>1. pc[t] = "muting" /\ Moves(t, "over") /\ UNCHANGED <<screen, handles, engine, epoch, told>>
  BY DEF Muted
<1>2. Running(t)
  BY <1>1 DEF Running
<1>3. UNCHANGED <<phase, active, muted, inputReady, turn, speaking, handles, told>>
  BY <1>1 DEF screen
<1>4. "over" \in Stages /\ "over" # "none" /\ "over" # "opening"
  BY DEF Stages
<1>5. engine' \in [configured : BOOLEAN, running : BOOLEAN, tap : BOOLEAN]
  BY <1>1 DEF IInv, TypeOK, TasksTypeOK
<1>. QED
  BY <1>1, <1>2, <1>3, <1>4, <1>5, ToggleGoesOn

LEMMA UnmutedKeeps == ASSUME IInv, NEW t \in CaptureTasks, Unmuted(t) PROVE IInv'
<1>1. /\ pc[t] = "opening" /\ Moves(t, "over") /\ engine' = Capturing
      /\ UNCHANGED <<phase, active, muted, turn, speaking, handles, epoch>>
  BY DEF Unmuted
<1>2. Running(t) /\ ~saw[t].mute
  BY <1>1 DEF Running, IInv, ToggleKnown
<1>3. "over" \in Stages /\ "over" # "none" /\ "over" # "opening"
  BY DEF Stages
<1>4. engine' \in [configured : BOOLEAN, running : BOOLEAN, tap : BOOLEAN]
  BY <1>1 DEF Capturing
<1>5. \/ t = capture /\ inputReady' = TRUE /\ told' = "on"
      \/ UNCHANGED <<inputReady, told>>
  BY DEF Unmuted, Newest
<1>. QED
  BY <1>1, <1>2, <1>3, <1>4, <1>5, ToggleGoesOn

-----------------------------------------------------------------------------
(* What the user and Python do *)

LEMMA StartKeeps == ASSUME IInv, Start PROVE IInv'
<1>1. PICK t \in NextOf(SessionTasks) :
          /\ session' = t /\ pc' = [pc EXCEPT ![t] = "waiting"]
          /\ saw' = [saw EXCEPT ![t] = Link(stopTask, None, t)]
  BY DEF Start
<1>2. /\ ~active /\ active' = TRUE /\ muted' = FALSE /\ inputReady' = FALSE
      /\ phase' = "preparing"
      /\ UNCHANGED <<turn, speaking, capture, stopTask, synthesizer, cancelled, engine, epoch, told>>
  BY DEF Start
<1>3. /\ t \in SessionTasks /\ t \in Tasks /\ t \notin StopTasks /\ t \notin CaptureTasks
      /\ ~Begun(t) /\ t # None
  BY TaskKinds DEF NextOf, Begun
<1>4. /\ pc' \in [Tasks -> Stages] /\ pc'[t] = "waiting"
      /\ \A u \in Tasks : u # t => pc'[u] = pc[u]
      /\ \A u \in Tasks : Begun(u)' <=> (Begun(u) \/ u = t)
  BY <1>1, <1>3 DEF IInv, TypeOK, TasksTypeOK, Stages, Begun
<1>5. /\ saw'[t].stop = stopTask /\ saw'[t].start = t
      /\ \A u \in Tasks : u # t => saw'[u] = saw[u]
  BY <1>1, <1>3 DEF Link, IInv, TypeOK, TasksTypeOK
<1>6. TypeOK'
  <2>1. Link(stopTask, None, t) \in [stop : SomeStop, toggle : SomeToggle,
            start : SomeStart, mute : BOOLEAN, synth : SomeStart]
    BY <1>2, <1>3
       DEF Link, IInv, TypeOK, HandlesTypeOK, TasksTypeOK, SomeStart, SomeToggle
  <2>2. saw' \in [Tasks -> [stop : SomeStop, toggle : SomeToggle, start : SomeStart,
                            mute : BOOLEAN, synth : SomeStart]]
    BY <1>1, <1>3, <2>1 DEF IInv, TypeOK, TasksTypeOK
  <2>. QED
    BY <1>1, <1>2, <1>3, <1>4, <2>2
       DEF IInv, TypeOK, ScreenTypeOK, HandlesTypeOK, TasksTypeOK, SomeStart
<1>7. StopsInOrder' /\ StopsWait'
  <2>1. \A u \in StopTasks : pc'[u] = pc[u] /\ saw'[u] = saw[u] /\ (Begun(u)' <=> Begun(u))
    BY <1>3, <1>4, <1>5, TaskKinds
  <2>. QED
    BY <1>2, <2>1 DEF IInv, StopsInOrder, StopsWait
<1>8. StraysCancelled'
  <2>1. session = None
    BY <1>2 DEF IInv, SessionKnown
  <2>2. t \notin cancelled
    BY <1>3 DEF IInv, StraysCancelled
  <2>3. \A u \in SessionTasks : u # t /\ Running(u)' => u \in cancelled
    BY <1>4, <2>1, TaskKinds DEF IInv, StraysCancelled, Running
  <2>. QED
    BY <1>1, <1>2, <1>4, <2>2, <2>3, TaskKinds DEF IInv, StraysCancelled
<1>9. SessionKnown' /\ StartUndisturbed' /\ InputSettled' /\ BotShown' /\ InputMeansCapture'
  BY <1>1, <1>2, <1>3, <1>4, <1>5
     DEF IInv, SessionKnown, StartUndisturbed, InputSettled, BotShown, InputMeansCapture
<1>10. ToggleKnown'
  BY <1>2, <1>3, <1>4, <1>5, TaskKinds DEF IInv, ToggleKnown, SessionKnown
<1>11. ScreenTellsTruth'
  BY <1>1, <1>2, <1>4 DEF IInv, ScreenTellsTruth, SessionKnown
<1>. QED
  BY <1>6, <1>7, <1>8, <1>9, <1>10, <1>11 DEF IInv

LEMMA ToggleKeeps == ASSUME IInv, ToggleMute PROVE IInv'
<1>1. PICK t \in NextOf(CaptureTasks) :
          /\ capture' = t /\ pc' = [pc EXCEPT ![t] = "waiting"]
          /\ saw' = [saw EXCEPT ![t] = Link(None, capture, session)]
  BY DEF ToggleMute
<1>2. /\ active /\ phase # "preparing" /\ muted' = ~muted /\ inputReady' = FALSE
      /\ speaking' = IF muted' THEN speaking \ {"user"} ELSE speaking
      /\ phase' = IF "bot" \notin speaking /\ phase # "thinking" THEN Quiet(muted') ELSE phase
      /\ UNCHANGED <<active, turn, session, stopTask, synthesizer, cancelled, engine, epoch>>
  BY DEF ToggleMute
<1>3. /\ t \in CaptureTasks /\ t \in Tasks /\ t \notin StopTasks /\ t \notin SessionTasks
      /\ ~Begun(t) /\ t # None /\ pc[t] = "none"
  BY TaskKinds DEF NextOf, Begun
<1>4. /\ pc' \in [Tasks -> Stages] /\ pc'[t] = "waiting"
      /\ \A u \in Tasks : u # t => pc'[u] = pc[u]
      /\ \A u \in Tasks : Begun(u)' <=> (Begun(u) \/ u = t)
  BY <1>1, <1>3 DEF IInv, TypeOK, TasksTypeOK, Stages, Begun
<1>5. /\ saw'[t].mute = muted'
      /\ \A u \in Tasks : u # t => saw'[u] = saw[u]
  BY <1>1, <1>3 DEF Link, IInv, TypeOK, TasksTypeOK
<1>6. muted \in BOOLEAN /\ muted' \in BOOLEAN
  BY <1>2 DEF IInv, TypeOK, ScreenTypeOK
<1>7. /\ session \in SessionTasks /\ session \in Tasks /\ session # t
      /\ pc[session] = "over" /\ pc'[session] = "over"
  BY <1>2, <1>3, <1>4, SessionIsTask DEF IInv, StartUndisturbed
<1>8. /\ phase' # "preparing" /\ phase' # "idle" /\ phase # "idle"
      /\ phase' = "muted" => muted'
      /\ "bot" \in speaking' => phase' # "muted"
      /\ speaking' \subseteq {"user", "bot"} /\ "user" \notin speaking'
  <2>1. phase # "idle"
    BY <1>2 DEF IInv, ScreenTellsTruth
  <2>2. muted => "user" \notin speaking
    BY DEF IInv, ScreenTellsTruth, InputMeansCapture
  <2>3. speaking' \subseteq speaking /\ speaking \subseteq {"user", "bot"}
    BY <1>2 DEF IInv, TypeOK, ScreenTypeOK
  <2>4. phase' # "preparing" /\ phase' # "idle"
    BY <1>2, <2>1 DEF Quiet
  <2>5. phase' = "muted" => muted'
    BY <1>2 DEF Quiet, IInv, BotShown
  <2>6. "bot" \in speaking' => phase' # "muted"
    BY <1>2, <2>3 DEF IInv, BotShown
  <2>. QED
    BY <1>2, <1>6, <2>1, <2>2, <2>3, <2>4, <2>5, <2>6
<1>9. TypeOK'
  <2>1. Link(None, capture, session) \in [stop : SomeStop, toggle : SomeToggle,
            start : SomeStart, mute : BOOLEAN, synth : SomeStart]
    BY <1>6 DEF Link, IInv, TypeOK, HandlesTypeOK, TasksTypeOK, SomeStop
  <2>2. saw' \in [Tasks -> [stop : SomeStop, toggle : SomeToggle, start : SomeStart,
                            mute : BOOLEAN, synth : SomeStart]]
    BY <1>1, <1>3, <2>1 DEF IInv, TypeOK, TasksTypeOK
  <2>. QED
    BY <1>1, <1>2, <1>3, <1>4, <1>6, <1>8, <2>2
       DEF IInv, TypeOK, ScreenTypeOK, HandlesTypeOK, TasksTypeOK, SomeToggle
<1>10. StopsInOrder' /\ StopsWait'
  <2>1. \A u \in StopTasks : pc'[u] = pc[u] /\ saw'[u] = saw[u] /\ (Begun(u)' <=> Begun(u))
    BY <1>3, <1>4, <1>5, TaskKinds
  <2>. QED
    BY <1>2, <2>1 DEF IInv, StopsInOrder, StopsWait
<1>11. StraysCancelled'
  <2>1. \A u \in SessionTasks : Running(u)' => Running(u)
    BY <1>3, <1>4, TaskKinds DEF Running
  <2>. QED
    BY <1>2, <1>4, <2>1, TaskKinds DEF IInv, StraysCancelled
<1>12. SessionKnown'
  <2>1. Over(stopTask) => Over(stopTask)'
    BY <1>2, <1>3, <1>4 DEF Over
  <2>. QED
    BY <1>2, <1>4, <1>5, <1>7, <2>1 DEF IInv, SessionKnown
<1>13. StartUndisturbed' /\ InputSettled' /\ BotShown' /\ InputMeansCapture'
  BY <1>2, <1>7, <1>8 DEF StartUndisturbed, InputSettled, BotShown, InputMeansCapture
<1>14. ToggleKnown'
  BY <1>1, <1>2, <1>3, <1>4, <1>5, <1>8, TaskKinds DEF IInv, ToggleKnown
<1>15. ScreenTellsTruth'
  BY <1>2, <1>8 DEF ScreenTellsTruth
<1>. QED
  BY <1>9, <1>10, <1>11, <1>12, <1>13, <1>14, <1>15 DEF IInv

\* An event of Python, or a press of the button, that only the screen shows.
LEMMA ShownKeeps ==
    ASSUME IInv, NEW p, NEW s \in SUBSET {"user", "bot"}, NEW c,
           Shows(p, s, c), active, p \notin {"idle", "preparing"},
           phase # "preparing", p = "muted" => muted /\ "bot" \notin s,
           "user" \in s => inputReady
    PROVE  IInv'
<1>1. /\ phase' = p /\ speaking' = s
      /\ UNCHANGED <<active, muted, inputReady, session, capture, stopTask, synthesizer>>
      /\ UNCHANGED <<pc, cancelled, saw, engine, epoch, told>>
  BY DEF Shows, handles, tasks
<1>2. TypeOK'
  BY <1>1 DEF IInv, TypeOK, ScreenTypeOK, HandlesTypeOK, TasksTypeOK
<1>3. StopsInOrder' /\ StopsWait'
  BY <1>1 DEF IInv, StopsInOrder, StopsWait, Begun
<1>4. StraysCancelled' /\ SessionKnown'
  BY <1>1 DEF IInv, StraysCancelled, SessionKnown, Begun, Running, Over
<1>5. StartUndisturbed' /\ ToggleKnown' /\ InputSettled'
  BY <1>1 DEF IInv, StartUndisturbed, ToggleKnown, InputSettled, Begun
<1>6. BotShown' /\ InputMeansCapture' /\ ScreenTellsTruth'
  BY <1>1 DEF IInv, BotShown, InputMeansCapture, ScreenTellsTruth
<1>. QED
  BY <1>2, <1>3, <1>4, <1>5, <1>6 DEF IInv

LEMMA EventsKeep ==
    ASSUME IInv, \/ Interrupt \/ UserTurn \/ ResponseEnded \/ UserSpeaks
                 \/ UserSilent \/ Generates \/ BotSpeaks \/ BotSilent
    PROVE  IInv'
<1>1. /\ speaking \subseteq {"user", "bot"} /\ ("user" \in speaking => inputReady)
      /\ (phase = "idle" <=> ~active) /\ (phase = "muted" => muted)
      /\ ("bot" \in speaking => phase # "muted")
  BY DEF IInv, TypeOK, ScreenTypeOK, ScreenTellsTruth, BotShown
<1>2. CASE Interrupt
  BY <1>1, <1>2, ShownKeeps DEF Interrupt, Quiet
<1>3. CASE UserTurn
  BY <1>1, <1>3, ShownKeeps DEF UserTurn, Conversing
<1>4. CASE ResponseEnded
  BY <1>1, <1>4, ShownKeeps DEF ResponseEnded, Conversing, Quiet
<1>5. CASE UserSpeaks
  <2>1. PICK p \in {phase, "listening"} : Shows(p, speaking \cup {"user"}, turn)
    BY <1>5 DEF UserSpeaks
  <2>. QED
    BY <1>1, <1>5, <2>1, ShownKeeps DEF UserSpeaks, Conversing, Hearing
<1>6. CASE UserSilent
  BY <1>1, <1>6, ShownKeeps DEF UserSilent, Conversing
<1>7. CASE Generates
  BY <1>1, <1>7, ShownKeeps DEF Generates, Conversing
<1>8. CASE BotSpeaks
  BY <1>1, <1>8, ShownKeeps DEF BotSpeaks, Conversing
<1>9. CASE BotSilent
  BY <1>1, <1>9, ShownKeeps DEF BotSilent, Conversing
<1>. QED
  BY <1>2, <1>3, <1>4, <1>5, <1>6, <1>7, <1>8, <1>9

LEMMA FailuresKeep ==
    ASSUME IInv, \/ Stopped \/ ConversationFails
                 \/ \E t \in SessionTasks \cup CaptureTasks : TaskFails(t)
    PROVE  IInv'
<1>1. CASE Stopped \/ ConversationFails
  <2>1. Stop(pc) /\ UNCHANGED engine
    BY <1>1 DEF Stopped, ConversationFails
  <2>2. pc \in [Tasks -> Stages]
    BY DEF IInv, TypeOK, TasksTypeOK
  <2>. QED
    BY <2>1, <2>2, StopKeeps
<1>2. CASE \E t \in SessionTasks \cup CaptureTasks : TaskFails(t)
  <2>1. PICK t \in SessionTasks \cup CaptureTasks : TaskFails(t)
    BY <1>2
  <2>2. Running(t) /\ Fail(t) /\ UNCHANGED <<engine, epoch>>
    BY <2>1 DEF TaskFails, Running
  <2>. QED
    BY <2>2, FailKeeps
<1>. QED
  BY <1>1, <1>2

-----------------------------------------------------------------------------
(* The theorems *)

LEMMA InitIInv == Init => IInv
<1>. SUFFICES ASSUME Init PROVE IInv
  OBVIOUS
<1>1. TypeOK
  BY DEF Init, TypeOK, ScreenTypeOK, HandlesTypeOK, TasksTypeOK, Stages, SomeStart, SomeToggle,
     SomeStop, Off
<1>2. \A t \in Tasks : pc[t] = "none"
  BY DEF Init
<1>3. StopsInOrder /\ StopsWait
  BY <1>2, TaskKinds DEF StopsInOrder, StopsWait, Begun
<1>4. StraysCancelled /\ SessionKnown /\ ToggleKnown
  BY <1>2, TaskKinds DEF Init, StraysCancelled, SessionKnown, ToggleKnown, Running, Begun
<1>5. StartUndisturbed /\ InputSettled /\ BotShown /\ InputMeansCapture /\ ScreenTellsTruth
  BY DEF Init, StartUndisturbed, InputSettled, BotShown, InputMeansCapture, ScreenTellsTruth
<1>. QED
  BY <1>1, <1>3, <1>4, <1>5 DEF IInv

LEMMA StepIInv == IInv /\ [Next]_vars => IInv'
<1>. SUFFICES ASSUME IInv, [Next]_vars PROVE IInv'
  OBVIOUS
<1>1. CASE Proceed
  <2>1. CASE \E t \in SessionTasks : Prepare(t) \/ Prepared(t) \/ GivesUp(t) \/ Live(t)
    BY <2>1, PrepareKeeps, PreparedKeeps, GivesUpKeeps, LiveKeeps
  <2>2. CASE \E t \in CaptureTasks : SetMuted(t) \/ Muted(t) \/ GivesUp(t) \/ Unmuted(t)
    BY <2>2, SetMutedKeeps, MutedKeeps, GivesUpKeeps, UnmutedKeeps
  <2>3. CASE \E t \in StopTasks : StopSpeech(t) \/ StopAudio(t) \/ Unload(t)
    BY <2>3, StopTasksKeep
  <2>. QED
    BY <1>1, <2>1, <2>2, <2>3 DEF Proceed
<1>2. CASE Surroundings
  BY <1>2, StartKeeps, ToggleKeeps, EventsKeep, FailuresKeep DEF Surroundings
<1>3. CASE UNCHANGED vars
  <2>1. /\ UNCHANGED <<phase, active, muted, inputReady, speaking, session, capture, stopTask>>
        /\ UNCHANGED <<synthesizer, pc, cancelled, saw, engine, epoch, told>>
    BY <1>3 DEF vars, screen, handles, tasks
  <2>2. TypeOK'
    BY <2>1 DEF IInv, TypeOK, ScreenTypeOK, HandlesTypeOK, TasksTypeOK
  <2>3. StopsInOrder' /\ StopsWait' /\ StraysCancelled' /\ SessionKnown'
    BY <2>1 DEF IInv, StopsInOrder, StopsWait, StraysCancelled, SessionKnown, Begun, Running, Over
  <2>4. StartUndisturbed' /\ ToggleKnown' /\ InputSettled'
    BY <2>1 DEF IInv, StartUndisturbed, ToggleKnown, InputSettled, Begun
  <2>5. BotShown' /\ InputMeansCapture' /\ ScreenTellsTruth'
    BY <2>1 DEF IInv, BotShown, InputMeansCapture, ScreenTellsTruth
  <2>. QED
    BY <2>2, <2>3, <2>4, <2>5 DEF IInv
<1>. QED
  BY <1>1, <1>2, <1>3 DEF Next

\* The handles, the stops' order and the screen are consistent at every moment.
THEOREM HostInvariant == Spec => []IInv
  BY InitIInv, StepIInv, PTL DEF Spec

\* Whatever is pressed, stopped and failed while tasks wait for each other, Python is
\* given words and scores only by a capture that runs for what the user asked last.
THEOREM InputOnlyFromCapture == Spec => []InputMeansCapture
<1>1. IInv => InputMeansCapture
  BY DEF IInv
<1>. QED
  BY <1>1, HostInvariant, PTL

\* Whatever arrives from Python and from tasks that were overtaken, the screen shows
\* a stopped conversation as idle, a muted one as muted, and speech only while heard.
THEOREM ScreenAlwaysTrue == Spec => []ScreenTellsTruth
<1>1. IInv => ScreenTellsTruth
  BY DEF IInv
<1>. QED
  BY <1>1, HostInvariant, PTL


-----------------------------------------------------------------------------
(* The inductive invariant, on top of that of HostSessionProofs *)

\* Toggles are numbered in the order they are asked for; each knows the one before
\* it in its conversation, and has not got past waiting while that runs.
TogglesInOrder ==
    /\ \A t, u \in CaptureTasks : t[2] < u[2] /\ Begun(u) => Begun(t)
    /\ \A t \in CaptureTasks : Begun(t) /\ active /\ saw[t].start = session =>
           capture # None /\ (t = capture \/ t[2] < capture[2])
    /\ capture # None => saw[capture].start = session
    /\ \A u \in CaptureTasks : Begun(u) => saw[u].start \in SessionTasks /\ Begun(saw[u].start)
    /\ \A u \in CaptureTasks \cup StopTasks :
           Begun(u) /\ saw[u].toggle # None => saw[u].toggle \in CaptureTasks /\ Begun(saw[u].toggle)

Follows(s, t, u) == u # None /\ s[u].start = s[t].start /\ (t = u \/ t[2] < u[2])

TogglesWait ==
    \A t, u \in CaptureTasks : t[2] < u[2] /\ Begun(u) /\ saw[t].start = saw[u].start =>
        /\ Follows(saw, t, saw[u].toggle)
        /\ pc[u] # "waiting" => pc[t] = "over"

\* A toggle still runs only in the current conversation, or while the stop of its
\* conversation waits for it.
TogglesAwaited ==
    \A t \in CaptureTasks : Running(t) =>
        \/ active /\ saw[t].start = session
        \/ \E v \in StopTasks : pc[v] = "waiting" /\ Follows(saw, t, saw[v].toggle)

\* The engine is on only for the current conversation, or until a stop has closed it.
EngineOwned ==
    engine # Off => \/ active /\ pc[session] # "waiting"
                    \/ \E v \in StopTasks : pc[v] \in {"waiting", "closing"}

\* A stop that is under way unloads the synthesizer of s, when the start of s is over.
Unloads(s) == \E v \in StopTasks : Running(v) /\ saw[v].synth = s /\ saw[v].start = s

SynthesizerOwned ==
    /\ synthesizer # None => synthesizer = session /\ pc[session] # "waiting"
    /\ loaded \subseteq SessionTasks
    /\ \A s \in SessionTasks : s \in loaded \/ pc[s] = "loading" => s = synthesizer \/ Unloads(s)

TInv == TogglesInOrder /\ TogglesWait /\ TogglesAwaited /\ EngineOwned /\ SynthesizerOwned

-----------------------------------------------------------------------------
(* Steps of one task *)

LEMMA ToggleNumbers ==
    /\ \A t \in CaptureTasks : t[2] \in Nat
    /\ \A t, u \in CaptureTasks : t[2] = u[2] => t = u
<1>1. \A t \in CaptureTasks : t[2] \in Nat /\ t = <<"capture", t[2]>>
  BY HostAssumption DEF CaptureTasks
<1>. QED
  BY <1>1

LEMMA WhatTasksSaw ==
    ASSUME IInv, NEW t \in Tasks
    PROVE  saw[t].toggle \in SomeToggle /\ saw[t].stop \in SomeStop
BY DEF IInv, TypeOK, TasksTypeOK

\* The toggles before one that got past waiting are over.
LEMMA EarlierTogglesOver ==
    ASSUME IInv, TInv, NEW u \in SomeToggle, Over(u), NEW t \in CaptureTasks, Follows(saw, t, u)
    PROVE  pc[t] = "over"
<1>1. u \in CaptureTasks /\ pc[u] = "over"
  BY DEF Follows, SomeToggle, Over
<1>2. Begun(u)
  BY <1>1 DEF Begun
<1>. QED
  BY <1>1, <1>2 DEF TInv, TogglesWait, Follows

LEMMA MoveKeepsToggles ==
    ASSUME IInv, TInv, NEW t \in Tasks, NEW stage \in Stages, stage # "none",
           Running(t), Moves(t, stage), UNCHANGED <<active, session, capture>>,
           t \notin SessionTasks /\ pc[t] = "waiting" => Over(saw[t].toggle),
           t \in CaptureTasks => stage # "waiting"
    PROVE  TogglesInOrder' /\ TogglesWait' /\ TogglesAwaited'
<1>1. /\ pc'[t] = stage /\ saw' = saw /\ \A u \in Tasks : u # t => pc'[u] = pc[u]
  BY DEF Moves, IInv, TypeOK, TasksTypeOK
<1>2. \A u \in Tasks : Begun(u)' <=> Begun(u)
  BY <1>1 DEF Begun, Running
<1>3. TogglesInOrder'
  BY <1>1, <1>2, TaskKinds DEF TInv, TogglesInOrder
<1>4. TogglesWait'
  <2>. SUFFICES ASSUME NEW w \in CaptureTasks, NEW u \in CaptureTasks, w[2] < u[2], Begun(u)',
                       saw'[w].start = saw'[u].start
       PROVE  /\ Follows(saw', w, saw'[u].toggle)
              /\ pc'[u] # "waiting" => pc'[w] = "over"
    BY DEF TogglesWait
  <2>1. Begun(u) /\ saw[w].start = saw[u].start /\ u \in Tasks /\ w \in Tasks
    BY <1>1, <1>2, TaskKinds
  <2>2. Follows(saw, w, saw[u].toggle) /\ (pc[u] # "waiting" => pc[w] = "over")
    BY <2>1 DEF TInv, TogglesWait
  <2>3. Follows(saw', w, saw'[u].toggle)
    BY <1>1, <2>2 DEF Follows
  <2>4. pc[w] = "over" => pc'[w] = "over"
    BY <1>1, <2>1 DEF Running
  <2>5. ASSUME pc'[u] # "waiting" PROVE pc[w] = "over"
    <3>1. CASE pc[u] # "waiting"
      BY <2>2, <3>1
    <3>2. CASE pc[u] = "waiting"
      <4>1. u = t /\ Over(saw[u].toggle)
        BY <1>1, <2>1, <2>5, <3>2, TaskKinds
      <4>2. saw[u].toggle \in SomeToggle
        BY <2>1, WhatTasksSaw
      <4>. QED
        BY <2>2, <4>1, <4>2, EarlierTogglesOver
    <3>. QED
      BY <3>1, <3>2
  <2>. QED
    BY <2>3, <2>4, <2>5
<1>5. TogglesAwaited'
  <2>. SUFFICES ASSUME NEW w \in CaptureTasks, Running(w)'
       PROVE  \/ active' /\ saw'[w].start = session'
              \/ \E v \in StopTasks : pc'[v] = "waiting" /\ Follows(saw', w, saw'[v].toggle)
    BY DEF TogglesAwaited
  <2>1. Running(w) /\ w \in Tasks
    BY <1>1, TaskKinds DEF Running
  <2>2. CASE active /\ saw[w].start = session
    BY <1>1, <2>2
  <2>3. ASSUME NEW v \in StopTasks, pc[v] = "waiting", Follows(saw, w, saw[v].toggle)
        PROVE  pc'[v] = "waiting" /\ Follows(saw', w, saw'[v].toggle)
    <3>1. v \in Tasks /\ saw[v].toggle \in SomeToggle
      BY TaskKinds, WhatTasksSaw
    <3>2. v # t
      <4>1. ~Over(saw[v].toggle)
        BY <2>1, <2>3, <3>1, EarlierTogglesOver DEF Running
      <4>. QED
        BY <2>3, <4>1, TaskKinds
    <3>. QED
      BY <1>1, <2>3, <3>1, <3>2 DEF Follows
  <2>. QED
    BY <2>1, <2>2, <2>3 DEF TInv, TogglesAwaited
<1>. QED
  BY <1>3, <1>4, <1>5

\* The engine is turned off, left as it is, or used by the current conversation, or
\* by a toggle that a stop waits for.
LEMMA MoveKeepsEngine ==
    ASSUME IInv, TInv, NEW t \in Tasks, NEW stage \in Stages, Running(t), Moves(t, stage),
           stage # "waiting", UNCHANGED <<active, session>>,
           t \in StopTasks => \/ pc[t] = "waiting" /\ stage = "closing"
                              \/ pc[t] = "unloading" \/ engine' = Off,
           \/ engine' = Off \/ engine # Off
           \/ active /\ (t = session \/ pc[session] # "waiting")
           \/ t \notin StopTasks /\ \E v \in StopTasks : pc[v] = "waiting"
    PROVE  EngineOwned'
<1>1. /\ pc'[t] = stage /\ \A u \in Tasks : u # t => pc'[u] = pc[u]
  BY DEF Moves, IInv, TypeOK, TasksTypeOK
<1>2. active => session \in Tasks
  BY SessionIsTask
<1>3. CASE active /\ (t = session \/ pc[session] # "waiting")
  BY <1>1, <1>2, <1>3 DEF EngineOwned
<1>4. ASSUME NEW v \in StopTasks, pc[v] \in {"waiting", "closing"}, engine' # Off
      PROVE  EngineOwned'
  <2>1. CASE v = t
    <3>1. stage = "closing"
      BY <1>4, <2>1
    <3>. QED
      BY <1>1, <2>1, <3>1 DEF EngineOwned
  <2>2. CASE v # t
    BY <1>1, <1>4, <2>2, TaskKinds DEF EngineOwned
  <2>. QED
    BY <2>1, <2>2
<1>5. CASE engine' = Off
  BY <1>5 DEF EngineOwned
<1>. QED
  BY <1>3, <1>4, <1>5 DEF TInv, EngineOwned

\* A start whose model is in memory, or will be, keeps who unloads it.
LEMMA MoveKeepsSynthesizer ==
    ASSUME IInv, TInv, NEW t \in Tasks, NEW stage \in Stages, Running(t), Moves(t, stage),
           stage \notin {"none", "waiting", "loading"}, UNCHANGED <<session, synthesizer>>,
           loaded' \subseteq loaded \cup {s \in SessionTasks : s = t /\ pc[t] = "loading"},
           t \in StopTasks => \/ stage # "over"
                              \/ Over(saw[t].start) /\ loaded' \subseteq loaded \ {saw[t].synth}
    PROVE  SynthesizerOwned'
<1>1. /\ pc'[t] = stage /\ saw' = saw /\ \A u \in Tasks : u # t => pc'[u] = pc[u]
  BY DEF Moves, IInv, TypeOK, TasksTypeOK
<1>2. synthesizer # None => synthesizer \in Tasks
  BY TaskKinds DEF IInv, TypeOK, TasksTypeOK, SomeStart
<1>3. synthesizer' # None => synthesizer' = session' /\ pc'[session'] # "waiting"
  BY <1>1, <1>2 DEF TInv, SynthesizerOwned
<1>4. loaded' \subseteq SessionTasks
  BY DEF TInv, SynthesizerOwned
<1>5. ASSUME NEW s \in SessionTasks, s \in loaded' \/ pc'[s] = "loading"
      PROVE  s = synthesizer' \/ Unloads(s)'
  <2>1. s \in Tasks /\ (s \in loaded \/ pc[s] = "loading")
    BY <1>1, <1>5, TaskKinds
  <2>2. s = synthesizer \/ Unloads(s)
    BY <2>1 DEF TInv, SynthesizerOwned
  <2>3. CASE Unloads(s)
    <3>1. PICK v \in StopTasks : Running(v) /\ saw[v].synth = s /\ saw[v].start = s
      BY <2>3 DEF Unloads
    <3>2. Running(v)'
      <4>1. CASE v # t
        BY <1>1, <3>1, <4>1, TaskKinds DEF Running
      <4>2. CASE v = t
        <5>1. stage # "over"
          <6>. SUFFICES ASSUME stage = "over" PROVE FALSE
            OBVIOUS
          <6>1. Over(s) /\ s \notin loaded'
            BY <3>1, <4>2
          <6>2. s # None
            BY TaskKinds, <2>1
          <6>3. pc[s] = "over"
            BY <6>1, <6>2 DEF Over
          <6>4. s # t
            BY <4>2, TaskKinds
          <6>. QED
            BY <1>1, <1>5, <2>1, <6>1, <6>3, <6>4
        <5>. QED
          BY <1>1, <4>2, <5>1 DEF Running
      <4>. QED
        BY <4>1, <4>2
    <3>. QED
      BY <1>1, <3>1, <3>2 DEF Unloads
  <2>. QED
    BY <2>2, <2>3
<1>. QED
  BY <1>3, <1>4, <1>5 DEF SynthesizerOwned

-----------------------------------------------------------------------------
(* What the user and the system do *)

LEMMA StopTearsDown ==
    ASSUME IInv, TInv, NEW pcs \in [Tasks -> Stages], Stop(pcs), UNCHANGED loaded,
           \A u \in Tasks : pcs[u] = pc[u] \/ (u \notin StopTasks /\ Running(u) /\ pcs[u] = "over"
                                             /\ (u \in CaptureTasks => pc[u] # "waiting"))
    PROVE  TInv'
<1>1. PICK t \in NextOf(StopTasks) :
          /\ pc' = [pcs EXCEPT ![t] = "waiting"]
          /\ saw' = [saw EXCEPT ![t] = Link(stopTask, capture, session)]
  BY DEF Stop
<1>2. active' = FALSE /\ session' = None /\ capture' = None /\ synthesizer' = None
  BY DEF Stop
<1>3. t \in StopTasks /\ t \in Tasks /\ pc[t] = "none"
      /\ t \notin CaptureTasks /\ t \notin SessionTasks
  BY TaskKinds DEF NextOf
<1>4. /\ pc'[t] = "waiting" /\ \A u \in Tasks : u # t => pc'[u] = pcs[u]
      /\ \A u \in StopTasks : u # t => pc'[u] = pc[u]
      /\ \A u \in Tasks : u # t => (Begun(u)' <=> Begun(u))
      /\ \A u \in Tasks : u # t /\ Running(u)' => Running(u)
      /\ \A u \in Tasks : u # t /\ pc[u] = "over" => pc'[u] = "over"
      /\ \A u \in Tasks : u # t /\ pc'[u] \in {"waiting", "loading"} => pc[u] = pc'[u]
  BY <1>1, <1>3, TaskKinds DEF Begun, Running
<1>5. /\ saw'[t].toggle = capture /\ saw'[t].start = session /\ saw'[t].synth = synthesizer
      /\ \A u \in Tasks : u # t => saw'[u] = saw[u]
  BY <1>1, <1>3 DEF Link, IInv, TypeOK, TasksTypeOK
<1>6. /\ \A u \in CaptureTasks : u # t /\ u \in Tasks /\ saw'[u] = saw[u] /\ (Begun(u)' <=> Begun(u))
      /\ \A u \in SessionTasks : u # t /\ u \in Tasks /\ (Begun(u)' <=> Begun(u))
  BY <1>3, <1>4, <1>5, TaskKinds
<1>7. TogglesInOrder'
  <2>1. capture # None => capture \in CaptureTasks /\ Begun(capture)
    BY SessionIsTask DEF IInv, ToggleKnown
  <2>2. ASSUME NEW u \in CaptureTasks \cup StopTasks, Begun(u)', saw'[u].toggle # None
        PROVE  saw'[u].toggle \in CaptureTasks /\ Begun(saw'[u].toggle)
    <3>1. CASE u = t
      BY <1>5, <2>1, <2>2, <3>1
    <3>2. CASE u # t
      BY <1>4, <1>5, <2>2, <3>2, TaskKinds DEF TInv, TogglesInOrder
    <3>. QED
      BY <3>1, <3>2
  <2>3. \A u \in CaptureTasks : Begun(u) => saw[u].start \in SessionTasks /\ Begun(saw[u].start)
    BY DEF TInv, TogglesInOrder
  <2>4. \A u \in CaptureTasks \cup SessionTasks : pc[u] # "none" => pc'[u] # "none"
    BY <1>6 DEF Begun
  <2>5. \A u \in CaptureTasks \cup StopTasks : Begun(u)' /\ saw'[u].toggle # None =>
            saw'[u].toggle \in CaptureTasks /\ pc'[saw'[u].toggle] # "none"
    BY <2>2, <2>4 DEF Begun
  <2>. QED
    BY <1>2, <1>6, <2>3, <2>4, <2>5 DEF TInv, TogglesInOrder, Begun
<1>8. TogglesWait'
  <2>. SUFFICES ASSUME NEW w \in CaptureTasks, NEW u \in CaptureTasks, w[2] < u[2], Begun(u)',
                       saw'[w].start = saw'[u].start
       PROVE  /\ Follows(saw', w, saw'[u].toggle)
              /\ pc'[u] # "waiting" => pc'[w] = "over"
    BY DEF TogglesWait
  <2>1. /\ Begun(u) /\ saw[w].start = saw[u].start /\ saw'[u] = saw[u] /\ saw'[w] = saw[w]
        /\ u \in Tasks /\ w \in Tasks /\ u # t /\ w # t
    BY <1>6
  <2>2. Follows(saw, w, saw[u].toggle) /\ (pc[u] # "waiting" => pc[w] = "over")
    BY <2>1 DEF TInv, TogglesWait
  <2>3. saw[u].toggle \in CaptureTasks
    BY <2>1, <2>2, WhatTasksSaw DEF Follows, SomeToggle
  <2>4. Follows(saw', w, saw'[u].toggle)
    BY <1>6, <2>1, <2>2, <2>3 DEF Follows
  <2>5. pc[u] = "waiting" => pc'[u] = "waiting"
    BY <1>4, <2>1
  <2>. QED
    BY <1>4, <2>1, <2>2, <2>4, <2>5
<1>9. TogglesAwaited'
  <2>. SUFFICES ASSUME NEW w \in CaptureTasks, Running(w)'
       PROVE  \E v \in StopTasks : pc'[v] = "waiting" /\ Follows(saw', w, saw'[v].toggle)
    BY DEF TogglesAwaited
  <2>1. Running(w) /\ Begun(w) /\ w \in Tasks /\ w # t
    BY <1>4, <1>6 DEF Running, Begun
  <2>2. CASE active /\ saw[w].start = session
    <3>1. capture # None /\ (w = capture \/ w[2] < capture[2]) /\ saw[capture].start = session
      BY <2>1, <2>2 DEF TInv, TogglesInOrder
    <3>2. capture \in CaptureTasks
      BY <3>1, SessionIsTask
    <3>3. Follows(saw', w, saw'[t].toggle)
      BY <1>5, <1>6, <2>2, <3>1, <3>2 DEF Follows
    <3>. QED
      BY <1>3, <1>4, <3>3
  <2>3. CASE \E v \in StopTasks : pc[v] = "waiting" /\ Follows(saw, w, saw[v].toggle)
    <3>1. PICK v \in StopTasks : pc[v] = "waiting" /\ Follows(saw, w, saw[v].toggle)
      BY <2>3
    <3>2. v # t /\ v \in Tasks /\ pc'[v] = "waiting" /\ saw'[v] = saw[v]
      BY <1>3, <1>4, <1>5, <3>1, TaskKinds
    <3>3. saw[v].toggle \in CaptureTasks
      BY <3>1, <3>2, WhatTasksSaw DEF Follows, SomeToggle
    <3>4. Follows(saw', w, saw'[v].toggle)
      BY <1>6, <3>1, <3>2, <3>3 DEF Follows
    <3>. QED
      BY <3>2, <3>4
  <2>. QED
    BY <2>1, <2>2, <2>3 DEF TInv, TogglesAwaited
<1>10. EngineOwned'
  BY <1>3, <1>4 DEF EngineOwned
<1>11. SynthesizerOwned'
  <2>1. ASSUME NEW s \in SessionTasks, s \in loaded' \/ pc'[s] = "loading" PROVE Unloads(s)'
    <3>1. s \in loaded \/ pc[s] = "loading"
      BY <1>4, <1>6, <2>1
    <3>2. CASE s = synthesizer
      <4>1. synthesizer = session
        BY <3>2, TaskKinds DEF TInv, SynthesizerOwned
      <4>2. Running(t)'
        BY <1>4 DEF Running
      <4>. QED
        BY <1>3, <1>5, <3>2, <4>1, <4>2 DEF Unloads
    <3>3. CASE Unloads(s)
      <4>1. PICK v \in StopTasks : Running(v) /\ saw[v].synth = s /\ saw[v].start = s
        BY <3>3 DEF Unloads
      <4>2. v # t /\ v \in Tasks /\ pc'[v] = pc[v] /\ saw'[v] = saw[v]
        BY <1>3, <1>4, <1>5, <4>1, TaskKinds DEF Running
      <4>. QED
        BY <4>1, <4>2 DEF Unloads, Running
    <3>. QED
      BY <3>1, <3>2, <3>3 DEF TInv, SynthesizerOwned
  <2>2. loaded' \subseteq SessionTasks
    BY DEF TInv, SynthesizerOwned
  <2>. QED
    BY <1>2, <2>1, <2>2 DEF SynthesizerOwned
<1>. QED
  BY <1>7, <1>8, <1>9, <1>10, <1>11 DEF TInv

LEMMA StartTearsDown == ASSUME IInv, TInv, Start PROVE TInv'
<1>1. PICK t \in NextOf(SessionTasks) :
          /\ session' = t /\ pc' = [pc EXCEPT ![t] = "waiting"]
          /\ saw' = [saw EXCEPT ![t] = Link(stopTask, None, t)]
  BY DEF Start
<1>2. ~active /\ active' = TRUE /\ UNCHANGED <<capture, synthesizer, loaded, engine>>
  BY DEF Start
<1>3. session = None /\ capture = None /\ synthesizer = None
  <2>1. session = None /\ capture = None
    BY <1>2 DEF IInv, SessionKnown
  <2>. QED
    BY <2>1 DEF TInv, SynthesizerOwned
<1>4. /\ t \in SessionTasks /\ t \in Tasks /\ t \notin StopTasks /\ t \notin CaptureTasks
      /\ pc[t] = "none" /\ ~Begun(t) /\ t # None
  BY TaskKinds DEF NextOf, Begun
<1>5. /\ pc'[t] = "waiting" /\ \A u \in Tasks : u # t => pc'[u] = pc[u] /\ saw'[u] = saw[u]
  BY <1>1, <1>4 DEF IInv, TypeOK, TasksTypeOK
<1>6. /\ \A u \in CaptureTasks : u # t /\ u \in Tasks /\ pc'[u] = pc[u] /\ saw'[u] = saw[u]
      /\ \A u \in StopTasks : u # t /\ u \in Tasks /\ pc'[u] = pc[u] /\ saw'[u] = saw[u]
  BY <1>4, <1>5, TaskKinds
<1>7. TogglesInOrder'
  <2>1. \A u \in CaptureTasks : Begun(u)' <=> Begun(u)
    BY <1>6 DEF Begun
  <2>2. \A u \in SessionTasks : Begun(u) => Begun(u)' /\ u # t
    BY <1>4, <1>5, TaskKinds DEF Begun
  <2>3. \A u \in CaptureTasks : Begun(u) => saw'[u].start # t
    BY <1>6, <2>2 DEF TInv, TogglesInOrder
  <2>4. \A u \in CaptureTasks \cup StopTasks : Begun(u)' => Begun(u) /\ saw'[u] = saw[u]
    BY <1>6 DEF Begun
  <2>5. \A u \in CaptureTasks \cup SessionTasks : pc[u] # "none" => pc'[u] # "none"
    BY <1>6, <2>2 DEF Begun
  <2>. QED
    BY <1>1, <1>2, <1>3, <1>6, <2>1, <2>3, <2>4, <2>5 DEF TInv, TogglesInOrder, Begun
<1>8. TogglesWait'
  <2>. SUFFICES ASSUME NEW w \in CaptureTasks, NEW u \in CaptureTasks, w[2] < u[2], Begun(u)',
                       saw'[w].start = saw'[u].start
       PROVE  /\ Follows(saw', w, saw'[u].toggle)
              /\ pc'[u] # "waiting" => pc'[w] = "over"
    BY DEF TogglesWait
  <2>1. Begun(u) /\ saw[w].start = saw[u].start /\ saw'[u] = saw[u] /\ saw'[w] = saw[w]
        /\ pc'[u] = pc[u] /\ pc'[w] = pc[w] /\ u \in Tasks
    BY <1>6 DEF Begun
  <2>2. Follows(saw, w, saw[u].toggle) /\ (pc[u] # "waiting" => pc[w] = "over")
    BY <2>1 DEF TInv, TogglesWait
  <2>3. saw[u].toggle \in CaptureTasks
    BY <2>1, <2>2, WhatTasksSaw DEF Follows, SomeToggle
  <2>. QED
    BY <1>6, <2>1, <2>2, <2>3 DEF Follows
<1>9. TogglesAwaited'
  <2>. SUFFICES ASSUME NEW w \in CaptureTasks, Running(w)'
       PROVE  \E v \in StopTasks : pc'[v] = "waiting" /\ Follows(saw', w, saw'[v].toggle)
    BY DEF TogglesAwaited
  <2>1. Running(w)
    BY <1>6 DEF Running
  <2>2. PICK v \in StopTasks : pc[v] = "waiting" /\ Follows(saw, w, saw[v].toggle)
    BY <1>2, <2>1 DEF TInv, TogglesAwaited
  <2>3. saw[v].toggle \in CaptureTasks
    BY <1>6, <2>2, WhatTasksSaw DEF Follows, SomeToggle
  <2>. QED
    BY <1>6, <2>2, <2>3 DEF Follows
<1>10. EngineOwned'
  BY <1>2, <1>6 DEF TInv, EngineOwned
<1>11. SynthesizerOwned'
  <2>1. ASSUME NEW s \in SessionTasks, s \in loaded' \/ pc'[s] = "loading" PROVE Unloads(s)'
    <3>1. s \in loaded \/ pc[s] = "loading"
      BY <1>2, <1>5, <2>1, TaskKinds
    <3>2. Unloads(s)
      BY <1>3, <3>1, TaskKinds DEF TInv, SynthesizerOwned
    <3>. QED
      BY <1>6, <3>2 DEF Unloads, Running
  <2>. QED
    BY <1>2, <1>3, <2>1 DEF TInv, SynthesizerOwned
<1>. QED
  BY <1>7, <1>8, <1>9, <1>10, <1>11 DEF TInv

LEMMA ToggleTearsDown == ASSUME IInv, TInv, ToggleMute PROVE TInv'
<1>1. PICK t \in NextOf(CaptureTasks) :
          /\ capture' = t /\ pc' = [pc EXCEPT ![t] = "waiting"]
          /\ saw' = [saw EXCEPT ![t] = Link(None, capture, session)]
  BY DEF ToggleMute
<1>2. active /\ UNCHANGED <<active, session, synthesizer, loaded, engine>>
  BY DEF ToggleMute
<1>3. /\ t \in CaptureTasks /\ t \in Tasks /\ t \notin StopTasks /\ t \notin SessionTasks
      /\ pc[t] = "none" /\ ~Begun(t) /\ t # None
      /\ \A u \in CaptureTasks : u[2] < t[2] => Begun(u)
  BY TaskKinds DEF NextOf, Begun
<1>4. /\ pc'[t] = "waiting" /\ saw'[t].toggle = capture /\ saw'[t].start = session
      /\ \A u \in Tasks : u # t => pc'[u] = pc[u] /\ saw'[u] = saw[u]
  BY <1>1, <1>3 DEF Link, IInv, TypeOK, TasksTypeOK
<1>5. /\ \A u \in StopTasks : u # t /\ u \in Tasks /\ pc'[u] = pc[u] /\ saw'[u] = saw[u]
      /\ \A u \in SessionTasks : u # t /\ u \in Tasks /\ pc'[u] = pc[u]
      /\ session \in SessionTasks /\ Begun(session)
      /\ capture # None => capture \in CaptureTasks /\ capture # t /\ Begun(capture)
                           /\ saw[capture].start = session
  BY <1>2, <1>3, <1>4, TaskKinds, SessionIsTask DEF IInv, ToggleKnown, TInv, TogglesInOrder
<1>6. \A u \in CaptureTasks : Begun(u) => u # t /\ u[2] < t[2]
  BY <1>3, ToggleNumbers DEF TInv, TogglesInOrder
<1>7. \A u \in CaptureTasks : (Begun(u)' <=> Begun(u) \/ u = t)
  BY <1>3, <1>4, TaskKinds DEF Begun
<1>8. TogglesInOrder'
  <2>1. \A w, u \in CaptureTasks : w[2] < u[2] /\ Begun(u)' => Begun(w)'
    BY <1>3, <1>7 DEF TInv, TogglesInOrder
  <2>2. \A w \in CaptureTasks : Begun(w)' => w = t \/ w[2] < t[2]
    BY <1>6, <1>7
  <2>3. \A u \in CaptureTasks : Begun(u)' => saw'[u].start \in SessionTasks /\ Begun(saw'[u].start)
    BY <1>4, <1>5, <1>7, TaskKinds DEF TInv, TogglesInOrder
  <2>4. ASSUME NEW u \in CaptureTasks \cup StopTasks, Begun(u)', saw'[u].toggle # None
        PROVE  saw'[u].toggle \in CaptureTasks /\ Begun(saw'[u].toggle)
    <3>1. CASE u = t
      BY <1>4, <1>5, <2>4, <3>1
    <3>2. CASE u # t
      <4>1. Begun(u) /\ saw'[u] = saw[u]
        BY <1>4, <2>4, <3>2, TaskKinds DEF Begun
      <4>. QED
        BY <2>4, <4>1 DEF TInv, TogglesInOrder
    <3>. QED
      BY <3>1, <3>2
  <2>5. \A u \in CaptureTasks \cup SessionTasks : pc[u] # "none" => pc'[u] # "none"
    BY <1>5, <1>7 DEF Begun
  <2>6. /\ \A u \in CaptureTasks : Begun(u)' =>
              saw'[u].start \in SessionTasks /\ pc'[saw'[u].start] # "none"
        /\ \A u \in CaptureTasks \cup StopTasks : Begun(u)' /\ saw'[u].toggle # None =>
              saw'[u].toggle \in CaptureTasks /\ pc'[saw'[u].toggle] # "none"
    BY <2>3, <2>4, <2>5 DEF Begun
  <2>. QED
    BY <1>1, <1>2, <1>3, <1>4, <2>1, <2>2, <2>6 DEF TogglesInOrder, Begun
<1>9. TogglesWait'
  <2>. SUFFICES ASSUME NEW w \in CaptureTasks, NEW u \in CaptureTasks, w[2] < u[2], Begun(u)',
                       saw'[w].start = saw'[u].start
       PROVE  /\ Follows(saw', w, saw'[u].toggle)
              /\ pc'[u] # "waiting" => pc'[w] = "over"
    BY DEF TogglesWait
  <2>1. w \in Tasks /\ u \in Tasks /\ w # t /\ Begun(w)
    <3>1. Begun(u) \/ u = t
      BY <1>7
    <3>2. Begun(w)
      BY <1>3, <3>1 DEF TInv, TogglesInOrder
    <3>. QED
      BY <1>6, <3>2, TaskKinds
  <2>2. CASE u = t
    <3>1. saw[w].start = session
      BY <1>4, <2>1, <2>2
    <3>2. capture # None /\ (w = capture \/ w[2] < capture[2])
      BY <1>2, <2>1, <3>1 DEF TInv, TogglesInOrder
    <3>3. saw'[capture] = saw[capture] /\ saw'[w] = saw[w]
      BY <1>4, <1>5, <2>1, <3>2, TaskKinds
    <3>. QED
      BY <1>4, <1>5, <2>2, <3>1, <3>2, <3>3 DEF Follows
  <2>3. CASE u # t
    <3>1. /\ Begun(u) /\ saw[w].start = saw[u].start /\ saw'[u] = saw[u] /\ saw'[w] = saw[w]
          /\ pc'[u] = pc[u] /\ pc'[w] = pc[w]
      BY <1>4, <1>7, <2>1, <2>3
    <3>2. Follows(saw, w, saw[u].toggle) /\ (pc[u] # "waiting" => pc[w] = "over")
      BY <3>1 DEF TInv, TogglesWait
    <3>3. saw[u].toggle \in CaptureTasks
      BY <2>1, <3>2, WhatTasksSaw DEF Follows, SomeToggle
    <3>4. saw[u].toggle # t
      BY <1>3, <3>1, <3>2 DEF Follows, TInv, TogglesInOrder
    <3>5. saw'[saw[u].toggle] = saw[saw[u].toggle]
      BY <1>4, <3>3, <3>4, TaskKinds
    <3>. QED
      BY <3>1, <3>2, <3>5 DEF Follows
  <2>. QED
    BY <2>2, <2>3
<1>10. TogglesAwaited'
  <2>. SUFFICES ASSUME NEW w \in CaptureTasks, Running(w)', ~(saw'[w].start = session')
       PROVE  \E v \in StopTasks : pc'[v] = "waiting" /\ Follows(saw', w, saw'[v].toggle)
    BY <1>2 DEF TogglesAwaited
  <2>1. w # t /\ w \in Tasks /\ Running(w) /\ saw[w] = saw'[w] /\ saw[w].start # session
    BY <1>2, <1>4, TaskKinds DEF Running
  <2>2. PICK v \in StopTasks : pc[v] = "waiting" /\ Follows(saw, w, saw[v].toggle)
    BY <2>1 DEF TInv, TogglesAwaited
  <2>3. saw[v].toggle \in CaptureTasks /\ Begun(saw[v].toggle)
    BY <2>2 DEF Follows, Begun, TInv, TogglesInOrder
  <2>4. saw[v].toggle # t /\ saw'[saw[v].toggle] = saw[saw[v].toggle]
    BY <1>3, <1>4, <2>3, TaskKinds
  <2>. QED
    BY <1>5, <2>1, <2>2, <2>4 DEF Follows
<1>11. EngineOwned'
  BY <1>2, <1>5 DEF TInv, EngineOwned
<1>12. SynthesizerOwned'
  BY <1>2, <1>5 DEF TInv, SynthesizerOwned, Unloads, Running
<1>. QED
  BY <1>8, <1>9, <1>10, <1>11, <1>12 DEF TInv

LEMMA NothingTorn ==
    ASSUME TInv, UNCHANGED <<active, session, capture, pc, saw, engine, synthesizer, loaded>>
    PROVE  TInv'
<1>1. TogglesInOrder' /\ TogglesWait' /\ TogglesAwaited'
  BY DEF TInv, TogglesInOrder, TogglesWait, TogglesAwaited, Begun, Running
<1>2. EngineOwned' /\ SynthesizerOwned'
  BY DEF TInv, EngineOwned, SynthesizerOwned, Unloads, Running
<1>. QED
  BY <1>1, <1>2 DEF TInv

\* A task fails: the conversation stops, or only the task is over.
LEMMA FailTearsDown ==
    ASSUME IInv, TInv, NEW t \in SessionTasks \cup CaptureTasks, Running(t), Fail(t),
           t \in CaptureTasks => pc[t] # "waiting", UNCHANGED <<engine, loaded>>
    PROVE  TInv'
<1>1. t \in Tasks /\ t \notin StopTasks /\ "over" \in Stages /\ "over" # "waiting"
      /\ "over" \notin {"none", "waiting", "loading"}
  BY TaskKinds DEF Stages
<1>2. CASE saw[t].start = session
  <2>. DEFINE pcs == [pc EXCEPT ![t] = "over"]
  <2>1. pcs \in [Tasks -> Stages]
    BY <1>1 DEF IInv, TypeOK, TasksTypeOK
  <2>2. \A u \in Tasks : pcs[u] = pc[u] \/ (u \notin StopTasks /\ Running(u) /\ pcs[u] = "over"
                                            /\ (u \in CaptureTasks => pc[u] # "waiting"))
    BY <1>1 DEF IInv, TypeOK, TasksTypeOK
  <2>3. Stop(pcs)
    BY <1>2 DEF Fail
  <2>. HIDE DEF pcs
  <2>. QED
    BY <2>1, <2>2, <2>3, StopTearsDown
<1>3. CASE saw[t].start # session
  <2>1. Moves(t, "over") /\ UNCHANGED <<active, session, capture, synthesizer>>
    BY <1>3 DEF Fail, screen, handles
  <2>2. TogglesInOrder' /\ TogglesWait' /\ TogglesAwaited'
    BY <1>1, <2>1, MoveKeepsToggles
  <2>3. EngineOwned' /\ SynthesizerOwned'
    <3>1. engine' = Off \/ engine # Off
      OBVIOUS
    <3>2. EngineOwned'
      BY ONLY IInv, TInv, Running(t), <1>1, <2>1, <3>1, MoveKeepsEngine
    <3>3. SynthesizerOwned'
      BY <1>1, <2>1, MoveKeepsSynthesizer
    <3>. QED
      BY <3>2, <3>3
  <2>. QED
    BY <2>2, <2>3 DEF TInv
<1>. QED
  BY <1>2, <1>3

-----------------------------------------------------------------------------
(* What the tasks do *)

\* A wanted start that may go on finds nothing.
LEMMA NothingLeft ==
    ASSUME IInv, TInv, NEW t \in SessionTasks, pc[t] = "waiting", t \notin cancelled,
           Over(saw[t].stop)
    PROVE  t = session /\ active /\ engine = Off /\ loaded = {} /\ synthesizer = None
<1>1. t = session /\ active
  BY CurrentStart DEF Running
<1>2. Over(stopTask)
  BY <1>1 DEF IInv, SessionKnown
<1>3. \A v \in StopTasks : ~Running(v)
  <2>. SUFFICES ASSUME NEW v \in StopTasks, Running(v) PROVE FALSE
    OBVIOUS
  <2>1. Begun(v) /\ v \in Tasks /\ pc[v] # "over"
    BY TaskKinds DEF Running, Begun
  <2>2. stopTask \in StopTasks /\ (v = stopTask \/ v[2] < stopTask[2])
    BY <2>1 DEF IInv, StopsInOrder, TypeOK, HandlesTypeOK, SomeStop
  <2>3. pc[stopTask] = "over"
    BY <1>2, <2>2, TaskKinds DEF Over
  <2>. QED
    BY <2>1, <2>2, <2>3 DEF IInv, StopsWait, Begun
<1>4. engine = Off
  BY <1>1, <1>3 DEF TInv, EngineOwned, Running
<1>5. synthesizer = None
  BY <1>1 DEF TInv, SynthesizerOwned
<1>6. loaded = {}
  BY <1>3, <1>5, TaskKinds DEF TInv, SynthesizerOwned, Unloads
<1>. QED
  BY <1>1, <1>4, <1>5, <1>6

LEMMA PrepareTearsDown == ASSUME IInv, TInv, NEW t \in SessionTasks, Prepare(t) PROVE TInv'
<1>1. pc[t] = "waiting" /\ Over(saw[t].stop) /\ UNCHANGED loaded
  BY DEF Prepare, StopBefore
<1>2. Running(t) /\ t \in Tasks /\ t \notin StopTasks /\ t \notin CaptureTasks
  BY <1>1, TaskKinds DEF Running
<1>3. CASE t \in cancelled
  <2>1. Moves(t, "over") /\ UNCHANGED <<active, session, capture, synthesizer, engine>>
        /\ "over" \in Stages /\ "over" # "waiting" /\ "over" \notin {"none", "waiting", "loading"}
    BY <1>3 DEF Prepare, screen, handles, Stages
  <2>2. TogglesInOrder' /\ TogglesWait' /\ TogglesAwaited'
    BY <1>2, <2>1, MoveKeepsToggles
  <2>3. EngineOwned'
    <3>1. engine' = Off \/ engine # Off
      BY <2>1
    <3>. QED
      BY ONLY IInv, TInv, <1>2, <2>1, <3>1, MoveKeepsEngine
  <2>4. SynthesizerOwned'
    BY <1>1, <1>2, <2>1, MoveKeepsSynthesizer
  <2>. QED
    BY <2>2, <2>3, <2>4 DEF TInv
<1>4. CASE t \notin cancelled /\ (engine.running \/ engine.tap)
  <2>1. Fail(t) /\ UNCHANGED engine
    BY <1>1, <1>4 DEF Prepare
  <2>. QED
    BY <1>1, <1>2, <2>1, FailTearsDown
<1>5. CASE t \notin cancelled /\ ~(engine.running \/ engine.tap)
  <2>1. /\ synthesizer' = t /\ Moves(t, "loading") /\ UNCHANGED <<active, session, capture>>
        /\ "loading" \in Stages /\ "loading" # "waiting" /\ "loading" # "none"
    BY <1>5 DEF Prepare, screen, Stages
  <2>2. t = session /\ active /\ loaded = {} /\ synthesizer = None
    BY <1>1, <1>5, NothingLeft
  <2>3. TogglesInOrder' /\ TogglesWait' /\ TogglesAwaited'
    BY <1>2, <2>1, MoveKeepsToggles
  <2>4. EngineOwned'
    BY ONLY IInv, TInv, <1>2, <2>1, <2>2, MoveKeepsEngine
  <2>5. SynthesizerOwned'
    <3>1. /\ pc'[t] = "loading" /\ saw' = saw /\ \A u \in Tasks : u # t => pc'[u] = pc[u]
      BY <1>2, <2>1 DEF Moves, IInv, TypeOK, TasksTypeOK
    <3>2. ASSUME NEW s \in SessionTasks, s # t, pc'[s] = "loading" PROVE Unloads(s)'
      <4>1. pc[s] = "loading" /\ s # None
        BY <3>1, <3>2, TaskKinds
      <4>2. Unloads(s)
        BY <2>2, <4>1 DEF TInv, SynthesizerOwned
      <4>. QED
        BY <1>2, <3>1, <4>2, TaskKinds DEF Unloads, Running
    <3>. QED
      BY <1>1, <2>1, <2>2, <3>1, <3>2 DEF SynthesizerOwned
  <2>. QED
    BY <2>3, <2>4, <2>5 DEF TInv
<1>. QED
  BY <1>3, <1>4, <1>5

\* An engine that is off has no tap to remove.
LEMMA OffKeepsOff == [Off EXCEPT !.tap = FALSE] = Off
<1>1. Off \in [configured : BOOLEAN, running : BOOLEAN, tap : BOOLEAN] /\ Off.tap = FALSE
  BY DEF Off
<1>2. ASSUME NEW e \in [configured : BOOLEAN, running : BOOLEAN, tap : BOOLEAN], e.tap = FALSE
      PROVE  [e EXCEPT !.tap = FALSE] = e
  BY <1>2
<1>. QED
  BY <1>1, <1>2

\* The other steps of the tasks of starts and toggles.
LEMMA OthersTearDown ==
    ASSUME IInv, TInv, NEW t \in SessionTasks \cup CaptureTasks,
           \/ t \in SessionTasks /\ (Prepared(t) \/ Live(t))
           \/ t \in CaptureTasks /\ (SetMuted(t) \/ Muted(t) \/ Unmuted(t))
           \/ GivesUp(t)
    PROVE  TInv'
<1>1. PICK stage \in {"over", "opening", "muting"} : Moves(t, stage)
  BY DEF Prepared, Live, SetMuted, Muted, Unmuted, GivesUp
<1>2. /\ stage \in Stages /\ stage \notin {"none", "waiting", "loading"}
      /\ stage # "none" /\ stage # "waiting"
  BY DEF Stages
<1>3. t \in Tasks /\ t \notin StopTasks /\ Running(t)
      /\ UNCHANGED <<active, session, capture, synthesizer>>
  BY TaskKinds DEF Prepared, Live, SetMuted, Muted, Unmuted, GivesUp, Running, screen, handles
<1>4. t \notin SessionTasks /\ pc[t] = "waiting" => Over(saw[t].toggle)
  BY TaskKinds DEF Prepared, Live, SetMuted, Muted, Unmuted, GivesUp
<1>5. loaded' \subseteq loaded \cup {s \in SessionTasks : s = t /\ pc[t] = "loading"}
  BY DEF Prepared, Live, SetMuted, Muted, Unmuted, GivesUp
<1>6. [Off EXCEPT !.tap = FALSE] = Off
  BY OffKeepsOff
<1>7. \/ engine' = Off \/ engine # Off
      \/ active /\ (t = session \/ pc[session] # "waiting")
      \/ t \notin StopTasks /\ \E v \in StopTasks : pc[v] = "waiting"
  <2>1. CASE engine' = engine \/ engine' = [engine EXCEPT !.tap = FALSE]
    BY <1>6, <2>1
  <2>2. CASE t \in SessionTasks /\ Live(t)
    BY <1>3, <2>2, CurrentStart DEF Live, Overtaken
  <2>3. CASE t \in CaptureTasks /\ Unmuted(t)
    <3>1. CASE active /\ saw[t].start = session
      <4>1. Begun(t)
        BY <1>3 DEF Running, Begun
      <4>2. capture # None
        BY <2>3, <3>1, <4>1 DEF TInv, TogglesInOrder
      <4>. QED
        BY <3>1, <4>2 DEF IInv, StartUndisturbed
    <3>. QED
      BY <1>3, <2>3, <3>1 DEF TInv, TogglesAwaited
  <2>. QED
    BY <2>1, <2>2, <2>3 DEF Prepared, SetMuted, Muted, GivesUp, ResetCapture
<1>8. TogglesInOrder' /\ TogglesWait' /\ TogglesAwaited'
  BY <1>1, <1>2, <1>3, <1>4, MoveKeepsToggles
<1>9. EngineOwned'
  BY ONLY IInv, TInv, <1>1, <1>2, <1>3, <1>7, MoveKeepsEngine
<1>10. SynthesizerOwned'
  BY <1>1, <1>2, <1>3, <1>5, MoveKeepsSynthesizer
<1>. QED
  BY <1>8, <1>9, <1>10 DEF TInv

LEMMA StopTasksTearDown ==
    ASSUME IInv, TInv, NEW t \in StopTasks, StopSpeech(t) \/ StopAudio(t) \/ Unload(t)
    PROVE  TInv'
<1>1. PICK stage \in {"closing", "unloading", "over"} :
          /\ Moves(t, stage)
          /\ \/ stage = "closing" /\ pc[t] = "waiting" /\ UNCHANGED loaded
             \/ stage = "unloading" /\ engine' = Off /\ UNCHANGED loaded
             \/ stage = "over" /\ pc[t] = "unloading"
                   /\ Over(saw[t].start) /\ loaded' = loaded \ {saw[t].synth}
  BY DEF StopSpeech, StopAudio, Unload, Unloadable
<1>2. /\ stage \in Stages /\ stage \notin {"none", "waiting", "loading"}
      /\ stage # "none" /\ stage # "waiting"
  BY DEF Stages
<1>3. t \in Tasks /\ t \notin SessionTasks /\ t \notin CaptureTasks /\ Running(t)
      /\ UNCHANGED <<active, session, capture, synthesizer>>
  BY TaskKinds DEF StopSpeech, StopAudio, Unload, Running, screen, handles
<1>4. pc[t] = "waiting" => Over(saw[t].toggle)
  BY DEF StopSpeech, StopAudio, Unload
<1>5. [Off EXCEPT !.tap = FALSE] = Off
  BY OffKeepsOff
<1>6. engine' = Off \/ engine # Off
  BY <1>5 DEF StopSpeech, StopAudio, Unload, ResetCapture
<1>7. TogglesInOrder' /\ TogglesWait' /\ TogglesAwaited'
  BY <1>1, <1>2, <1>3, <1>4, MoveKeepsToggles
<1>8. EngineOwned'
  BY <1>1, <1>2, <1>3, <1>6, MoveKeepsEngine
<1>9. SynthesizerOwned'
  BY <1>1, <1>2, <1>3, MoveKeepsSynthesizer
<1>. QED
  BY <1>7, <1>8, <1>9 DEF TInv

LEMMA SurroundingsTearDown == ASSUME IInv, TInv, Surroundings PROVE TInv'
<1>1. pc \in [Tasks -> Stages]
  BY DEF IInv, TypeOK, TasksTypeOK
<1>2. CASE Start \/ ToggleMute
  BY <1>2, StartTearsDown, ToggleTearsDown
<1>3. CASE Stopped \/ ConversationFails
  <2>1. Stop(pc) /\ UNCHANGED loaded
    BY <1>3 DEF Stopped, ConversationFails
  <2>. QED
    BY <1>1, <2>1, StopTearsDown
<1>4. CASE \E t \in SessionTasks \cup CaptureTasks : TaskFails(t)
  <2>1. PICK t \in SessionTasks \cup CaptureTasks : TaskFails(t)
    BY <1>4
  <2>2. Running(t) /\ pc[t] # "waiting" /\ Fail(t) /\ UNCHANGED <<engine, loaded>>
    BY <2>1 DEF TaskFails, Running
  <2>. QED
    BY <2>2, FailTearsDown
<1>5. CASE \/ Interrupt \/ UserTurn \/ ResponseEnded \/ UserSpeaks
           \/ UserSilent \/ Generates \/ BotSpeaks \/ BotSilent
  <2>1. UNCHANGED <<active, session, capture, pc, saw, engine, synthesizer, loaded>>
    BY <1>5 DEF Interrupt, UserTurn, ResponseEnded, UserSpeaks, UserSilent, Generates, BotSpeaks,
       BotSilent, Shows, handles, tasks
  <2>. QED
    BY <2>1, NothingTorn
<1>. QED
  BY <1>2, <1>3, <1>4, <1>5 DEF Surroundings

-----------------------------------------------------------------------------
(* Starts find nothing left *)

LEMMA InitTInv == Init => TInv
<1>. SUFFICES ASSUME Init PROVE TInv
  OBVIOUS
<1>1. /\ \A t \in Tasks : pc[t] = "none"
      /\ ~active /\ capture = None /\ synthesizer = None /\ loaded = {} /\ engine = Off
  BY DEF Init
<1>. QED
  BY <1>1, TaskKinds DEF TInv, TogglesInOrder, TogglesWait, TogglesAwaited, EngineOwned,
     SynthesizerOwned, Begun, Running

\* Whatever still runs of earlier conversations is owned by a stop that ends it.
THEOREM TeardownInvariant == Spec => [](IInv /\ TInv)
<1>1. IInv /\ TInv /\ [Next]_vars => TInv'
  <2>. SUFFICES ASSUME IInv, TInv, [Next]_vars PROVE TInv'
    OBVIOUS
  <2>1. CASE Proceed
    BY <2>1, PrepareTearsDown, OthersTearDown, StopTasksTearDown DEF Proceed
  <2>2. CASE Surroundings
    BY <2>2, SurroundingsTearDown
  <2>3. CASE UNCHANGED vars
    <3>1. UNCHANGED <<active, session, capture, pc, saw, engine, synthesizer, loaded>>
      BY <2>3 DEF vars, screen, handles, tasks
    <3>. QED
      BY <3>1, NothingTorn
  <2>. QED
    BY <2>1, <2>2, <2>3 DEF Next
<1>. QED
  BY <1>1, InitTInv, InitIInv, StepIInv, PTL DEF Spec

\* Only its own task gets a start past the stop it waits for.
LEMMA OnlyPrepares ==
    ASSUME IInv, Next, NEW t \in SessionTasks, pc[t] = "waiting", pc'[t] # "waiting"
    PROVE  Prepare(t)
<1>1. t \in Tasks /\ t \notin StopTasks /\ t \notin CaptureTasks /\ pc \in [Tasks -> Stages]
  BY TaskKinds DEF IInv, TypeOK, TasksTypeOK
<1>2. \A u \in Tasks, stage \in Stages : Moves(u, stage) /\ u # t => pc'[t] = pc[t]
  BY <1>1 DEF Moves
<1>3. ASSUME NEW pcs \in [Tasks -> Stages], Stop(pcs) PROVE pc'[t] = pcs[t]
  <2>1. PICK v \in NextOf(StopTasks) : pc' = [pcs EXCEPT ![v] = "waiting"]
    BY <1>3 DEF Stop
  <2>. QED
    BY <1>1, <2>1 DEF NextOf
<1>4. ASSUME NEW u \in SessionTasks \cup CaptureTasks, Fail(u), u # t PROVE pc'[t] = pc[t]
  <2>. DEFINE pcs == [pc EXCEPT ![u] = "over"]
  <2>1. u \in Tasks /\ "over" \in Stages
    BY TaskKinds DEF Stages
  <2>2. pcs \in [Tasks -> Stages] /\ pcs[t] = pc[t]
    BY <1>1, <1>4, <2>1
  <2>3. Stop(pcs) \/ Moves(u, "over")
    BY <1>4 DEF Fail
  <2>. HIDE DEF pcs
  <2>. QED
    BY <1>2, <1>3, <1>4, <2>1, <2>2, <2>3
<1>5. CASE Proceed
  <2>1. ASSUME NEW u \in SessionTasks, Prepare(u), u # t PROVE FALSE
    <3>1. Fail(u) \/ \E stage \in Stages : Moves(u, stage)
      BY <2>1 DEF Prepare, Stages
    <3>. QED
      BY <1>2, <1>4, <2>1, <3>1, TaskKinds
  <2>2. ASSUME NEW u \in Tasks, pc[u] # "waiting" \/ u \notin SessionTasks,
               \E stage \in Stages : Moves(u, stage)
        PROVE FALSE
    BY <1>2, <2>2
  <2>3. ASSUME NEW u \in SessionTasks, Prepared(u) \/ GivesUp(u) \/ Live(u) PROVE FALSE
    <3>1. pc[u] # "waiting" /\ \E stage \in Stages : Moves(u, stage)
      BY <2>3 DEF Prepared, GivesUp, Live, Stages
    <3>. QED
      BY <2>2, <3>1, TaskKinds
  <2>4. ASSUME NEW u \in CaptureTasks, SetMuted(u) \/ Muted(u) \/ GivesUp(u) \/ Unmuted(u)
        PROVE  FALSE
    <3>1. \E stage \in Stages : Moves(u, stage)
      BY <2>4 DEF SetMuted, Muted, GivesUp, Unmuted, Stages
    <3>. QED
      BY <2>2, <3>1, TaskKinds
  <2>5. ASSUME NEW u \in StopTasks, StopSpeech(u) \/ StopAudio(u) \/ Unload(u) PROVE FALSE
    <3>1. \E stage \in Stages : Moves(u, stage)
      BY <2>5 DEF StopSpeech, StopAudio, Unload, Stages
    <3>. QED
      BY <2>2, <3>1, TaskKinds
  <2>. QED
    BY <1>5, <2>1, <2>3, <2>4, <2>5 DEF Proceed
<1>6. CASE Surroundings
  <2>1. ASSUME Start \/ ToggleMute PROVE FALSE
    <3>1. PICK u \in Tasks : pc' = [pc EXCEPT ![u] = "waiting"]
      BY <2>1, TaskKinds DEF Start, ToggleMute, NextOf
    <3>. QED
      BY <1>1, <3>1
  <2>2. ASSUME Stopped \/ ConversationFails PROVE FALSE
    <3>1. Stop(pc)
      BY <2>2 DEF Stopped, ConversationFails
    <3>. QED
      BY <1>1, <1>3, <3>1
  <2>3. ASSUME NEW u \in SessionTasks \cup CaptureTasks, TaskFails(u) PROVE FALSE
    <3>1. Fail(u) /\ u # t
      BY <2>3 DEF TaskFails
    <3>. QED
      BY <1>4, <3>1
  <2>4. ASSUME \/ Interrupt \/ UserTurn \/ ResponseEnded \/ UserSpeaks
               \/ UserSilent \/ Generates \/ BotSpeaks \/ BotSilent
        PROVE FALSE
    BY <2>4 DEF Interrupt, UserTurn, ResponseEnded, UserSpeaks, UserSilent, Generates, BotSpeaks,
       BotSilent, Shows, tasks
  <2>. QED
    BY <1>6, <2>1, <2>2, <2>3, <2>4 DEF Surroundings
<1>. QED
  BY <1>5, <1>6 DEF Next

\* "awaits teardown before starting another conversation": however many stops, toggles
\* and failures are still under way, a start that is wanted gets past the stop it waits
\* for only when the engine is off and no model is in memory.
THEOREM StartsOnNothing == Spec => FindsNothingLeft
<1>. DEFINE Finds == \A t \in SessionTasks :
                        pc[t] = "waiting" /\ pc'[t] # "waiting" /\ t \notin cancelled =>
                            engine = Off /\ loaded = {}
<1>1. IInv /\ TInv /\ [Next]_vars => [Finds]_vars
  <2>. SUFFICES ASSUME IInv, TInv, Next, NEW t \in SessionTasks, pc[t] = "waiting",
                       pc'[t] # "waiting", t \notin cancelled
       PROVE  engine = Off /\ loaded = {}
    OBVIOUS
  <2>1. Over(saw[t].stop)
    BY OnlyPrepares DEF Prepare, StopBefore
  <2>. QED
    BY <2>1, NothingLeft
<1>. QED
  BY <1>1, TeardownInvariant, PTL DEF Spec, FindsNothingLeft
-----------------------------------------------------------------------------
(* What was asked for last *)

\* The model of a conversation that got past its loading is in memory and its own.
ModelHeld ==
    active /\ pc[session] # "waiting" =>
        synthesizer = session /\ (pc[session] \in {"opening", "over"} => session \in loaded)

\* The newest toggle is not cancelled, and nobody resets the capture it opens.
ToggleHeld ==
    capture # None => capture \notin cancelled /\ (pc[capture] = "opening" => epoch = capture)

\* Once the start is over the engine runs; a mute is told at once, and all else is as
\* it was asked for when the newest toggle is over.
ToldAsAsked ==
    /\ ~active => told = "off"
    /\ active /\ pc[session] = "over" =>
           /\ engine.running
           /\ muted => told = "muted" /\ ~inputReady
           /\ capture # None /\ pc[capture] = "muting" => muted /\ ~engine.tap
           /\ capture = None \/ pc[capture] = "over" =>
                  engine.tap = ~muted /\ inputReady = ~muted /\ (~muted => told = "on")

SInv == ModelHeld /\ ToggleHeld /\ ToldAsAsked

LEMMA StopSettles == ASSUME NEW pcs, Stop(pcs) PROVE SInv'
<1>1. ~active' /\ capture' = None /\ told' = "off"
  BY DEF Stop
<1>. QED
  BY <1>1 DEF SInv, ModelHeld, ToggleHeld, ToldAsAsked

\* A task that is neither the start nor the newest toggle of the conversation leaves
\* alone what these two rely on.
LEMMA OthersSettle ==
    ASSUME IInv, SInv, NEW t \in Tasks, NEW stage \in Stages, Moves(t, stage),
           t # session, t # capture,
           UNCHANGED <<active, muted, inputReady, session, capture, synthesizer, told>>,
           active /\ pc[session] # "waiting" => loaded \subseteq loaded',
           UNCHANGED epoch \/ capture = None \/ pc[capture] # "opening",
           \/ UNCHANGED engine
           \/ ~(active /\ pc[session] = "over")
           \/ engine'.running /\ capture # None /\ pc[capture] = "waiting"
    PROVE  SInv'
<1>1. UNCHANGED cancelled /\ \A u \in Tasks : u # t => pc'[u] = pc[u]
  BY DEF Moves, IInv, TypeOK, TasksTypeOK
<1>2. /\ active => pc'[session] = pc[session]
      /\ capture # None => pc'[capture] = pc[capture]
  BY <1>1, SessionIsTask
<1>3. ModelHeld'
  BY <1>2 DEF SInv, ModelHeld
<1>4. ToggleHeld'
  BY <1>1, <1>2 DEF SInv, ToggleHeld
<1>5. ToldAsAsked'
  BY <1>2 DEF SInv, ToldAsAsked
<1>. QED
  BY <1>3, <1>4, <1>5 DEF SInv

\* While a stop is under way, the conversation has neither a toggle nor a running start.
LEMMA StopsLeaveAlone ==
    ASSUME IInv, NEW t \in StopTasks, Running(t)
    PROVE  capture = None /\ (active => pc[session] = "waiting")
<1>1. active => pc[session] = "waiting"
  BY NoStopRuns
<1>2. active => capture = None
  BY <1>1 DEF IInv, StartUndisturbed
<1>. QED
  BY <1>1, <1>2, SessionIsTask

LEMMA NewestKnown ==
    ASSUME IInv, TInv, capture # None
    PROVE  /\ capture \in CaptureTasks /\ capture \in Tasks /\ active /\ pc[session] = "over"
           /\ saw[capture].start = session /\ saw[capture].mute = muted /\ Begun(capture)
<1>1. capture \in CaptureTasks /\ capture \in Tasks /\ active
  BY SessionIsTask
<1>2. saw[capture].start = session /\ saw[capture].mute = muted /\ Begun(capture)
  BY DEF IInv, ToggleKnown, TInv, TogglesInOrder
<1>3. pc[session] = "over"
  BY <1>1 DEF IInv, StartUndisturbed
<1>. QED
  BY <1>1, <1>2, <1>3

LEMMA FailSettles ==
    ASSUME IInv, TInv, SInv, NEW t \in SessionTasks \cup CaptureTasks, Fail(t),
           UNCHANGED <<engine, epoch, loaded>>
    PROVE  SInv'
<1>1. CASE saw[t].start = session
  BY <1>1, StopSettles DEF Fail
<1>2. CASE saw[t].start # session
  <2>1. Moves(t, "over") /\ t \in Tasks /\ "over" \in Stages
        /\ UNCHANGED <<active, muted, inputReady, session, capture, synthesizer, told>>
    BY <1>2, TaskKinds DEF Fail, screen, handles, Stages
  <2>2. t # capture
    BY <1>2, TaskKinds, NewestKnown
  <2>3. t # session
    BY <1>2, TaskKinds DEF IInv, SessionKnown
  <2>. QED
    BY <2>1, <2>2, <2>3, OthersSettle
<1>. QED
  BY <1>1, <1>2

LEMMA StartTasksSettle ==
    ASSUME IInv, TInv, SInv, NEW t \in SessionTasks,
           Prepare(t) \/ Prepared(t) \/ GivesUp(t) \/ Live(t)
    PROVE  SInv'
<1>1. t \in Tasks /\ t # capture /\ "over" \in Stages
  BY TaskKinds, SessionIsTask DEF Stages
<1>2. CASE Prepare(t)
  <2>1. pc[t] = "waiting" /\ Over(saw[t].stop) /\ UNCHANGED <<loaded, epoch>>
    BY <1>2 DEF Prepare, StopBefore
  <2>2. CASE t \in cancelled
    <3>1. Moves(t, "over") /\ UNCHANGED engine
          /\ UNCHANGED <<active, muted, inputReady, session, capture, synthesizer, told>>
      BY <1>2, <2>2 DEF Prepare, screen, handles
    <3>. QED
      BY <1>1, <2>1, <2>2, <3>1, CancelledStart, OthersSettle
  <2>3. CASE t \notin cancelled /\ (engine.running \/ engine.tap)
    <3>1. Fail(t) /\ UNCHANGED engine
      BY <1>2, <2>3 DEF Prepare
    <3>. QED
      BY <2>1, <3>1, FailSettles
  <2>4. CASE t \notin cancelled /\ ~(engine.running \/ engine.tap)
    <3>1. /\ synthesizer' = t /\ Moves(t, "loading") /\ UNCHANGED <<active, session, capture, told>>
      BY <1>2, <2>4 DEF Prepare, screen
    <3>2. t = session /\ active /\ capture = None
      BY <2>1, <2>4, CurrentStart DEF Running
    <3>3. session' = session /\ pc'[session'] = "loading"
      BY <1>1, <3>1, <3>2 DEF Moves, IInv, TypeOK, TasksTypeOK
    <3>. QED
      BY <3>1, <3>2, <3>3 DEF SInv, ModelHeld, ToggleHeld, ToldAsAsked
  <2>. QED
    BY <2>2, <2>3, <2>4
<1>3. CASE Prepared(t)
  <2>1. pc[t] = "loading" /\ loaded \subseteq loaded'
        /\ UNCHANGED <<active, muted, inputReady, session, capture, synthesizer>>
    BY <1>3 DEF Prepared, screen, handles
  <2>2. CASE t \in cancelled
    <3>1. Moves(t, "over") /\ UNCHANGED <<engine, epoch, told>>
      BY <1>3, <2>2 DEF Prepared
    <3>. QED
      BY <1>1, <2>1, <2>2, <3>1, CancelledStart, OthersSettle
  <2>3. CASE t \notin cancelled
    <3>1. Moves(t, "opening") /\ t \in loaded'
      BY <1>3, <2>3 DEF Prepared
    <3>2. t = session /\ active /\ capture = None
      BY <2>1, <2>3, CurrentStart DEF Running
    <3>3. synthesizer = session
      BY <2>1, <3>2 DEF SInv, ModelHeld
    <3>4. pc'[session] = "opening"
      BY <1>1, <3>1, <3>2 DEF Moves, IInv, TypeOK, TasksTypeOK
    <3>5. active' /\ capture' = None /\ synthesizer' = session' /\ session' \in loaded'
          /\ pc'[session'] = "opening"
      BY <2>1, <3>1, <3>2, <3>3, <3>4
    <3>. QED
      BY <3>5 DEF SInv, ModelHeld, ToggleHeld, ToldAsAsked
  <2>. QED
    BY <2>2, <2>3
<1>4. CASE GivesUp(t)
  <2>1. pc[t] = "opening" /\ (t \in cancelled \/ epoch # t) /\ Moves(t, "over")
        /\ UNCHANGED <<loaded, engine, epoch, told>>
        /\ UNCHANGED <<active, muted, inputReady, session, capture, synthesizer>>
    BY <1>4 DEF GivesUp, Overtaken, screen, handles
  <2>2. t # session
    <3>. SUFFICES ASSUME t = session PROVE FALSE
      OBVIOUS
    <3>1. t \notin cancelled /\ active
      BY TaskKinds, CancelledStart DEF IInv, SessionKnown
    <3>. QED
      BY <2>1, <3>1 DEF IInv, StartUndisturbed
  <2>. QED
    BY <1>1, <2>1, <2>2, OthersSettle
<1>5. CASE Live(t)
  <2>1. /\ pc[t] = "opening" /\ t \notin cancelled /\ Moves(t, "over")
        /\ engine' = Capturing /\ inputReady' = TRUE
        /\ UNCHANGED <<active, muted, session, capture, synthesizer, loaded, told>>
    BY <1>5 DEF Live, Overtaken, handles
  <2>2. t = session /\ active /\ ~muted /\ capture = None
    BY <2>1, CurrentStart DEF Running
  <2>3. told = "on" /\ synthesizer = session /\ session \in loaded
    BY <2>1, <2>2 DEF IInv, StartUndisturbed, SInv, ModelHeld
  <2>4. engine'.running = TRUE /\ engine'.tap = TRUE
    BY <2>1 DEF Capturing
  <2>5. active' /\ ~muted' /\ capture' = None /\ inputReady' = TRUE /\ told' = "on"
        /\ synthesizer' = session' /\ session' \in loaded'
    BY <2>1, <2>2, <2>3
  <2>. QED
    BY <2>4, <2>5 DEF SInv, ModelHeld, ToggleHeld, ToldAsAsked
<1>. QED
  BY <1>2, <1>3, <1>4, <1>5

LEMMA ToggleTasksSettle ==
    ASSUME IInv, TInv, SInv, NEW t \in CaptureTasks,
           SetMuted(t) \/ Muted(t) \/ GivesUp(t) \/ Unmuted(t)
    PROVE  SInv'
<1>1. t \in Tasks /\ t # session /\ t \notin StopTasks /\ {"over", "muting", "opening"} \subseteq Stages
  BY TaskKinds DEF IInv, TypeOK, HandlesTypeOK, SomeStart, Stages
<1>2. UNCHANGED <<active, muted, session, capture, synthesizer, loaded>>
  BY DEF SetMuted, Muted, GivesUp, Unmuted, screen, handles
<1>3. PICK stage \in {"over", "muting", "opening"} : Moves(t, stage)
  BY DEF SetMuted, Muted, GivesUp, Unmuted
<1>4. UNCHANGED cancelled /\ pc'[t] = stage /\ \A u \in Tasks : u # t => pc'[u] = pc[u]
  BY <1>1, <1>3 DEF Moves, IInv, TypeOK, TasksTypeOK
<1>5. CASE t = capture
  <2>1. /\ capture # None /\ active /\ pc[session] = "over" /\ pc'[session] = "over"
        /\ Newest(t) /\ t \notin cancelled /\ saw[t].mute = muted
    BY <1>1, <1>4, <1>5, TaskKinds, NewestKnown, SessionIsTask DEF Newest, SInv, ToggleHeld
  <2>2. ModelHeld'
    BY <1>2, <2>1 DEF SInv, ModelHeld
  <2>3. engine.running = TRUE /\ (muted => told = "muted" /\ ~inputReady)
    BY <2>1 DEF SInv, ToldAsAsked, IInv, TypeOK, TasksTypeOK
  <2>4. CASE SetMuted(t)
    <3>1. /\ epoch' = t /\ engine' = [engine EXCEPT !.tap = FALSE]
          /\ Moves(t, IF muted THEN "muting" ELSE "opening")
          /\ UNCHANGED <<inputReady, told>>
      BY <2>1, <2>4 DEF SetMuted, ResetCapture, screen
    <3>2. engine'.running = TRUE /\ engine'.tap = FALSE
      BY <2>3, <3>1 DEF IInv, TypeOK, TasksTypeOK
    <3>3. pc'[t] = (IF muted THEN "muting" ELSE "opening")
      BY <1>1, <3>1 DEF Moves, IInv, TypeOK, TasksTypeOK
    <3>4. ToggleHeld'
      BY <1>2, <1>4, <1>5, <2>1, <3>1 DEF ToggleHeld
    <3>5. ToldAsAsked'
      BY <1>2, <1>5, <2>1, <2>3, <3>1, <3>2, <3>3 DEF ToldAsAsked
    <3>. QED
      BY <2>2, <3>4, <3>5 DEF SInv
  <2>5. CASE Muted(t)
    <3>1. pc[t] = "muting" /\ Moves(t, "over") /\ UNCHANGED <<inputReady, engine, told>>
      BY <2>5 DEF Muted, screen
    <3>2. pc'[t] = "over"
      BY <1>1, <3>1 DEF Moves, IInv, TypeOK, TasksTypeOK
    <3>3. muted /\ engine.tap = FALSE /\ inputReady = FALSE
      BY <1>5, <2>1, <2>3, <3>1
         DEF SInv, ToldAsAsked, IInv, TypeOK, TasksTypeOK, ScreenTypeOK
    <3>4. ToggleHeld'
      BY <1>2, <1>4, <1>5, <2>1, <3>2 DEF ToggleHeld
    <3>5. ToldAsAsked'
      BY <1>2, <1>5, <2>1, <2>3, <3>1, <3>2, <3>3 DEF ToldAsAsked, IInv, TypeOK, ScreenTypeOK
    <3>. QED
      BY <2>2, <3>4, <3>5 DEF SInv
  <2>6. CASE GivesUp(t)
    <3>1. pc[t] = "opening" /\ epoch # t
      BY <2>1, <2>6 DEF GivesUp, Overtaken
    <3>. QED
      BY <1>5, <2>1, <3>1 DEF SInv, ToggleHeld
  <2>7. CASE Unmuted(t)
    <3>1. /\ pc[t] = "opening" /\ Moves(t, "over") /\ engine' = Capturing
          /\ inputReady' = TRUE /\ told' = "on"
      BY <2>1, <2>7 DEF Unmuted
    <3>2. pc'[t] = "over" /\ engine'.running = TRUE /\ engine'.tap = TRUE
      BY <1>1, <3>1 DEF Moves, IInv, TypeOK, TasksTypeOK, Capturing
    <3>3. muted = FALSE
      BY <2>1, <3>1 DEF IInv, ToggleKnown, TypeOK, ScreenTypeOK
    <3>4. ToggleHeld'
      BY <1>2, <1>4, <1>5, <2>1, <3>2 DEF ToggleHeld
    <3>5. ToldAsAsked'
      BY <1>2, <1>5, <2>1, <3>1, <3>2, <3>3 DEF ToldAsAsked
    <3>. QED
      BY <2>2, <3>4, <3>5 DEF SInv
  <2>. QED
    BY <2>4, <2>5, <2>6, <2>7
<1>6. CASE t # capture
  <2>1. UNCHANGED <<inputReady, told>>
    BY <1>6 DEF SetMuted, Muted, GivesUp, Unmuted, Newest, screen
  <2>2. CASE Unmuted(t)
    <3>1. pc[t] = "opening" /\ engine' = Capturing /\ UNCHANGED epoch
      BY <2>2 DEF Unmuted
    <3>2. engine'.running
      BY <3>1 DEF Capturing
    <3>3. ASSUME active, pc[session] = "over" PROVE capture # None /\ pc[capture] = "waiting"
      <4>1. Running(t) /\ Begun(t) /\ \A v \in StopTasks : pc[v] # "waiting"
        BY <3>1, <3>3, NoStopRuns DEF Running, Begun
      <4>2. saw[t].start = session
        BY <4>1 DEF TInv, TogglesAwaited
      <4>3. capture # None /\ t[2] < capture[2]
        BY <1>6, <3>3, <4>1, <4>2 DEF TInv, TogglesInOrder
      <4>. QED
        BY <3>1, <4>2, <4>3, NewestKnown DEF TInv, TogglesWait
    <3>. QED
      BY <1>1, <1>2, <1>3, <1>6, <2>1, <3>1, <3>2, <3>3, OthersSettle
  <2>3. CASE ~Unmuted(t)
    <3>1. UNCHANGED <<engine, epoch>>
      BY <1>6, <2>3 DEF SetMuted, Muted, GivesUp, Newest
    <3>. QED
      BY <1>1, <1>2, <1>3, <1>6, <2>1, <3>1, OthersSettle
  <2>. QED
    BY <2>2, <2>3
<1>. QED
  BY <1>5, <1>6

LEMMA StopTasksSettle ==
    ASSUME IInv, SInv, NEW t \in StopTasks, StopSpeech(t) \/ StopAudio(t) \/ Unload(t)
    PROVE  SInv'
<1>1. t \in Tasks /\ t # session /\ t # capture /\ Running(t)
      /\ {"closing", "unloading", "over"} \subseteq Stages
  BY TaskKinds DEF IInv, TypeOK, HandlesTypeOK, SomeStart, SomeToggle, Stages, Running,
     StopSpeech, StopAudio, Unload
<1>2. PICK stage \in {"closing", "unloading", "over"} : Moves(t, stage)
  BY DEF StopSpeech, StopAudio, Unload
<1>3. UNCHANGED <<active, muted, inputReady, session, capture, synthesizer, told>>
  BY DEF StopSpeech, StopAudio, Unload, screen, handles
<1>. QED
  BY <1>1, <1>2, <1>3, StopsLeaveAlone, OthersSettle

LEMMA NothingSettles ==
    ASSUME SInv, UNCHANGED <<active, muted, inputReady, session, capture, synthesizer, pc,
                             cancelled, loaded, engine, epoch, told>>
    PROVE  SInv'
BY DEF SInv, ModelHeld, ToggleHeld, ToldAsAsked

LEMMA SurroundingsSettle == ASSUME IInv, TInv, SInv, Surroundings PROVE SInv'
<1>1. CASE Start
  <2>1. PICK t \in NextOf(SessionTasks) : session' = t /\ pc' = [pc EXCEPT ![t] = "waiting"]
    BY <1>1 DEF Start
  <2>2. active' = TRUE /\ pc'[session'] = "waiting" /\ capture' = None
    <3>1. t \in Tasks
      BY TaskKinds DEF NextOf
    <3>. QED
      BY <1>1, <2>1, <3>1 DEF Start, IInv, SessionKnown, TypeOK, TasksTypeOK
  <2>. QED
    BY <2>2 DEF SInv, ModelHeld, ToggleHeld, ToldAsAsked
<1>2. CASE ToggleMute
  <2>1. PICK t \in NextOf(CaptureTasks) : capture' = t /\ pc' = [pc EXCEPT ![t] = "waiting"]
    BY <1>2 DEF ToggleMute
  <2>2. t \in CaptureTasks /\ t \in Tasks /\ ~Begun(t) /\ t # session /\ t # None
    BY TaskKinds DEF NextOf, Begun, IInv, TypeOK, HandlesTypeOK, SomeStart
  <2>3. /\ active /\ phase # "preparing" /\ muted' = ~muted /\ inputReady' = FALSE
        /\ muted' => told' = "muted"
        /\ UNCHANGED <<active, session, synthesizer, cancelled, loaded, engine>>
    BY <1>2 DEF ToggleMute
  <2>4. pc'[t] = "waiting" /\ pc'[session] = pc[session]
    BY <2>1, <2>2, <2>3, SessionIsTask DEF IInv, TypeOK, TasksTypeOK
  <2>5. pc[session] = "over" /\ engine.running /\ t \notin cancelled
    BY <2>2, <2>3 DEF IInv, StartUndisturbed, StraysCancelled, SInv, ToldAsAsked
  <2>6. ModelHeld'
    BY <2>3, <2>4 DEF SInv, ModelHeld
  <2>7. ToggleHeld' /\ ToldAsAsked'
    BY <2>1, <2>2, <2>3, <2>4, <2>5 DEF ToggleHeld, ToldAsAsked
  <2>. QED
    BY <2>6, <2>7 DEF SInv
<1>3. CASE Stopped \/ ConversationFails
  BY <1>3, StopSettles DEF Stopped, ConversationFails
<1>4. CASE \E t \in SessionTasks \cup CaptureTasks : TaskFails(t)
  BY <1>4, FailSettles DEF TaskFails
<1>5. CASE \/ Interrupt \/ UserTurn \/ ResponseEnded \/ UserSpeaks
           \/ UserSilent \/ Generates \/ BotSpeaks \/ BotSilent
  <2>1. UNCHANGED <<active, muted, inputReady, session, capture, synthesizer, pc, cancelled, loaded,
                    engine, epoch, told>>
    BY <1>5 DEF Interrupt, UserTurn, ResponseEnded, UserSpeaks, UserSilent, Generates, BotSpeaks,
       BotSilent, Shows, handles, tasks
  <2>. QED
    BY <2>1, NothingSettles
<1>. QED
  BY <1>1, <1>2, <1>3, <1>4, <1>5 DEF Surroundings

\* In whatever order tasks end, the conversation converges to what was asked for last.
LEMMA SettlingInvariant == Spec => []SInv
<1>1. Init => SInv
  BY DEF Init, SInv, ModelHeld, ToggleHeld, ToldAsAsked
<1>2. IInv /\ TInv /\ SInv /\ [Next]_vars => SInv'
  <2>. SUFFICES ASSUME IInv, TInv, SInv, [Next]_vars PROVE SInv'
    OBVIOUS
  <2>1. CASE Proceed
    BY <2>1, StartTasksSettle, ToggleTasksSettle, StopTasksSettle DEF Proceed
  <2>2. CASE Surroundings
    BY <2>2, SurroundingsSettle
  <2>3. CASE UNCHANGED vars
    BY <2>3, NothingSettles DEF vars, screen, handles, tasks
  <2>. QED
    BY <2>1, <2>2, <2>3 DEF Next
<1>. QED
  BY <1>1, <1>2, TeardownInvariant, PTL DEF Spec

\* "ending the session stops both": however presses, stops and failures interleave,
\* when every task is over the engine, the input, the synthesizer's memory and what
\* Python was told are those of the state asked for last.
THEOREM AlwaysSettlesAsAsked == Spec => []SettlesAsAsked
<1>1. IInv /\ TInv /\ SInv => SettlesAsAsked
  <2>. SUFFICES ASSUME IInv, TInv, SInv, AtRest
       PROVE  IF active
              THEN /\ engine.tap = ~muted /\ inputReady = ~muted /\ engine.running
                   /\ told = IF muted THEN "muted" ELSE "on"
                   /\ loaded = {session} /\ synthesizer = session
              ELSE engine = Off /\ loaded = {} /\ told = "off"
    BY DEF SettlesAsAsked
  <2>1. \A t \in Tasks : ~Running(t) /\ pc[t] \notin {"waiting", "closing", "loading"}
    BY DEF AtRest, Running
  <2>2. \A s \in loaded : s = synthesizer
    BY <2>1, TaskKinds DEF TInv, SynthesizerOwned, Unloads
  <2>3. CASE active
    <3>1. session \in Tasks /\ Begun(session) /\ pc[session] = "over"
      BY <2>1, <2>3, SessionIsTask DEF Running, Begun
    <3>2. capture = None \/ pc[capture] = "over"
      BY <2>1, NewestKnown DEF Running, Begun
    <3>3. loaded = {session} /\ synthesizer = session
      BY <2>2, <2>3, <3>1 DEF SInv, ModelHeld
    <3>. QED
      BY <2>3, <3>1, <3>2, <3>3 DEF SInv, ToldAsAsked
  <2>4. CASE ~active
    <3>1. engine = Off
      BY <2>1, <2>4, TaskKinds DEF TInv, EngineOwned
    <3>2. synthesizer = None
      BY <2>4 DEF TInv, SynthesizerOwned, IInv, SessionKnown
    <3>3. loaded = {}
      BY <2>2, <3>2, TaskKinds DEF TInv, SynthesizerOwned
    <3>. QED
      BY <2>4, <3>1, <3>3 DEF SInv, ToldAsAsked
  <2>. QED
    BY <2>3, <2>4
<1>. QED
  BY <1>1, TeardownInvariant, SettlingInvariant, PTL
=============================================================================
