------------------------ MODULE SpeechAgreementProofs ------------------------
(* A theorem about SpeechPlayback, for any number of turns, sentences, conversations,
   interruptions and failures and chunks of any number: once all is handled, Python, the
   player and the screen agree on what is spoken.  What is known of the lines and the
   inferences is SpeechPlaybackProofs'; this adds what the host told and what Python
   has still to hear of it. *)
EXTENDS SpeechPlaybackProofs

-----------------------------------------------------------------------------
(* What the host says of the loudspeaker.                                    *)

Signal(kind, request, session) == [kind |-> kind, request |-> request, session |-> session]

\* t is s and more at its end.
Grows(s, t) ==
    /\ \A i \in DOMAIN s : i \in Nat /\ i \in DOMAIN t /\ t[i] = s[i]
    /\ \A i \in DOMAIN t : i \in Nat /\ (i \notin DOMAIN s => \A j \in DOMAIN s : j < i)
Fresh(s, t, i) == i \in DOMAIN t /\ i \notin DOMAIN s

LEMMA GrowsNot == ASSUME NEW s \in Seq(Told) PROVE Grows(s, s) /\ \A i : ~Fresh(s, s, i)
<1>1. DOMAIN s = 1 .. Len(s) /\ Len(s) \in Nat
  OBVIOUS
<1>. QED
  BY <1>1 DEF Grows, Fresh

\* t is s and x at its end.
Adds(s, t, x) == /\ Grows(s, t) /\ \A i : Fresh(s, t, i) => t[i] = x
                 /\ \E i : Fresh(s, t, i) /\ t[i] = x
LEMMA GrowsBy ==
    ASSUME NEW s \in Seq(Told), NEW x \in Told, NEW t, t = Append(s, x)
    PROVE  t \in Seq(Told) /\ Adds(s, t, x)
<1>1. /\ t \in Seq(Told) /\ Len(t) = Len(s) + 1 /\ Len(s) \in Nat
      /\ DOMAIN t = 1 .. Len(s) + 1 /\ DOMAIN s = 1 .. Len(s)
      /\ t[Len(s) + 1] = x /\ \A i \in 1 .. Len(s) : t[i] = s[i]
  BY AppendedIs
<1>2. Fresh(s, t, Len(s) + 1)
  BY <1>1 DEF Fresh
<1>3. \A i : Fresh(s, t, i) => i = Len(s) + 1
  BY <1>1 DEF Fresh
<1>4. Grows(s, t)
  BY <1>1 DEF Grows
<1>. QED
  BY <1>1, <1>2, <1>3, <1>4 DEF Adds

LEMMA GrowsMore ==
    ASSUME NEW s, NEW t, NEW u, Grows(s, t), Grows(t, u)
    PROVE  /\ Grows(s, u) /\ \A i : Fresh(s, u, i) => Fresh(t, u, i) \/ (Fresh(s, t, i) /\ u[i] = t[i])
           /\ \A i : Fresh(s, t, i) => Fresh(s, u, i) /\ u[i] = t[i]
           /\ \A i : Fresh(t, u, i) => Fresh(s, u, i)
BY DEF Grows, Fresh

SameScreen(h, g) == g.botSpeaking = h.botSpeaking /\ g.botTurn = h.botTurn
SameVoice(h, g) == g.speaking = h.speaking /\ g.sent = h.sent /\ SameScreen(h, g) /\ g.drawn = h.drawn

\* The loudspeaker is silent, and that was said if it was not and a request held it.
Hushed(h, g) ==
    /\ ~g.speaking /\ SameScreen(h, g) /\ g.drawn = h.drawn
    /\ IF ~h.speaking \/ h.speechRequest = 0 THEN g.sent = h.sent
       ELSE g.sent = Append(h.sent, Signal("playback_off", h.speechRequest, h.session))

LEMMA SignalIs ==
    ASSUME NEW kind \in Signals, NEW request \in Nat, NEW session \in Nat,
           kind \in {"done", "error"} => request \in Requests
    PROVE  /\ Signal(kind, request, session) \in Told /\ Signal(kind, request, session).kind = kind
           /\ Signal(kind, request, session).request = request
           /\ Signal(kind, request, session).session = session
BY DEF Signal, Told

LEMMA TellSays ==
    ASSUME NEW h \in Host, NEW kind, NEW request, NEW session, NEW g, g = Tell(h, kind, request, session)
    PROVE  g.sent = Append(h.sent, Signal(kind, request, session)) /\ g.speaking = h.speaking
           /\ SameScreen(h, g) /\ g.drawn = h.drawn
BY DEF Tell, Signal, Host, SameScreen

LEMMA SpeakingSays ==
    ASSUME NEW h \in Host, NEW speaking \in BOOLEAN, NEW g, g = SetSpeaking(h, speaking)
    PROVE  /\ g.speaking = speaking /\ SameScreen(h, g) /\ g.drawn = h.drawn
           /\ g.sent = IF h.speaking = speaking \/ h.speechRequest = 0 THEN h.sent
                       ELSE Append(h.sent, Signal(IF speaking THEN "playback_on" ELSE "playback_off",
                                                  h.speechRequest, h.session))
<1>. DEFINE now == [h EXCEPT !.speaking = speaking]
            kind == IF speaking THEN "playback_on" ELSE "playback_off"
<1>1. now \in Host /\ now.sent = h.sent /\ now.speaking = speaking /\ SameScreen(h, now) /\ now.drawn = h.drawn
  BY DEF Host, SameScreen
<1>2. g = IF h.speaking = speaking \/ h.speechRequest = 0 THEN now
          ELSE Tell(now, kind, h.speechRequest, h.session)
  BY DEF SetSpeaking, None
<1>. HIDE DEF now, kind
<1>3. CASE h.speaking = speaking \/ h.speechRequest = 0
  BY <1>1, <1>2, <1>3
<1>4. CASE ~(h.speaking = speaking \/ h.speechRequest = 0)
  <2>1. g = Tell(now, kind, h.speechRequest, h.session)
    BY <1>2, <1>4
  <2>2. /\ g.sent = Append(now.sent, Signal(kind, h.speechRequest, h.session)) /\ g.speaking = now.speaking
        /\ SameScreen(now, g) /\ g.drawn = now.drawn
    BY <1>1, <2>1, TellSays
  <2>. QED
    BY <1>1, <1>4, <2>2 DEF SameScreen, kind
<1>. QED
  BY <1>3, <1>4

LEMMA PlayerStopSays ==
    ASSUME NEW h \in Host, NEW g, g = PlayerStop(h)
    PROVE  Hushed(h, g)
<1>. DEFINE stopped == [h EXCEPT !.generation = @ + 1, !.pending = 0, !.waiter = None]
            task == [h.task EXCEPT ![h.waiter].stage = "unwinding"]
            s == IF h.waiter = None THEN stopped
                 ELSE [stopped EXCEPT !.task[h.waiter].stage = "unwinding"]
<1>1. g = SetSpeaking(s, FALSE)
  BY DEF PlayerStop
<1>2. s \in Host
  <2>1. h.generation + 1 \in Nat /\ 0 \in Nat
    BY DEF Host
  <2>2. stopped = [h EXCEPT !.generation = h.generation + 1, !.pending = 0, !.waiter = 0]
    BY DEF None, Host
  <2>3. stopped \in Host /\ stopped.task = h.task
    BY <2>1, <2>2 DEF Host
  <2>4. CASE h.waiter = None
    BY <2>3, <2>4
  <2>5. CASE h.waiter # None
    <3>1. h.waiter \in Requests /\ h.task \in [Requests -> TaskRecord] /\ h.task[h.waiter] \in TaskRecord
      BY <2>5 DEF Host, None
    <3>2. task \in [Requests -> TaskRecord]
      BY <3>1 DEF TaskRecord, TaskStages
    <3>3. s = [stopped EXCEPT !.task = task]
      BY <2>3, <2>5
    <3>. HIDE DEF stopped, task
    <3>. QED
      BY <2>3, <3>2, <3>3, ZenonT(60) DEF Host
  <2>. QED
    BY <2>4, <2>5
<1>3. /\ s.speaking = h.speaking /\ s.sent = h.sent /\ SameScreen(h, s) /\ s.drawn = h.drawn
      /\ s.speechRequest = h.speechRequest /\ s.session = h.session
  BY DEF Host, SameScreen
<1>. HIDE DEF s
<1>4. /\ g.speaking = FALSE /\ SameScreen(s, g) /\ g.drawn = s.drawn
      /\ g.sent = IF s.speaking = FALSE \/ s.speechRequest = 0 THEN s.sent
                  ELSE Append(s.sent, Signal("playback_off", s.speechRequest, s.session))
  BY <1>1, <1>2, SpeakingSays
<1>5. h.speaking \in BOOLEAN
  BY DEF Host
<1>. QED
  BY <1>3, <1>4, <1>5 DEF Hushed, SameScreen

LEMMA CancelTasksSays ==
    ASSUME NEW h \in Host, NEW ids, NEW g, g = CancelTasks(h, ids)
    PROVE  SameVoice(h, g) /\ g.session = h.session /\ g.speechRequest = h.speechRequest
BY DEF CancelTasks, Host, SameVoice, SameScreen

LEMMA StoppedSays ==
    ASSUME NEW h \in Host, NEW ids \in SUBSET Requests, NEW g, g = Stopped(h, ids)
    PROVE  Hushed(h, g)
<1>. DEFINE k == CancelTasks(h, ids)
            p == PlayerStop(k)
<1>1. k \in Host
  BY CancelTasksIs
<1>2. SameVoice(h, k) /\ k.session = h.session /\ k.speechRequest = h.speechRequest
  BY CancelTasksSays
<1>3. g = [p EXCEPT !.speechRequest = 0]
  BY DEF Stopped, None
<1>. HIDE DEF k
<1>4. Hushed(k, p) /\ p \in Host
  BY <1>1, PlayerStopSays, PlayerStopIs
<1>. HIDE DEF p
<1>5. SameVoice(p, g)
  BY <1>3, <1>4 DEF Host, SameVoice, SameScreen
<1>. QED
  BY <1>2, <1>4, <1>5 DEF Hushed, SameVoice, SameScreen

LEMMA CancelRequestsSays ==
    ASSUME NEW h \in Host, NEW g, g = CancelRequests(h)
    PROVE  Hushed(h, g)
<1>1. h.requests \in SUBSET Requests /\ g = Stopped(h, h.requests)
  BY DEF CancelRequests, Stopped, Host
<1>. QED
  BY <1>1, StoppedSays

LEMMA HandleCancelRequestSays ==
    ASSUME NEW h \in Host, NEW r, NEW g, g = HandleCancelRequest(h, r)
    PROVE  IF h.speechRequest = r THEN Hushed(h, g) ELSE SameVoice(h, g)
<1>1. h.requests \cap {r} \in SUBSET Requests
  BY DEF Host
<1>2. CASE h.speechRequest = r
  <2>1. g = Stopped(h, h.requests \cap {r})
    BY <1>2 DEF HandleCancelRequest, Stopped
  <2>. QED
    BY <1>1, <1>2, <2>1, StoppedSays
<1>3. CASE h.speechRequest # r
  BY <1>3, CancelTasksSays DEF HandleCancelRequest
<1>. QED
  BY <1>2, <1>3

\* A conversation is said to be over before what plays is stopped.
LEMMA StopConversationSays ==
    ASSUME NEW h \in Host, NEW g, g = StopConversation(h)
    PROVE  /\ ~g.speaking /\ ~g.botSpeaking
           /\ LET s == Append(h.sent, Signal("stop", 0, h.session))
              IN  \/ g.sent = s
                  \/ g.sent = Append(s, Signal("playback_off", h.speechRequest, g.session))
<1>. DEFINE told == Tell(h, "stop", None, h.session)
            fresh == [told EXCEPT !.active = FALSE, !.session = h.drawn + 1, !.drawn = @ + 1]
            c == CancelRequests(fresh)
            k == [c EXCEPT !.turn = None, !.botSpeaking = FALSE, !.botTurn = None, !.latest = None]
<1>1. [kind |-> "stop", request |-> None, session |-> h.session] \in Told
  BY DEF Told, Signals, Host, None
<1>2. told \in Host /\ TellsOnly(h, told, [kind |-> "stop", request |-> None, session |-> h.session])
  BY <1>1, TellIs
<1>3. told.sent = Append(h.sent, Signal("stop", 0, h.session))
  BY TellSays DEF None
<1>. HIDE DEF told
<1>4. h.drawn + 1 \in Nat /\ told.drawn = h.drawn /\ told.speechRequest = h.speechRequest
  BY <1>2 DEF Host, TellsOnly, SameRequests
<1>5. /\ fresh \in Host /\ fresh.sent = told.sent /\ fresh.speechRequest = h.speechRequest
      /\ fresh.session = h.drawn + 1
  BY <1>2, <1>4 DEF Host
<1>6. g = k
  BY <1>2, <1>4 DEF StopConversation, told, Host
<1>. HIDE DEF fresh
<1>7. Hushed(fresh, c) /\ c \in Host /\ SameTurn(fresh, c)
  BY <1>5, CancelRequestsSays, CancelRequestsIs
<1>. HIDE DEF c
<1>8. k.sent = c.sent /\ k.speaking = c.speaking /\ k.botSpeaking = FALSE /\ k.session = c.session
  BY <1>7 DEF Host
<1>. HIDE DEF k
<1>. QED
  BY <1>3, <1>5, <1>6, <1>7, <1>8 DEF Hushed, SameTurn

LEMMA EnqueueSays ==
    ASSUME NEW h \in Host, NEW g, g = Enqueue(h)
    PROVE  /\ g.speaking /\ SameScreen(h, g) /\ g.drawn = h.drawn
           /\ g.sent = IF h.speaking \/ h.speechRequest = 0 THEN h.sent
                       ELSE Append(h.sent, Signal("playback_on", h.speechRequest, h.session))
<1>. DEFINE k == [h EXCEPT !.pending = h.pending + Windows]
<1>1. h.pending + Windows \in Nat
  BY SMTT(60), PlaybackAssumption DEF Host
<1>2. k \in Host /\ SameVoice(h, k) /\ k.speechRequest = h.speechRequest /\ k.session = h.session
  BY <1>1 DEF Host, SameVoice, SameScreen
<1>3. g = SetSpeaking(k, TRUE) /\ h.speaking \in BOOLEAN
  BY DEF Enqueue, Host
<1>. HIDE DEF k
<1>4. /\ g.speaking = TRUE /\ SameScreen(k, g) /\ g.drawn = k.drawn
      /\ g.sent = IF k.speaking = TRUE \/ k.speechRequest = 0 THEN k.sent
                  ELSE Append(k.sent, Signal("playback_on", k.speechRequest, k.session))
  BY <1>2, <1>3, SpeakingSays
<1>. QED
  BY <1>2, <1>3, <1>4 DEF SameVoice, SameScreen

LEMMA OneFewerSays ==
    ASSUME NEW h \in Host, h.pending # 0, NEW g, g = OneFewer(h)
    PROVE  IF h.pending = 1 THEN Hushed(h, g) ELSE SameVoice(h, g)
<1>. DEFINE fewer == [h EXCEPT !.pending = h.pending - 1]
            task == [h.task EXCEPT ![h.waiter].stage = "completing"]
            k == IF h.waiter = 0 THEN fewer ELSE [fewer EXCEPT !.task = task, !.waiter = 0]
<1>1. h.pending - 1 \in Nat
  BY DEF Host
<1>2. fewer \in Host /\ fewer.task = h.task /\ SameVoice(h, fewer)
      /\ fewer.speechRequest = h.speechRequest /\ fewer.session = h.session /\ fewer.waiter = h.waiter
  BY <1>1 DEF Host, SameVoice, SameScreen
<1>3. g = IF h.pending = 1
          THEN SetSpeaking(IF h.waiter = None THEN fewer
                           ELSE [fewer EXCEPT !.task[h.waiter].stage = "completing", !.waiter = None], FALSE)
          ELSE fewer
  BY DEF OneFewer
<1>. HIDE DEF fewer
<1>4. (IF h.waiter = None THEN fewer
       ELSE [fewer EXCEPT !.task[h.waiter].stage = "completing", !.waiter = None]) = k
  BY <1>2 DEF None
<1>5. k \in Host /\ SameVoice(h, k) /\ k.speechRequest = h.speechRequest /\ k.session = h.session
  <2>1. CASE h.waiter = 0
    BY <1>2, <2>1
  <2>2. CASE h.waiter # 0
    <3>1. h.waiter \in Requests /\ h.task \in [Requests -> TaskRecord] /\ h.task[h.waiter] \in TaskRecord
      BY <2>2 DEF Host
    <3>2. task \in [Requests -> TaskRecord]
      BY <3>1 DEF TaskRecord, TaskStages
    <3>. HIDE DEF task
    <3>. QED
      BY <1>2, <2>2, <3>2 DEF Host, SameVoice, SameScreen
  <2>. QED
    BY <2>1, <2>2
<1>. HIDE DEF k
<1>6. CASE h.pending = 1
  <2>1. g = SetSpeaking(k, FALSE)
    BY <1>3, <1>4, <1>6
  <2>2. /\ g.speaking = FALSE /\ SameScreen(k, g) /\ g.drawn = k.drawn
        /\ g.sent = IF k.speaking = FALSE \/ k.speechRequest = 0 THEN k.sent
                    ELSE Append(k.sent, Signal("playback_off", k.speechRequest, k.session))
    BY <1>5, <2>1, SpeakingSays
  <2>3. h.speaking \in BOOLEAN
    BY DEF Host
  <2>. QED
    BY <1>5, <1>6, <2>2, <2>3 DEF Hushed, SameVoice, SameScreen
<1>7. CASE h.pending # 1
  BY <1>2, <1>3, <1>7
<1>. QED
  BY <1>6, <1>7

\* A task that ends, unwinds or has streamed all says nothing.
LEMMA EndedSays ==
    ASSUME NEW h \in Host, NEW r \in Requests, NEW g, g = Ended(h, r)
    PROVE  SameVoice(h, g)
BY DEF Ended, Host, SameVoice, SameScreen

LEMMA UnwindSays ==
    ASSUME NEW h \in Host, NEW r \in Requests, NEW error, NEW g, g = Unwind(h, r, error)
    PROVE  SameVoice(h, g)
BY DEF Unwind, Host, SameVoice, SameScreen

LEMMA FinishSays ==
    ASSUME NEW h \in Host, NEW r \in Requests, NEW g, g = Finish(h, r)
    PROVE  SameVoice(h, g)
BY DEF Finish, Host, SameVoice, SameScreen

-----------------------------------------------------------------------------
(* When the player, Python and the screen agree.                             *)

Sent == DOMAIN host.sent
Starts(i) == host.sent[i].kind = "start"
Closes(i, s) == host.sent[i].kind = "stop" /\ host.sent[i].session = s
Halts(i) == host.sent[i].kind \in {"stop", "interrupt"} /\ host.sent[i].session = py.session
On(i, q) == host.sent[i].kind = "playback_on" /\ host.sent[i].request = q /\ host.sent[i].session = py.session
Off(i, q) == host.sent[i].kind = "playback_off" /\ host.sent[i].request = q /\ host.sent[i].session = py.session
Due == DOMAIN toHost
NewTurn(i) == toHost[i].kind = "user_turn"
Leaves(k, t, s) == toHost[k].session = s /\ (NewTurn(k) \/ (toHost[k].kind = "cancel_turn" /\ toHost[k].turn = t))

\* The host has left the turn of Python, and Python is going to hear of it.
Has(s, x) == \E i \in DOMAIN s : s[i] = x
Controlled == Has(py.controls, py.session)
Doomed == (\E i \in Sent : Starts(i) \/ Halts(i)) \/ Controlled
Live == py.turn # 0 /\ ~Doomed
Joined == Live /\ host.turn = py.turn

\* The open sentence has failed, and its turn is going to end with the conversation.
Broken ==
    /\ py.stream # 0 /\ py.streamTurn = py.turn /\ Ends(py.stream)
    /\ \A i \in Sent : ~(host.sent[i].kind = "done" /\ host.sent[i].request = py.stream)
    /\ \/ py.result = "error"
       \/ /\ py.result = "none"
          /\ \E i \in Sent : host.sent[i].kind = "error" /\ host.sent[i].request = py.stream
Faulty == Has(py.errors, py.turn)
Failing ==
    \/ Broken \/ Faulty
    \/ \E i \in Due : toHost[i].kind = "error" /\ toHost[i].turn = py.turn /\ toHost[i].session = py.session

\* The player speaks while buffers are to play, and has none left when a sentence completes.
Sustained ==
    /\ host.speaking => host.pending > 0
    /\ \A r \in host.requests : host.task[r].stage = "completing" => host.pending = 0
\* An interruption is on its way to the open stream of another turn, and to such a voice.
PySound ==
    /\ py.atTransport => py.stream = 0
    /\ py.stream # 0 => (py.atTTS <=> py.streamTurn # py.turn)
    /\ py.speaking # 0 => /\ py.speakingTurn # 0 /\ py.speakingTurn <= py.turns
                          /\ py.speakingTurn # py.turn => py.atTTS \/ py.atTransport
    /\ py.turn # 0 => py.turn = py.turns /\ py.sessionOf[py.turn] = py.session
    /\ ~py.active => py.turn = 0 \/ Controlled
\* Python goes through the conversations in their order, and every one it has not
\* reached is announced on the wire; one that is over is going to be told so.
SessionsKnown ==
    /\ host.session = host.drawn /\ py.session <= host.session
    /\ \A t \in 1 .. py.turns : py.sessionOf[t] <= py.session
    /\ \A i \in Sent : Starts(i) =>
          /\ py.session < host.sent[i].session /\ host.sent[i].session <= host.session
          /\ \/ host.sent[i].session = host.session /\ host.active
             \/ \E j \in Sent : j > i /\ Closes(j, host.sent[i].session)
          /\ \A j \in Sent : j > i /\ Starts(j) => host.sent[i].session < host.sent[j].session
    /\ host.session # py.session \/ ~host.active =>
          \/ \E i \in Sent : Starts(i) \/ Closes(i, py.session)
          \/ ~py.active
    /\ host.turn # 0 => host.active /\ host.turn <= py.turns /\ py.sessionOf[host.turn] = host.session
\* A request is of a turn that was begun, in that turn's conversation.
TasksKnown ==
    /\ \A r \in Requests : host.task[r].stage # "none" =>
          /\ host.task[r].turn \in 1 .. py.turns /\ py.sessionOf[host.task[r].turn] = host.task[r].session
          /\ r = py.stream => host.task[r].turn = py.streamTurn
    /\ \A i \in Due : Asks(i) =>
          /\ toHost[i].turn \in 1 .. py.turns /\ py.sessionOf[toHost[i].turn] = toHost[i].session
          /\ toHost[i].request = py.stream => toHost[i].turn = py.streamTurn
    /\ \A i \in Sent : host.sent[i].kind = "playback_on" =>
          host.sent[i].request \in Requests /\ host.task[host.sent[i].request].stage # "none"
\* The turns reach the host in their order; what is left of an earlier one, a request that
\* is open or asked for or a voice, is going to be given up with it.
TurnsInOrder ==
    /\ \A i \in Due : toHost[i].turn <= py.turns
    /\ \A i \in Due : NewTurn(i) =>
          /\ host.turn < toHost[i].turn /\ toHost[i].session = py.sessionOf[toHost[i].turn]
          /\ \A k \in Due : k # i /\ toHost[k].turn = toHost[i].turn => i < k
          /\ \A k \in Due : k > i /\ NewTurn(k) => toHost[i].turn < toHost[k].turn
    /\ \A i \in Due : toHost[i].kind = "cancel_turn" => toHost[i].turn = 0 \/ toHost[i].turn # py.turn
    /\ Live => host.turn = py.turn \/ \E i \in Due : NewTurn(i) /\ toHost[i].turn = py.turn
    /\ host.requests # {} \/ host.speaking =>
          /\ host.turn # 0
          /\ py.turn = host.turn \/ \E k \in Due : Leaves(k, host.turn, host.session)
    /\ \A i \in Due : Asks(i) =>
          \/ py.turn = toHost[i].turn \/ py.session # toHost[i].session
          \/ \E k \in Due : k > i /\ Leaves(k, toHost[i].turn, toHost[i].session)
\* In a turn that lives on, Python gives up a request only if it has failed.
Given ==
    Live =>
    /\ \A r \in host.requests : r # py.stream /\ host.task[r].turn = py.turn => Failing
    /\ \A i \in Due : Asks(i) /\ toHost[i].request # py.stream /\ toHost[i].turn = py.turn => Failing
\* What plays is spoken to Python, or is going to be.
StillOn == Joined =>
    /\ host.speaking /\ host.speechRequest = 0 => Failing
    /\ host.speaking /\ host.speechRequest # 0 /\ host.speechRequest = py.stream =>
          \/ Failing
          \/ py.speaking = py.stream /\ \A i \in Sent : ~Off(i, py.stream)
          \/ \E i \in Sent : On(i, py.stream) /\ \A j \in Sent : j > i => ~Off(j, py.stream)
\* What is spoken to Python, or is going to be, plays, or its end is on the wire.
Backed == Live =>
    /\ py.speaking # 0 /\ py.speakingTurn = py.turn =>
          /\ host.turn = py.turn
          /\ \/ \E j \in Sent : Off(j, py.speaking)
             \/ host.speaking /\ host.speechRequest = py.speaking
             \/ Failing
    /\ \A i \in Sent : py.stream # 0 /\ On(i, py.stream) /\ py.streamTurn = py.turn =>
          /\ host.turn = py.turn
          /\ \/ \E j \in Sent : j > i /\ Off(j, py.stream)
             \/ host.speaking /\ host.speechRequest = py.stream
             \/ Failing
Shows(i, t) == toHost[i].kind = "bot_started" /\ toHost[i].turn = t
Hides(i, t) == toHost[i].kind = "bot_stopped" /\ toHost[i].turn = t
Voice(t) == py.speaking # 0 /\ py.speakingTurn = t
\* The screen shows the voice, or is going to.
Screen ==
    /\ \A i \in Due : toHost[i].kind \in {"bot_started", "bot_stopped"} =>
          toHost[i].turn # 0 /\ py.sessionOf[toHost[i].turn] = toHost[i].session
    /\ host.botSpeaking => /\ host.active /\ host.botTurn \in 1 .. py.turns /\ py.sessionOf[host.botTurn] = host.session
                           /\ Voice(host.botTurn) \/ \E i \in Due : Hides(i, host.botTurn)
    /\ \A i \in Due : toHost[i].kind = "bot_started" =>
          Voice(toHost[i].turn) \/ \E j \in Due : j > i /\ Hides(j, toHost[i].turn)
    /\ Live /\ Voice(py.turn) =>
          \/ /\ host.botSpeaking /\ host.botTurn = py.turn
             /\ \A i \in Due : ~Hides(i, py.turn)
          \/ \E i \in Due : Shows(i, py.turn) /\ \A j \in Due : j > i => ~Hides(j, py.turn)

Agreed == /\ Sustained /\ PySound /\ SessionsKnown /\ TasksKnown /\ TurnsInOrder
          /\ Given /\ StillOn /\ Backed /\ Screen

-----------------------------------------------------------------------------
(* What is seen of a step of the host's.                                     *)

New(i) == Fresh(host.sent, host'.sent, i)
Stays == host'.active = host.active /\ host'.session = host.session /\ host'.drawn = host.drawn
SameVisible == SameScreen(host, host')

\* The request r has failed, and so it is said.
Fails(r) ==
    /\ host'.task[r].stage = "ended" /\ \A i : New(i) => host'.sent[i].kind = "error"
    /\ \E i : New(i) /\ host'.sent[i].request = r

\* The player goes on or remains silent; requests may be answered.
Steady ==
    /\ SameTurn(host, host') /\ Stays /\ Ran /\ Grows(host.sent, host'.sent)
    /\ host'.speaking = host.speaking /\ (host'.pending = host.pending \/ host'.pending > 0)
    /\ \A i : New(i) => /\ host'.sent[i].kind \in {"done", "error"}
                        /\ host'.sent[i].kind = "done" => host.task[host'.sent[i].request].stage # "ended"
    /\ \/ host'.speechRequest = host.speechRequest \/ host.speechRequest = 0
       \/ host'.speechRequest = 0 /\ (host.speaking => Fails(host.speechRequest))
\* The first buffer of r is scheduled.
Sounds(r) ==
    /\ SameTurn(host, host') /\ Stays /\ Ran /\ host'.requests = host.requests
    /\ r \in host.requests /\ host.task[r].stage # "none"
    /\ ~host.speaking /\ host'.speaking /\ host'.pending > 0
    /\ host.speechRequest = r /\ host'.speechRequest = r
    /\ host'.sent = Append(host.sent, Signal("playback_on", r, host.session))
\* What plays is played to its end or stopped.
Hushes == SameTurn(host, host') /\ Stays /\ Ran /\ Hushed(host, host')
\* The host goes on to the turn of m, and stops what plays.
Turned(m) ==
    /\ m.kind = "user_turn" /\ m.session = host.session /\ host.active
    /\ Stays /\ Ran /\ Hushed(host, host') /\ host'.requests = {} /\ host'.turn = m.turn
\* The button: an interruption or the end of the conversation.
Halted ==
    /\ Ran /\ host'.requests = {} /\ ~host'.speaking /\ ~host'.botSpeaking /\ host'.turn = 0
    /\ Grows(host.sent, host'.sent)
    /\ \A i : New(i) => host'.sent[i].kind \in {"stop", "interrupt", "playback_off"}
    /\ \E i : /\ New(i) /\ host'.sent[i].session = host.session
              /\ \/ host'.sent[i].kind = "interrupt" /\ Stays
                 \/ /\ host'.sent[i].kind = "stop" /\ ~host'.active
                    /\ host'.session = host.drawn + 1 /\ host'.drawn = host.drawn + 1
\* A new conversation.
Started ==
    /\ ~host.active /\ host'.active /\ host'.session = host.drawn + 1 /\ host'.drawn = host.drawn + 1
    /\ host'.turn = host.turn /\ Ran /\ host'.requests = host.requests /\ SameVisible
    /\ host'.speaking = host.speaking /\ host'.pending = host.pending
    /\ host'.speechRequest = host.speechRequest
    /\ host'.sent = Append(host.sent, Signal("start", 0, host.drawn + 1))
\* The request of m is taken on.
Accepts(m) ==
    /\ m.kind = "request" /\ AcceptMove(host', m) /\ Stays
    /\ host'.speaking = host.speaking /\ host'.sent = host.sent
\* The screen shows the turn of m.
Shown(m) ==
    /\ m.kind = "bot_started" /\ m.session = host.session /\ host.active /\ m.turn = host.turn
    /\ host'.botSpeaking /\ host'.botTurn = m.turn
\* The screen shows no longer that the bot speaks.
Concealed(m) ==
    m.kind = "bot_stopped" /\ m.session = host.session /\ m.turn = host.botTurn /\ ~host'.botSpeaking

\* What the host must do when it handles m.
Heeds(m) ==
    m.session = host.session =>
    /\ m.kind = "user_turn" /\ host.active => Turned(m)
    /\ m.kind = "error" /\ m.turn = host.turn => Halted
    /\ m.kind = "cancel_turn" /\ m.turn # 0 /\ m.turn = host.turn => host'.requests = {} /\ ~host'.speaking
    /\ m.kind = "bot_started" /\ host.active /\ m.turn = host.turn => Shown(m)
    /\ m.kind = "bot_stopped" /\ host.active /\ m.turn = host.botTurn => ~host'.botSpeaking

\* A step of the host's own, or with d = 1 one that handles the head of the wire.
HostStep(d) ==
    /\ UNCHANGED py /\ Shifted(d) /\ (d = 1 => 1 \in Due /\ Heeds(toHost[1]))
    /\ \/ Steady \/ (\E r \in Requests : Sounds(r)) \/ Hushes \/ Halted \/ Started
       \/ d = 1 /\ (Turned(toHost[1]) \/ Accepts(toHost[1]))
    /\ SameVisible \/ Halted \/ (d = 1 /\ Stays /\ (Shown(toHost[1]) \/ Concealed(toHost[1])))

\* What both wires and the tasks are.
LEMMA SentIs ==
    ASSUME Ready
    PROVE  /\ host \in Host /\ host.sent \in Seq(Told) /\ py \in Py
           /\ DOMAIN host.sent = 1 .. Len(host.sent) /\ Len(host.sent) \in Nat
           /\ \A i \in DOMAIN host.sent : host.sent[i] \in Told /\ host.sent[i].session \in Nat /\ i \in Nat
<1>1. host \in Host /\ host.sent \in Seq(Told) /\ py \in Py
  BY DEF Ready, TypeOK, Host
<1>2. /\ Len(host.sent) \in Nat /\ DOMAIN host.sent = 1 .. Len(host.sent)
      /\ \A i \in DOMAIN host.sent : host.sent[i] \in Told /\ i \in Nat
  BY <1>1, SeqIs
<1>. QED
  BY <1>1, <1>2 DEF Told

\* Nothing is said.
LEMMA SteadyIs ==
    ASSUME Ready, Ran, SameTurn(host, host'), SameVoice(host, host'),
           host'.pending = host.pending \/ host'.pending > 0,
           host'.speechRequest = host.speechRequest \/ host.speechRequest = 0
    PROVE  Steady /\ SameVisible
<1>1. Grows(host.sent, host'.sent) /\ \A i : ~New(i)
  BY SentIs, GrowsNot DEF SameVoice, New
<1>. QED
  BY <1>1 DEF Steady, SameVoice, SameTurn, Stays, SameVisible

\* A request that was cancelled does not hold the player.
LEMMA CancelledHoldsNot ==
    ASSUME Ready, NEW r \in Requests, host.task[r].cancelled
    PROVE  r \notin host.requests /\ host.speechRequest # r
<1>1. r \notin host.requests
  BY DEF Ready, Owned
<1>. QED
  BY <1>1 DEF Ready, PlayerOwned, Requests

\* A task that gives up before it has begun.
LEMMA EndedSteady ==
    ASSUME Ready, NEW r \in Requests, Over(r), host' = Ended(host, r),
           host.task[r].stage \in {"created", "synthesizing"}
    PROVE  Steady /\ SameVisible
<1>1. host.task[r].cancelled
  BY DEF Over
<1>2. host'.speechRequest = host.speechRequest
  BY <1>1, CancelledHoldsNot DEF Over
<1>3. SameVoice(host, host')
  BY SentIs, EndedSays
<1>4. Ran /\ SameTurn(host, host') /\ host'.pending = host.pending
  BY OverRan DEF Over, TaskStep, SamePlayer
<1>. QED
  BY <1>2, <1>3, <1>4, SteadyIs

LEMMA BeginSteady ==
    ASSUME Ready, NEW r \in Requests, Begin(r)
    PROVE  Steady /\ SameVisible
<1>1. host.task[r].stage = "created" /\ host \in Host
  BY SentIs DEF Begin
<1>2. Over(r) \/ Begun(r)
  BY BeginIs
<1>3. CASE Over(r)
  <2>1. host.task[r].cancelled
    BY <1>1, <1>3 DEF Over
  <2>2. host' = Ended(host, r)
    BY <2>1 DEF Begin, HostMoves
  <2>. QED
    BY <1>1, <1>3, <2>2, EndedSteady
<1>4. CASE Begun(r)
  <2>1. host'.task[r].stage = "synthesizing"
    BY <1>4 DEF Begun, TaskStep, TaskAt
  <2>2. host' = Ended(host, r) \/ host' = [host EXCEPT !.task[r].stage = "synthesizing", !.speechRequest = r]
    BY DEF Begin, HostMoves
  <2>3. host' # Ended(host, r)
    BY <1>1, <2>1, EndedIs DEF TaskAt
  <2>4. host' = [host EXCEPT !.task[r].stage = "synthesizing", !.speechRequest = r]
    BY <2>2, <2>3
  <2>5. SameVoice(host, host')
    BY <1>1, <2>4 DEF Host, SameVoice, SameScreen
  <2>6. Ran /\ SameTurn(host, host') /\ host'.pending = host.pending
    BY <1>4, TaskRan DEF Begun, TaskStep, SamePlayer
  <2>7. host'.speechRequest = host.speechRequest \/ host.speechRequest = 0
    <3>1. host'.speechRequest = r /\ r \in host.requests
      BY <1>4 DEF Begun
    <3>2. host.speechRequest # 0 => host.speechRequest = r
      BY <3>1, OneOpen
    <3>. QED
      BY <3>1, <3>2
  <2>. QED
    BY <2>5, <2>6, <2>7, SteadyIs
<1>. QED
  BY <1>2, <1>3, <1>4

LEMMA SynthesizeSteady ==
    ASSUME Ready, NEW r \in Requests, Synthesize(r)
    PROVE  Steady /\ SameVisible
<1>1. host.task[r].stage = "synthesizing" /\ host \in Host
  BY SentIs DEF Synthesize
<1>2. Over(r) \/ Queued(r)
  BY SynthesizeIs
<1>3. CASE Over(r)
  <2>1. host.task[r].cancelled
    BY <1>1, <1>3 DEF Over
  <2>2. host' = Ended(host, r)
    BY <2>1 DEF Synthesize, HostMoves
  <2>. QED
    BY <1>1, <1>3, <2>2, EndedSteady
<1>4. CASE Queued(r)
  <2>1. host'.task[r].stage = "streaming"
    BY <1>4 DEF Queued, TaskAt
  <2>2. host' = Ended(host, r) \/ host' = [host EXCEPT !.task[r].stage = "streaming", !.latest = r]
    BY DEF Synthesize, HostMoves
  <2>3. host' # Ended(host, r)
    BY <1>1, <2>1, EndedIs DEF TaskAt
  <2>4. host' = [host EXCEPT !.task[r].stage = "streaming", !.latest = r]
    BY <2>2, <2>3
  <2>5. SameVoice(host, host')
    BY <1>1, <2>4 DEF Host, SameVoice, SameScreen
  <2>6. Ran /\ SameTurn(host, host') /\ host'.pending = host.pending /\ host'.speechRequest = host.speechRequest
    BY <1>4, TaskRan DEF Queued, SamePlayer, SameRequests
  <2>. QED
    BY <2>5, <2>6, SteadyIs
<1>. QED
  BY <1>2, <1>3, <1>4

LEMMA TakeChunkSounds ==
    ASSUME Ready, NEW r \in Requests, TakeChunk(r)
    PROVE  (Steady \/ Sounds(r)) /\ SameVisible
<1>1. Took(r) /\ host \in Host
  BY TakeChunkIs, SentIs
<1>2. host.task[r].stage \in Running /\ ~host.task[r].cancelled /\ host.task[r].stage = "streaming"
  BY DEF TakeChunk, Running
<1>3. r \in host.requests /\ Current(host, r) /\ host.speechRequest = r
  BY <1>2, Undisturbed
<1>4. host' = Enqueue(host)
  BY <1>3 DEF TakeChunk
<1>5. /\ host'.speaking /\ SameScreen(host, host') /\ host'.drawn = host.drawn
      /\ host'.sent = IF host.speaking \/ host.speechRequest = 0 THEN host.sent
                      ELSE Append(host.sent, Signal("playback_on", host.speechRequest, host.session))
  BY <1>1, <1>4, EnqueueSays
<1>6. Ran /\ SameTurn(host, host') /\ SameRequests(host, host')
  BY <1>1, TaskRan DEF Took
<1>7. host'.pending > 0
  <2>1. host'.pending = host.pending + Windows /\ host.pending \in Nat
    BY <1>1 DEF Took, Host
  <2>2. Windows \in Nat /\ Windows > 0
    BY PlaybackAssumption
  <2>. QED
    BY <2>1, <2>2
<1>8. host.speaking \in BOOLEAN /\ r # 0
  BY <1>1 DEF Host, Requests
<1>9. CASE host.speaking
  <2>1. SameVoice(host, host') /\ host'.speechRequest = host.speechRequest
    BY <1>5, <1>6, <1>8, <1>9 DEF SameVoice, SameRequests
  <2>2. host'.speaking = TRUE /\ host.speaking = TRUE
    BY <1>5, <1>8, <1>9
  <2>. QED
    BY <1>6, <1>7, <2>1, SteadyIs
<1>10. CASE ~host.speaking
  <2>. QED
    BY <1>2, <1>3, <1>5, <1>6, <1>7, <1>8, <1>10
       DEF Sounds, SameVisible, SameRequests, SameTurn, Stays
<1>. QED
  BY <1>9, <1>10

LEMMA UnwindSteady ==
    ASSUME Ready, NEW r \in Requests, NEW error \in BOOLEAN, Unwound(r, error), host' = Unwind(host, r, error)
    PROVE  Steady /\ SameVisible
<1>1. SameVoice(host, host')
  BY SentIs, UnwindSays
<1>2. Ran /\ SameTurn(host, host') /\ host'.pending = host.pending /\ host'.speechRequest = host.speechRequest
  BY UnwoundRan DEF Unwound, TaskStep, SamePlayer, SameRequests
<1>. QED
  BY <1>1, <1>2, SteadyIs

LEMMA EngineFailsSteady ==
    ASSUME Ready, NEW r \in Requests, EngineFails(r)
    PROVE  Steady /\ SameVisible
<1>1. Unwound(r, TRUE) /\ host' = Unwind(host, r, TRUE)
  BY EngineFailsIs DEF EngineFails, HostMoves
<1>. QED
  BY <1>1, UnwindSteady

LEMMA StreamEndsSteady ==
    ASSUME Ready, NEW r \in Requests, StreamEnds(r)
    PROVE  Steady /\ SameVisible
<1>1. host \in Host
  BY SentIs
<1>2. Unwound(r, TRUE) \/ Unwound(r, FALSE) \/ Finished(r)
  BY StreamEndsIs
<1>3. host' = Unwind(host, r, TRUE) \/ host' = Unwind(host, r, FALSE) \/ host' = Finish(host, r)
  BY DEF StreamEnds, HostMoves
<1>4. SameVoice(host, host')
  BY <1>1, <1>3, UnwindSays, FinishSays
<1>5. Ran /\ SameTurn(host, host') /\ host'.pending = host.pending /\ host'.speechRequest = host.speechRequest
  BY <1>2, UnwoundRan, TaskRan DEF Unwound, Finished, TaskStep, SamePlayer, SameRequests
<1>. QED
  BY <1>4, <1>5, SteadyIs

\* The end of a task that held the player: its sentence has been played, or it has failed.
LEMMA AnswerSteady ==
    ASSUME Ready, Sustained, NEW r \in Requests, Answer(r)
    PROVE  Steady /\ SameVisible
<1>. DEFINE good == host.task[r].stage = "completing" /\ ~host.task[r].cancelled
            bad == host.task[r].stage = "unwinding" /\ host.task[r].error
            kind == IF good THEN "done" ELSE "error"
            m == Signal(kind, r, host.session)
            told == IF (good \/ bad) /\ Current(host, r)
                    THEN Tell(host, kind, r, host.session) ELSE host
<1>1. host \in Host /\ host.sent \in Seq(Told) /\ Over(r)
  BY SentIs, AnswerIs
<1>2. host.task[r].stage \in {"completing", "unwinding"}
  BY DEF Answer
<1>3. host' = Ended(told, r)
  BY DEF Answer, HostMoves
<1>4. m \in Told /\ m.kind = kind /\ m.request = r
  <2>1. kind \in Signals /\ r \in Nat /\ host.session \in Nat
    BY <1>1 DEF Signals, Requests, Host
  <2>2. kind \in {"done", "error"} => r \in Requests
    OBVIOUS
  <2>. HIDE DEF kind
  <2>. QED
    BY <2>1, <2>2, SignalIs
<1>5. CASE (good \/ bad) /\ Current(host, r)
  <2>1. told = Tell(host, kind, r, host.session) /\ m = Signal(kind, r, host.session)
    BY <1>5
  <2>2. kind = "done" => good
    OBVIOUS
  <2>3. kind \in {"done", "error"} /\ (~good => kind = "error")
    OBVIOUS
  <2>4. [kind |-> kind, request |-> r, session |-> host.session] \in Told
    BY <1>4 DEF Signal
  <2>. HIDE DEF told, kind, m
  <2>5. told \in Host /\ TellsOnly(host, told, [kind |-> kind, request |-> r, session |-> host.session])
    BY <1>1, <2>1, <2>4, TellIs
  <2>6. /\ told.sent = Append(host.sent, m) /\ told.speaking = host.speaking
        /\ SameScreen(host, told) /\ told.drawn = host.drawn
    BY <1>1, <2>1, TellSays
  <2>7. SameVoice(told, host')
    BY <1>3, <2>5, EndedSays
  <2>8. /\ host'.sent = Append(host.sent, m) /\ host'.speaking = host.speaking
        /\ SameVisible /\ host'.drawn = host.drawn
    BY <2>6, <2>7 DEF SameVoice, SameScreen, SameVisible
  <2>9. Grows(host.sent, host'.sent) /\ (\A i : New(i) => host'.sent[i] = m) /\ \E i : New(i) /\ host'.sent[i] = m
    <3>1. Adds(host.sent, host'.sent, m)
      BY <1>1, <1>4, <2>8, GrowsBy
    <3>. QED
      BY <3>1 DEF New, Adds
  <2>10. Ran /\ SameTurn(host, host') /\ host'.pending = host.pending
    BY <1>1, OverRan DEF Over, TaskStep, SamePlayer
  <2>11. \/ host'.speechRequest = host.speechRequest
         \/ host.speechRequest = r /\ host'.speechRequest = 0
    BY <1>1 DEF Over
  <2>12. host.speechRequest = r /\ host.speaking => Fails(r)
    <3>1. SUFFICES ASSUME host.speechRequest = r, host.speaking
                   PROVE  Fails(r)
      OBVIOUS
    <3>2. r \in host.requests
      BY <3>1, OneOpen
    <3>3. ~good
      BY <3>1, <3>2 DEF Sustained
    <3>4. host'.task[r].stage = "ended"
      BY <1>1 DEF Over, TaskStep, TaskAt
    <3>. QED
      BY <1>4, <2>3, <2>9, <3>3, <3>4 DEF Fails
  <2>13. \A i : New(i) => /\ host'.sent[i].kind \in {"done", "error"}
                          /\ host'.sent[i].kind = "done" => host.task[host'.sent[i].request].stage # "ended"
    BY <1>2, <1>4, <2>3, <2>9
  <2>. QED
    BY <2>8, <2>9, <2>10, <2>11, <2>12, <2>13 DEF Steady, Stays, SameTurn
<1>6. CASE ~((good \/ bad) /\ Current(host, r))
  <2>1. told = host
    BY <1>6
  <2>2. host.task[r].cancelled
    <3>1. SUFFICES ASSUME ~host.task[r].cancelled
                   PROVE  FALSE
      OBVIOUS
    <3>2. host.task[r].stage \in Running
      BY <1>2 DEF Running
    <3>3. Current(host, r)
      BY <3>1, <3>2, Undisturbed
    <3>4. good \/ bad
      BY <1>2, <3>1 DEF Ready, PlayerOwned
    <3>. QED
      BY <1>6, <3>3, <3>4
  <2>3. host' = Ended(host, r)
    BY <1>3, <2>1
  <2>4. host'.speechRequest = host.speechRequest
    BY <1>1, <2>2, CancelledHoldsNot DEF Over
  <2>5. SameVoice(host, host')
    BY <1>1, <2>3, EndedSays
  <2>6. Ran /\ SameTurn(host, host') /\ host'.pending = host.pending
    BY <1>1, OverRan DEF Over, TaskStep, SamePlayer
  <2>. QED
    BY <2>4, <2>5, <2>6, SteadyIs
<1>. QED
  BY <1>5, <1>6

\* The host is not concerned.
LEMMA HostSteady ==
    ASSUME Ready, UNCHANGED host
    PROVE  Steady /\ SameVisible
<1>1. Ran
  BY QuietRan DEF SameTurn
<1>. QED
  BY <1>1, SteadyIs DEF SameVoice, SameScreen, SameTurn

LEMMA CallbackHushes ==
    ASSUME Ready, Callback
    PROVE  (Steady \/ Hushes) /\ SameVisible
<1>1. CalledBack /\ host \in Host
  BY CallbackIs, SentIs
<1>2. CASE host' = host
  BY <1>2, HostSteady
<1>3. CASE host' # host
  <2>1. /\ SameTurn(host, host') /\ SameRequests(host, host') /\ host'.pending = host.pending - 1
    BY <1>1, <1>3 DEF CalledBack
  <2>2. host' = OneFewer(host)
    BY <1>3 DEF Callback, Completed
  <2>3. host.pending \in Nat /\ host'.pending \in Nat
    BY <1>1, CallbackIs DEF Host, TypeOK
  <2>4. host.pending # 0
    BY <2>1, <2>3
  <2>5. IF host.pending = 1 THEN Hushed(host, host') ELSE SameVoice(host, host')
    BY <1>1, <2>2, <2>4, OneFewerSays
  <2>6. Ran
    BY <1>1, CalledBackRan
  <2>7. CASE host.pending = 1
    BY <2>1, <2>5, <2>6, <2>7 DEF Hushes, Hushed, SameTurn, Stays, SameVisible
  <2>8. CASE host.pending # 1
    <3>1. host'.pending > 0
      BY <2>1, <2>3, <2>4, <2>8
    <3>2. SameVoice(host, host') /\ host'.speechRequest = host.speechRequest
      BY <2>1, <2>5, <2>8 DEF SameRequests
    <3>. QED
      BY <2>1, <2>6, <3>1, <3>2, SteadyIs
  <2>. QED
    BY <2>7, <2>8
<1>. QED
  BY <1>2, <1>3

LEMMA CancellationHandlerSteady ==
    ASSUME Ready, CancellationHandler
    PROVE  Steady /\ SameVisible
<1>1. PICK e \in host.handlers : HostMoves(HandlerRuns([host EXCEPT !.handlers = @ \ {e}], e))
  BY DEF CancellationHandler
<1>. DEFINE g == [host EXCEPT !.handlers = @ \ {e}]
<1>2. host \in Host /\ e < host.generation /\ host.generation \in Nat /\ e \in Nat
  BY <1>1 DEF Ready, TypeOK, PlayerOwned, Host
<1>3. g.generation = host.generation
  BY <1>2 DEF Host
<1>4. HandlerRuns(g, e) = g
  BY <1>2, <1>3 DEF HandlerRuns
<1>5. host' = g
  BY <1>1, <1>4 DEF HostMoves
<1>6. /\ g.task = host.task /\ g.requests = host.requests /\ g.speechRequest = host.speechRequest
      /\ g.pending = host.pending /\ SameTurn(host, g) /\ SameVoice(host, g)
  BY <1>2 DEF Host, SameTurn, SameVoice, SameScreen
<1>. HIDE DEF g
<1>7. Ran
  BY <1>5, <1>6, QuietRan
<1>. QED
  BY <1>5, <1>6, <1>7, SteadyIs

LEMMA InterruptHalts ==
    ASSUME Ready, Interrupt
    PROVE  Halted
<1>. DEFINE c == CancelRequests(host)
            t == Tell(c, "interrupt", None, host.session)
            g == [t EXCEPT !.turn = None, !.botSpeaking = FALSE, !.botTurn = None]
            m == Signal("interrupt", 0, host.session)
<1>1. host' = g /\ host \in Host
  BY SentIs DEF Interrupt, HostMoves
<1>2. c \in Host /\ SameTurn(host, c) /\ c.requests = {} /\ c.drawn = host.drawn /\ Hushed(host, c)
  BY <1>1, CancelRequestsIs, CancelRequestsSays
<1>3. m \in Told /\ m.kind = "interrupt" /\ m.session = host.session
  <2>1. "interrupt" \in Signals /\ 0 \in Nat /\ host.session \in Nat /\ "interrupt" \notin {"done", "error"}
    BY <1>1 DEF Host, Signals
  <2>. QED
    BY <2>1, SignalIs
<1>4. [kind |-> "interrupt", request |-> None, session |-> host.session] \in Told
  BY <1>3 DEF Signal, None
<1>5. t = Tell(c, "interrupt", None, host.session) /\ g = [t EXCEPT !.turn = 0, !.botSpeaking = FALSE, !.botTurn = 0]
  BY DEF None
<1>. HIDE DEF c, t, g, m
<1>6. t \in Host /\ TellsOnly(c, t, [kind |-> "interrupt", request |-> None, session |-> host.session])
  BY <1>2, <1>4, <1>5, TellIs
<1>7. t.sent = Append(c.sent, m) /\ t.speaking = c.speaking
  BY <1>2, <1>5, TellSays DEF m, None
<1>8. /\ g.turn = 0 /\ ~g.botSpeaking /\ g.sent = t.sent /\ g.speaking = t.speaking /\ g.requests = t.requests
      /\ g.active = t.active /\ g.session = t.session /\ g.drawn = t.drawn
  BY <1>5, <1>6 DEF Host
<1>9. g.requests = {} /\ g.active = host.active /\ g.session = host.session /\ g.drawn = host.drawn /\ ~g.speaking
  BY <1>2, <1>6, <1>7, <1>8 DEF TellsOnly, SameTurn, SameRequests, Hushed
<1>10. g.sent = Append(c.sent, m) /\ host.sent \in Seq(Told) /\ c.sent \in Seq(Told)
  BY <1>1, <1>2, <1>7, <1>8 DEF Host
<1>11. /\ Grows(host.sent, c.sent)
       /\ \A i : Fresh(host.sent, c.sent, i) => c.sent[i].kind = "playback_off"
  <2>1. CASE c.sent = host.sent
    BY <1>10, <2>1, GrowsNot
  <2>2. CASE c.sent = Append(host.sent, Signal("playback_off", host.speechRequest, host.session))
    <3>1. /\ Signal("playback_off", host.speechRequest, host.session) \in Told
          /\ Signal("playback_off", host.speechRequest, host.session).kind = "playback_off"
      <4>1. /\ "playback_off" \in Signals /\ host.speechRequest \in Nat /\ host.session \in Nat
            /\ "playback_off" \notin {"done", "error"}
        BY <1>1 DEF Host, Signals, Requests
      <4>. QED
        BY <4>1, SignalIs
    <3>. QED
      <4>1. Adds(host.sent, c.sent, Signal("playback_off", host.speechRequest, host.session))
        BY <1>10, <2>2, <3>1, GrowsBy
      <4>. QED
        BY <3>1, <4>1 DEF Adds
  <2>. QED
    BY <1>2, <2>1, <2>2 DEF Hushed
<1>12. /\ Grows(c.sent, g.sent) /\ \A i : Fresh(c.sent, g.sent, i) => g.sent[i] = m
       /\ \E i : Fresh(c.sent, g.sent, i) /\ g.sent[i] = m
  <2>1. Adds(c.sent, g.sent, m)
    BY <1>3, <1>10, GrowsBy
  <2>. QED
    BY <2>1 DEF Adds
<1>13. /\ Grows(host.sent, g.sent)
       /\ \A i : Fresh(host.sent, g.sent, i) => g.sent[i].kind \in {"stop", "interrupt", "playback_off"}
       /\ \E i : Fresh(host.sent, g.sent, i) /\ g.sent[i] = m
  BY <1>3, <1>11, <1>12, GrowsMore
<1>14. Ran
  BY InterruptIs, CutRan DEF Silencing
<1>. QED
  BY <1>1, <1>3, <1>8, <1>9, <1>13, <1>14 DEF Halted, New, Stays

LEMMA StopConversationHalts ==
    ASSUME Ready, TypeOK', Ran, host' = StopConversation(host)
    PROVE  Halted
<1>. DEFINE m == Signal("stop", 0, host.session)
            s == Append(host.sent, m)
            p == Signal("playback_off", host.speechRequest, host'.session)
<1>1. host \in Host /\ host.sent \in Seq(Told) /\ host' \in Host
  BY SentIs DEF TypeOK
<1>2. /\ host'.requests = {} /\ ~host'.active /\ host'.turn = 0
      /\ host'.session = host.drawn + 1 /\ host'.drawn = host.drawn + 1
  BY <1>1, StopConversationIs
<1>3. ~host'.speaking /\ ~host'.botSpeaking /\ (host'.sent = s \/ host'.sent = Append(s, p))
  BY <1>1, StopConversationSays
<1>4. m \in Told /\ m.kind = "stop" /\ m.session = host.session
  <2>1. "stop" \in Signals /\ 0 \in Nat /\ host.session \in Nat /\ "stop" \notin {"done", "error"}
    BY <1>1 DEF Host, Signals
  <2>. QED
    BY <2>1, SignalIs
<1>5. p \in Told /\ p.kind = "playback_off"
  <2>1. /\ "playback_off" \in Signals /\ host.speechRequest \in Nat /\ host'.session \in Nat
        /\ "playback_off" \notin {"done", "error"}
    BY <1>1 DEF Host, Signals, Requests
  <2>. QED
    BY <2>1, SignalIs
<1>. HIDE DEF m, p
<1>6. /\ s \in Seq(Told) /\ Grows(host.sent, s) /\ \A i : Fresh(host.sent, s, i) => s[i] = m
      /\ \E i : Fresh(host.sent, s, i) /\ s[i] = m
  <2>1. s \in Seq(Told) /\ Adds(host.sent, s, m)
    BY <1>1, <1>4, GrowsBy
  <2>. QED
    BY <2>1 DEF Adds
<1>. HIDE DEF s
<1>7. /\ Grows(s, host'.sent) /\ \A i : Fresh(s, host'.sent, i) => host'.sent[i] = p
  <2>1. CASE host'.sent = s
    BY <1>6, <2>1, GrowsNot
  <2>2. CASE host'.sent = Append(s, p)
    <3>1. Adds(s, host'.sent, p)
      BY <1>5, <1>6, <2>2, GrowsBy
    <3>. QED
      BY <3>1 DEF Adds
  <2>. QED
    BY <1>3, <2>1, <2>2
<1>8. /\ Grows(host.sent, host'.sent)
      /\ \A i : New(i) => host'.sent[i].kind \in {"stop", "interrupt", "playback_off"}
      /\ \E i : New(i) /\ host'.sent[i] = m
  BY <1>4, <1>5, <1>6, <1>7, GrowsMore DEF New
<1>. QED
  BY <1>2, <1>3, <1>4, <1>8 DEF Halted

LEMMA StopHalts ==
    ASSUME Ready, Stop
    PROVE  Halted
<1>1. host' = StopConversation(host)
  BY DEF Stop, Unloads, HostMoves
<1>2. TypeOK' /\ Ran
  BY StopIs, CutRan DEF Silencing
<1>. QED
  BY <1>1, <1>2, StopConversationHalts

LEMMA StartStarts ==
    ASSUME Ready, Start
    PROVE  Started /\ SameVisible
<1>. DEFINE f == [host EXCEPT !.active = TRUE, !.session = host.drawn + 1, !.drawn = host.drawn + 1]
<1>1. host \in Host /\ host.drawn + 1 \in Nat /\ ~host.active
  BY SentIs DEF Host, Start
<1>2. host' = Tell(f, "start", None, host.drawn + 1)
  BY <1>1 DEF Start, HostMoves, Host
<1>3. /\ f \in Host /\ f.active /\ f.session = host.drawn + 1 /\ f.drawn = host.drawn + 1
      /\ f.sent = host.sent /\ f.speaking = host.speaking /\ f.pending = host.pending /\ f.turn = host.turn
      /\ f.requests = host.requests /\ f.speechRequest = host.speechRequest
      /\ f.botSpeaking = host.botSpeaking /\ f.botTurn = host.botTurn
  BY <1>1 DEF Host
<1>. HIDE DEF f
<1>4. [kind |-> "start", request |-> None, session |-> host.drawn + 1] \in Told
  BY <1>1 DEF Told, Signals, None
<1>5. TellsOnly(f, host', [kind |-> "start", request |-> None, session |-> host.drawn + 1])
  BY <1>2, <1>3, <1>4, TellIs
<1>6. /\ host'.sent = Append(f.sent, Signal("start", 0, host.drawn + 1)) /\ host'.speaking = f.speaking
      /\ SameScreen(f, host') /\ host'.drawn = f.drawn
  BY <1>2, <1>3, TellSays DEF None
<1>7. host.requests = {}
  BY <1>1 DEF Ready, Owned
<1>8. Ran
  <2>1. host'.task = host.task /\ host'.requests = host.requests
    BY StartIs DEF Quieted, QuietMove, SameRequests
  <2>. QED
    BY <1>7, <2>1, QuietRan
<1>. QED
  BY <1>1, <1>3, <1>5, <1>6, <1>8 DEF Started, TellsOnly, SameTurn, SamePlayer, SameRequests, SameScreen, SameVisible

LEMMA HandledRan ==
    ASSUME Ready, NEW m \in Events, Handled(m)
    PROVE  Ran \/ (m.kind = "request" /\ Accepted(m))
<1>1. ASSUME Quieted PROVE Ran
  BY <1>1, QuietRan DEF Quieted, QuietMove, SameRequests
<1>2. ASSUME NEW ids \in SUBSET host.requests, Silencing(ids) PROVE Ran
  BY <1>2, CutRan DEF Silencing
<1>3. ASSUME NEW ids \in SUBSET host.requests, Early(ids) PROVE Ran
  BY <1>3, EarlyRan DEF Early
<1>. QED
  BY <1>1, <1>2, <1>3 DEF Handled

\* What a step that handles m shows.
Seen(m) ==
    /\ Heeds(m)
    /\ Steady \/ Hushes \/ Halted \/ Turned(m) \/ Accepts(m)
    /\ SameVisible \/ Halted \/ (Stays /\ (Shown(m) \/ Concealed(m)))

\* An event the host does not take.
LEMMA IgnoredSeen ==
    ASSUME Ready, NEW m \in Events, UNCHANGED host,
           \/ m.session # host.session \/ m.kind \in {"request", "cancel_request"}
           \/ m.kind = "user_turn" /\ ~host.active
           \/ m.kind = "cancel_turn" /\ (m.turn = 0 \/ m.turn # host.turn)
           \/ m.kind = "error" /\ m.turn # host.turn
           \/ m.kind = "bot_started" /\ ~(host.active /\ m.turn = host.turn)
           \/ m.kind = "bot_stopped" /\ ~(host.active /\ m.turn = host.botTurn)
    PROVE  Seen(m)
<1>1. Steady /\ SameVisible
  BY HostSteady
<1>2. Heeds(m)
  BY DEF Heeds
<1>. QED
  BY <1>1, <1>2 DEF Seen

LEMMA RequestSeen ==
    ASSUME Ready, NEW m \in Events, Handled(m), m.kind = "request", host' = HandleRequest(host, m)
    PROVE  Seen(m)
<1>1. host \in Host /\ host.sent \in Seq(Told)
  BY SentIs
<1>. DEFINE accepts == host.active /\ m.turn = host.turn /\ m.session = host.session
<1>2. /\ SameTurn(host, host') /\ SamePlayer(host, host') /\ host'.latest = host.latest
      /\ host'.speechRequest = host.speechRequest /\ NoNewDone(host, host')
      /\ ~accepts => host'.task = host.task /\ host'.requests = host.requests
      /\ accepts => /\ host'.requests = host.requests \cup {m.request}
                    /\ \A q \in Requests \ {m.request} : host'.task[q] = host.task[q]
                    /\ host'.task[m.request] = [stage |-> "created", cancelled |-> FALSE, error |-> FALSE,
                                                turn |-> m.turn, session |-> m.session]
  BY <1>1, HandleRequestIs
<1>3. Heeds(m)
  BY DEF Heeds
<1>4. CASE accepts
  <2>1. /\ host'.speaking = host.speaking /\ host'.sent = host.sent /\ SameScreen(host, host')
        /\ host'.drawn = host.drawn
    BY <1>1, <1>4 DEF HandleRequest, Host, SameScreen
  <2>2. AcceptMove(host', m)
    BY <1>2, <1>4 DEF AcceptMove
  <2>3. Accepts(m)
    BY <1>2, <2>1, <2>2 DEF Accepts, Stays, SameTurn
  <2>. QED
    BY <1>3, <2>1, <2>3 DEF Seen, SameVisible
<1>5. CASE ~accepts
  <2>. DEFINE e == Signal("error", m.request, None)
  <2>1. host' = Tell(host, "error", m.request, None)
    BY <1>5 DEF HandleRequest
  <2>2. /\ host'.sent = Append(host.sent, e) /\ host'.speaking = host.speaking
        /\ SameScreen(host, host') /\ host'.drawn = host.drawn
    BY <1>1, <2>1, TellSays
  <2>3. e \in Told /\ e.kind = "error"
    <3>1. "error" \in Signals /\ m.request \in Nat /\ m.request \in Requests /\ None \in Nat
      BY DEF Signals, Events, None
    <3>. QED
      BY <3>1, SignalIs
  <2>. HIDE DEF e
  <2>4. Adds(host.sent, host'.sent, e)
    BY <1>1, <2>2, <2>3, GrowsBy
  <2>5. Ran
    BY <1>2, <1>5, QuietRan
  <2>6. host'.pending = host.pending /\ SameTurn(host, host') /\ host'.speechRequest = host.speechRequest
    BY <1>2 DEF SamePlayer
  <2>7. Grows(host.sent, host'.sent) /\ \A i : New(i) => host'.sent[i].kind = "error"
    BY <2>3, <2>4 DEF Adds, New
  <2>8. Steady
    BY <2>2, <2>5, <2>6, <2>7 DEF Steady, Stays, SameTurn
  <2>. QED
    BY <1>3, <2>2, <2>8 DEF Seen, SameVisible
<1>. QED
  BY <1>4, <1>5

LEMMA UserTurnSeen ==
    ASSUME Ready, NEW m \in Events, Ran, m.kind = "user_turn", m.session = host.session, host.active,
           host' = [CancelRequests(host) EXCEPT !.turn = m.turn]
    PROVE  Seen(m)
<1>. DEFINE c == CancelRequests(host)
<1>1. host \in Host
  BY SentIs
<1>2. c \in Host /\ SameTurn(host, c) /\ c.requests = {} /\ c.drawn = host.drawn /\ Hushed(host, c)
  BY <1>1, CancelRequestsIs, CancelRequestsSays
<1>3. host' = [c EXCEPT !.turn = m.turn]
  OBVIOUS
<1>. HIDE DEF c
<1>4. /\ host'.turn = m.turn /\ host'.active = c.active /\ host'.session = c.session /\ host'.requests = {}
      /\ SameVoice(c, host')
  BY <1>2, <1>3 DEF Host, SameVoice, SameScreen
<1>5. Hushed(host, host') /\ Stays /\ SameVisible
  BY <1>2, <1>4 DEF Hushed, SameVoice, SameScreen, SameTurn, Stays, SameVisible
<1>6. Turned(m)
  BY <1>4, <1>5 DEF Turned
<1>7. Heeds(m)
  BY <1>6 DEF Heeds
<1>. QED
  BY <1>5, <1>6, <1>7 DEF Seen

LEMMA CancelRequestSeen ==
    ASSUME Ready, NEW m \in Events, Ran, m.kind = "cancel_request",
           host' = HandleCancelRequest(host, m.request)
    PROVE  Seen(m)
<1>1. host \in Host
  BY SentIs
<1>2. IF host.speechRequest = m.request THEN Hushed(host, host') ELSE SameVoice(host, host')
  BY <1>1, HandleCancelRequestSays
<1>3. /\ SameTurn(host, host')
      /\ host.speechRequest # m.request => Struck(host, host', host.requests \intersect {m.request})
  BY <1>1, HandleCancelRequestIs
<1>4. Heeds(m)
  BY DEF Heeds
<1>5. CASE host.speechRequest = m.request
  <2>1. Hushed(host, host')
    BY <1>2, <1>5
  <2>. QED
    BY <1>3, <1>4, <2>1 DEF Seen, Hushes, Hushed, SameTurn, Stays, SameVisible
<1>6. CASE host.speechRequest # m.request
  <2>1. SameVoice(host, host')
    BY <1>2, <1>6
  <2>2. host'.pending = host.pending /\ host'.speechRequest = host.speechRequest
    BY <1>3, <1>6 DEF Struck
  <2>3. Steady /\ SameVisible
    BY <1>3, <2>1, <2>2, SteadyIs
  <2>. QED
    BY <1>4, <2>3 DEF Seen
<1>. QED
  BY <1>5, <1>6

LEMMA CancelTurnSeen ==
    ASSUME Ready, NEW m \in Events, Ran, m.kind = "cancel_turn", host' = CancelRequests(host)
    PROVE  Seen(m)
<1>1. host \in Host
  BY SentIs
<1>2. SameTurn(host, host') /\ host'.requests = {} /\ host'.drawn = host.drawn /\ Hushed(host, host')
  BY <1>1, CancelRequestsIs, CancelRequestsSays
<1>3. Heeds(m)
  BY <1>2 DEF Heeds, Hushed
<1>. QED
  BY <1>2, <1>3 DEF Seen, Hushes, Hushed, SameTurn, Stays, SameVisible

\* The screen follows the bot's messages, and nothing else does.
LEMMA BotSeen ==
    ASSUME Ready, NEW m \in Events, Ran, m.session = host.session, NEW speaking \in BOOLEAN, NEW turn,
           host' = [host EXCEPT !.botSpeaking = speaking, !.botTurn = turn],
           \/ m.kind = "bot_started" /\ speaking /\ turn = m.turn /\ host.active /\ m.turn = host.turn
           \/ m.kind = "bot_stopped" /\ ~speaking /\ m.turn = host.botTurn
    PROVE  Seen(m)
<1>1. host \in Host /\ host.sent \in Seq(Told)
  BY SentIs
<1>2. /\ SameTurn(host, host') /\ host'.drawn = host.drawn /\ host'.sent = host.sent
      /\ host'.speaking = host.speaking /\ host'.pending = host.pending
      /\ host'.speechRequest = host.speechRequest
      /\ host'.botSpeaking = speaking /\ host'.botTurn = turn
  BY <1>1 DEF Host, SameTurn
<1>3. Grows(host.sent, host'.sent) /\ \A i : ~New(i)
  BY <1>1, <1>2, GrowsNot DEF New
<1>4. Steady
  BY <1>2, <1>3 DEF Steady, Stays, SameTurn
<1>5. (m.kind = "bot_started" => Shown(m)) /\ (m.kind = "bot_stopped" => Concealed(m))
  BY <1>2 DEF Shown, Concealed
<1>6. Heeds(m)
  BY <1>2, <1>5 DEF Heeds
<1>7. Stays
  BY <1>2 DEF Stays, SameTurn
<1>. QED
  BY <1>2, <1>4, <1>5, <1>6, <1>7 DEF Seen

LEMMA HandleSeen ==
    ASSUME Ready, Handle
    PROVE  1 \in Due /\ Seen(toHost[1]) /\ TypeOK' /\ Handled(toHost[1]) /\ toHost[1] \in Events
<1>. DEFINE m == toHost[1]
<1>1. /\ toHost # <<>> /\ toHost \in Seq(Events)
  BY DEF Handle, Ready, TypeOK
<1>2. m \in Events /\ m = Head(toHost) /\ 1 \in Due
  BY <1>1, TailIs DEF Due
<1>3. host' = HandleEvent(host, m)
  BY <1>2 DEF Handle, Unloads, HostMoves
<1>4. TypeOK' /\ Handled(m)
  <2>1. PICK e \in Events : Handled(e)
    BY HandleIs
  <2>. QED
    BY <2>1, HandleIs DEF Handled
<1>5. m.kind \in Kinds
  BY <1>2 DEF Events
<1>. HIDE DEF m
<1>6. m.kind # "request" => Ran
  BY <1>2, <1>4, HandledRan
<1>7. CASE m.kind = "request"
  <2>1. host' = HandleRequest(host, m)
    BY <1>3, <1>7 DEF HandleEvent
  <2>. QED
    BY <1>2, <1>4, <1>7, <2>1, RequestSeen DEF m
<1>8. CASE m.kind # "request" /\ m.session # host.session
  <2>1. host' = host
    BY <1>3, <1>8 DEF HandleEvent
  <2>. QED
    BY <1>2, <1>4, <1>8, <2>1, IgnoredSeen DEF m
<1>9. CASE m.kind = "user_turn" /\ m.session = host.session
  <2>1. host' = IF host.active THEN [CancelRequests(host) EXCEPT !.turn = m.turn] ELSE host
    BY <1>3, <1>9 DEF HandleEvent
  <2>2. CASE host.active
    BY <1>2, <1>4, <1>6, <1>9, <2>1, <2>2, UserTurnSeen DEF m
  <2>3. CASE ~host.active
    BY <1>2, <1>4, <1>9, <2>1, <2>3, IgnoredSeen DEF m
  <2>. QED
    BY <2>2, <2>3
<1>10. CASE m.kind = "cancel_request" /\ m.session = host.session
  <2>1. host' = HandleCancelRequest(host, m.request)
    BY <1>3, <1>10 DEF HandleEvent
  <2>. QED
    BY <1>2, <1>4, <1>6, <1>10, <2>1, CancelRequestSeen DEF m
<1>11. CASE m.kind = "cancel_turn" /\ m.session = host.session
  <2>1. host' = IF m.turn # 0 /\ m.turn = host.turn THEN CancelRequests(host) ELSE host
    BY <1>3, <1>11 DEF HandleEvent, None
  <2>2. CASE m.turn # 0 /\ m.turn = host.turn
    BY <1>2, <1>4, <1>6, <1>11, <2>1, <2>2, CancelTurnSeen DEF m
  <2>3. CASE ~(m.turn # 0 /\ m.turn = host.turn)
    BY <1>2, <1>4, <1>11, <2>1, <2>3, IgnoredSeen DEF m
  <2>. QED
    BY <2>2, <2>3
<1>12. CASE m.kind = "error" /\ m.session = host.session
  <2>1. host' = IF m.turn = host.turn THEN StopConversation(host) ELSE host
    BY <1>3, <1>12 DEF HandleEvent
  <2>2. CASE m.turn = host.turn
    <3>1. Halted
      BY <1>4, <1>6, <1>12, <2>1, <2>2, StopConversationHalts
    <3>2. Seen(m)
      BY <1>12, <3>1 DEF Seen, Heeds, Halted
    <3>. QED
      BY <1>2, <1>4, <3>2 DEF m
  <2>3. CASE m.turn # host.turn
    BY <1>2, <1>4, <1>12, <2>1, <2>3, IgnoredSeen DEF m
  <2>. QED
    BY <2>2, <2>3
<1>13. CASE m.kind = "bot_started" /\ m.session = host.session
  <2>1. host' = IF host.active /\ m.turn = host.turn
                THEN [host EXCEPT !.botSpeaking = TRUE, !.botTurn = m.turn] ELSE host
    BY <1>3, <1>13 DEF HandleEvent
  <2>2. CASE host.active /\ m.turn = host.turn
    BY <1>2, <1>4, <1>6, <1>13, <2>1, <2>2, BotSeen DEF m
  <2>3. CASE ~(host.active /\ m.turn = host.turn)
    BY <1>2, <1>4, <1>13, <2>1, <2>3, IgnoredSeen DEF m
  <2>. QED
    BY <2>2, <2>3
<1>14. CASE m.kind = "bot_stopped" /\ m.session = host.session
  <2>1. host' = IF host.active /\ m.turn = host.botTurn
                THEN [host EXCEPT !.botSpeaking = FALSE, !.botTurn = None] ELSE host
    BY <1>3, <1>14 DEF HandleEvent
  <2>2. CASE host.active /\ m.turn = host.botTurn
    BY <1>2, <1>4, <1>6, <1>14, <2>1, <2>2, BotSeen DEF m
  <2>3. CASE ~(host.active /\ m.turn = host.botTurn)
    BY <1>2, <1>4, <1>14, <2>1, <2>3, IgnoredSeen DEF m
  <2>. QED
    BY <2>2, <2>3
<1>. QED
  BY <1>5, <1>7, <1>8, <1>9, <1>10, <1>11, <1>12, <1>13, <1>14 DEF Kinds

\* A step of the host's own.
HostSteps ==
    \/ \E r \in Requests : Task(r) \/ Synthesis(r) \/ Fail(r)
    \/ DevicePlays \/ Callback \/ CancellationHandler \/ Handle \/ Interrupt \/ Stop \/ Start

LEMMA InsideSeen ==
    ASSUME Ready, TypeOK', Inside, Steady \/ (\E r \in Requests : Sounds(r)) \/ Hushes \/ Halted \/ Started,
           SameVisible \/ Halted
    PROVE  HostStep(0)
BY SameShift DEF HostStep, Inside

LEMMA HostSeen ==
    ASSUME Ready, Sustained, HostSteps
    PROVE  TypeOK' /\ \E d \in {0, 1} : HostStep(d)
<1>1. CASE \E r \in Requests : Task(r) \/ Synthesis(r) \/ Fail(r)
  <2>1. PICK r \in Requests : Task(r) \/ Synthesis(r) \/ Fail(r)
    BY <1>1
  <2>2. TypeOK' /\ Inside
    BY <2>1, BeginIs, SynthesizeIs, TakeChunkIs, StreamEndsIs, AnswerIs, SynthesisIs, EngineFailsIs
       DEF Task, Fail, Over, Begun, Queued, Took, Unwound, Finished, TaskStep, Synthesized
  <2>3. (Steady \/ Sounds(r)) /\ SameVisible
    <3>1. CASE Task(r)
      BY <3>1, BeginSteady, SynthesizeSteady, TakeChunkSounds, StreamEndsSteady, AnswerSteady DEF Task
    <3>2. CASE Synthesis(r) \/ SynthesisFails(r)
      <4>1. UNCHANGED host
        BY <3>2, SynthesisIs DEF Synthesized
      <4>. QED
        BY <4>1, HostSteady
    <3>3. CASE EngineFails(r)
      BY <3>3, EngineFailsSteady
    <3>. QED
      BY <2>1, <3>1, <3>2, <3>3 DEF Fail
  <2>. QED
    BY <2>2, <2>3, InsideSeen
<1>2. CASE DevicePlays
  <2>1. TypeOK' /\ UNCHANGED <<host, py, toHost>>
    BY <1>2, DevicePlaysIs DEF Played
  <2>2. Steady /\ SameVisible
    BY <2>1, HostSteady
  <2>. QED
    BY <2>1, <2>2, SameShift DEF HostStep
<1>3. CASE Callback
  BY <1>3, CallbackIs, CallbackHushes, InsideSeen DEF CalledBack
<1>4. CASE CancellationHandler
  BY <1>4, CancellationHandlerIs, CancellationHandlerSteady, InsideSeen
<1>5. CASE Handle
  <2>1. 1 \in Due /\ Seen(toHost[1]) /\ TypeOK' /\ Handled(toHost[1])
    BY <1>5, HandleSeen
  <2>2. Shifted(1) /\ UNCHANGED py
    BY <2>1, TailShift DEF Handled
  <2>. QED
    BY <2>1, <2>2 DEF HostStep, Seen
<1>6. CASE Interrupt
  BY <1>6, InterruptIs, InterruptHalts, InsideSeen DEF Halted
<1>7. CASE Stop
  BY <1>7, StopIs, StopHalts, InsideSeen DEF Halted
<1>8. CASE Start
  BY <1>8, StartIs, StartStarts, InsideSeen
<1>. QED
  BY <1>1, <1>2, <1>3, <1>4, <1>5, <1>6, <1>7, <1>8 DEF HostSteps

-----------------------------------------------------------------------------
(* What is seen of a step of Python's.                                       *)

Mute == Grows(toHost, toHost') /\ \A i : ~Fresh(toHost, toHost', i)
Says(kind, request, turn, session) ==
    /\ Grows(toHost, toHost')
    /\ \E i : Fresh(toHost, toHost', i)
    /\ \A i, j : Fresh(toHost, toHost', i) /\ Fresh(toHost, toHost', j) => i = j
    /\ \A i : Fresh(toHost, toHost', i) =>
          /\ toHost'[i].kind = kind /\ toHost'[i].request = request
          /\ toHost'[i].turn = turn /\ toHost'[i].session = session

\* The wire to Python is as it was, or its head is gone.
SentShift(d) ==
    /\ \A i \in DOMAIN host'.sent :
          i \in Nat /\ i >= 1 /\ i + d \in DOMAIN host.sent /\ host'.sent[i] = host.sent[i + d]
    /\ \A k \in DOMAIN host.sent : k > d => k - d \in DOMAIN host'.sent /\ host'.sent[k - d] = host.sent[k]
HostKept ==
    /\ host'.active = host.active /\ host'.session = host.session /\ host'.turn = host.turn
    /\ host'.drawn = host.drawn /\ host'.requests = host.requests /\ host'.speechRequest = host.speechRequest
    /\ host'.task = host.task /\ host'.pending = host.pending /\ host'.speaking = host.speaking
    /\ SameVisible

TurnKept == /\ py'.turn = py.turn /\ py'.turns = py.turns /\ py'.session = py.session
            /\ py'.sessionOf = py.sessionOf
StreamKept == py'.stream = py.stream /\ py'.streamTurn = py.streamTurn /\ py'.result = py.result
StreamGone == py'.stream = 0 /\ py'.streamTurn = py.streamTurn /\ py'.result = "none"
VoiceKept == py'.speaking = py.speaking /\ py'.speakingTurn = py.speakingTurn
FlowKept == py'.atTTS = py.atTTS /\ py'.atTransport = py.atTransport
Calm == py'.active = py.active /\ (Controlled' <=> Controlled) /\ (Faulty' <=> Faulty)
Hushing ==
    /\ py'.speaking = 0 /\ py'.speakingTurn = 0
    /\ IF py.speaking = 0 THEN Mute
       ELSE Says("bot_stopped", 0, py.speakingTurn, SessionOf(py, py.speakingTurn))
Recants == Mute \/ Says("cancel_request", py.stream, py.streamTurn, SessionOf(py, py.streamTurn))

Begins ==
    /\ py.active /\ py'.active = py.active
    /\ py'.turn = py.turns + 1 /\ py'.turns = py.turns + 1 /\ py'.session = py.session
    /\ py'.sessionOf[py.turns + 1] = py.session
    /\ \A u \in 1 .. py.turns : py'.sessionOf[u] = py.sessionOf[u]
    /\ StreamKept /\ VoiceKept /\ py'.atTTS /\ py'.atTransport = py.atTransport
    /\ Controlled' <=> Controlled
    /\ Says("user_turn", 0, py.turns + 1, py.session)
Rests == TurnKept /\ StreamKept /\ VoiceKept /\ FlowKept /\ Calm /\ Mute
Departs ==
    /\ py'.turn = 0 /\ py'.turns = py.turns /\ py'.session = py.session /\ py'.sessionOf = py.sessionOf
    /\ StreamKept /\ VoiceKept /\ py'.atTTS /\ py'.atTransport = py.atTransport /\ py'.active = py.active
    /\ Says("cancel_turn", 0, py.turn, py.session)
LeavesTTS ==
    /\ py.atTTS /\ TurnKept /\ StreamGone /\ VoiceKept /\ ~py'.atTTS /\ py'.atTransport /\ Calm /\ Recants
LeavesTransport ==
    /\ py.atTransport /\ TurnKept /\ StreamKept /\ ~py'.atTransport /\ py'.atTTS = py.atTTS /\ Calm /\ Hushing
Speaks ==
    /\ py.active /\ py.turn # 0 /\ py.stream = 0 /\ ~py.atTTS /\ ~py.atTransport
    /\ TurnKept /\ VoiceKept /\ FlowKept /\ Calm
    /\ py'.stream = py.requested + 1 /\ py'.streamTurn = py.turn /\ py'.result = py.result
    /\ Says("request", py.requested + 1, py.turn, SessionOf(py, py.turn))
Completes ==
    /\ py.stream # 0 /\ py.result = "done"
    /\ TurnKept /\ StreamGone /\ VoiceKept /\ FlowKept /\ Calm /\ Mute
GivesUp ==
    /\ py.stream # 0 /\ TurnKept /\ StreamGone /\ VoiceKept /\ FlowKept
    /\ py'.active = py.active /\ (Controlled' <=> Controlled)
    /\ Faulty \/ (py.active /\ py.streamTurn = py.turn) => Faulty'
    /\ Recants
Reports ==
    /\ TurnKept /\ StreamKept /\ VoiceKept /\ FlowKept
    /\ py'.active = py.active /\ (Controlled' <=> Controlled)
    /\ Mute \/ Says("error", 0, py.turn, py.session)
    /\ Faulty /\ SessionOf(py, py.turn) = py.session =>
          Faulty' \/ Says("error", 0, py.turn, py.session)

\* m comes from the host.
Answers(m) ==
    /\ m.kind \in {"done", "error"}
    /\ TurnKept /\ VoiceKept /\ FlowKept /\ Calm /\ Mute
    /\ py'.stream = py.stream /\ py'.streamTurn = py.streamTurn
    /\ py'.result = IF py.stream = m.request THEN m.kind ELSE py.result
Opens(m) ==
    /\ m.kind = "start" /\ py'.session = m.session
    /\ py'.turn = 0 /\ py'.turns = py.turns /\ py'.sessionOf = py.sessionOf
    /\ StreamGone /\ VoiceKept /\ py'.atTransport /\ py'.active /\ Recants
Ignores(m) ==
    /\ m.kind \notin {"done", "error", "start"} /\ Rests
    /\ \/ m.session # py.session
       \/ m.kind = "playback_on" /\ ~(py.stream = m.request /\ py.streamTurn = py.turn /\ py.speaking # m.request)
       \/ m.kind = "playback_off" /\ py.speaking # m.request
SoundOn(m) ==
    /\ m.kind = "playback_on" /\ m.session = py.session
    /\ py.stream = m.request /\ py.streamTurn = py.turn /\ py.speaking # m.request
    /\ TurnKept /\ StreamKept /\ FlowKept /\ Calm
    /\ py'.speaking = py.stream /\ py'.speakingTurn = py.turn
    /\ Says("bot_started", 0, py.turn, SessionOf(py, py.turn))
SoundOff(m) ==
    /\ m.kind = "playback_off" /\ m.session = py.session /\ py.speaking = m.request
    /\ TurnKept /\ StreamKept /\ FlowKept /\ Calm /\ Hushing
Halting(m) ==
    /\ m.kind \in {"stop", "interrupt"} /\ m.session = py.session
    /\ TurnKept /\ StreamKept /\ VoiceKept /\ FlowKept /\ Mute
    /\ Controlled' /\ (Faulty' <=> Faulty)
    /\ m.kind = "stop" => ~py'.active
    /\ m.kind = "interrupt" => py'.active = py.active

PyMove ==
    /\ HostKept
    /\ \/ /\ SentShift(0)
          /\ \/ Begins \/ Rests \/ Departs \/ LeavesTTS \/ LeavesTransport \/ Speaks \/ Completes
             \/ GivesUp \/ Reports
       \/ /\ SentShift(1) /\ 1 \in Sent
          /\ LET m == host.sent[1]
             IN  Answers(m) \/ Opens(m) \/ Ignores(m) \/ SoundOn(m) \/ SoundOff(m) \/ Halting(m)

-----------------------------------------------------------------------------
LEMMA TailHas ==
    ASSUME NEW S, NEW s \in Seq(S), s # <<>>, NEW x
    PROVE  Has(s, x) <=> (Head(s) = x \/ Has(Tail(s), x))
<1>1. /\ Head(s) = s[1] /\ Len(s) \in Nat /\ Len(s) > 0
      /\ DOMAIN Tail(s) = 1 .. Len(s) - 1 /\ DOMAIN s = 1 .. Len(s)
      /\ \A i \in 1 .. Len(s) - 1 : Tail(s)[i] = s[i + 1]
  BY TailIs
<1>2. ASSUME NEW i \in DOMAIN s, s[i] = x PROVE Head(s) = x \/ Has(Tail(s), x)
  <2>1. CASE i = 1
    BY <1>1, <1>2, <2>1
  <2>2. CASE i # 1
    <3>1. i - 1 \in 1 .. Len(s) - 1
      BY <1>1, <2>2
    <3>2. Tail(s)[i - 1] = s[i]
      BY <1>1, <3>1
    <3>. QED
      BY <1>1, <1>2, <3>1, <3>2 DEF Has
  <2>. QED
    BY <2>1, <2>2
<1>3. ASSUME NEW i \in DOMAIN Tail(s), Tail(s)[i] = x PROVE Has(s, x)
  <2>1. i + 1 \in DOMAIN s /\ s[i + 1] = x
    BY <1>1, <1>3
  <2>. QED
    BY <2>1 DEF Has
<1>4. Head(s) = x => Has(s, x)
  BY <1>1 DEF Has
<1>. QED
  BY <1>2, <1>3, <1>4 DEF Has

LEMMA AppendHas ==
    ASSUME NEW S, NEW s \in Seq(S), NEW y \in S, NEW x
    PROVE  Has(Append(s, y), x) <=> (Has(s, x) \/ y = x)
<1>1. /\ Len(s) \in Nat /\ DOMAIN Append(s, y) = 1 .. Len(s) + 1 /\ DOMAIN s = 1 .. Len(s)
      /\ Append(s, y)[Len(s) + 1] = y
      /\ \A i \in 1 .. Len(s) : Append(s, y)[i] = s[i]
  BY AppendedIs
<1>2. ASSUME NEW i \in DOMAIN Append(s, y), Append(s, y)[i] = x PROVE Has(s, x) \/ y = x
  BY <1>1, <1>2 DEF Has
<1>3. Has(s, x) => Has(Append(s, y), x)
  BY <1>1 DEF Has
<1>4. y = x => Has(Append(s, y), x)
  BY <1>1 DEF Has
<1>. QED
  BY <1>2, <1>3, <1>4 DEF Has

LEMMA PythonMute ==
    ASSUME Ready, NEW p, Python(p, <<>>)
    PROVE  py' = p /\ Mute
<1>1. toHost \in Seq(Events)
  BY DEF Ready, TypeOK
<1>2. py' = p /\ toHost' = toHost
  BY <1>1, SaysNothing DEF Python
<1>3. DOMAIN toHost = 1 .. Len(toHost) /\ Len(toHost) \in Nat
  BY WireIs
<1>. QED
  BY <1>2, <1>3 DEF Mute, Grows, Fresh

LEMMA PythonSays ==
    ASSUME Ready, NEW p, NEW kind \in Kinds, NEW request \in Nat, NEW turn \in Turns \cup {0}, NEW session \in Nat,
           kind = "request" => request \in Requests, Python(p, <<Event(kind, request, turn, session)>>)
    PROVE  py' = p /\ Says(kind, request, turn, session)
<1>. DEFINE e == Event(kind, request, turn, session)
<1>1. /\ e \in Events /\ e.kind = kind /\ e.request = request /\ e.session = session
      /\ e.turn = turn
  BY DEF Event, Events
<1>2. toHost \in Seq(Events) /\ Python(p, <<e>>)
  BY DEF Ready, TypeOK
<1>. HIDE DEF e
<1>3. py' = p /\ toHost' = Append(toHost, e)
  BY <1>1, <1>2, SaysOne DEF Python
<1>4. /\ Kept /\ Len(toHost) \in Nat /\ DOMAIN toHost = 1 .. Len(toHost)
      /\ DOMAIN toHost' = 1 .. Len(toHost) + 1 /\ toHost'[Len(toHost) + 1] = e
  BY <1>1, <1>3, GrownIs
<1>5. Fresh(toHost, toHost', Len(toHost) + 1) /\ \A i : Fresh(toHost, toHost', i) => i = Len(toHost) + 1
  BY <1>4 DEF Fresh
<1>6. Grows(toHost, toHost')
  BY <1>4 DEF Grows, Kept
<1>. QED
  BY <1>1, <1>3, <1>4, <1>5, <1>6 DEF Says

LEMMA StillKept ==
    ASSUME Ready, UNCHANGED host
    PROVE  HostKept /\ SentShift(0)
<1>1. DOMAIN host.sent = 1 .. Len(host.sent) /\ Len(host.sent) \in Nat
  BY SentIs
<1>. QED
  BY <1>1 DEF HostKept, SentShift, SameVisible, SameScreen

\* What Python says of its request or of its loudspeaker.
LEMMA DropSays ==
    ASSUME Ready, NEW p, Python(p, Drop(py))
    PROVE  py' = p /\ Recants
<1>. DEFINE s == SessionOf(py, py.streamTurn)
<1>1. py \in Py /\ py.stream \in Nat /\ py.streamTurn \in Turns \cup {0} /\ "cancel_request" \in Kinds
      /\ "cancel_request" # "request"
  BY DEF Ready, TypeOK, Py, Requests, Kinds
<1>2. s \in Nat
  BY <1>1, SessionIs
<1>3. Drop(py) = IF py.stream = 0 THEN <<>> ELSE <<Event("cancel_request", py.stream, py.streamTurn, s)>>
  BY DEF Drop, None
<1>4. Recants <=> (Mute \/ Says("cancel_request", py.stream, py.streamTurn, s))
  BY DEF Recants
<1>. HIDE DEF s
<1>5. CASE py.stream = 0
  BY <1>3, <1>4, <1>5, PythonMute
<1>6. CASE py.stream # 0
  BY <1>1, <1>2, <1>3, <1>4, <1>6, PythonSays
<1>. QED
  BY <1>5, <1>6

LEMMA SilenceSays ==
    ASSUME Ready, NEW p, Python(p, Silence(py)), p.speaking = 0, p.speakingTurn = 0
    PROVE  py' = p /\ Hushing
<1>. DEFINE s == SessionOf(py, py.speakingTurn)
<1>1. py \in Py /\ 0 \in Nat /\ py.speakingTurn \in Turns \cup {0} /\ "bot_stopped" \in Kinds
      /\ "bot_stopped" # "request"
  BY DEF Ready, TypeOK, Py, Kinds
<1>2. s \in Nat
  BY <1>1, SessionIs
<1>3. Silence(py) = IF py.speaking = 0 THEN <<>> ELSE <<Event("bot_stopped", 0, py.speakingTurn, s)>>
  BY DEF Silence, None
<1>. HIDE DEF s
<1>5. CASE py.speaking = 0
  BY <1>3, <1>5, PythonMute DEF Hushing
<1>6. CASE py.speaking # 0
  BY <1>1, <1>2, <1>3, <1>6, PythonSays DEF Hushing, s
<1>. QED
  BY <1>5, <1>6

-----------------------------------------------------------------------------
LEMMA BeginTurnMoves == ASSUME Ready, BeginTurn PROVE PyMove
<1>. DEFINE t == py.turns + 1
            f == [py.sessionOf EXCEPT ![t] = py.session]
            p == [py EXCEPT !.turn = t, !.turns = t, !.sessionOf = f, !.atTTS = TRUE]
<1>1. py \in Py /\ py.session \in Nat /\ py.turns \in Nat /\ "user_turn" \in Kinds /\ 0 \in Nat /\ "user_turn" # "request"
  BY TurnsAre DEF Ready, TypeOK, Py, Kinds
<1>2. t \in Turns
  BY <1>1, PlaybackAssumption DEF BeginTurn, Turns
<1>3. Python(p, <<Event("user_turn", 0, t, py.session)>>) /\ py.active /\ UNCHANGED host
  BY DEF BeginTurn, PyMoves, None
<1>4. py' = p /\ Says("user_turn", 0, t, py.session)
  BY <1>1, <1>2, <1>3, PythonSays
<1>5. f[t] = py.session /\ \A u \in 1 .. py.turns : f[u] = py.sessionOf[u]
  <2>1. py.sessionOf \in [Turns -> Nat] /\ \A u \in 1 .. py.turns : u # t /\ u \in Turns
    <3>1. MaxTurns \in Nat /\ py.turns < MaxTurns
      BY PlaybackAssumption DEF BeginTurn
    <3>. QED
      BY <1>1, <3>1 DEF Py, Turns
  <2>. HIDE DEF t
  <2>. QED
    BY <1>2, <2>1
<1>. HIDE DEF f
<1>6. /\ py'.turn = t /\ py'.turns = t /\ py'.sessionOf = f /\ py'.session = py.session /\ py'.atTTS = TRUE
      /\ StreamKept /\ VoiceKept /\ py'.atTransport = py.atTransport /\ py'.active = py.active
      /\ py'.controls = py.controls
  BY <1>1, <1>4 DEF Py, StreamKept, VoiceKept
<1>. HIDE DEF p
<1>7. Begins
  BY <1>3, <1>4, <1>5, <1>6 DEF Begins, Controlled
<1>. QED
  BY <1>3, <1>7, StillKept DEF PyMove

LEMMA ControlMoves == ASSUME Ready, Control PROVE PyMove
<1>. DEFINE rest == [py EXCEPT !.controls = Tail(@)]
            next == [rest EXCEPT !.turn = None, !.atTTS = TRUE]
<1>1. /\ py \in Py /\ py.session \in Nat /\ py.turn \in Turns \cup {0} /\ "cancel_turn" \in Kinds
      /\ 0 \in Nat /\ py.controls \in Seq(Nat) /\ py.controls # <<>> /\ "cancel_turn" # "request"
  BY DEF Ready, TypeOK, Py, Kinds, Control, None
<1>2. UNCHANGED host
  BY DEF Control, PyMoves
<1>3. CASE Head(py.controls) # py.session
  <2>1. Python(rest, <<>>)
    BY <1>3 DEF Control, PyMoves
  <2>2. py' = rest /\ Mute
    BY <2>1, PythonMute
  <2>3. /\ py'.controls = Tail(py.controls) /\ TurnKept /\ StreamKept /\ VoiceKept /\ FlowKept
        /\ py'.active = py.active /\ py'.errors = py.errors
    BY <1>1, <2>2 DEF Py, TurnKept, StreamKept, VoiceKept, FlowKept
  <2>4. Controlled' <=> Controlled
    BY <1>1, <1>3, <2>3, TailHas DEF Controlled, TurnKept
  <2>5. Faulty' <=> Faulty
    BY <2>3 DEF Faulty, TurnKept
  <2>6. Rests
    BY <2>2, <2>3, <2>4, <2>5 DEF Rests, Calm
  <2>. QED
    BY <1>2, <2>6, StillKept DEF PyMove
<1>4. CASE Head(py.controls) = py.session
  <2>1. Python(next, <<Event("cancel_turn", 0, py.turn, py.session)>>)
    BY <1>4 DEF Control, PyMoves, None
  <2>2. py' = next /\ Says("cancel_turn", 0, py.turn, py.session)
    BY <1>1, <2>1, PythonSays
  <2>3. /\ rest.active = py.active /\ rest.session = py.session /\ rest.turns = py.turns
        /\ rest.sessionOf = py.sessionOf /\ rest.stream = py.stream /\ rest.streamTurn = py.streamTurn
        /\ rest.result = py.result /\ rest.speaking = py.speaking /\ rest.speakingTurn = py.speakingTurn
        /\ rest.atTransport = py.atTransport
        /\ next = [rest EXCEPT !.turn = 0, !.atTTS = TRUE] /\ rest \in Py
    <3>1. Tail(py.controls) \in Seq(Nat)
      BY <1>1
    <3>. QED
      BY <1>1, <3>1 DEF Py, None
  <2>. HIDE DEF rest
  <2>4. /\ py'.turn = 0 /\ py'.turns = py.turns /\ py'.session = py.session /\ py'.sessionOf = py.sessionOf
        /\ StreamKept /\ VoiceKept /\ py'.atTTS = TRUE /\ py'.atTransport = py.atTransport
        /\ py'.active = py.active
    BY <2>2, <2>3 DEF Py, StreamKept, VoiceKept
  <2>5. Departs
    BY <2>2, <2>4 DEF Departs
  <2>. QED
    BY <1>2, <2>5, StillKept DEF PyMove
<1>. QED
  BY <1>3, <1>4

\* What is dropped with the request.
LEMMA DroppedKeeps ==
    ASSUME NEW p \in Py, NEW d, d = Dropped(p)
    PROVE  /\ d \in Py /\ d.stream = 0 /\ d.result = "none" /\ d.streamTurn = p.streamTurn
           /\ d.turn = p.turn /\ d.turns = p.turns /\ d.session = p.session /\ d.sessionOf = p.sessionOf
           /\ d.speaking = p.speaking /\ d.speakingTurn = p.speakingTurn
           /\ d.atTTS = p.atTTS /\ d.atTransport = p.atTransport
           /\ d.active = p.active /\ d.controls = p.controls /\ d.errors = p.errors
           /\ d.acknowledged = p.acknowledged
BY DEF Dropped, Py, None

LEMMA InterruptTTSMoves == ASSUME Ready, InterruptTTS PROVE PyMove
<1>. DEFINE d == Dropped(py)
            p == [d EXCEPT !.atTTS = FALSE, !.atTransport = TRUE]
<1>1. Python(p, Drop(py)) /\ py.atTTS /\ UNCHANGED host /\ py \in Py
  BY DEF InterruptTTS, PyMoves, Ready, TypeOK
<1>2. py' = p /\ Recants
  BY <1>1, DropSays
<1>3. /\ d \in Py /\ d.stream = 0 /\ d.result = "none" /\ d.streamTurn = py.streamTurn
      /\ d.turn = py.turn /\ d.turns = py.turns /\ d.session = py.session /\ d.sessionOf = py.sessionOf
      /\ d.speaking = py.speaking /\ d.speakingTurn = py.speakingTurn
      /\ d.active = py.active /\ d.controls = py.controls /\ d.errors = py.errors
  BY <1>1, DroppedKeeps
<1>. HIDE DEF d
<1>4. /\ TurnKept /\ StreamGone /\ VoiceKept /\ py'.atTTS = FALSE /\ py'.atTransport = TRUE
      /\ py'.active = py.active /\ py'.controls = py.controls /\ py'.errors = py.errors
  BY <1>2, <1>3 DEF Py, TurnKept, StreamGone, VoiceKept
<1>. HIDE DEF p
<1>5. LeavesTTS
  BY <1>1, <1>2, <1>4 DEF LeavesTTS, Calm, Controlled, Faulty, TurnKept
<1>. QED
  BY <1>1, <1>5, StillKept DEF PyMove

LEMMA SilencedKeeps ==
    ASSUME NEW p \in Py, NEW d, d = Silenced(p)
    PROVE  /\ d \in Py /\ d.stream = p.stream /\ d.result = p.result /\ d.streamTurn = p.streamTurn
           /\ d.turn = p.turn /\ d.turns = p.turns /\ d.session = p.session /\ d.sessionOf = p.sessionOf
           /\ d.speaking = 0 /\ d.speakingTurn = 0
           /\ d.atTTS = p.atTTS /\ d.atTransport = p.atTransport
           /\ d.active = p.active /\ d.controls = p.controls /\ d.errors = p.errors
BY DEF Silenced, Py, None

LEMMA InterruptTransportMoves == ASSUME Ready, InterruptTransport PROVE PyMove
<1>. DEFINE d == Silenced(py)
            p == [d EXCEPT !.atTransport = FALSE]
<1>1. Python(p, Silence(py)) /\ py.atTransport /\ UNCHANGED host /\ py \in Py
  BY DEF InterruptTransport, PyMoves, Ready, TypeOK
<1>3. /\ d \in Py /\ d.stream = py.stream /\ d.result = py.result /\ d.streamTurn = py.streamTurn
      /\ d.turn = py.turn /\ d.turns = py.turns /\ d.session = py.session /\ d.sessionOf = py.sessionOf
      /\ d.speaking = 0 /\ d.speakingTurn = 0 /\ d.atTTS = py.atTTS
      /\ d.active = py.active /\ d.controls = py.controls /\ d.errors = py.errors
  BY <1>1, SilencedKeeps
<1>. HIDE DEF d
<1>4. /\ p.stream = py.stream /\ p.result = py.result /\ p.streamTurn = py.streamTurn
      /\ p.turn = py.turn /\ p.turns = py.turns /\ p.session = py.session /\ p.sessionOf = py.sessionOf
      /\ p.speaking = 0 /\ p.speakingTurn = 0 /\ p.atTTS = py.atTTS /\ p.atTransport = FALSE
      /\ p.active = py.active /\ p.controls = py.controls /\ p.errors = py.errors
  BY <1>3 DEF Py
<1>. HIDE DEF p
<1>5. py' = p /\ Hushing
  BY <1>1, <1>4, SilenceSays
<1>6. LeavesTransport
  BY <1>1, <1>4, <1>5 DEF LeavesTransport, Calm, Controlled, Faulty, TurnKept, StreamKept
<1>. QED
  BY <1>1, <1>6, StillKept DEF PyMove

LEMMA SpeakMoves == ASSUME Ready, Speak PROVE PyMove
<1>. DEFINE r == py.requested + 1
            p == [py EXCEPT !.requested = r, !.stream = r, !.streamTurn = py.turn]
            s == SessionOf(py, py.turn)
<1>1. /\ py \in Py /\ py.turn \in Turns \cup {0} /\ "request" \in Kinds /\ py.turn # 0 /\ py.active
      /\ py.stream = 0 /\ py.requested \in Requests \cup {0} /\ py.requested < MaxRequests
      /\ ~py.atTTS /\ ~py.atTransport /\ UNCHANGED host
  BY DEF Ready, TypeOK, Py, Kinds, None, Speak, PyMoves
<1>2. r \in Requests /\ r \in Nat
  BY <1>1, PlaybackAssumption DEF Requests
<1>3. Python(p, <<Event("request", r, py.turn, s)>>)
  BY DEF Speak, PyMoves
<1>4. s \in Nat
  BY <1>1, SessionIs
<1>5. py' = p /\ Says("request", r, py.turn, s)
  <2>. HIDE DEF p, r, s
  <2>. QED
    BY <1>1, <1>2, <1>3, <1>4, PythonSays
<1>6. /\ py'.stream = r /\ py'.streamTurn = py.turn /\ py'.result = py.result
      /\ TurnKept /\ VoiceKept /\ FlowKept
      /\ py'.active = py.active /\ py'.controls = py.controls /\ py'.errors = py.errors
  BY <1>1, <1>5 DEF Py, TurnKept, VoiceKept, FlowKept
<1>. HIDE DEF p
<1>7. Speaks
  BY <1>1, <1>5, <1>6 DEF Speaks, Calm, Controlled, Faulty, TurnKept
<1>. QED
  BY <1>1, <1>7, StillKept DEF PyMove

\* A request is given up.
LEMMA GivenUpMoves ==
    ASSUME Ready, py.stream # 0, UNCHANGED host,
           Python(IF py.active /\ py.streamTurn = py.turn
                  THEN [Dropped(py) EXCEPT !.errors = Append(@, py.streamTurn)]
                  ELSE Dropped(py), Drop(py))
    PROVE  PyMove
<1>. DEFINE d == Dropped(py)
            current == py.active /\ py.streamTurn = py.turn
            errors == IF current THEN Append(d.errors, py.streamTurn) ELSE d.errors
            p == [d EXCEPT !.errors = errors]
<1>1. py \in Py
  BY DEF Ready, TypeOK
<1>2. /\ d \in Py /\ d.stream = 0 /\ d.result = "none" /\ d.streamTurn = py.streamTurn
      /\ d.turn = py.turn /\ d.turns = py.turns /\ d.session = py.session /\ d.sessionOf = py.sessionOf
      /\ d.speaking = py.speaking /\ d.speakingTurn = py.speakingTurn
      /\ d.atTTS = py.atTTS /\ d.atTransport = py.atTransport
      /\ d.active = py.active /\ d.controls = py.controls /\ d.errors = py.errors
  BY <1>1, DroppedKeeps
<1>3. Python(p, Drop(py))
  <2>1. (IF current THEN [d EXCEPT !.errors = Append(@, py.streamTurn)] ELSE d) = p
    <3>. HIDE DEF d
    <3>. QED
      BY <1>2 DEF Py
  <2>. QED
    BY <2>1
<1>. HIDE DEF d
<1>4. py' = p /\ Recants
  BY <1>3, DropSays
<1>5. py.errors \in Seq(Turns \cup {0}) /\ py.streamTurn \in Turns \cup {0}
  BY <1>1 DEF Py
<1>6. Has(errors, py.turn) <=> (Has(py.errors, py.turn) \/ current)
  <2>1. CASE current
    BY <1>2, <1>5, <2>1, AppendHas
  <2>2. CASE ~current
    BY <1>2, <2>2
  <2>. QED
    BY <2>1, <2>2
<1>. HIDE DEF errors
<1>7. /\ TurnKept /\ StreamGone /\ VoiceKept /\ FlowKept
      /\ py'.active = py.active /\ py'.controls = py.controls /\ py'.errors = errors
  BY <1>2, <1>4 DEF Py, TurnKept, StreamGone, VoiceKept, FlowKept
<1>. HIDE DEF p
<1>8. GivesUp
  BY <1>4, <1>6, <1>7 DEF GivesUp, Controlled, Faulty, TurnKept
<1>. QED
  BY <1>8, StillKept DEF PyMove

LEMMA TimesOutMoves == ASSUME Ready, TimesOut PROVE PyMove
BY GivenUpMoves DEF TimesOut, None

LEMMA ResumeMoves == ASSUME Ready, Resume PROVE PyMove
<1>1. py.stream # 0 /\ py \in Py /\ UNCHANGED host
  BY DEF Resume, Resumed, PyMoves, Ready, TypeOK, None
<1>2. CASE py.result # "done"
  BY <1>1, <1>2, GivenUpMoves DEF Resume, Resumed, PyMoves
<1>3. CASE py.result = "done"
  <2>. DEFINE d == Dropped(py)
              a == IF py.active /\ py.streamTurn = py.turn THEN d.acknowledged \cup {py.stream} ELSE d.acknowledged
              p == [d EXCEPT !.acknowledged = a]
  <2>1. /\ d \in Py /\ d.stream = 0 /\ d.result = "none" /\ d.streamTurn = py.streamTurn
        /\ d.turn = py.turn /\ d.turns = py.turns /\ d.session = py.session /\ d.sessionOf = py.sessionOf
        /\ d.speaking = py.speaking /\ d.speakingTurn = py.speakingTurn
        /\ d.atTTS = py.atTTS /\ d.atTransport = py.atTransport
        /\ d.active = py.active /\ d.controls = py.controls /\ d.errors = py.errors
    BY <1>1, DroppedKeeps
  <2>2. Python(p, <<>>)
    <3>1. (IF py.active /\ py.streamTurn = py.turn
           THEN [d EXCEPT !.acknowledged = @ \union {py.stream}] ELSE d) = p
      <4>. HIDE DEF d
      <4>. QED
        BY <2>1 DEF Py
    <3>. QED
      BY <1>3, <3>1 DEF Resume, Resumed, PyMoves
  <2>. HIDE DEF d, a
  <2>3. py' = p /\ Mute
    BY <2>2, PythonMute
  <2>4. /\ TurnKept /\ StreamGone /\ VoiceKept /\ FlowKept
        /\ py'.active = py.active /\ py'.controls = py.controls /\ py'.errors = py.errors
    BY <2>1, <2>3 DEF Py, TurnKept, StreamGone, VoiceKept, FlowKept
  <2>5. Completes
    BY <1>1, <1>3, <2>3, <2>4 DEF Completes, Calm, Controlled, Faulty, TurnKept
  <2>. QED
    BY <1>1, <2>5, StillKept DEF PyMove
<1>. QED
  BY <1>2, <1>3

LEMMA ReportErrorMoves == ASSUME Ready, ReportError PROVE PyMove
<1>. DEFINE t == Head(py.errors)
            p == [py EXCEPT !.errors = Tail(@)]
<1>1. /\ py \in Py /\ py.session \in Nat /\ py.errors \in Seq(Turns \cup {0}) /\ py.errors # <<>>
      /\ py.turn \in Turns \cup {0} /\ 0 \in Nat /\ "error" \in Kinds /\ "error" # "request" /\ UNCHANGED host
  BY DEF Ready, TypeOK, Py, ReportError, Kinds, PyMoves
<1>2. IF t = py.turn /\ SessionOf(py, t) = py.session
      THEN Python(p, <<Event("error", 0, py.turn, py.session)>>) ELSE Python(p, <<>>)
  BY DEF ReportError, PyMoves, None
<1>3. IF t = py.turn /\ SessionOf(py, t) = py.session
      THEN py' = p /\ Says("error", 0, py.turn, py.session) ELSE py' = p /\ Mute
  BY <1>1, <1>2, PythonMute, PythonSays
<1>4. /\ TurnKept /\ StreamKept /\ VoiceKept /\ FlowKept
      /\ py'.active = py.active /\ py'.controls = py.controls /\ py'.errors = Tail(py.errors)
  BY <1>1, <1>3 DEF Py, TurnKept, StreamKept, VoiceKept, FlowKept
<1>5. Has(py.errors, py.turn) <=> (t = py.turn \/ Has(Tail(py.errors), py.turn))
  BY <1>1, TailHas
<1>. HIDE DEF p, t
<1>6. Reports
  BY <1>3, <1>4, <1>5 DEF Reports, Controlled, Faulty, TurnKept
<1>. QED
  BY <1>1, <1>6, StillKept DEF PyMove

-----------------------------------------------------------------------------
LEMMA RestsIs ==
    ASSUME Ready, Python(py, <<>>)
    PROVE  Rests
<1>1. py' = py /\ Mute
  BY PythonMute
<1>. QED
  BY <1>1 DEF Rests, TurnKept, StreamKept, VoiceKept, FlowKept, Calm, Controlled, Faulty

LEMMA AnswersIs ==
    ASSUME Ready, NEW m \in Told, m.kind \in {"done", "error"},
           Python(IF py.stream = m.request THEN [py EXCEPT !.result = m.kind] ELSE py, <<>>)
    PROVE  Answers(m)
<1>. DEFINE result == IF py.stream = m.request THEN m.kind ELSE py.result
            p == [py EXCEPT !.result = result]
<1>1. py \in Py
  BY DEF Ready, TypeOK
<1>2. (IF py.stream = m.request THEN [py EXCEPT !.result = m.kind] ELSE py) = p
  BY <1>1 DEF Py
<1>. HIDE DEF result
<1>3. py' = p /\ Mute
  BY <1>2, PythonMute
<1>4. /\ TurnKept /\ VoiceKept /\ FlowKept /\ py'.stream = py.stream /\ py'.streamTurn = py.streamTurn
      /\ py'.result = result /\ py'.active = py.active /\ py'.controls = py.controls /\ py'.errors = py.errors
  BY <1>1, <1>3 DEF Py, TurnKept, VoiceKept, FlowKept
<1>. HIDE DEF p
<1>. QED
  BY <1>3, <1>4 DEF Answers, Calm, Controlled, Faulty, TurnKept, result

LEMMA OpensIs ==
    ASSUME Ready, NEW m \in Told, m.kind = "start",
           Python([Dropped(py) EXCEPT !.active = TRUE, !.session = m.session, !.turn = None,
                        !.atTransport = TRUE, !.controls = Append(@, m.session)], Drop(py))
    PROVE  Opens(m)
<1>. DEFINE d == Dropped(py)
            c == Append(d.controls, m.session)
            q == [d EXCEPT !.active = TRUE, !.session = m.session, !.turn = None]
            p == [q EXCEPT !.atTransport = TRUE, !.controls = c]
<1>1. py \in Py /\ m.session \in Nat
  BY DEF Ready, TypeOK, Told
<1>2. /\ d \in Py /\ d.stream = 0 /\ d.result = "none" /\ d.streamTurn = py.streamTurn
      /\ d.turns = py.turns /\ d.sessionOf = py.sessionOf
      /\ d.speaking = py.speaking /\ d.speakingTurn = py.speakingTurn
  BY <1>1, DroppedKeeps
<1>3. Python(p, Drop(py))
  <2>1. [d EXCEPT !.active = TRUE, !.session = m.session, !.turn = None, !.atTransport = TRUE,
                  !.controls = Append(@, m.session)] = p
    <3>. HIDE DEF d
    <3>. QED
      BY <1>2 DEF Py
  <2>. QED
    BY <2>1
<1>. HIDE DEF d, c
<1>5. /\ q \in Py /\ q.stream = 0 /\ q.result = "none" /\ q.streamTurn = py.streamTurn /\ q.turns = py.turns
      /\ q.sessionOf = py.sessionOf /\ q.speaking = py.speaking /\ q.speakingTurn = py.speakingTurn
      /\ q.turn = 0 /\ q.session = m.session /\ q.active = TRUE
  BY <1>1, <1>2, ZenonT(60) DEF Py, None
<1>. HIDE DEF q
<1>6. py' = p /\ Recants
  BY <1>3, DropSays
<1>7. /\ StreamGone /\ VoiceKept /\ py'.atTransport = TRUE /\ py'.active = TRUE /\ py'.turn = 0
      /\ py'.turns = py.turns /\ py'.sessionOf = py.sessionOf /\ py'.session = m.session
  BY <1>5, <1>6 DEF Py, StreamGone, VoiceKept
<1>. QED
  BY <1>6, <1>7 DEF Opens

LEMMA HaltingIs ==
    ASSUME Ready, NEW m \in Told, m.kind \in {"stop", "interrupt"}, m.session = py.session,
           NEW p, Python(p, <<>>), NEW active \in BOOLEAN,
           p = [py EXCEPT !.active = active, !.controls = Append(@, m.session)],
           active = IF m.kind = "stop" THEN FALSE ELSE py.active
    PROVE  Halting(m)
<1>. DEFINE c == Append(py.controls, m.session)
<1>1. py \in Py /\ m.session \in Nat /\ p = [py EXCEPT !.active = active, !.controls = c]
  BY DEF Ready, TypeOK, Told
<1>2. py' = p /\ Mute
  BY PythonMute
<1>3. Has(c, py.session)
  BY <1>1, AppendHas DEF Py
<1>. HIDE DEF c
<1>4. /\ TurnKept /\ StreamKept /\ VoiceKept /\ FlowKept
      /\ py'.active = active /\ py'.controls = c /\ py'.errors = py.errors
  BY <1>1, <1>2 DEF Py, TurnKept, StreamKept, VoiceKept, FlowKept
<1>. QED
  BY <1>2, <1>3, <1>4 DEF Halting, Controlled, Faulty, TurnKept

LEMMA PlaybackOnSays ==
    ASSUME Ready, NEW m \in Told, m.kind = "playback_on", m.session = py.session, PlaybackOn(m.request)
    PROVE  SoundOn(m) \/ Ignores(m)
<1>. DEFINE r == m.request
            p == [py EXCEPT !.speaking = r, !.speakingTurn = py.turn]
            s == SessionOf(py, py.turn)
            sounds == py.stream = r /\ py.streamTurn = py.turn /\ py.speaking # r
<1>1. /\ py \in Py /\ py.turn \in Turns \cup {0} /\ 0 \in Nat /\ "bot_started" \in Kinds
      /\ "bot_started" # "request" /\ r \in Nat
  BY DEF Ready, TypeOK, Py, Kinds, Told
<1>2. s \in Nat
  BY <1>1, SessionIs
<1>3. CASE sounds
  <2>1. Python(p, <<Event("bot_started", 0, py.turn, s)>>)
    BY <1>3 DEF PlaybackOn, None
  <2>2. py' = p /\ Says("bot_started", 0, py.turn, s)
    <3>. HIDE DEF p, s
    <3>. QED
      BY <1>1, <1>2, <2>1, PythonSays
  <2>3. /\ TurnKept /\ StreamKept /\ FlowKept /\ py'.speaking = r /\ py'.speakingTurn = py.turn
        /\ py'.active = py.active /\ py'.controls = py.controls /\ py'.errors = py.errors
    BY <1>1, <2>2 DEF Py, TurnKept, StreamKept, FlowKept
  <2>. QED
    BY <1>3, <2>2, <2>3 DEF SoundOn, Calm, Controlled, Faulty, TurnKept
<1>4. CASE ~sounds
  <2>1. Python(py, <<>>)
    BY <1>4 DEF PlaybackOn
  <2>. QED
    BY <1>4, <2>1, RestsIs DEF Ignores
<1>. QED
  BY <1>3, <1>4

LEMMA PlaybackOffSays ==
    ASSUME Ready, NEW m \in Told, m.kind = "playback_off", m.session = py.session, PlaybackOff(m.request)
    PROVE  SoundOff(m) \/ Ignores(m)
<1>1. CASE py.speaking = m.request
  <2>. DEFINE p == Silenced(py)
  <2>1. Python(p, Silence(py)) /\ py \in Py
    BY <1>1 DEF PlaybackOff, Ready, TypeOK
  <2>2. /\ p.stream = py.stream /\ p.result = py.result /\ p.streamTurn = py.streamTurn
        /\ p.turn = py.turn /\ p.turns = py.turns /\ p.session = py.session /\ p.sessionOf = py.sessionOf
        /\ p.speaking = 0 /\ p.speakingTurn = 0
        /\ p.atTTS = py.atTTS /\ p.atTransport = py.atTransport
        /\ p.active = py.active /\ p.controls = py.controls /\ p.errors = py.errors
    BY <2>1, SilencedKeeps
  <2>. HIDE DEF p
  <2>3. py' = p /\ Hushing
    BY <2>1, <2>2, SilenceSays
  <2>. QED
    BY <1>1, <2>2, <2>3 DEF SoundOff, Calm, Controlled, Faulty, TurnKept, StreamKept, FlowKept
<1>2. CASE py.speaking # m.request
  <2>1. Python(py, <<>>)
    BY <1>2 DEF PlaybackOff
  <2>. QED
    BY <1>2, <2>1, RestsIs DEF Ignores
<1>. QED
  BY <1>1, <1>2

LEMMA ReceiveMoves == ASSUME Ready, Receive PROVE PyMove
<1>. DEFINE m == host.sent[1]
            g == [host EXCEPT !.sent = Tail(@)]
<1>1. host \in Host /\ host.sent \in Seq(Told) /\ host.sent # <<>>
  BY DEF Ready, TypeOK, Host, Receive
<1>2. /\ m = Head(host.sent) /\ m \in Told /\ Tail(host.sent) \in Seq(Told) /\ Len(host.sent) \in Nat
      /\ Len(host.sent) > 0 /\ DOMAIN Tail(host.sent) = 1 .. Len(host.sent) - 1
      /\ DOMAIN host.sent = 1 .. Len(host.sent)
      /\ \A i \in 1 .. Len(host.sent) - 1 : Tail(host.sent)[i] = host.sent[i + 1]
  BY <1>1, TailIs
<1>3. host' = g /\ Received(m)
  BY <1>2 DEF Receive
<1>4. HostKept /\ host'.sent = Tail(host.sent)
  BY <1>1, <1>3 DEF Host, HostKept, SameVisible, SameScreen
<1>. HIDE DEF g
<1>5. SentShift(1) /\ 1 \in Sent
  BY <1>2, <1>4 DEF SentShift, Sent
<1>6. m.kind \in Signals /\ py.active \in BOOLEAN /\ py \in Py
  BY <1>2 DEF Told, Ready, TypeOK, Py
<1>. DEFINE handled == Answers(m) \/ Opens(m) \/ Ignores(m) \/ SoundOn(m) \/ SoundOff(m) \/ Halting(m)
<1>8. SUFFICES handled
  BY <1>4, <1>5 DEF PyMove
<1>. HIDE DEF m
<1>9. CASE m.kind \in {"done", "error"}
  BY <1>2, <1>3, <1>9, AnswersIs DEF Received
<1>10. CASE m.kind = "start"
  BY <1>2, <1>3, <1>10, OpensIs DEF Received
<1>11. CASE m.kind \notin {"done", "error", "start"} /\ m.session # py.session
  BY <1>3, <1>11, RestsIs DEF Received, Ignores
<1>12. CASE m.kind = "playback_on" /\ m.session = py.session
  BY <1>2, <1>3, <1>12, PlaybackOnSays DEF Received
<1>13. CASE m.kind = "playback_off" /\ m.session = py.session
  BY <1>2, <1>3, <1>13, PlaybackOffSays DEF Received
<1>14. CASE m.kind = "stop" /\ m.session = py.session
  <2>. DEFINE p == [py EXCEPT !.active = FALSE, !.controls = Append(@, m.session)]
  <2>1. Python(p, <<>>)
    BY <1>3, <1>14 DEF Received
  <2>. HIDE DEF p
  <2>2. p = [py EXCEPT !.active = FALSE, !.controls = Append(@, m.session)] /\ FALSE \in BOOLEAN
    BY DEF p
  <2>. QED
    BY <1>2, <1>14, <2>1, <2>2, HaltingIs
<1>15. CASE m.kind = "interrupt" /\ m.session = py.session
  <2>. DEFINE p == [py EXCEPT !.controls = Append(@, m.session)]
  <2>1. Python(p, <<>>)
    BY <1>3, <1>15 DEF Received
  <2>2. p = [py EXCEPT !.active = py.active, !.controls = Append(@, m.session)]
    BY <1>6 DEF Py
  <2>. HIDE DEF p
  <2>. QED
    BY <1>2, <1>6, <1>15, <2>1, <2>2, HaltingIs
<1>. QED
  BY <1>6, <1>9, <1>10, <1>11, <1>12, <1>13, <1>14, <1>15 DEF Signals

\* Every step of Python's.
PySteps == Receive \/ BeginTurn \/ Speak \/ TimesOut \/ PythonTasks
LEMMA PySeen ==
    ASSUME Ready, PySteps
    PROVE  TypeOK' /\ PyStep /\ PyMove
BY ReceiveMoves, BeginTurnMoves, SpeakMoves, TimesOutMoves, ControlMoves, InterruptTTSMoves,
   InterruptTransportMoves, ResumeMoves, ReportErrorMoves, ReceiveIs, BeginTurnIs, SpeakIs, TimesOutIs,
   ControlIs, InterruptTTSIs, InterruptTransportIs, ResumeIs, ReportErrorIs DEF PySteps, PythonTasks

-----------------------------------------------------------------------------
(* The host's steps keep the agreement.                                      *)

LEMMA SessionIsNat == ASSUME Ready PROVE host.session \in Nat /\ host.drawn \in Nat /\ host.speechRequest \in Nat
BY SentIs DEF Host, Requests

\* What a step adds to the wire to Python.
LEMMA HushedAdds ==
    ASSUME Ready, Hushed(host, host')
    PROVE  /\ Grows(host.sent, host'.sent)
           /\ \A i : New(i) => /\ host'.sent[i].kind = "playback_off"
                               /\ host'.sent[i].request = host.speechRequest /\ host'.sent[i].session = host.session
           /\ host.speaking /\ host.speechRequest # 0 => \E i : New(i)
<1>. DEFINE x == Signal("playback_off", host.speechRequest, host.session)
<1>1. host.sent \in Seq(Told) /\ host.session \in Nat /\ host.speechRequest \in Nat
  BY SentIs, SessionIsNat
<1>2. CASE ~host.speaking \/ host.speechRequest = 0
  <2>1. host'.sent = host.sent
    BY <1>2 DEF Hushed
  <2>. QED
    BY <1>1, <1>2, <2>1, GrowsNot DEF New
<1>3. CASE ~(~host.speaking \/ host.speechRequest = 0)
  <2>1. host'.sent = Append(host.sent, x)
    BY <1>3 DEF Hushed
  <2>2. x \in Told /\ x.kind = "playback_off" /\ x.request = host.speechRequest /\ x.session = host.session
    <3>1. "playback_off" \in Signals /\ "playback_off" \notin {"done", "error"}
      BY DEF Signals
    <3>. QED
      BY <1>1, <3>1, SignalIs
  <2>. HIDE DEF x
  <2>3. Adds(host.sent, host'.sent, x)
    BY <1>1, <2>1, <2>2, GrowsBy
  <2>. QED
    BY <2>2, <2>3 DEF Adds, New
<1>. QED
  BY <1>2, <1>3

LEMMA SoundsAdds ==
    ASSUME Ready, NEW r \in Requests, Sounds(r)
    PROVE  /\ Grows(host.sent, host'.sent) /\ \E i : New(i)
           /\ \A i : New(i) => /\ host'.sent[i].kind = "playback_on"
                               /\ host'.sent[i].request = r /\ host'.sent[i].session = host.session
<1>. DEFINE x == Signal("playback_on", r, host.session)
<1>1. host.sent \in Seq(Told) /\ host.session \in Nat /\ r \in Nat
  BY SentIs, SessionIsNat DEF Requests
<1>2. host'.sent = Append(host.sent, x)
  BY DEF Sounds
<1>3. x \in Told /\ x.kind = "playback_on" /\ x.request = r /\ x.session = host.session
  <2>1. "playback_on" \in Signals /\ "playback_on" \notin {"done", "error"}
    BY DEF Signals
  <2>. QED
    BY <1>1, <2>1, SignalIs
<1>. HIDE DEF x
<1>4. Adds(host.sent, host'.sent, x)
  BY <1>1, <1>2, <1>3, GrowsBy
<1>. QED
  BY <1>3, <1>4 DEF Adds, New

LEMMA StartedAdds ==
    ASSUME Ready, Started
    PROVE  /\ Grows(host.sent, host'.sent) /\ \E i : New(i)
           /\ \A i : New(i) => host'.sent[i].kind = "start" /\ host'.sent[i].session = host.drawn + 1
<1>. DEFINE x == Signal("start", 0, host.drawn + 1)
<1>1. host.sent \in Seq(Told) /\ host.drawn + 1 \in Nat
  BY SentIs, SessionIsNat
<1>2. host'.sent = Append(host.sent, x)
  BY DEF Started
<1>3. x \in Told /\ x.kind = "start" /\ x.session = host.drawn + 1
  <2>1. "start" \in Signals /\ "start" \notin {"done", "error"} /\ 0 \in Nat
    BY DEF Signals
  <2>. QED
    BY <1>1, <2>1, SignalIs
<1>. HIDE DEF x
<1>4. Adds(host.sent, host'.sent, x)
  BY <1>1, <1>2, <1>3, GrowsBy
<1>. QED
  BY <1>3, <1>4 DEF Adds, New

\* The wire to Python only grows, and what is new on it is due to the step.
LEMMA NewIs ==
    ASSUME Ready, NEW d \in {0, 1}, HostStep(d)
    PROVE  /\ Grows(host.sent, host'.sent)
           /\ \A i : New(i) /\ host'.sent[i].kind = "done" =>
                 host.task[host'.sent[i].request].stage # "ended"
           /\ \A i : New(i) /\ host'.sent[i].kind = "start" => Started /\ host'.sent[i].session = host.drawn + 1
           /\ \A i : New(i) /\ host'.sent[i].kind = "playback_on" =>
                 \E r \in Requests : Sounds(r) /\ host'.sent[i].request = r /\ host'.sent[i].session = host.session
           /\ \A i : New(i) /\ host'.sent[i].kind = "playback_off" => Hushes \/ Halted \/ (d = 1 /\ Turned(toHost[1]))
<1>1. CASE Steady
  BY <1>1 DEF Steady
<1>2. CASE \E r \in Requests : Sounds(r)
  BY <1>2, SoundsAdds
<1>3. CASE Hushes
  BY <1>3, HushedAdds DEF Hushes
<1>4. CASE Halted
  BY <1>4 DEF Halted
<1>5. CASE Started
  BY <1>5, StartedAdds
<1>6. CASE d = 1 /\ Turned(toHost[1])
  BY <1>6, HushedAdds DEF Turned
<1>7. CASE d = 1 /\ Accepts(toHost[1])
  <2>1. host'.sent = host.sent /\ host.sent \in Seq(Told)
    BY <1>7, SentIs DEF Accepts
  <2>. QED
    BY <2>1, GrowsNot DEF New
<1>. QED
  BY <1>1, <1>2, <1>3, <1>4, <1>5, <1>6, <1>7 DEF HostStep

\* Tasks go on, and the only request that is new is the one of the wire's head.
LEMMA TasksGo ==
    ASSUME Ready, NEW d \in {0, 1}, HostStep(d)
    PROVE  /\ Ran \/ (d = 1 /\ Accepts(toHost[1]) /\ toHost[1].request \in Requests /\ Asks(1))
           /\ \A r \in Requests :
                 /\ host.task[r].stage # "none" =>
                       /\ host'.task[r].stage # "none" /\ host'.task[r].turn = host.task[r].turn
                       /\ host'.task[r].session = host.task[r].session
                 /\ host.task[r].stage = "ended" => host'.task[r].stage = "ended"
                 /\ host'.task[r].stage # "none" =>
                       \/ host.task[r].stage # "none"
                       \/ /\ d = 1 /\ Accepts(toHost[1]) /\ r = toHost[1].request
                          /\ host'.task[r].turn = toHost[1].turn /\ host'.task[r].session = toHost[1].session
           /\ \A r \in host'.requests :
                 r \in host.requests \/ (d = 1 /\ Accepts(toHost[1]) /\ r = toHost[1].request)
<1>1. CASE Ran
  BY <1>1 DEF Ran
<1>2. CASE d = 1 /\ Accepts(toHost[1])
  <2>. DEFINE m == toHost[1]
  <2>1. m.request \in Requests /\ host.task[m.request].stage = "none" /\ Asks(1)
    <3>1. 1 \in DOMAIN toHost /\ Asks(1)
      BY <1>2 DEF HostStep, Due, Accepts, Asks
    <3>. QED
      BY <3>1, WireIs DEF Ready, AskedOnce
  <2>2. /\ host'.requests = host.requests \cup {m.request}
        /\ \A q \in Requests \ {m.request} : host'.task[q] = host.task[q]
        /\ host'.task[m.request].stage = "created"
        /\ host'.task[m.request].turn = m.turn /\ host'.task[m.request].session = m.session
    BY <1>2 DEF Accepts, AcceptMove
  <2>. HIDE DEF m
  <2>3. Accepts(m) /\ d = 1
    BY <1>2 DEF m
  <2>. QED
    BY <2>1, <2>2, <2>3 DEF m
<1>. QED
  BY <1>1, <1>2 DEF HostStep, Steady, Sounds, Hushes, Halted, Started, Turned

\* While the turn is live the conversation goes on; one that both are in is not left.
LEMMA LiveStep ==
    ASSUME Ready, PySound, SessionsKnown, TurnsInOrder, NEW d \in {0, 1}, HostStep(d), Live'
    PROVE  /\ Live /\ Stays /\ host.session = py.session /\ host.active
           /\ \/ Steady \/ (\E r \in Requests : Sounds(r)) \/ Hushes
              \/ d = 1 /\ (Turned(toHost[1]) \/ Accepts(toHost[1]))
           /\ host.turn = py.turn => /\ host'.turn = py.turn
                                     /\ \/ Steady \/ (\E r \in Requests : Sounds(r)) \/ Hushes
                                        \/ d = 1 /\ Accepts(toHost[1])
<1>1. py' = py /\ Grows(host.sent, host'.sent)
  BY NewIs DEF HostStep
<1>2. \A i \in Sent : i \in Sent' /\ host'.sent[i] = host.sent[i]
  BY <1>1 DEF Grows, Sent
<1>3. Live
  BY <1>1, <1>2 DEF Live, Doomed, Starts, Halts, Controlled
<1>4. host.session = py.session /\ host.active
  BY <1>3 DEF Live, Doomed, SessionsKnown, PySound, Closes, Halts
<1>5. ~Halted
  BY <1>1, <1>4 DEF Live, Doomed, Halts, Halted, New, Fresh, Sent
<1>6. ~Started
  BY <1>4 DEF Started
<1>7. /\ Stays
      /\ \/ Steady \/ (\E r \in Requests : Sounds(r)) \/ Hushes
         \/ d = 1 /\ (Turned(toHost[1]) \/ Accepts(toHost[1]))
  BY <1>5, <1>6 DEF HostStep, Steady, Sounds, Hushes, Turned, Accepts
<1>8. ASSUME host.turn = py.turn, d = 1, Turned(toHost[1]) PROVE FALSE
  <2>1. 1 \in Due /\ NewTurn(1)
    BY <1>8 DEF HostStep, Turned, NewTurn
  <2>2. host.turn < toHost[1].turn /\ toHost[1].turn <= py.turns
    BY <2>1 DEF TurnsInOrder
  <2>3. py.turn = py.turns
    BY <1>3 DEF Live, PySound
  <2>4. py.turns \in Nat /\ toHost[1].turn \in Nat
    BY <2>1, TurnsAre, WireIs DEF Due, Events, Turns
  <2>. QED
    BY <1>8, <2>2, <2>3, <2>4
<1>9. host.turn = py.turn => host'.turn = py.turn
  BY <1>7, <1>8 DEF Steady, Sounds, Hushes, Accepts, AcceptMove, SameTurn
<1>. QED
  BY <1>3, <1>4, <1>7, <1>8, <1>9

\* A failure is not forgotten.
LEMMA HostFailing ==
    ASSUME Ready, PySound, SessionsKnown, TurnsInOrder, NEW d \in {0, 1}, HostStep(d), Live', Failing
    PROVE  Failing'
<1>1. py' = py /\ Grows(host.sent, host'.sent) /\ Shifted(d) /\ Live /\ host.session = py.session
  BY NewIs, LiveStep DEF HostStep
<1>2. CASE Broken
  <2>1. Ends(py.stream)'
    BY <1>1, <1>2, TasksGo DEF Broken, Ends
  <2>2. \A i \in Sent' : ~(host'.sent[i].kind = "done" /\ host'.sent[i].request = py.stream)
    <3>1. SUFFICES ASSUME NEW i \in Sent', host'.sent[i].kind = "done", host'.sent[i].request = py.stream
                   PROVE  FALSE
      OBVIOUS
    <3>2. CASE i \in Sent
      BY <1>1, <1>2, <3>1, <3>2 DEF Broken, Grows, Sent
    <3>3. CASE i \notin Sent
      <4>1. New(i)
        BY <3>3 DEF New, Fresh, Sent
      <4>. QED
        BY <1>2, <3>1, <4>1, NewIs DEF Broken, Ends
    <3>. QED
      BY <3>2, <3>3
  <2>3. (\E i \in Sent : host.sent[i].kind = "error" /\ host.sent[i].request = py.stream) =>
           \E i \in Sent' : host'.sent[i].kind = "error" /\ host'.sent[i].request = py.stream
    BY <1>1 DEF Grows, Sent
  <2>4. Broken'
    BY <1>1, <1>2, <2>1, <2>2, <2>3 DEF Broken
  <2>. QED
    BY <2>4 DEF Failing
<1>3. CASE Faulty
  BY <1>1, <1>3 DEF Failing, Faulty
<1>4. CASE \E i \in Due : toHost[i].kind = "error" /\ toHost[i].turn = py.turn /\ toHost[i].session = py.session
  <2>1. PICK i \in Due : toHost[i].kind = "error" /\ toHost[i].turn = py.turn /\ toHost[i].session = py.session
    BY <1>4
  <2>2. i > d
    <3>1. SUFFICES ASSUME ~(i > d) PROVE FALSE
      OBVIOUS
    <3>2. i = 1 /\ d = 1
      BY <3>1, WireIs DEF Due
    <3>3. host.turn = py.turn
      <4>1. ASSUME NEW k \in Due, NewTurn(k), toHost[k].turn = py.turn PROVE FALSE
        <5>1. k # 1 => k < 1
          BY <2>1, <3>2, <4>1 DEF TurnsInOrder, NewTurn
        <5>2. k # 1
          BY <2>1, <3>2, <4>1 DEF NewTurn
        <5>. QED
          BY <5>1, <5>2, WireIs DEF Due
      <4>. QED
        BY <1>1, <4>1 DEF TurnsInOrder
    <3>4. Halted
      BY <1>1, <2>1, <3>2, <3>3 DEF HostStep, Heeds
    <3>5. ~Halted
      BY <1>1 DEF Live, Doomed, Halts, Halted, New, Fresh, Sent
    <3>. QED
      BY <3>4, <3>5
  <2>3. i - d \in Due' /\ toHost'[i - d] = toHost[i]
    BY <1>1, <2>2 DEF Shifted, Due
  <2>. QED
    BY <1>1, <2>1, <2>3 DEF Failing
<1>. QED
  BY <1>2, <1>3, <1>4 DEF Failing

\* What a step of the host's leaves on both wires.
LEMMA HostWires ==
    ASSUME Ready, NEW d \in {0, 1}, HostStep(d)
    PROVE  /\ py' = py /\ (Stays \/ Halted \/ Started)
           /\ \A i \in Sent : i \in Nat /\ i \in Sent' /\ host'.sent[i] = host.sent[i]
           /\ \A i \in Sent' : i \in Nat /\ (i \notin Sent => New(i) /\ \A j \in Sent : j < i)
           /\ \A i : New(i) => i \in Sent' /\ i \notin Sent
           /\ \A i \in Due' : i \in Nat /\ i >= 1 /\ i + d \in Due /\ toHost'[i] = toHost[i + d]
           /\ \A k \in Due : k \in Nat /\ k >= 1 /\ (k > d => k - d \in Due' /\ toHost'[k - d] = toHost[k])
           /\ d = 1 => 1 \in Due /\ Heeds(toHost[1])
<1>1. Grows(host.sent, host'.sent)
  BY NewIs
<1>2. py' = py /\ Shifted(d) /\ (d = 1 => 1 \in Due /\ Heeds(toHost[1]))
  BY DEF HostStep
<1>3. Stays \/ Halted \/ Started
  BY DEF HostStep, Steady, Sounds, Hushes, Turned, Accepts
<1>. QED
  BY <1>1, <1>2, <1>3, WireIs DEF Grows, Shifted, New, Fresh, Sent, Due

LEMMA StartedOnce == ASSUME Ready, Started PROVE \A i, j : New(i) /\ New(j) => i = j
<1>. DEFINE x == Signal("start", 0, host.drawn + 1)
<1>1. host.sent \in Seq(Told) /\ host'.sent = Append(host.sent, x)
  BY SentIs DEF Started
<1>2. x \in Told
  BY SessionIsNat DEF Signal, Told, Signals
<1>. HIDE DEF x
<1>3. /\ DOMAIN host'.sent = 1 .. Len(host.sent) + 1 /\ Len(host.sent) \in Nat
      /\ DOMAIN host.sent = 1 .. Len(host.sent)
  BY <1>1, <1>2, AppendedIs
<1>. QED
  BY <1>3 DEF New, Fresh

LEMMA HostSessions ==
    ASSUME Ready, SessionsKnown, TurnsInOrder, NEW d \in {0, 1}, HostStep(d)
    PROVE  SessionsKnown'
<1>1. /\ host.session \in Nat /\ host.drawn \in Nat /\ py.session \in Nat /\ host.session = host.drawn
      /\ py.session <= host.session /\ py' = py /\ host.active \in BOOLEAN
  BY SessionIsNat, SentIs, HostWires DEF SessionsKnown, Host, Py
<1>2. \/ Stays
      \/ /\ ~host'.active /\ host'.session = host.drawn + 1 /\ host'.drawn = host.drawn + 1
         /\ \E i : New(i) /\ host'.sent[i].kind = "stop" /\ host'.sent[i].session = host.session
      \/ ~host.active /\ host'.active /\ host'.session = host.drawn + 1 /\ host'.drawn = host.drawn + 1
  BY HostWires DEF Halted, Started
<1>3. host'.session = host'.drawn /\ py.session <= host'.session /\ host.session <= host'.session
  BY <1>1, <1>2 DEF Stays
<1>4. ASSUME NEW i \in Sent', Starts(i)'
      PROVE  /\ py.session < host'.sent[i].session /\ host'.sent[i].session <= host'.session
             /\ \/ host'.sent[i].session = host'.session /\ host'.active
                \/ \E j \in Sent' : j > i /\ Closes(j, host.sent[i].session)'
             /\ \A j \in Sent' : j > i /\ Starts(j)' => host'.sent[i].session < host'.sent[j].session
  <2>1. CASE i \in Sent
    <3>1. host'.sent[i] = host.sent[i] /\ Starts(i) /\ host.sent[i].session \in Nat /\ i \in Nat
      BY <1>4, <2>1, HostWires, SentIs DEF Starts, Sent
    <3>2. py.session < host.sent[i].session /\ host.sent[i].session <= host.session
      BY <2>1, <3>1 DEF SessionsKnown
    <3>3. \/ host'.sent[i].session = host'.session /\ host'.active
          \/ \E j \in Sent' : j > i /\ Closes(j, host.sent[i].session)'
      <4>1. CASE host.sent[i].session = host.session /\ host.active
        <5>1. CASE Stays
          BY <3>1, <4>1, <5>1 DEF Stays
        <5>2. CASE \E j : New(j) /\ host'.sent[j].kind = "stop" /\ host'.sent[j].session = host.session
          BY <2>1, <3>1, <4>1, <5>2, HostWires DEF Closes
        <5>. QED
          BY <1>2, <4>1, <5>1, <5>2
      <4>2. CASE \E j \in Sent : j > i /\ Closes(j, host.sent[i].session)
        BY <3>1, <4>2, HostWires DEF Closes
      <4>. QED
        BY <2>1, <3>1, <4>1, <4>2 DEF SessionsKnown
    <3>4. ASSUME NEW j \in Sent', j > i, Starts(j)'
          PROVE  host'.sent[i].session < host'.sent[j].session
      <4>1. CASE j \in Sent
        BY <2>1, <3>1, <3>4, <4>1, HostWires DEF SessionsKnown, Starts
      <4>2. CASE j \notin Sent
        <5>1. host'.sent[j].session = host.drawn + 1
          BY <3>4, <4>2, HostWires, NewIs DEF Starts
        <5>. QED
          BY <1>1, <3>1, <3>2, <5>1
      <4>. QED
        BY <4>1, <4>2
    <3>. QED
      BY <1>1, <1>2, <1>3, <3>1, <3>2, <3>3, <3>4 DEF Stays
  <2>2. CASE i \notin Sent
    <3>1. New(i) /\ Started /\ host'.sent[i].session = host.drawn + 1
      BY <1>4, <2>2, HostWires, NewIs DEF Starts
    <3>2. \A j \in Sent' : j > i => FALSE
      <4>1. ASSUME NEW j \in Sent', j > i PROVE FALSE
        <5>1. CASE j \in Sent
          BY <2>2, <4>1, <5>1, HostWires
        <5>2. CASE j \notin Sent
          BY <3>1, <4>1, <5>2, HostWires, StartedOnce
        <5>. QED
          BY <5>1, <5>2
      <4>. QED
        BY <4>1
    <3>3. host'.active /\ host'.session = host.drawn + 1
      BY <3>1 DEF Started
    <3>. QED
      BY <1>1, <3>1, <3>2, <3>3
  <2>. QED
    BY <2>1, <2>2
<1>5. ASSUME host'.session # py.session \/ ~host'.active
      PROVE  (\E i \in Sent' : Starts(i)' \/ Closes(i, py.session)') \/ ~py.active
  <2>1. CASE host.session # py.session \/ ~host.active
    <3>1. (\E i \in Sent : Starts(i) \/ Closes(i, py.session)) \/ ~py.active
      BY <2>1 DEF SessionsKnown
    <3>. QED
      BY <3>1, HostWires DEF Starts, Closes
  <2>2. CASE host.session = py.session /\ host.active
    <3>1. \E i : New(i) /\ host'.sent[i].kind = "stop" /\ host'.sent[i].session = host.session
      BY <1>2, <1>5, <2>2 DEF Stays
    <3>. QED
      BY <2>2, <3>1, HostWires DEF Closes
  <2>. QED
    BY <2>1, <2>2
<1>6. ASSUME host'.turn # 0
      PROVE  host'.active /\ host'.turn <= py.turns /\ py.sessionOf[host'.turn] = host'.session
  <2>1. CASE SameTurn(host, host')
    BY <1>6, <2>1 DEF SameTurn, SessionsKnown
  <2>2. CASE Halted
    BY <1>6, <2>2 DEF Halted
  <2>3. CASE Started
    BY <1>6, <2>3 DEF Started, SessionsKnown
  <2>4. CASE d = 1 /\ Turned(toHost[1])
    <3>1. 1 \in Due /\ NewTurn(1)
      BY <2>4, HostWires DEF Turned, NewTurn
    <3>2. toHost[1].turn <= py.turns /\ toHost[1].session = py.sessionOf[toHost[1].turn]
      BY <3>1 DEF TurnsInOrder
    <3>. QED
      BY <2>4, <3>2 DEF Turned, Stays
  <2>. QED
    BY <2>1, <2>2, <2>3, <2>4 DEF HostStep, Steady, Sounds, Hushes, Accepts, AcceptMove
<1>7. \A t \in 1 .. py.turns : py.sessionOf[t] <= py.session
  BY DEF SessionsKnown
<1>. QED
  BY <1>1, <1>3, <1>4, <1>5, <1>6, <1>7 DEF SessionsKnown

LEMMA HostTasks ==
    ASSUME Ready, TasksKnown, NEW d \in {0, 1}, HostStep(d)
    PROVE  TasksKnown'
<1>1. py' = py
  BY HostWires
<1>2. ASSUME NEW r \in Requests, host'.task[r].stage # "none"
      PROVE  /\ host'.task[r].turn \in 1 .. py.turns /\ py.sessionOf[host'.task[r].turn] = host'.task[r].session
             /\ r = py.stream => host'.task[r].turn = py.streamTurn
  <2>1. CASE host.task[r].stage # "none"
    BY <2>1, TasksGo DEF TasksKnown
  <2>2. CASE /\ d = 1 /\ Accepts(toHost[1]) /\ r = toHost[1].request
             /\ host'.task[r].turn = toHost[1].turn /\ host'.task[r].session = toHost[1].session
    <3>1. 1 \in Due /\ Asks(1)
      BY <2>2, HostWires DEF Accepts, Asks
    <3>. QED
      BY <2>2, <3>1 DEF TasksKnown
  <2>. QED
    BY <1>2, <2>1, <2>2, TasksGo
<1>3. ASSUME NEW i \in Due', Asks(i)'
      PROVE  /\ toHost'[i].turn \in 1 .. py.turns /\ py.sessionOf[toHost'[i].turn] = toHost'[i].session
             /\ toHost'[i].request = py.stream => toHost'[i].turn = py.streamTurn
  BY <1>3, HostWires DEF TasksKnown, Asks
<1>4. ASSUME NEW i \in Sent', host'.sent[i].kind = "playback_on"
      PROVE  host'.sent[i].request \in Requests /\ host'.task[host'.sent[i].request].stage # "none"
  <2>1. CASE i \in Sent
    <3>1. host'.sent[i] = host.sent[i]
      BY <2>1, HostWires
    <3>2. host.sent[i].request \in Requests /\ host.task[host.sent[i].request].stage # "none"
      BY <1>4, <2>1, <3>1 DEF TasksKnown
    <3>. QED
      BY <3>1, <3>2, TasksGo
  <2>2. CASE i \notin Sent
    <3>1. PICK r \in Requests : Sounds(r) /\ host'.sent[i].request = r
      BY <1>4, <2>2, HostWires, NewIs
    <3>2. host.task[r].stage # "none"
      BY <3>1 DEF Sounds
    <3>. QED
      BY <3>1, <3>2, TasksGo
  <2>. QED
    BY <2>1, <2>2
<1>. QED
  BY <1>1, <1>2, <1>3, <1>4 DEF TasksKnown

\* The turn of the host, and what it has to do for it.
LEMMA HostTurnIs ==
    ASSUME Ready, NEW d \in {0, 1}, HostStep(d)
    PROVE  /\ \/ SameTurn(host, host') \/ host'.turn = 0
              \/ Started /\ host'.turn = host.turn
              \/ d = 1 /\ Turned(toHost[1]) /\ host'.turn = toHost[1].turn
           /\ host'.requests # {} \/ host'.speaking =>
                 \/ host.requests # {} \/ host.speaking
                 \/ d = 1 /\ Accepts(toHost[1])
           /\ host'.requests # {} \/ host'.speaking => SameTurn(host, host') \/ Started
<1>1. CASE Steady
  BY <1>1 DEF Steady, Ran
<1>2. CASE \E r \in Requests : Sounds(r)
  BY <1>2 DEF Sounds
<1>3. CASE Hushes
  BY <1>3 DEF Hushes, Hushed, Ran
<1>4. CASE Halted
  BY <1>4 DEF Halted
<1>5. CASE Started
  BY <1>5 DEF Started
<1>6. CASE d = 1 /\ Turned(toHost[1])
  BY <1>6 DEF Turned, Hushed
<1>7. CASE d = 1 /\ Accepts(toHost[1])
  BY <1>7 DEF Accepts, AcceptMove
<1>. QED
  BY <1>1, <1>2, <1>3, <1>4, <1>5, <1>6, <1>7 DEF HostStep

LEMMA HostTurns ==
    ASSUME Ready, PySound, SessionsKnown, TasksKnown, TurnsInOrder, NEW d \in {0, 1}, HostStep(d)
    PROVE  TurnsInOrder'
<1>1. /\ host \in Host /\ host.turn \in Nat /\ host.session \in Nat /\ py.session \in Nat /\ py' = py
      /\ py.turns \in Nat /\ \A i \in Due : toHost[i].turn \in Nat /\ toHost[i].session \in Nat
  <2>1. host \in Host /\ py \in Py /\ host.session \in Nat /\ py' = py
    BY SessionIsNat, SentIs, HostWires
  <2>2. \A i \in Due : toHost[i].turn \in Nat /\ toHost[i].session \in Nat
    BY WireIs DEF Due, Events, Turns
  <2>. QED
    BY <2>1, <2>2 DEF Host, Py, Turns
<1>2. \A i \in Due' : toHost'[i].turn <= py.turns
  BY HostWires DEF TurnsInOrder
<1>3. ASSUME NEW i \in Due', NewTurn(i)'
      PROVE  /\ host'.turn < toHost'[i].turn /\ toHost'[i].session = py.sessionOf[toHost'[i].turn]
             /\ \A k \in Due' : k # i /\ toHost'[k].turn = toHost'[i].turn => i < k
             /\ \A k \in Due' : k > i /\ NewTurn(k)' => toHost'[i].turn < toHost'[k].turn
  <2>1. i \in Nat /\ i >= 1 /\ i + d \in Due /\ toHost'[i] = toHost[i + d] /\ NewTurn(i + d)
    BY <1>3, HostWires DEF NewTurn
  <2>2. host.turn < toHost[i + d].turn /\ toHost[i + d].session = py.sessionOf[toHost[i + d].turn]
    BY <2>1 DEF TurnsInOrder
  <2>3. host'.turn < toHost[i + d].turn
    <3>1. CASE d = 1 /\ Turned(toHost[1]) /\ host'.turn = toHost[1].turn
      <4>1. 1 \in Due /\ NewTurn(1) /\ i + d > 1
        BY <2>1, <3>1, HostWires DEF Turned, NewTurn
      <4>. QED
        BY <2>1, <3>1, <4>1 DEF TurnsInOrder
    <3>2. CASE host'.turn = 0
      BY <1>1, <2>1, <2>2, <3>2
    <3>3. CASE host'.turn = host.turn
      BY <2>2, <3>3
    <3>. QED
      BY <3>1, <3>2, <3>3, HostTurnIs DEF SameTurn
  <2>4. ASSUME NEW k \in Due', k # i, toHost'[k].turn = toHost'[i].turn PROVE i < k
    <3>1. k \in Nat /\ k + d \in Due /\ toHost'[k] = toHost[k + d] /\ d \in Nat
      BY HostWires
    <3>2. i + d < k + d
      BY <2>1, <2>4, <3>1 DEF TurnsInOrder
    <3>. QED
      BY <2>1, <3>1, <3>2
  <2>5. ASSUME NEW k \in Due', k > i, NewTurn(k)' PROVE toHost'[i].turn < toHost'[k].turn
    <3>1. k \in Nat /\ k + d \in Due /\ toHost'[k] = toHost[k + d] /\ NewTurn(k + d) /\ d \in Nat
      BY <2>5, HostWires DEF NewTurn
    <3>2. k + d > i + d
      BY <2>1, <2>5, <3>1
    <3>. QED
      BY <2>1, <3>1, <3>2 DEF TurnsInOrder
  <2>. QED
    BY <2>1, <2>2, <2>3, <2>4, <2>5
<1>4. \A i \in Due' : toHost'[i].kind = "cancel_turn" => toHost'[i].turn = 0 \/ toHost'[i].turn # py.turn
  BY HostWires DEF TurnsInOrder
<1>5. ASSUME Live'
      PROVE  host'.turn = py.turn \/ \E i \in Due' : NewTurn(i)' /\ toHost'[i].turn = py.turn
  <2>1. Live /\ host.session = py.session /\ host.active /\ (host.turn = py.turn => host'.turn = py.turn)
    BY <1>5, LiveStep
  <2>2. CASE host.turn = py.turn
    BY <2>1, <2>2
  <2>3. CASE \E i \in Due : NewTurn(i) /\ toHost[i].turn = py.turn
    <3>1. PICK i \in Due : NewTurn(i) /\ toHost[i].turn = py.turn
      BY <2>3
    <3>2. CASE i > d
      <4>1. i - d \in Due' /\ toHost'[i - d] = toHost[i]
        BY <3>2, HostWires
      <4>. QED
        BY <3>1, <4>1 DEF NewTurn
    <3>3. CASE ~(i > d)
      <4>1. i = 1 /\ d = 1 /\ Heeds(toHost[1])
        BY <3>3, HostWires
      <4>2. toHost[1].session = py.session
        BY <2>1, <3>1, <4>1 DEF TurnsInOrder, Live, PySound
      <4>3. Turned(toHost[1])
        BY <2>1, <3>1, <4>1, <4>2 DEF Heeds, NewTurn
      <4>. QED
        BY <3>1, <4>1, <4>3 DEF Turned
    <3>. QED
      BY <3>2, <3>3
  <2>. QED
    BY <2>1, <2>2, <2>3 DEF TurnsInOrder
<1>6. ASSUME host'.requests # {} \/ host'.speaking
      PROVE  /\ host'.turn # 0
             /\ py.turn = host'.turn \/ \E k \in Due' : Leaves(k, host.turn, host.session)'
  <2>1. CASE host.requests # {} \/ host.speaking
    <3>1. host.turn # 0 /\ host.active
      BY <2>1 DEF TurnsInOrder, SessionsKnown
    <3>2. SameTurn(host, host')
      BY <1>6, <3>1, HostTurnIs DEF Started
    <3>3. ASSUME NEW k \in Due, Leaves(k, host.turn, host.session) PROVE k > d
      <4>1. SUFFICES ASSUME ~(k > d) PROVE FALSE
        OBVIOUS
      <4>2. k = 1 /\ d = 1 /\ Heeds(toHost[1])
        BY <4>1, HostWires
      <4>3. ~Turned(toHost[1])
        BY <1>6 DEF Turned, Hushed
      <4>. QED
        BY <1>6, <3>1, <3>3, <4>2, <4>3 DEF Heeds, Leaves, NewTurn
    <3>4. ASSUME NEW k \in Due, Leaves(k, host.turn, host.session)
          PROVE  \E n \in Due' : Leaves(n, host.turn, host.session)'
      <4>1. k - d \in Due' /\ toHost'[k - d] = toHost[k]
        BY <3>3, <3>4, HostWires
      <4>2. Leaves(k - d, host.turn, host.session)'
        BY <3>2, <3>4, <4>1 DEF Leaves, NewTurn, SameTurn
      <4>. QED
        BY <4>1, <4>2
    <3>. QED
      BY <2>1, <3>1, <3>2, <3>4 DEF TurnsInOrder, SameTurn
  <2>2. CASE d = 1 /\ Accepts(toHost[1])
    <3>1. /\ 1 \in Due /\ Asks(1) /\ toHost[1].turn = host.turn /\ toHost[1].session = host.session
          /\ SameTurn(host, host')
      BY <2>2, HostWires DEF Accepts, AcceptMove, Asks
    <3>2. host.turn \in 1 .. py.turns /\ py.sessionOf[host.turn] = host.session
      BY <3>1 DEF TasksKnown
    <3>3. host.session <= py.session /\ py.session <= host.session
      BY <3>2 DEF SessionsKnown
    <3>4. host.turn # 0 /\ py.session = host.session
      BY <1>1, <3>2, <3>3
    <3>5. py.turn = host.turn \/ \E k \in Due : k > 1 /\ Leaves(k, host.turn, host.session)
      BY <3>1, <3>4 DEF TurnsInOrder
    <3>6. ASSUME NEW k \in Due, k > 1, Leaves(k, host.turn, host.session)
          PROVE  \E n \in Due' : Leaves(n, host.turn, host.session)'
      <4>1. k - 1 \in Due' /\ toHost'[k - 1] = toHost[k]
        BY <2>2, <3>6, HostWires
      <4>2. Leaves(k - 1, host.turn, host.session)'
        BY <3>1, <3>6, <4>1 DEF Leaves, NewTurn, SameTurn
      <4>. QED
        BY <4>1, <4>2
    <3>. QED
      BY <3>1, <3>4, <3>5, <3>6 DEF SameTurn
  <2>. QED
    BY <1>6, <2>1, <2>2, HostTurnIs
<1>7. ASSUME NEW i \in Due', Asks(i)'
      PROVE  \/ py.turn = toHost'[i].turn \/ py.session # toHost'[i].session
             \/ \E k \in Due' : k > i /\ Leaves(k, toHost[i].turn, toHost[i].session)'
  <2>1. i \in Nat /\ i >= 1 /\ i + d \in Due /\ toHost'[i] = toHost[i + d] /\ Asks(i + d)
    BY <1>7, HostWires DEF Asks
  <2>2. ASSUME NEW k \in Due, k > i + d, Leaves(k, toHost[i + d].turn, toHost[i + d].session)
        PROVE  \E n \in Due' : n > i /\ Leaves(n, toHost[i].turn, toHost[i].session)'
    <3>1. k > d /\ k \in Nat /\ d \in Nat
      BY <2>1, <2>2, HostWires
    <3>2. k - d \in Due' /\ toHost'[k - d] = toHost[k] /\ k - d > i
      BY <2>1, <2>2, <3>1, HostWires
    <3>3. Leaves(k - d, toHost[i].turn, toHost[i].session)'
      BY <2>1, <2>2, <3>2 DEF Leaves, NewTurn
    <3>. QED
      BY <3>2, <3>3
  <2>. QED
    BY <2>1, <2>2 DEF TurnsInOrder
<1>. QED
  BY <1>1, <1>2, <1>3, <1>4, <1>5, <1>6, <1>7 DEF TurnsInOrder

LEMMA HostGiven ==
    ASSUME Ready, PySound, SessionsKnown, TasksKnown, TurnsInOrder, Given, NEW d \in {0, 1}, HostStep(d)
    PROVE  Given'
<1>1. SUFFICES ASSUME Live' PROVE Given'
  BY DEF Given
<1>2. py' = py /\ Live
  BY <1>1, HostWires, LiveStep
<1>3. ASSUME NEW r \in host'.requests, r # py.stream, host'.task[r].turn = py.turn PROVE Failing'
  <2>1. CASE r \in host.requests
    <3>1. r \in Requests /\ host.task[r].stage # "none"
      BY <2>1, SentIs, TasksAre DEF Host
    <3>2. Failing
      BY <1>2, <1>3, <2>1, <3>1, TasksGo DEF Given
    <3>. QED
      BY <1>1, <3>2, HostFailing
  <2>2. CASE d = 1 /\ Accepts(toHost[1]) /\ r = toHost[1].request
    <3>1. 1 \in Due /\ Asks(1) /\ host'.task[r].turn = toHost[1].turn
      BY <2>2, HostWires DEF Accepts, AcceptMove, Asks
    <3>2. Failing
      BY <1>2, <1>3, <2>2, <3>1 DEF Given
    <3>. QED
      BY <1>1, <3>2, HostFailing
  <2>. QED
    BY <2>1, <2>2, TasksGo
<1>4. ASSUME NEW i \in Due', Asks(i)', toHost'[i].request # py.stream, toHost'[i].turn = py.turn PROVE Failing'
  <2>1. i + d \in Due /\ toHost'[i] = toHost[i + d]
    BY HostWires
  <2>2. Failing
    BY <1>2, <1>4, <2>1 DEF Given, Asks
  <2>. QED
    BY <1>1, <2>2, HostFailing
<1>. QED
  BY <1>2, <1>3, <1>4 DEF Given

\* A sentence that holds the player and fails is the one of the turn that fails.
LEMMA FailsIs ==
    ASSUME Ready, PySound, SessionsKnown, TasksKnown, TurnsInOrder, Given, NEW d \in {0, 1}, HostStep(d),
           Live', Joined, host.speechRequest # 0, Fails(host.speechRequest)
    PROVE  Failing'
<1>. DEFINE q == host.speechRequest
<1>1. q \in host.requests /\ q \in Requests
  BY SentIs DEF Ready, PlayerOwned, Host
<1>2. host.task[q].stage # "none" /\ host.task[q].stage # "ended" /\ host.task[q].turn = py.turn
  BY <1>1, TasksAre DEF Ready, Owned, Joined
<1>3. CASE q # py.stream
  <2>1. Failing
    BY <1>1, <1>2, <1>3 DEF Given, Joined
  <2>. QED
    BY <2>1, HostFailing
<1>4. CASE q = py.stream
  <2>1. py.streamTurn = py.turn /\ py.stream # 0 /\ py' = py
    BY <1>1, <1>2, <1>4, HostWires DEF TasksKnown
  <2>2. Ends(py.stream)'
    BY <1>1, <1>4, <2>1 DEF Fails, Ends
  <2>3. ~Ends(py.stream)
    BY <1>2, <1>4 DEF Ends
  <2>4. \A i \in Sent' : ~(host'.sent[i].kind = "done" /\ host'.sent[i].request = py.stream)
    <3>1. SUFFICES ASSUME NEW i \in Sent', host'.sent[i].kind = "done", host'.sent[i].request = py.stream
                   PROVE  FALSE
      OBVIOUS
    <3>2. CASE i \in Sent
      BY <2>3, <3>1, <3>2, HostWires DEF Ready, DoneEnded, Sent
    <3>3. CASE i \notin Sent
      BY <3>1, <3>3, HostWires DEF Fails
    <3>. QED
      BY <3>2, <3>3
  <2>5. py.result # "done" /\ py.result \in {"none", "done", "error"}
    BY <2>3, SentIs DEF Ready, DoneEnded, Py
  <2>6. \E i \in Sent' : host'.sent[i].kind = "error" /\ host'.sent[i].request = py.stream
    <3>1. PICK i : New(i) /\ host'.sent[i].request = q
      BY DEF Fails
    <3>2. host'.sent[i].kind = "error" /\ i \in Sent'
      BY <3>1, HostWires DEF Fails
    <3>. QED
      BY <1>4, <3>1, <3>2
  <2>7. Broken'
    BY <2>1, <2>2, <2>4, <2>5, <2>6 DEF Broken
  <2>. QED
    BY <2>7 DEF Failing
<1>. QED
  BY <1>3, <1>4

LEMMA HostStillOn ==
    ASSUME Ready, PySound, SessionsKnown, TasksKnown, TurnsInOrder, Given, StillOn,
           NEW d \in {0, 1}, HostStep(d)
    PROVE  StillOn'
<1>1. SUFFICES ASSUME Joined', host'.speaking,
                      host'.speechRequest = 0 \/ (host'.speechRequest # 0 /\ host'.speechRequest = py'.stream),
                      ~Failing'
               PROVE  /\ host'.speechRequest # 0
                      /\ \/ py.speaking = py.stream /\ \A i \in Sent' : ~Off(i, py.stream)'
                         \/ \E i \in Sent' : On(i, py.stream)' /\ \A j \in Sent' : j > i => ~Off(j, py.stream)'
  <2>1. py' = py
    BY HostWires
  <2>. QED
    BY <2>1 DEF StillOn
<1>2. /\ py' = py /\ Live /\ Live' /\ host.session = py.session /\ host'.turn = py.turn
      /\ host.speechRequest \in Nat
  BY <1>1, HostWires, LiveStep, SessionIsNat DEF Joined
<1>3. ~Failing
  BY <1>1, <1>2, HostFailing
<1>4. host.turn = py.turn
  <2>1. ~Turned(toHost[1]) /\ ~Started
    BY <1>1, <1>2, LiveStep DEF Turned, Hushed, Started
  <2>2. SameTurn(host, host')
    BY <1>1, <2>1, HostTurnIs
  <2>. QED
    BY <1>2, <2>2 DEF SameTurn
<1>5. Joined
  BY <1>2, <1>4 DEF Joined
<1>6. CASE Steady
  <2>1. host.speaking
    BY <1>1, <1>6 DEF Steady
  <2>2. host.speechRequest # 0
    BY <1>3, <1>5, <2>1 DEF StillOn
  <2>3. ~Fails(host.speechRequest)
    BY <1>1, <1>2, <1>5, <2>2, FailsIs
  <2>4. host'.speechRequest = host.speechRequest
    BY <1>6, <2>1, <2>2, <2>3 DEF Steady
  <2>5. /\ host.speechRequest = py.stream
        /\ \/ py.speaking = py.stream /\ \A i \in Sent : ~Off(i, py.stream)
           \/ \E i \in Sent : On(i, py.stream) /\ \A j \in Sent : j > i => ~Off(j, py.stream)
    BY <1>1, <1>2, <1>3, <1>5, <2>1, <2>2, <2>4 DEF StillOn
  <2>6. \A i \in Sent' : Off(i, py.stream)' => i \in Sent /\ Off(i, py.stream)
    <3>1. SUFFICES ASSUME NEW i \in Sent', Off(i, py.stream)' PROVE i \in Sent /\ Off(i, py.stream)
      OBVIOUS
    <3>2. i \in Sent
      <4>1. i \notin Sent => host'.sent[i].kind \in {"done", "error"}
        BY <1>6, HostWires DEF Steady
      <4>. QED
        BY <3>1, <4>1 DEF Off
    <3>. QED
      BY <1>2, <3>1, <3>2, HostWires DEF Off
  <2>7. \A i \in Sent : On(i, py.stream) => i \in Sent' /\ On(i, py.stream)'
    BY <1>2, HostWires DEF On
  <2>. QED
    BY <2>2, <2>4, <2>5, <2>6, <2>7
<1>7. CASE \E r \in Requests : Sounds(r)
  <2>1. PICK r \in Requests : Sounds(r)
    BY <1>7
  <2>2. host'.speechRequest = r /\ r # 0 /\ r = py.stream
    BY <1>1, <1>2, <2>1 DEF Sounds, Requests
  <2>3. PICK i : New(i)
    BY <2>1, SoundsAdds
  <2>4. i \in Sent' /\ On(i, py.stream)'
    BY <1>2, <2>1, <2>2, <2>3, SoundsAdds, HostWires DEF On
  <2>5. ASSUME NEW j \in Sent', j > i PROVE ~Off(j, py.stream)'
    <3>1. j \notin Sent
      BY <2>3, <2>4, <2>5, HostWires
    <3>. QED
      BY <2>1, <3>1, HostWires, SoundsAdds DEF Off
  <2>. QED
    BY <2>2, <2>4, <2>5
<1>8. CASE Hushes
  BY <1>1, <1>8 DEF Hushes, Hushed
<1>9. CASE d = 1 /\ Accepts(toHost[1])
  <2>1. host'.speaking = host.speaking /\ host'.sent = host.sent /\ host'.speechRequest = host.speechRequest
    BY <1>9 DEF Accepts, AcceptMove
  <2>2. host.speechRequest # 0 /\ host.speechRequest = py.stream
    BY <1>1, <1>2, <1>3, <1>5, <2>1 DEF StillOn
  <2>. QED
    BY <1>1, <1>2, <1>3, <1>5, <2>1, <2>2 DEF StillOn, On, Off, Sent
<1>. QED
  BY <1>2, <1>4, <1>6, <1>7, <1>8, <1>9, LiveStep

\* What has been silenced is said to be silent, unless the sentence has failed.
LEMMA PlaysOn ==
    ASSUME Ready, PySound, SessionsKnown, TasksKnown, TurnsInOrder, Given, NEW d \in {0, 1}, HostStep(d),
           Live', Joined, NEW q, q # 0, host.speaking, host.speechRequest = q
    PROVE  \/ Failing' \/ (host'.speaking /\ host'.speechRequest = q)
           \/ \E j : New(j) /\ Off(j, q)'
<1>1. py' = py /\ host.session = py.session
  BY HostWires, LiveStep
<1>2. CASE Steady
  BY <1>2, FailsIs DEF Steady
<1>3. CASE \E r \in Requests : Sounds(r)
  BY <1>3 DEF Sounds
<1>4. CASE Hushes
  <2>1. /\ \E i : New(i)
        /\ \A i : New(i) => /\ host'.sent[i].kind = "playback_off"
                            /\ host'.sent[i].request = host.speechRequest /\ host'.sent[i].session = host.session
    BY <1>4, HushedAdds DEF Hushes
  <2>. QED
    BY <1>1, <2>1 DEF Off
<1>5. CASE d = 1 /\ Accepts(toHost[1])
  BY <1>5 DEF Accepts, AcceptMove
<1>. QED
  BY <1>2, <1>3, <1>4, <1>5, LiveStep DEF Joined

LEMMA HostBacked ==
    ASSUME Ready, PySound, SessionsKnown, TasksKnown, TurnsInOrder, Given, Backed,
           NEW d \in {0, 1}, HostStep(d)
    PROVE  Backed'
<1>1. SUFFICES ASSUME Live', ~Failing' PROVE Backed'
  <2>1. CASE ~Failing'
    BY <2>1 DEF Backed
  <2>2. CASE Failing' /\ Live'
    <3>1. py' = py /\ Live /\ (host.turn = py.turn => host'.turn = py.turn)
      BY <2>2, HostWires, LiveStep
    <3>2. ASSUME NEW i \in Sent', py.stream # 0, On(i, py.stream)', py.streamTurn = py.turn
          PROVE  host.turn = py.turn
      <4>1. CASE i \in Sent
        BY <3>1, <3>2, <4>1, HostWires DEF On, Backed
      <4>2. CASE i \notin Sent
        <5>1. PICK r \in Requests : Sounds(r) /\ r = py.stream
          BY <3>2, <4>2, HostWires, NewIs DEF On
        <5>2. r \in host.requests /\ host.task[r].stage # "none"
          BY <5>1 DEF Sounds
        <5>. QED
          BY <3>2, <5>1, <5>2 DEF Ready, Owned, TasksKnown
      <4>. QED
        BY <4>1, <4>2
    <3>. QED
      BY <2>2, <3>1, <3>2 DEF Backed
  <2>. QED
    BY <2>1, <2>2 DEF Backed
<1>2. /\ py' = py /\ Live /\ host.session = py.session /\ (host.turn = py.turn => host'.turn = py.turn)
  BY <1>1, HostWires, LiveStep
<1>3. ~Failing
  BY <1>1, HostFailing
<1>4. ASSUME py.speaking # 0, py.speakingTurn = py.turn
      PROVE  /\ host'.turn = py.turn
             /\ \/ \E j \in Sent' : Off(j, py.speaking)'
                \/ host'.speaking /\ host'.speechRequest = py.speaking
  <2>1. host.turn = py.turn
    BY <1>2, <1>4 DEF Backed
  <2>2. CASE \E j \in Sent : Off(j, py.speaking)
    BY <1>2, <2>1, <2>2, HostWires DEF Off
  <2>3. CASE host.speaking /\ host.speechRequest = py.speaking
    <3>1. \/ (host'.speaking /\ host'.speechRequest = py.speaking)
          \/ \E j : New(j) /\ Off(j, py.speaking)'
      BY <1>1, <1>2, <1>4, <2>1, <2>3, PlaysOn DEF Joined
    <3>. QED
      BY <1>2, <2>1, <3>1, HostWires
  <2>. QED
    BY <1>2, <1>3, <1>4, <2>2, <2>3 DEF Backed
<1>5. ASSUME NEW i \in Sent', py.stream # 0, On(i, py.stream)', py.streamTurn = py.turn
      PROVE  /\ host'.turn = py.turn
             /\ \/ \E j \in Sent' : j > i /\ Off(j, py.stream)'
                \/ host'.speaking /\ host'.speechRequest = py.stream
  <2>1. CASE i \in Sent
    <3>1. On(i, py.stream)
      BY <1>2, <1>5, <2>1, HostWires DEF On
    <3>2. host.turn = py.turn
      BY <1>2, <1>5, <2>1, <3>1 DEF Backed
    <3>3. CASE \E j \in Sent : j > i /\ Off(j, py.stream)
      BY <1>2, <3>2, <3>3, HostWires DEF Off
    <3>4. CASE host.speaking /\ host.speechRequest = py.stream
      <4>1. \/ (host'.speaking /\ host'.speechRequest = py.stream)
            \/ \E j : New(j) /\ Off(j, py.stream)'
        BY <1>1, <1>2, <1>5, <3>2, <3>4, PlaysOn DEF Joined
      <4>2. \A j : New(j) => j \in Sent' /\ j > i
        BY <2>1, HostWires
      <4>. QED
        BY <1>2, <3>2, <4>1, <4>2
    <3>. QED
      BY <1>2, <1>3, <1>5, <2>1, <3>1, <3>3, <3>4 DEF Backed
  <2>2. CASE i \notin Sent
    <3>1. PICK r \in Requests : Sounds(r) /\ r = py.stream
      BY <1>2, <1>5, <2>2, HostWires, NewIs DEF On
    <3>2. r \in host.requests /\ host.task[r].stage # "none"
      BY <3>1 DEF Sounds
    <3>3. host.turn = py.turn
      BY <1>5, <3>1, <3>2 DEF Ready, Owned, TasksKnown
    <3>. QED
      BY <1>2, <3>1, <3>3 DEF Sounds
  <2>. QED
    BY <2>1, <2>2
<1>. QED
  BY <1>2, <1>4, <1>5 DEF Backed

LEMMA HostScreen ==
    ASSUME Ready, PySound, SessionsKnown, TurnsInOrder, Backed, Screen, NEW d \in {0, 1}, HostStep(d)
    PROVE  Screen'
<1>1. py' = py /\ (d = 1 => 1 \in Due /\ Heeds(toHost[1]))
  BY HostWires
<1>2. ASSUME NEW k \in Due, NEW t, Hides(k, t), k > d PROVE k - d \in Due' /\ Hides(k - d, t)'
  BY <1>2, HostWires DEF Hides
<1>3. \A i \in Due' : toHost'[i].kind \in {"bot_started", "bot_stopped"} =>
         toHost'[i].turn # 0 /\ py.sessionOf[toHost'[i].turn] = toHost'[i].session
  BY HostWires DEF Screen
<1>4. ASSUME host'.botSpeaking
      PROVE  /\ host'.active /\ host'.botTurn \in 1 .. py.turns /\ py.sessionOf[host'.botTurn] = host'.session
             /\ Voice(host'.botTurn) \/ \E i \in Due' : Hides(i, host.botTurn)'
  <2>1. CASE SameVisible
    <3>1. host.botSpeaking /\ host'.botTurn = host.botTurn
      BY <1>4, <2>1 DEF SameVisible, SameScreen
    <3>2. /\ host.active /\ host.botTurn \in 1 .. py.turns /\ py.sessionOf[host.botTurn] = host.session
          /\ Voice(host.botTurn) \/ \E i \in Due : Hides(i, host.botTurn)
      BY <3>1 DEF Screen
    <3>3. Stays
      BY <1>4, <3>2, HostWires DEF Halted, Started
    <3>4. ASSUME NEW k \in Due, Hides(k, host.botTurn) PROVE k > d
      <4>1. SUFFICES ASSUME ~(k > d) PROVE FALSE
        OBVIOUS
      <4>2. k = 1 /\ d = 1 /\ Heeds(toHost[1])
        BY <4>1, HostWires
      <4>3. toHost[1].session = host.session
        BY <3>2, <3>4, <4>2 DEF Hides, Screen
      <4>. QED
        BY <1>4, <3>2, <3>4, <4>2, <4>3 DEF Heeds, Hides
    <3>. QED
      BY <1>2, <3>1, <3>2, <3>3, <3>4 DEF Stays
  <2>2. CASE d = 1 /\ Stays /\ Shown(toHost[1])
    <3>1. 1 \in Due /\ toHost[1].kind = "bot_started" /\ host'.botTurn = toHost[1].turn
      BY <1>1, <2>2 DEF Shown
    <3>2. toHost[1].turn \in 1 .. py.turns
      <4>1. toHost[1].turn # 0 /\ toHost[1].turn <= py.turns
        BY <3>1 DEF Screen, TurnsInOrder
      <4>2. toHost[1].turn \in Nat
        BY <3>1, WireIs DEF Due, Events, Turns
      <4>. QED
        BY <4>1, <4>2
    <3>3. py.sessionOf[toHost[1].turn] = host'.session /\ host'.active
      BY <2>2, <3>1 DEF Screen, Shown, Stays
    <3>4. Voice(toHost[1].turn) \/ \E j \in Due : j > 1 /\ Hides(j, toHost[1].turn)
      BY <3>1 DEF Screen
    <3>5. Voice(toHost[1].turn) \/ \E j \in Due' : Hides(j, host.botTurn)'
      <4>1. ASSUME NEW j \in Due, j > 1, Hides(j, toHost[1].turn) PROVE \E n \in Due' : Hides(n, host.botTurn)'
        <5>1. j - 1 \in Due' /\ toHost'[j - 1] = toHost[j]
          BY <2>2, <4>1, HostWires
        <5>. QED
          BY <3>1, <4>1, <5>1 DEF Hides
      <4>. QED
        BY <3>4, <4>1
    <3>. QED
      BY <3>1, <3>2, <3>3, <3>5
  <2>3. CASE d = 1 /\ Concealed(toHost[1])
    BY <1>4, <2>3 DEF Concealed
  <2>4. CASE Halted
    BY <1>4, <2>4 DEF Halted
  <2>. QED
    BY <2>1, <2>2, <2>3, <2>4 DEF HostStep
<1>5. ASSUME NEW i \in Due', toHost'[i].kind = "bot_started"
      PROVE  Voice(toHost'[i].turn) \/ \E j \in Due' : j > i /\ Hides(j, toHost[i].turn)'
  <2>1. i \in Nat /\ i >= 1 /\ i + d \in Due /\ toHost'[i] = toHost[i + d] /\ d \in Nat
    BY HostWires
  <2>2. ASSUME NEW j \in Due, j > i + d, Hides(j, toHost[i + d].turn)
        PROVE  \E n \in Due' : n > i /\ Hides(n, toHost[i].turn)'
    <3>1. j \in Nat /\ j > d
      BY <2>1, <2>2, HostWires
    <3>2. j - d \in Due' /\ toHost'[j - d] = toHost[j] /\ j - d > i
      BY <2>1, <2>2, <3>1, HostWires
    <3>. QED
      BY <2>1, <2>2, <3>2 DEF Hides
  <2>. QED
    BY <1>5, <2>1, <2>2 DEF Screen
<1>6. ASSUME Live', Voice(py.turn)
      PROVE  \/ /\ host'.botSpeaking /\ host'.botTurn = py.turn
                /\ \A i \in Due' : ~Hides(i, py.turn)'
             \/ \E i \in Due' : Shows(i, py.turn)' /\ \A j \in Due' : j > i => ~Hides(j, py.turn)'
  <2>1. Live /\ Stays /\ host.session = py.session /\ host.active /\ host.turn = py.turn
    BY <1>6, LiveStep DEF Backed, Voice
  <2>2. ~Halted
    BY <1>1, <1>6, <2>1 DEF Live, Doomed, Halts, Halted, New, Fresh, Sent
  <2>3. CASE /\ host.botSpeaking /\ host.botTurn = py.turn
             /\ \A i \in Due : ~Hides(i, py.turn)
    <3>1. \A i \in Due' : ~Hides(i, py.turn)'
      BY <1>1, <2>3, HostWires DEF Hides
    <3>2. host'.botSpeaking /\ host'.botTurn = py.turn
      <4>1. CASE SameVisible
        BY <2>3, <4>1 DEF SameVisible, SameScreen
      <4>2. CASE d = 1 /\ Shown(toHost[1])
        BY <2>1, <4>2 DEF Shown
      <4>3. CASE d = 1 /\ Concealed(toHost[1])
        BY <1>1, <2>3, <4>3 DEF Concealed, Hides
      <4>. QED
        BY <2>2, <4>1, <4>2, <4>3 DEF HostStep
    <3>. QED
      BY <3>1, <3>2
  <2>4. CASE \E i \in Due : Shows(i, py.turn) /\ \A j \in Due : j > i => ~Hides(j, py.turn)
    <3>1. PICK i \in Due : Shows(i, py.turn) /\ \A j \in Due : j > i => ~Hides(j, py.turn)
      BY <2>4
    <3>2. CASE i > d
      <4>1. i - d \in Due' /\ toHost'[i - d] = toHost[i] /\ i \in Nat /\ d \in Nat
        BY <3>2, HostWires
      <4>2. Shows(i - d, py.turn)'
        BY <1>1, <3>1, <4>1 DEF Shows
      <4>3. ASSUME NEW j \in Due', j > i - d PROVE ~Hides(j, py.turn)'
        <5>1. j \in Nat /\ j + d \in Due /\ toHost'[j] = toHost[j + d]
          BY HostWires
        <5>2. j + d > i
          BY <4>1, <4>3, <5>1
        <5>. QED
          BY <1>1, <3>1, <5>1, <5>2 DEF Hides
      <4>. QED
        BY <4>1, <4>2, <4>3
    <3>3. CASE ~(i > d)
      <4>1. i = 1 /\ d = 1 /\ Heeds(toHost[1])
        BY <3>3, HostWires
      <4>2. toHost[1].session = host.session
        BY <2>1, <3>1, <4>1 DEF Shows, Screen, Live, PySound
      <4>3. Shown(toHost[1])
        BY <2>1, <3>1, <4>1, <4>2 DEF Heeds, Shows
      <4>4. ASSUME NEW j \in Due' PROVE ~Hides(j, py.turn)'
        <5>1. j \in Nat /\ j >= 1 /\ j + 1 \in Due /\ toHost'[j] = toHost[j + 1]
          BY <4>1, HostWires
        <5>2. j + 1 > 1
          BY <5>1
        <5>. QED
          BY <1>1, <3>1, <4>1, <5>1, <5>2 DEF Hides
      <4>. QED
        BY <3>1, <4>1, <4>3, <4>4 DEF Shown, Shows
    <3>. QED
      BY <3>2, <3>3
  <2>. QED
    BY <1>6, <2>1, <2>3, <2>4 DEF Screen
<1>. QED
  BY <1>1, <1>3, <1>4, <1>5, <1>6 DEF Screen, Voice

\* What plays is drained when its sentence completes.
Drained == \A r \in host.requests : host.task[r].stage = "completing" => host.pending = 0

LEMMA StillDrained ==
    ASSUME Ready, Drained, host'.pending = host.pending \/ host'.pending = 0,
           \A r \in host'.requests : host'.task[r].stage = "completing" =>
               r \in host.requests /\ host.task[r].stage = "completing"
    PROVE  Drained'
BY DEF Drained

LEMMA MovesDrain ==
    ASSUME Ready, TypeOK', Moves, Drained
    PROVE  Drained'
<1>0. host.requests \subseteq Requests /\ host'.requests \subseteq Requests /\ host'.pending \in Nat
  BY SentIs DEF Host, TypeOK
<1>1. ASSUME NEW r \in Requests, Over(r) \/ Begun(r) \/ Unwound(r, TRUE) \/ Unwound(r, FALSE) \/ Queued(r)
      PROVE  Drained'
  <2>1. /\ host'.pending = host.pending /\ host'.requests \subseteq host.requests
        /\ \E stage \in {"ended", "synthesizing", "unwinding", "streaming"} : \E error :
              TaskAt(host, host', r, stage, error)
    BY <1>1 DEF Over, Begun, Unwound, Queued, TaskStep, SamePlayer, SameRequests
  <2>2. \A q \in Requests : host'.task[q].stage = "completing" => host.task[q].stage = "completing"
    BY <2>1 DEF TaskAt
  <2>. QED
    BY <1>0, <2>1, <2>2, StillDrained
<1>2. ASSUME NEW r \in Requests, Finished(r)
      PROVE  Drained'
  <2>1. /\ host'.pending = host.pending /\ host'.requests = host.requests
        /\ TaskAt(host, host', r, IF host.pending = 0 THEN "completing" ELSE "finishing", host.task[r].error)
    BY <1>2 DEF Finished, TaskStep, SameRequests
  <2>2. CASE host.pending = 0
    BY <2>1, <2>2 DEF Drained
  <2>3. CASE host.pending # 0
    <3>1. \A q \in Requests : host'.task[q].stage = "completing" => host.task[q].stage = "completing"
      BY <2>1, <2>3 DEF TaskAt
    <3>. QED
      BY <1>0, <2>1, <3>1, StillDrained
  <2>. QED
    BY <2>2, <2>3
<1>3. ASSUME NEW r \in Requests, Took(r)
      PROVE  Drained'
  <2>1. host.task[r].stage = "streaming" /\ r \in host.requests /\ host'.task = host.task
        /\ host'.requests = host.requests
    BY <1>3 DEF Took, SameRequests
  <2>2. \A q \in host.requests : q = r
    BY <2>1, OneOpen
  <2>. QED
    BY <2>1, <2>2 DEF Drained
<1>4. ASSUME NEW r \in Requests, Synthesized(r)
      PROVE  Drained'
  BY <1>4 DEF Synthesized, Drained
<1>5. CASE CalledBack
  <2>1. CASE host' = host
    BY <2>1 DEF Drained
  <2>2. CASE host' # host
    <3>1. /\ SameRequests(host, host') /\ host'.pending = host.pending - 1 /\ host.pending \in Nat
          /\ ~(host.pending = 1 /\ host.waiter # 0) => host'.task = host.task
      BY <1>5, <2>2, SentIs DEF CalledBack, Host
    <3>2. CASE host.pending = 1
      BY <3>1, <3>2 DEF Drained
    <3>3. CASE host.pending # 1
      <4>1. host.pending # 0
        BY <1>0, <3>1
      <4>. QED
        BY <3>1, <3>3, <4>1 DEF Drained, SameRequests
    <3>. QED
      BY <3>2, <3>3
  <2>. QED
    BY <2>1, <2>2
<1>6. CASE Quieted
  BY <1>6, StillDrained DEF Quieted, QuietMove, SameRequests
<1>7. CASE Silencing(host.requests)
  BY <1>7 DEF Silencing, CutMove, Cleared, PlayerSilent, Drained
<1>. QED
  BY <1>1, <1>2, <1>3, <1>4, <1>5, <1>6, <1>7 DEF Moves

LEMMA HandledDrain ==
    ASSUME Ready, TypeOK', NEW m \in Events, Handled(m), Drained
    PROVE  Drained'
<1>0. host.requests \subseteq Requests /\ host'.requests \subseteq Requests
  BY SentIs DEF Host, TypeOK
<1>1. CASE Quieted
  BY <1>1, StillDrained DEF Quieted, QuietMove, SameRequests
<1>2. ASSUME NEW ids \in SUBSET host.requests, Silencing(ids)
      PROVE  Drained'
  BY <1>2 DEF Silencing, CutMove, Cleared, PlayerSilent, Drained
<1>3. ASSUME NEW ids \in SUBSET host.requests, Early(ids)
      PROVE  Drained'
  <2>1. host'.pending = host.pending /\ host'.requests \subseteq host.requests
        /\ \A q \in Requests : host'.task[q].stage = host.task[q].stage
    BY <1>3 DEF Early, EarlyMove, Struck, Marked
  <2>. QED
    BY <1>0, <2>1, StillDrained
<1>4. CASE m.kind = "request" /\ Accepted(m)
  <2>1. /\ host'.pending = host.pending /\ host'.requests = host.requests \cup {m.request}
        /\ \A q \in Requests \ {m.request} : host'.task[q] = host.task[q]
        /\ host'.task[m.request].stage = "created"
    BY <1>4 DEF Accepted, AcceptMove, SamePlayer
  <2>. QED
    BY <1>0, <2>1, StillDrained
<1>. QED
  BY <1>1, <1>2, <1>3, <1>4 DEF Handled

\* The first clause, from what is seen of the step.
LEMMA HostSustains ==
    ASSUME Ready, Sustained, NEW d \in {0, 1}, HostStep(d)
    PROVE  host'.speaking => host'.pending > 0
BY DEF HostStep, Steady, Sounds, Hushes, Halted, Started, Turned, Accepts, AcceptMove, SamePlayer, Hushed, Sustained

LEMMA NextDrained == ASSUME Ready, Drained, Next PROVE Drained'
<1>1. TypeOK' /\ (Moves \/ Played \/ (\E m \in Events : Handled(m)) \/ PyStep)
  BY Steps
<1>2. CASE Played
  BY <1>2 DEF Played, Drained
<1>3. CASE PyStep
  BY <1>3, StillDrained DEF PyStep, QuietMove, SameRequests
<1>. QED
  BY <1>1, <1>2, <1>3, MovesDrain, HandledDrain

-----------------------------------------------------------------------------
(* Python's steps keep the agreement.                                        *)

First == host.sent[1]
Anew(i) == Fresh(toHost, toHost', i)
Takes == Answers(First) \/ Opens(First) \/ Ignores(First) \/ SoundOn(First) \/ SoundOff(First) \/ Halting(First)

\* What is new on the wire to the host.
Sends(i) ==
    \/ Begins /\ toHost'[i].kind = "user_turn" /\ toHost'[i].turn = py.turns + 1 /\ toHost'[i].session = py.session
    \/ Departs /\ toHost'[i].kind = "cancel_turn" /\ toHost'[i].turn = py.turn /\ toHost'[i].session = py.session
    \/ toHost'[i].kind = "cancel_request" /\ toHost'[i].turn = py.streamTurn
    \/ /\ LeavesTransport \/ SoundOff(First)
       /\ toHost'[i].kind = "bot_stopped" /\ py.speaking # 0 /\ toHost'[i].turn = py.speakingTurn
       /\ toHost'[i].session = SessionOf(py, py.speakingTurn)
    \/ /\ Speaks /\ toHost'[i].kind = "request" /\ toHost'[i].request = py.requested + 1
       /\ toHost'[i].turn = py.turn /\ toHost'[i].session = SessionOf(py, py.turn)
    \/ Reports /\ toHost'[i].kind = "error" /\ toHost'[i].turn = py.turn
    \/ /\ SoundOn(First) /\ 1 \in Sent /\ toHost'[i].kind = "bot_started" /\ toHost'[i].turn = py.turn
       /\ toHost'[i].session = SessionOf(py, py.turn)

LEMMA PyWires ==
    ASSUME Ready, PyMove
    PROVE  /\ HostKept
           /\ \/ /\ SentShift(0)
                 /\ \/ Begins \/ Rests \/ Departs \/ LeavesTTS \/ LeavesTransport \/ Speaks \/ Completes
                    \/ GivesUp \/ Reports
              \/ SentShift(1) /\ 1 \in Sent /\ Takes
           /\ \A i \in Due : i \in Nat /\ i \in Due' /\ toHost'[i] = toHost[i]
           /\ \A i \in Due' : i \in Nat /\ (i \notin Due => Anew(i) /\ Sends(i))
           /\ \A i \in Due' : i \notin Due => \A j \in Due : j < i
           /\ \A i, j \in Due' : i \notin Due /\ j \notin Due => i = j
           /\ \A i : Anew(i) => i \in Due' /\ i \notin Due
<1>1. /\ HostKept
      /\ \/ /\ SentShift(0)
            /\ \/ Begins \/ Rests \/ Departs \/ LeavesTTS \/ LeavesTransport \/ Speaks \/ Completes
               \/ GivesUp \/ Reports
         \/ SentShift(1) /\ 1 \in Sent /\ Takes
  BY DEF PyMove, Takes, First
<1>2. ASSUME Mute
      PROVE  Grows(toHost, toHost') /\ \A i : ~Anew(i)
  BY <1>2 DEF Mute, Anew
<1>3. ASSUME NEW kind, NEW request, NEW turn, NEW session, Says(kind, request, turn, session)
      PROVE  /\ Grows(toHost, toHost') /\ \A i, j : Anew(i) /\ Anew(j) => i = j
             /\ \A i : Anew(i) =>
                   /\ toHost'[i].kind = kind /\ toHost'[i].request = request
                   /\ toHost'[i].turn = turn /\ toHost'[i].session = session
  BY <1>3 DEF Says, Anew
<1>. DEFINE Fine == /\ Grows(toHost, toHost') /\ \A i, j : Anew(i) /\ Anew(j) => i = j
                    /\ \A i : Anew(i) => Sends(i)
<1>4. Fine
  <2>1. CASE Begins
    BY <1>3, <2>1 DEF Begins, Sends
  <2>2. CASE Rests \/ Completes \/ Answers(First) \/ Ignores(First) \/ Halting(First)
    BY <1>2, <2>2 DEF Rests, Completes, Answers, Ignores, Halting
  <2>3. CASE Departs
    BY <1>3, <2>3 DEF Departs, Sends
  <2>4. CASE LeavesTTS \/ GivesUp \/ Opens(First)
    <3>1. Recants
      BY <2>4 DEF LeavesTTS, GivesUp, Opens
    <3>. QED
      BY <1>2, <1>3, <3>1 DEF Recants, Sends
  <2>5. CASE LeavesTransport \/ SoundOff(First)
    <3>1. Hushing
      BY <2>5 DEF LeavesTransport, SoundOff
    <3>2. CASE py.speaking = 0
      BY <1>2, <3>1, <3>2 DEF Hushing
    <3>3. CASE py.speaking # 0
      BY <1>3, <2>5, <3>1, <3>3 DEF Hushing, Sends
    <3>. QED
      BY <3>2, <3>3
  <2>6. CASE Speaks
    BY <1>3, <2>6 DEF Speaks, Sends
  <2>7. CASE Reports
    BY <1>2, <1>3, <2>7 DEF Reports, Sends
  <2>8. CASE SoundOn(First) /\ 1 \in Sent
    BY <1>3, <2>8 DEF SoundOn, Sends
  <2>. QED
    BY <1>1, <2>1, <2>2, <2>3, <2>4, <2>5, <2>6, <2>7, <2>8 DEF Takes
<1>. QED
  BY <1>1, <1>4 DEF Grows, Anew, Fresh, Due

\* The wire to Python but for its head, if that is taken.
SentOn(d) ==
    /\ \A i \in Sent' : i \in Nat /\ i >= 1 /\ i + d \in Sent /\ host'.sent[i] = host.sent[i + d]
    /\ \A k \in Sent : /\ k \in Nat /\ k >= 1
                       /\ k > d => k - d \in Sent' /\ host'.sent[k - d] = host.sent[k]
                       /\ ~(k > d) => k = 1 /\ d = 1
PyWire(d) ==
    /\ SentShift(d) /\ (d = 1 => 1 \in Sent /\ Takes)
    /\ d = 0 => \/ Begins \/ Rests \/ Departs \/ LeavesTTS \/ LeavesTransport \/ Speaks
                \/ Completes \/ GivesUp \/ Reports
    /\ SentOn(d)

LEMMA PySent ==
    ASSUME Ready, PyMove
    PROVE  \E d \in {0, 1} : PyWire(d)
<1>. USE DEF PyWire, SentOn
<1>1. \A k \in Sent : k \in Nat /\ k >= 1
  BY SentIs DEF Sent
<1>2. CASE SentShift(0) /\ \/ Begins \/ Rests \/ Departs \/ LeavesTTS \/ LeavesTransport \/ Speaks
                           \/ Completes \/ GivesUp \/ Reports
  BY <1>1, <1>2 DEF SentShift, Sent
<1>3. CASE SentShift(1) /\ 1 \in Sent /\ Takes
  BY <1>1, <1>3 DEF SentShift, Sent
<1>. QED
  BY <1>2, <1>3, PyWires

\* What is live after a step of Python's was so before, or is the turn that has just begun.
LEMMA LiveBefore ==
    ASSUME Ready, PySound, SessionsKnown, PyMove, Live'
    PROVE  /\ ~Doomed /\ host.session = py.session /\ host.active /\ py'.session = py.session /\ py.active
           /\ ~Departs /\ ~(Takes /\ (Opens(First) \/ Halting(First)))
           /\ Begins \/ (Live /\ TurnKept)
<1>1. PICK d \in {0, 1} : PyWire(d)
  BY PySent
<1>. USE DEF PyWire, SentOn
<1>2. ~Departs /\ ~Opens(First) /\ ~Halting(First) /\ ~Controlled'
  BY DEF Live, Departs, Opens, Halting, Doomed
<1>3. py'.session = py.session /\ (Controlled' <=> Controlled)
  <2>1. CASE d = 0
    BY <1>1, <1>2, <2>1 DEF Begins, Rests, LeavesTTS, LeavesTransport, Speaks, Completes, GivesUp, Reports, TurnKept, Calm
  <2>2. CASE d = 1
    BY <1>1, <1>2, <2>2 DEF Takes, Answers, Ignores, SoundOn, SoundOff, TurnKept, Calm, Rests
  <2>. QED
    BY <2>1, <2>2
<1>4. ~Doomed
  <2>1. ASSUME NEW i \in Sent, Starts(i) \/ Halts(i) PROVE FALSE
    <3>1. CASE i > d
      <4>1. i - d \in Sent' /\ host'.sent[i - d] = host.sent[i]
        BY <1>1, <3>1
      <4>. QED
        BY <1>3, <2>1, <4>1 DEF Live, Doomed, Starts, Halts
    <3>2. CASE ~(i > d)
      <4>1. d = 1 /\ Takes /\ i = 1
        BY <1>1, <3>2
      <4>2. Answers(First) \/ Ignores(First) \/ SoundOn(First) \/ SoundOff(First)
        BY <1>2, <4>1 DEF Takes
      <4>. QED
        BY <2>1, <4>1, <4>2 DEF First, Starts, Halts, Answers, Ignores, SoundOn, SoundOff
    <3>. QED
      BY <3>1, <3>2
  <2>. QED
    BY <1>2, <1>3, <2>1 DEF Doomed
<1>5. Begins \/ (Live /\ TurnKept)
  <2>1. CASE d = 0 /\ ~Begins
    <3>1. TurnKept
      BY <1>1, <1>2, <2>1 DEF Rests, LeavesTTS, LeavesTransport, Speaks, Completes, GivesUp, Reports
    <3>. QED
      BY <1>4, <3>1 DEF Live, TurnKept
  <2>2. CASE d = 1
    <3>1. TurnKept
      BY <1>1, <1>2, <2>2 DEF Takes, Answers, Ignores, SoundOn, SoundOff, Rests
    <3>. QED
      BY <1>4, <3>1 DEF Live, TurnKept
  <2>. QED
    BY <2>1, <2>2
<1>6. py.active
  BY <1>4, <1>5 DEF Live, PySound, Begins, Doomed
<1>7. host.session = py.session /\ host.active
  BY <1>4, <1>6 DEF Doomed, SessionsKnown, Closes, Halts
<1>. QED
  BY <1>2, <1>3, <1>4, <1>5, <1>6, <1>7

\* A failure is not forgotten.
LEMMA PyFailing ==
    ASSUME Ready, PySound, SessionsKnown, PyMove, Live', Live, TurnKept, Failing
    PROVE  Failing'
<1>1. PICK d \in {0, 1} : PyWire(d)
  BY PySent
<1>. USE DEF PyWire, SentOn
<1>2. /\ py.active /\ ~Departs /\ ~(Takes /\ (Opens(First) \/ Halting(First))) /\ py.turn # 0
      /\ py'.turn = py.turn /\ py'.session = py.session /\ HostKept
  <2>1. py.active /\ ~Departs /\ ~(Takes /\ (Opens(First) \/ Halting(First)))
    BY LiveBefore
  <2>2. HostKept
    BY PyWires
  <2>3. py.turn # 0
    BY DEF Live
  <2>4. py'.turn = py.turn /\ py'.session = py.session
    BY DEF TurnKept
  <2>. QED
    BY <2>1, <2>2, <2>3, <2>4
<1>3. ~Begins
  <2>1. py'.turns = py.turns /\ py.turns \in Nat
    BY TurnsAre DEF TurnKept
  <2>2. Begins => py'.turns = py.turns + 1
    BY DEF Begins
  <2>. QED
    BY <2>1, <2>2
<1>4. CASE Broken
  <2>1. py.stream # 0 /\ py.streamTurn = py.turn /\ Ends(py.stream) /\ py.result # "done"
    BY <1>4 DEF Broken
  <2>2. ~py.atTTS
    BY <2>1 DEF PySound
  <2>3. CASE d = 0
    <3>1. CASE GivesUp
      BY <1>2, <2>1, <3>1 DEF GivesUp, Failing
    <3>2. CASE ~GivesUp
      <4>1. StreamKept
        BY <1>1, <1>2, <1>3, <2>1, <2>2, <2>3, <3>2
           DEF Rests, LeavesTTS, LeavesTransport, Speaks, Completes, Reports
      <4>2. \A i \in Sent' : i \in Sent /\ host'.sent[i] = host.sent[i]
        BY <1>1, <2>3
      <4>3. \A i \in Sent : i \in Sent' /\ host'.sent[i] = host.sent[i]
        BY <1>1, <2>3
      <4>4. Broken'
        BY <1>2, <1>4, <2>1, <4>1, <4>2, <4>3 DEF Broken, StreamKept, Ends, HostKept
      <4>. QED
        BY <4>4 DEF Failing
    <3>. QED
      BY <3>1, <3>2
  <2>4. CASE d = 1
    <3>1. /\ py'.stream = py.stream /\ py'.streamTurn = py.streamTurn
          /\ \/ py'.result = py.result /\ (First.kind # "error" \/ First.request # py.stream)
             \/ py'.result = "error"
      <4>1. CASE Answers(First)
        <5>1. ~(First.kind = "done" /\ First.request = py.stream)
          BY <1>1, <1>4, <2>4 DEF Broken, First
        <5>. QED
          BY <4>1, <5>1 DEF Answers
      <4>2. CASE Ignores(First) \/ SoundOn(First) \/ SoundOff(First)
        BY <4>2 DEF Ignores, SoundOn, SoundOff, StreamKept, Rests
      <4>. QED
        BY <1>1, <1>2, <2>4, <4>1, <4>2 DEF Takes
    <3>2. \A i \in Sent' : ~(host'.sent[i].kind = "done" /\ host'.sent[i].request = py.stream)
      BY <1>1, <1>4, <2>4 DEF Broken
    <3>3. py'.result = "error" \/ (py'.result = "none" /\
             \E i \in Sent' : host'.sent[i].kind = "error" /\ host'.sent[i].request = py.stream)
      <4>1. CASE py.result = "none" /\ py'.result # "error"
        <5>1. PICK i \in Sent : host.sent[i].kind = "error" /\ host.sent[i].request = py.stream
          BY <1>4, <4>1 DEF Broken
        <5>2. i > d
          BY <1>1, <3>1, <4>1, <5>1 DEF First
        <5>3. i - d \in Sent' /\ host'.sent[i - d] = host.sent[i]
          BY <1>1, <5>2
        <5>. QED
          BY <3>1, <4>1, <5>1, <5>3
      <4>. QED
        BY <1>4, <3>1, <4>1 DEF Broken
    <3>4. Broken'
      BY <1>2, <2>1, <3>1, <3>2, <3>3 DEF Broken, Ends, HostKept
    <3>. QED
      BY <3>4 DEF Failing
  <2>. QED
    BY <2>3, <2>4
<1>5. CASE Faulty
  <2>1. CASE Reports
    <3>1. SessionOf(py, py.turn) = py.session
      BY <1>2 DEF SessionOf, PySound, None
    <3>2. Faulty' \/ Says("error", 0, py.turn, py.session)
      BY <1>5, <2>1, <3>1 DEF Reports
    <3>3. CASE Says("error", 0, py.turn, py.session)
      <4>1. PICK i : Anew(i) /\ toHost'[i].kind = "error" /\ toHost'[i].turn = py.turn /\ toHost'[i].session = py.session
        BY <3>3 DEF Says, Anew
      <4>2. i \in Due'
        BY <4>1, PyWires
      <4>. QED
        BY <1>2, <4>1, <4>2 DEF Failing
    <3>. QED
      BY <3>2, <3>3 DEF Failing
  <2>2. CASE ~Reports
    <3>1. Faulty'
      <4>1. CASE d = 0
        BY <1>1, <1>2, <1>3, <1>5, <2>2, <4>1
           DEF Rests, LeavesTTS, LeavesTransport, Speaks, Completes, GivesUp, Calm
      <4>2. CASE d = 1
        BY <1>1, <1>2, <1>5, <4>2 DEF Takes, Answers, Ignores, SoundOn, SoundOff, Rests, Calm
      <4>. QED
        BY <4>1, <4>2
    <3>. QED
      BY <3>1 DEF Failing
  <2>. QED
    BY <2>1, <2>2
<1>6. CASE \E i \in Due : toHost[i].kind = "error" /\ toHost[i].turn = py.turn /\ toHost[i].session = py.session
  BY <1>2, <1>6, PyWires DEF Failing
<1>. QED
  BY <1>4, <1>5, <1>6 DEF Failing

\* The turns that Python has begun stay as they are.
LEMMA PyTurnsGo ==
    ASSUME Ready, PyMove
    PROVE  /\ py.turns \in Nat /\ py'.turns \in {py.turns, py.turns + 1}
           /\ \A t \in 1 .. py.turns : py'.sessionOf[t] = py.sessionOf[t]
           /\ py'.turns = py.turns => py'.turn \in {py.turn, 0}
           /\ py'.turns # py.turns => Begins
           /\ py'.session = py.session \/ (Takes /\ Opens(First))
           /\ \/ Begins \/ Departs \/ TurnKept \/ (Takes /\ Opens(First))
<1>1. py.turns \in Nat
  BY TurnsAre
<1>2. Begins \/ Departs \/ TurnKept \/ (Takes /\ Opens(First))
  BY PyWires DEF Rests, LeavesTTS, LeavesTransport, Speaks, Completes, GivesUp, Reports, Takes, Answers,
                 Ignores, SoundOn, SoundOff, Halting
<1>3. CASE Begins
  <2>1. /\ py'.turns = py.turns + 1 /\ py'.session = py.session
        /\ \A u \in 1 .. py.turns : py'.sessionOf[u] = py.sessionOf[u]
    BY <1>3 DEF Begins
  <2>. QED
    BY <1>1, <1>3, <2>1
<1>4. CASE Departs \/ TurnKept \/ (Takes /\ Opens(First))
  <2>1. py'.turns = py.turns /\ py'.sessionOf = py.sessionOf /\ py'.turn \in {py.turn, 0}
    BY <1>4 DEF Departs, TurnKept, Opens
  <2>2. py'.session = py.session \/ (Takes /\ Opens(First))
    BY <1>4 DEF Departs, TurnKept
  <2>. QED
    BY <1>1, <1>2, <2>1, <2>2
<1>. QED
  BY <1>2, <1>3, <1>4

LEMMA PySoundKept ==
    ASSUME Ready, PySound, PyMove
    PROVE  PySound'
<1>1. /\ py.turn \in Nat /\ py.turns \in Nat /\ py.streamTurn \in Nat /\ py.turn <= py.turns
      /\ py.streamTurn <= py.turns /\ (py.stream # 0 => py.streamTurn # 0)
  BY TurnsAre
<1>2. CASE Begins
  <2>1. /\ py.active /\ py'.active = py.active /\ py'.turn = py.turns + 1 /\ py'.turns = py.turns + 1
        /\ py'.session = py.session /\ py'.sessionOf[py.turns + 1] = py.session
        /\ py'.atTTS /\ py'.atTransport = py.atTransport
        /\ py'.stream = py.stream /\ py'.streamTurn = py.streamTurn
        /\ py'.speaking = py.speaking /\ py'.speakingTurn = py.speakingTurn
    BY <1>2 DEF Begins, StreamKept, VoiceKept
  <2>2. py.speakingTurn \in Nat
    BY SentIs DEF Py, Turns
  <2>3. py'.streamTurn # py'.turn
    BY <1>1, <2>1
  <2>4. py.speaking # 0 => /\ py'.speakingTurn # 0 /\ py'.speakingTurn <= py'.turns
                           /\ py'.speakingTurn # py'.turn => py'.atTTS \/ py'.atTransport
    BY <1>1, <2>1, <2>2 DEF PySound
  <2>5. py'.active
    BY <2>1
  <2>. QED
    BY <1>1, <2>1, <2>3, <2>4, <2>5 DEF PySound
<1>3. CASE Departs
  <2>1. /\ py'.turn = 0 /\ py'.turns = py.turns
        /\ py'.atTTS /\ py'.atTransport = py.atTransport
        /\ py'.stream = py.stream /\ py'.streamTurn = py.streamTurn
        /\ py'.speaking = py.speaking /\ py'.speakingTurn = py.speakingTurn
    BY <1>3 DEF Departs, StreamKept, VoiceKept
  <2>. QED
    BY <1>1, <2>1 DEF PySound
<1>4. CASE Opens(First)
  <2>1. /\ py'.turn = 0 /\ py'.turns = py.turns /\ py'.atTransport /\ py'.stream = 0
        /\ py'.speaking = py.speaking /\ py'.speakingTurn = py.speakingTurn
    BY <1>4 DEF Opens, StreamGone, VoiceKept
  <2>. QED
    BY <2>1 DEF PySound
<1>5. ASSUME TurnKept, VoiceKept, StreamKept, FlowKept, py'.active = py.active \/ Controlled', Controlled => Controlled'
      PROVE  PySound'
  BY <1>5 DEF PySound, TurnKept, VoiceKept, StreamKept, FlowKept
<1>6. CASE Rests \/ Reports \/ Ignores(First) \/ Halting(First)
  BY <1>5, <1>6 DEF Rests, Reports, Ignores, Halting, Calm
<1>7. CASE Answers(First)
  <2>1. /\ py'.stream = py.stream /\ py'.streamTurn = py.streamTurn /\ TurnKept /\ VoiceKept /\ FlowKept
        /\ py'.active = py.active /\ (Controlled' <=> Controlled)
    BY <1>7 DEF Answers, Calm
  <2>. QED
    BY <2>1 DEF PySound, TurnKept, VoiceKept, FlowKept
<1>8. CASE LeavesTTS
  <2>1. /\ py.atTTS /\ py'.stream = 0 /\ py'.atTransport /\ ~py'.atTTS /\ TurnKept /\ VoiceKept
        /\ py'.active = py.active /\ (Controlled' <=> Controlled)
    BY <1>8 DEF LeavesTTS, Calm, StreamGone
  <2>. QED
    BY <2>1 DEF PySound, TurnKept, VoiceKept
<1>9. CASE LeavesTransport
  <2>1. /\ ~py'.atTransport /\ py'.atTTS = py.atTTS /\ TurnKept /\ StreamKept /\ py'.speaking = 0
        /\ py'.active = py.active /\ (Controlled' <=> Controlled)
    BY <1>9 DEF LeavesTransport, Calm, Hushing
  <2>. QED
    BY <2>1 DEF PySound, TurnKept, StreamKept
<1>10. CASE Speaks
  <2>1. /\ ~py.atTTS /\ ~py.atTransport /\ TurnKept /\ VoiceKept /\ FlowKept /\ py'.streamTurn = py.turn
        /\ py'.active = py.active /\ (Controlled' <=> Controlled)
    BY <1>10 DEF Speaks, Calm
  <2>. QED
    BY <2>1 DEF PySound, TurnKept, VoiceKept, FlowKept
<1>11. CASE Completes \/ GivesUp
  <2>1. /\ py'.stream = 0 /\ TurnKept /\ VoiceKept /\ FlowKept
        /\ py'.active = py.active /\ (Controlled' <=> Controlled)
    BY <1>11 DEF Completes, GivesUp, Calm, StreamGone
  <2>. QED
    BY <2>1 DEF PySound, TurnKept, VoiceKept, FlowKept
<1>12. CASE SoundOn(First)
  <2>1. /\ TurnKept /\ StreamKept /\ FlowKept /\ py'.speaking = py.stream /\ py'.speakingTurn = py.turn
        /\ py.streamTurn = py.turn /\ py'.active = py.active /\ (Controlled' <=> Controlled)
    BY <1>12 DEF SoundOn, Calm
  <2>. QED
    BY <1>1, <2>1 DEF PySound, TurnKept, StreamKept, FlowKept
<1>13. CASE SoundOff(First)
  <2>1. /\ TurnKept /\ StreamKept /\ FlowKept /\ py'.speaking = 0
        /\ py'.active = py.active /\ (Controlled' <=> Controlled)
    BY <1>13 DEF SoundOff, Calm, Hushing
  <2>. QED
    BY <2>1 DEF PySound, TurnKept, StreamKept, FlowKept
<1>. QED
  BY <1>2, <1>3, <1>4, <1>6, <1>7, <1>8, <1>9, <1>10, <1>11, <1>12, <1>13, PyWires DEF Takes

LEMMA PySessions ==
    ASSUME Ready, PySound, SessionsKnown, PyMove
    PROVE  SessionsKnown'
<1>1. PICK d \in {0, 1} : PyWire(d)
  BY PySent
<1>. USE DEF PyWire, SentOn
<1>2. /\ host'.session = host.session /\ host'.drawn = host.drawn /\ host'.active = host.active
      /\ host'.turn = host.turn /\ host.session \in Nat /\ py.session \in Nat /\ host.turn \in Nat
      /\ host.active \in BOOLEAN /\ \A i \in Sent : host.sent[i].session \in Nat
  <2>1. HostKept
    BY PyWires
  <2>. QED
    BY <2>1, SentIs DEF HostKept, Host, Py, Sent
<1>. DEFINE Opened == d = 1 /\ Opens(First)
<1>3. Opened => 1 \in Sent /\ Starts(1) /\ py'.session = host.sent[1].session /\ py.session < py'.session
  BY <1>1 DEF Opens, First, Starts, SessionsKnown
<1>4. ~Opened => py'.session = py.session /\ \A i \in Sent : Starts(i) => i > d
  <2>1. CASE d = 0
    BY <1>1, <2>1 DEF Begins, Rests, Departs, LeavesTTS, LeavesTransport, Speaks, Completes, GivesUp, Reports, TurnKept
  <2>2. CASE d = 1 /\ ~Opens(First)
    <3>1. Answers(First) \/ Ignores(First) \/ SoundOn(First) \/ SoundOff(First) \/ Halting(First)
      BY <1>1, <2>2 DEF Takes
    <3>2. TurnKept /\ First.kind # "start"
      BY <3>1 DEF Answers, Ignores, SoundOn, SoundOff, Halting, Rests
    <3>. QED
      BY <1>1, <2>2, <3>2 DEF TurnKept, First, Starts
  <2>. QED
    BY <2>1, <2>2
<1>5. host'.session = host'.drawn /\ py'.session <= host'.session
  BY <1>2, <1>3, <1>4 DEF SessionsKnown
<1>6. \A t \in 1 .. py'.turns : py'.sessionOf[t] <= py'.session
  <2>1. SUFFICES ASSUME NEW t \in 1 .. py'.turns PROVE py'.sessionOf[t] <= py'.session
    OBVIOUS
  <2>2. CASE t \in 1 .. py.turns
    <3>1. py'.sessionOf[t] = py.sessionOf[t] /\ py.sessionOf[t] <= py.session /\ py.sessionOf[t] \in Nat
      <4>1. t \in Turns
        <5>1. py.turns \in Turns \cup {0} /\ MaxTurns \in Nat
          BY SentIs, PlaybackAssumption DEF Py
        <5>2. t \in Nat /\ t >= 1 /\ t <= py.turns
          BY <2>2, <5>1 DEF Turns
        <5>. QED
          BY <5>1, <5>2 DEF Turns
      <4>. QED
        BY <2>2, <4>1, PyTurnsGo, SentIs DEF SessionsKnown, Py
    <3>2. py'.session = py.session \/ py.session < py'.session
      BY <1>3, <1>4
    <3>3. py'.session \in Nat
      BY <1>2, <1>3, <1>4
    <3>. QED
      BY <1>2, <3>1, <3>2, <3>3
  <2>3. CASE t \notin 1 .. py.turns
    <3>1. Begins /\ t = py.turns + 1
      BY <2>1, <2>3, PyTurnsGo
    <3>. QED
      BY <1>2, <3>1 DEF Begins
  <2>. QED
    BY <2>2, <2>3
<1>7. ASSUME NEW i \in Sent', Starts(i)'
      PROVE  /\ py'.session < host'.sent[i].session /\ host'.sent[i].session <= host'.session
             /\ \/ host'.sent[i].session = host'.session /\ host'.active
                \/ \E j \in Sent' : j > i /\ Closes(j, host.sent[i].session)'
             /\ \A j \in Sent' : j > i /\ Starts(j)' => host'.sent[i].session < host'.sent[j].session
  <2>1. i \in Nat /\ i + d \in Sent /\ host'.sent[i] = host.sent[i + d] /\ Starts(i + d) /\ i >= 1
    BY <1>1, <1>7 DEF Starts
  <2>2. py.session < host.sent[i + d].session /\ host.sent[i + d].session <= host.session
    BY <2>1 DEF SessionsKnown
  <2>3. py'.session < host.sent[i + d].session
    <3>1. CASE Opened
      <4>1. 1 \in Sent /\ Starts(1) /\ i + d > 1
        BY <1>3, <2>1, <3>1
      <4>. QED
        BY <1>3, <2>1, <3>1, <4>1 DEF SessionsKnown
    <3>2. CASE ~Opened
      BY <1>4, <2>2, <3>2
    <3>. QED
      BY <3>1, <3>2
  <2>4. ASSUME NEW j \in Sent, j > i + d, Closes(j, host.sent[i + d].session)
        PROVE  \E n \in Sent' : n > i /\ Closes(n, host.sent[i].session)'
    <3>1. j > d /\ j \in Nat
      BY <1>1, <2>1, <2>4
    <3>2. j - d \in Sent' /\ host'.sent[j - d] = host.sent[j] /\ j - d > i
      BY <1>1, <2>1, <2>4, <3>1
    <3>. QED
      BY <2>1, <2>4, <3>2 DEF Closes
  <2>5. ASSUME NEW j \in Sent', j > i, Starts(j)' PROVE host'.sent[i].session < host'.sent[j].session
    <3>1. j \in Nat /\ j + d \in Sent /\ host'.sent[j] = host.sent[j + d] /\ Starts(j + d) /\ j + d > i + d
      BY <1>1, <2>1, <2>5 DEF Starts
    <3>. QED
      BY <2>1, <3>1 DEF SessionsKnown
  <2>. QED
    BY <1>2, <2>1, <2>2, <2>3, <2>4, <2>5 DEF SessionsKnown
<1>8. ASSUME host'.session # py'.session \/ ~host'.active
      PROVE  (\E i \in Sent' : Starts(i)' \/ Closes(i, py.session)') \/ ~py'.active
  <2>1. CASE Opened
    <3>1. PICK j \in Sent : j > 1 /\ Closes(j, host.sent[1].session)
      BY <1>2, <1>3, <1>8, <2>1 DEF SessionsKnown
    <3>2. j - 1 \in Sent' /\ host'.sent[j - 1] = host.sent[j]
      BY <1>1, <2>1, <3>1
    <3>. QED
      BY <1>3, <2>1, <3>1, <3>2 DEF Closes
  <2>2. CASE ~Opened
    <3>1. (\E i \in Sent : Starts(i) \/ Closes(i, py.session)) \/ ~py.active
      BY <1>2, <1>4, <1>8, <2>2 DEF SessionsKnown
    <3>2. ASSUME NEW i \in Sent, i > d, Starts(i) \/ Closes(i, py.session)
          PROVE  \E n \in Sent' : Starts(n)' \/ Closes(n, py.session)'
      <4>1. i - d \in Sent' /\ host'.sent[i - d] = host.sent[i]
        BY <1>1, <3>2
      <4>. QED
        BY <1>4, <2>2, <3>2, <4>1 DEF Starts, Closes
    <3>3. ASSUME NEW i \in Sent, ~(i > d), Closes(i, py.session)
          PROVE  ~py'.active
      <4>1. d = 1 /\ Takes /\ First = host.sent[i] /\ First.kind = "stop" /\ First.session = py.session
        BY <1>1, <3>3 DEF First, Closes
      <4>2. Halting(First)
        BY <4>1 DEF Takes, Answers, Opens, Ignores, SoundOn, SoundOff
      <4>. QED
        BY <4>1, <4>2 DEF Halting
    <3>4. ~py.active => ~py'.active
      <4>1. CASE d = 0
        BY <1>1, <4>1 DEF Begins, Rests, Departs, LeavesTTS, LeavesTransport, Speaks, Completes, GivesUp, Reports, Calm
      <4>2. CASE d = 1
        <5>1. Answers(First) \/ Ignores(First) \/ SoundOn(First) \/ SoundOff(First) \/ Halting(First)
          BY <1>1, <2>2, <4>2 DEF Takes
        <5>2. py'.active = py.active \/ ~py'.active
          BY <5>1 DEF Answers, Ignores, SoundOn, SoundOff, Halting, Rests, Calm
        <5>. QED
          BY <5>2
      <4>. QED
        BY <4>1, <4>2
    <3>. QED
      BY <1>4, <2>2, <3>1, <3>2, <3>3, <3>4
  <2>. QED
    BY <2>1, <2>2
<1>9. ASSUME host'.turn # 0
      PROVE  host'.active /\ host'.turn <= py'.turns /\ py'.sessionOf[host'.turn] = host'.session
  <2>1. host.active /\ host.turn <= py.turns /\ py.sessionOf[host.turn] = host.session
    BY <1>2, <1>9 DEF SessionsKnown
  <2>2. host.turn \in 1 .. py.turns /\ py.turns <= py'.turns
    BY <1>2, <1>9, <2>1, PyTurnsGo
  <2>. QED
    BY <1>2, <2>1, <2>2, PyTurnsGo
<1>. QED
  BY <1>5, <1>6, <1>7, <1>8, <1>9 DEF SessionsKnown

\* The stream stays, ends or is a new one.
LEMMA PyStreams ==
    ASSUME Ready, PyMove
    PROVE  /\ (py'.stream = py.stream /\ py'.streamTurn = py.streamTurn) \/ py'.stream = 0 \/ Speaks
           /\ py.requested \in Nat
           /\ \A r \in Requests : r = py.requested + 1 => host.task[r].stage = "none" /\ r \notin host.requests
           /\ \A i \in Due : Asks(i) => toHost[i].request # py.requested + 1 /\ toHost[i].request \in Requests
                                        /\ host.task[toHost[i].request].stage = "none"
<1>1. (py'.stream = py.stream /\ py'.streamTurn = py.streamTurn) \/ py'.stream = 0 \/ Speaks
  BY PyWires DEF Begins, Rests, Departs, LeavesTTS, LeavesTransport, Completes, GivesUp, Reports, StreamKept,
                 StreamGone, Takes, Answers, Opens, Ignores, SoundOn, SoundOff, Halting
<1>2. py.requested \in Nat /\ Requests \subseteq Nat
  BY SentIs DEF Py, Requests
<1>3. ASSUME NEW r \in Requests, r = py.requested + 1
      PROVE  host.task[r].stage = "none" /\ r \notin host.requests
  <2>1. r > py.requested
    BY <1>2, <1>3
  <2>2. host.task[r].stage = "none"
    BY <2>1 DEF Ready, AskedOnce
  <2>. QED
    BY <2>2 DEF Ready, Owned, Running
<1>4. ASSUME NEW i \in Due, Asks(i)
      PROVE  /\ toHost[i].request # py.requested + 1 /\ toHost[i].request \in Requests
             /\ host.task[toHost[i].request].stage = "none"
  <2>1. toHost[i].request <= py.requested /\ host.task[toHost[i].request].stage = "none"
    BY <1>4 DEF Ready, AskedOnce, Due
  <2>2. toHost[i].request \in Requests
    <3>1. toHost \in Seq(Events)
      BY DEF Ready, TypeOK
    <3>2. toHost[i] \in Events
      BY <3>1 DEF Due
    <3>. QED
      BY <1>4, <3>2 DEF Events, Asks
  <2>. QED
    BY <1>2, <2>1, <2>2
<1>. QED
  BY <1>1, <1>2, <1>3, <1>4

LEMMA PyTasks ==
    ASSUME Ready, PySound, TasksKnown, PyMove
    PROVE  TasksKnown'
<1>1. host'.task = host.task
  BY PyWires DEF HostKept
<1>2. \A t \in 1 .. py.turns : t \in 1 .. py'.turns /\ py'.sessionOf[t] = py.sessionOf[t]
  BY PyTurnsGo
<1>3. (py'.stream = py.stream /\ py'.streamTurn = py.streamTurn) \/ py'.stream = 0 \/ Speaks
  BY PyStreams
<1>4. ASSUME NEW r \in Requests, host'.task[r].stage # "none"
      PROVE  /\ host'.task[r].turn \in 1 .. py'.turns /\ py'.sessionOf[host'.task[r].turn] = host'.task[r].session
             /\ r = py'.stream => host'.task[r].turn = py'.streamTurn
  <2>1. /\ host.task[r].turn \in 1 .. py.turns /\ py.sessionOf[host.task[r].turn] = host.task[r].session
        /\ r = py.stream => host.task[r].turn = py.streamTurn
    BY <1>1, <1>4 DEF TasksKnown
  <2>2. ~(Speaks /\ r = py'.stream) /\ r # 0
    BY <1>1, <1>4, PyStreams DEF Speaks, Requests
  <2>. QED
    BY <1>1, <1>2, <1>3, <2>1, <2>2
<1>5. ASSUME NEW i \in Due', Asks(i)'
      PROVE  /\ toHost'[i].turn \in 1 .. py'.turns /\ py'.sessionOf[toHost'[i].turn] = toHost'[i].session
             /\ toHost'[i].request = py'.stream => toHost'[i].turn = py'.streamTurn
  <2>1. CASE i \in Due
    <3>1. toHost'[i] = toHost[i] /\ Asks(i)
      BY <1>5, <2>1, PyWires DEF Asks
    <3>2. /\ toHost[i].turn \in 1 .. py.turns /\ py.sessionOf[toHost[i].turn] = toHost[i].session
          /\ toHost[i].request = py.stream => toHost[i].turn = py.streamTurn
      BY <2>1, <3>1 DEF TasksKnown
    <3>3. ~(Speaks /\ toHost[i].request = py'.stream) /\ toHost[i].request # 0
      BY <2>1, <3>1, PyStreams DEF Speaks, Requests
    <3>. QED
      BY <1>2, <1>3, <3>1, <3>2, <3>3
  <2>2. CASE i \notin Due
    <3>1. Sends(i)
      BY <2>2, PyWires
    <3>2. /\ Speaks /\ toHost'[i].turn = py.turn /\ toHost'[i].session = SessionOf(py, py.turn)
          /\ toHost'[i].request = py.requested + 1
      BY <1>5, <3>1 DEF Sends, Asks
    <3>3. py.turn # 0 /\ py.turn \in 1 .. py.turns /\ py'.streamTurn = py.turn
      BY <3>2, TurnsAre DEF Speaks
    <3>4. SessionOf(py, py.turn) = py.sessionOf[py.turn]
      BY <3>3 DEF SessionOf, None
    <3>. QED
      BY <1>2, <3>2, <3>3, <3>4
  <2>. QED
    BY <2>1, <2>2
<1>6. ASSUME NEW i \in Sent', host'.sent[i].kind = "playback_on"
      PROVE  host'.sent[i].request \in Requests /\ host'.task[host'.sent[i].request].stage # "none"
  <2>1. PICK k \in Sent : host'.sent[i] = host.sent[k]
    BY PySent DEF PyWire, SentOn
  <2>. QED
    BY <1>1, <1>6, <2>1 DEF TasksKnown
<1>. QED
  BY <1>4, <1>5, <1>6 DEF TasksKnown

\* Python leaves its turn, and says so.
LEMMA PyLeaves ==
    ASSUME Ready, PyMove, Begins \/ Departs
    PROVE  \E k \in Due' : /\ k \notin Due /\ toHost'[k].session = py.session
                           /\ \/ toHost'[k].kind = "user_turn"
                              \/ toHost'[k].kind = "cancel_turn" /\ toHost'[k].turn = py.turn
<1>1. PICK k : /\ Anew(k) /\ toHost'[k].session = py.session
               /\ toHost'[k].kind = "user_turn" \/ (toHost'[k].kind = "cancel_turn" /\ toHost'[k].turn = py.turn)
  BY DEF Begins, Departs, Says, Anew
<1>2. k \in Due' /\ k \notin Due
  BY <1>1, PyWires
<1>. QED
  BY <1>1, <1>2

LEMMA DueIs ==
    ASSUME Ready
    PROVE  \A i \in Due : toHost[i].turn \in Nat /\ toHost[i].session \in Nat /\ i \in Nat
<1>1. toHost \in Seq(Events)
  BY DEF Ready, TypeOK
<1>2. Turns \cup {0} \subseteq Nat
  BY DEF Turns
<1>3. \A i \in Due : toHost[i] \in Events /\ i \in Nat
  BY <1>1 DEF Due
<1>. QED
  BY <1>2, <1>3 DEF Events

LEMMA PyTurnsInOrder ==
    ASSUME Ready, TypeOK', PySound, SessionsKnown, TasksKnown, TurnsInOrder, PyMove
    PROVE  TurnsInOrder'
<1>1. /\ \A i \in Due : i \in Nat /\ i \in Due' /\ toHost'[i] = toHost[i]
      /\ \A i \in Due' : i \in Nat /\ (i \notin Due => Anew(i) /\ Sends(i))
      /\ \A i \in Due' : i \notin Due => \A j \in Due : j < i
      /\ \A i, j \in Due' : i \notin Due /\ j \notin Due => i = j
  BY PyWires
<1>2. /\ host'.session = host.session /\ host'.turn = host.turn /\ host'.requests = host.requests
      /\ host'.speaking = host.speaking /\ host'.task = host.task /\ host'.active = host.active
  BY PyWires DEF HostKept
<1>3. /\ py.turns \in Nat /\ py.turn \in Nat /\ py.turn <= py.turns /\ py.streamTurn \in Nat
      /\ py.streamTurn <= py.turns /\ host.turn \in Nat /\ py.session \in Nat /\ host.session \in Nat
      /\ py.speakingTurn \in Nat /\ \A t \in 1 .. py.turns : py.sessionOf[t] \in Nat
  <2>1. py.turns \in Turns \cup {0} /\ MaxTurns \in Nat /\ py.sessionOf \in [Turns -> Nat]
    BY SentIs, PlaybackAssumption DEF Py
  <2>2. \A t \in 1 .. py.turns : t \in Turns
    BY <2>1 DEF Turns
  <2>3. py.speakingTurn \in Nat
    BY SentIs DEF Py, Turns
  <2>. QED
    BY <2>1, <2>2, <2>3, TurnsAre, SentIs DEF Host, Py
<1>4. /\ py'.turns \in {py.turns, py.turns + 1}
      /\ \A t \in 1 .. py.turns : py'.sessionOf[t] = py.sessionOf[t]
      /\ py'.turns = py.turns => py'.turn \in {py.turn, 0}
      /\ py'.turns # py.turns => Begins
      /\ \/ Begins \/ Departs \/ TurnKept \/ (Takes /\ Opens(First))
  BY PyTurnsGo
<1>5. Begins => /\ py'.turn = py.turns + 1 /\ py'.turns = py.turns + 1 /\ py'.session = py.session
                /\ py'.sessionOf[py.turns + 1] = py.session
  BY DEF Begins
<1>6. host.turn # 0 => host.active /\ host.turn <= py.turns /\ py.sessionOf[host.turn] = host.session
  BY DEF SessionsKnown
<1>7. ASSUME NEW i \in Due', i \notin Due, NewTurn(i)'
      PROVE  Begins /\ toHost'[i].turn = py.turns + 1 /\ toHost'[i].session = py.session
  <2>1. Sends(i) /\ toHost'[i].kind = "user_turn"
    BY <1>1, <1>7 DEF NewTurn
  <2>. QED
    BY <2>1 DEF Sends
<1>8. ASSUME NEW i \in Due PROVE toHost[i].turn \in Nat /\ toHost[i].session \in Nat /\ toHost[i].turn <= py.turns
  BY DueIs DEF TurnsInOrder
<1>10. ASSUME NEW i \in Due' PROVE toHost'[i].turn <= py'.turns
  <2>1. CASE i \in Due
    BY <1>1, <1>3, <1>4, <1>8, <2>1
  <2>2. CASE i \notin Due
    <3>1. /\ Sends(i) /\ py.turns <= py'.turns /\ (py.speaking # 0 => py.speakingTurn <= py.turns)
      BY <1>1, <1>3, <1>4, <2>2 DEF PySound
    <3>2. \/ Begins /\ toHost'[i].turn = py.turns + 1
          \/ toHost'[i].turn = py.turn \/ toHost'[i].turn = py.streamTurn
          \/ py.speaking # 0 /\ toHost'[i].turn = py.speakingTurn
      BY <3>1 DEF Sends
    <3>3. py'.turns \in Nat
      BY <1>3, <1>4
    <3>4. CASE Begins /\ toHost'[i].turn = py.turns + 1
      BY <1>3, <1>5, <3>4
    <3>5. CASE toHost'[i].turn = py.turn \/ toHost'[i].turn = py.streamTurn
      BY <1>3, <3>1, <3>3, <3>5
    <3>6. CASE py.speaking # 0 /\ toHost'[i].turn = py.speakingTurn
      BY <1>3, <3>1, <3>3, <3>6
    <3>. QED
      BY <3>2, <3>4, <3>5, <3>6
  <2>. QED
    BY <2>1, <2>2
<1>11. ASSUME NEW i \in Due', NewTurn(i)'
       PROVE  /\ host'.turn < toHost'[i].turn /\ toHost'[i].session = py'.sessionOf[toHost'[i].turn]
              /\ \A k \in Due' : k # i /\ toHost'[k].turn = toHost'[i].turn => i < k
              /\ \A k \in Due' : k > i /\ NewTurn(k)' => toHost'[i].turn < toHost'[k].turn
  <2>1. CASE i \in Due
    <3>1. toHost'[i] = toHost[i] /\ NewTurn(i)
      BY <1>1, <1>11, <2>1 DEF NewTurn
    <3>2. /\ host.turn < toHost[i].turn /\ toHost[i].session = py.sessionOf[toHost[i].turn]
          /\ \A k \in Due : k # i /\ toHost[k].turn = toHost[i].turn => i < k
          /\ \A k \in Due : k > i /\ NewTurn(k) => toHost[i].turn < toHost[k].turn
      BY <2>1, <3>1 DEF TurnsInOrder
    <3>3. py'.sessionOf[toHost[i].turn] = py.sessionOf[toHost[i].turn]
      BY <1>3, <1>4, <1>8, <2>1, <3>2
    <3>4. ASSUME NEW k \in Due', k # i, toHost'[k].turn = toHost'[i].turn PROVE i < k
      BY <1>1, <2>1, <3>1, <3>2, <3>4
    <3>5. ASSUME NEW k \in Due', k > i, NewTurn(k)' PROVE toHost'[i].turn < toHost'[k].turn
      <4>1. CASE k \in Due
        BY <1>1, <3>1, <3>2, <3>5, <4>1 DEF NewTurn
      <4>2. CASE k \notin Due
        <5>1. toHost'[k].turn = py.turns + 1
          BY <1>7, <3>5, <4>2
        <5>. QED
          BY <1>3, <1>8, <2>1, <3>1, <5>1
      <4>. QED
        BY <4>1, <4>2
    <3>. QED
      BY <1>2, <3>1, <3>2, <3>3, <3>4, <3>5
  <2>2. CASE i \notin Due
    <3>1. Begins /\ toHost'[i].turn = py.turns + 1 /\ toHost'[i].session = py.session
      BY <1>7, <1>11, <2>2
    <3>2. host.turn < py.turns + 1
      BY <1>3, <1>6
    <3>3. ASSUME NEW k \in Due', k # i PROVE toHost'[k].turn # toHost'[i].turn /\ ~(k > i)
      <4>1. k \in Due
        BY <1>1, <2>2, <3>3
      <4>2. k < i /\ toHost'[k].turn <= py.turns /\ toHost'[k].turn \in Nat /\ k \in Nat /\ i \in Nat
        BY <1>1, <1>8, <2>2, <4>1
      <4>. QED
        BY <1>3, <3>1, <4>2
    <3>4. \A k \in Due' : k > i => k # i
      BY <1>1
    <3>. QED
      BY <1>2, <1>5, <3>1, <3>2, <3>3, <3>4
  <2>. QED
    BY <2>1, <2>2
<1>12. ASSUME NEW i \in Due', toHost'[i].kind = "cancel_turn" PROVE toHost'[i].turn = 0 \/ toHost'[i].turn # py'.turn
  <2>1. CASE i \in Due
    <3>1. toHost'[i] = toHost[i] /\ (toHost[i].turn = 0 \/ toHost[i].turn # py.turn)
      BY <1>1, <1>12, <2>1 DEF TurnsInOrder
    <3>. QED
      BY <1>3, <1>4, <1>5, <1>8, <2>1, <3>1
  <2>2. CASE i \notin Due
    <3>1. Departs
      BY <1>1, <1>12, <2>2 DEF Sends
    <3>. QED
      BY <3>1 DEF Departs
  <2>. QED
    BY <2>1, <2>2
<1>13. ASSUME Live' PROVE host'.turn = py'.turn \/ \E i \in Due' : NewTurn(i)' /\ toHost'[i].turn = py'.turn
  <2>1. Begins \/ (Live /\ TurnKept)
    BY <1>13, LiveBefore
  <2>2. CASE Begins
    <3>1. PICK k : Anew(k) /\ toHost'[k].kind = "user_turn" /\ toHost'[k].turn = py.turns + 1
      BY <2>2 DEF Begins, Says, Anew
    <3>2. k \in Due'
      BY <3>1, PyWires
    <3>. QED
      BY <1>5, <2>2, <3>1, <3>2 DEF NewTurn
  <2>3. CASE Live /\ TurnKept
    <3>1. host.turn = py.turn \/ \E i \in Due : NewTurn(i) /\ toHost[i].turn = py.turn
      BY <2>3 DEF TurnsInOrder
    <3>. QED
      BY <1>1, <1>2, <2>3, <3>1 DEF TurnKept, NewTurn
  <2>. QED
    BY <2>1, <2>2, <2>3
<1>14. ASSUME host'.requests # {} \/ host'.speaking
       PROVE  /\ host'.turn # 0
              /\ py'.turn = host'.turn \/ \E k \in Due' : Leaves(k, host.turn, host.session)'
  <2>1. host.turn # 0 /\ (py.turn = host.turn \/ \E k \in Due : Leaves(k, host.turn, host.session))
    BY <1>2, <1>14 DEF TurnsInOrder
  <2>2. CASE \E k \in Due : Leaves(k, host.turn, host.session)
    BY <1>1, <1>2, <2>1, <2>2 DEF Leaves, NewTurn
  <2>3. CASE py.turn = host.turn
    <3>1. py.session = host.session
      BY <1>6, <2>1, <2>3 DEF PySound
    <3>2. CASE TurnKept
      BY <1>2, <2>1, <2>3, <3>2 DEF TurnKept
    <3>3. CASE Begins \/ Departs
      BY <1>2, <2>1, <2>3, <3>1, <3>3, PyLeaves DEF Leaves, NewTurn
    <3>4. CASE Takes /\ Opens(First)
      <4>1. CASE 1 \in Sent
        BY <1>3, <3>1, <3>4, <4>1, SentIs DEF Opens, First, SessionsKnown, Starts, Sent
      <4>2. CASE 1 \notin Sent
        <5>1. \/ Begins \/ Rests \/ Departs \/ LeavesTTS \/ LeavesTransport \/ Speaks \/ Completes \/ GivesUp \/ Reports
          BY <4>2, PyWires
        <5>2. TurnKept \/ Begins \/ Departs
          BY <5>1 DEF Rests, LeavesTTS, LeavesTransport, Speaks, Completes, GivesUp, Reports
        <5>. QED
          BY <3>2, <3>3, <5>2
      <4>. QED
        BY <4>1, <4>2
    <3>. QED
      BY <1>4, <3>2, <3>3, <3>4
  <2>. QED
    BY <2>1, <2>2, <2>3
<1>15. ASSUME NEW i \in Due', Asks(i)'
       PROVE  \/ py'.turn = toHost'[i].turn \/ py'.session # toHost'[i].session
              \/ \E k \in Due' : k > i /\ Leaves(k, toHost[i].turn, toHost[i].session)'
  <2>1. CASE i \in Due
    <3>1. toHost'[i] = toHost[i] /\ Asks(i)
      BY <1>1, <1>15, <2>1 DEF Asks
    <3>2. toHost[i].turn \in 1 .. py.turns /\ py.sessionOf[toHost[i].turn] = toHost[i].session
      BY <2>1, <3>1 DEF TasksKnown
    <3>3. \/ py.turn = toHost[i].turn \/ py.session # toHost[i].session
          \/ \E k \in Due : k > i /\ Leaves(k, toHost[i].turn, toHost[i].session)
      BY <2>1, <3>1 DEF TurnsInOrder
    <3>4. CASE \E k \in Due : k > i /\ Leaves(k, toHost[i].turn, toHost[i].session)
      BY <1>1, <3>1, <3>4 DEF Leaves, NewTurn
    <3>5. CASE Takes /\ Opens(First) /\ 1 \in Sent
      <4>1. py.session < py'.session /\ py'.session \in Nat
        BY <3>5, SentIs DEF Opens, First, SessionsKnown, Starts, Sent
      <4>2. toHost[i].session <= py.session
        BY <3>2 DEF SessionsKnown
      <4>. QED
        BY <1>3, <1>8, <2>1, <3>1, <4>1, <4>2
    <3>6. CASE py.session # toHost[i].session /\ py'.session = py.session
      BY <3>1, <3>6
    <3>7. CASE py.turn = toHost[i].turn /\ TurnKept
      BY <3>1, <3>7 DEF TurnKept
    <3>8. CASE py.turn = toHost[i].turn /\ (Begins \/ Departs)
      <4>1. py.session = toHost[i].session
        BY <3>2, <3>8 DEF PySound
      <4>2. PICK k \in Due' : /\ k \notin Due /\ toHost'[k].session = py.session
                              /\ \/ toHost'[k].kind = "user_turn"
                                 \/ toHost'[k].kind = "cancel_turn" /\ toHost'[k].turn = py.turn
        BY <3>8, PyLeaves
      <4>3. k > i
        BY <1>1, <2>1, <4>2
      <4>. QED
        BY <3>1, <3>8, <4>1, <4>2, <4>3 DEF Leaves, NewTurn
    <3>9. TurnKept \/ Begins \/ Departs \/ (Takes /\ Opens(First) /\ 1 \in Sent)
      <4>1. \/ Begins \/ Rests \/ Departs \/ LeavesTTS \/ LeavesTransport \/ Speaks \/ Completes \/ GivesUp \/ Reports
            \/ 1 \in Sent
        BY PyWires
      <4>. QED
        BY <1>4, <4>1 DEF Rests, LeavesTTS, LeavesTransport, Speaks, Completes, GivesUp, Reports
    <3>10. TurnKept \/ Begins \/ Departs => py'.session = py.session
      BY DEF TurnKept, Begins, Departs
    <3>. QED
      BY <3>3, <3>4, <3>5, <3>6, <3>7, <3>8, <3>9, <3>10
  <2>2. CASE i \notin Due
    <3>1. Speaks /\ toHost'[i].turn = py.turn
      BY <1>1, <1>15, <2>2 DEF Sends, Asks
    <3>. QED
      BY <3>1 DEF Speaks, TurnKept
  <2>. QED
    BY <2>1, <2>2
<1>. QED
  BY <1>10, <1>11, <1>12, <1>13, <1>14, <1>15 DEF TurnsInOrder

\* In a turn that lives on.
LEMMA PyOn ==
    ASSUME Ready, PySound, SessionsKnown, PyMove, Live', ~Begins
    PROVE  /\ Live /\ TurnKept /\ py.turn # 0 /\ py.active /\ host.session = py.session /\ (Failing => Failing')
           /\ py'.turn = py.turn /\ py'.session = py.session
           /\ \E d \in {0, 1} :
              /\ d = 1 => 1 \in Sent /\ (Answers(First) \/ Ignores(First) \/ SoundOn(First) \/ SoundOff(First))
              /\ d = 0 => \/ Rests \/ LeavesTTS \/ LeavesTransport \/ Speaks \/ Completes \/ GivesUp \/ Reports
              /\ SentOn(d)
<1>1. /\ host.session = py.session /\ py.active /\ ~Departs /\ ~(Takes /\ (Opens(First) \/ Halting(First)))
      /\ Live /\ TurnKept
  BY LiveBefore
<1>2. Failing => Failing'
  BY <1>1, PyFailing
<1>3. py'.turn = py.turn /\ py'.session = py.session /\ py.turn # 0
  BY <1>1 DEF TurnKept, Live
<1>4. PICK d \in {0, 1} : PyWire(d)
  BY PySent
<1>. USE DEF PyWire, SentOn
<1>5. d = 1 => 1 \in Sent /\ (Answers(First) \/ Ignores(First) \/ SoundOn(First) \/ SoundOff(First))
  BY <1>1, <1>4 DEF Takes
<1>6. d = 0 => Rests \/ LeavesTTS \/ LeavesTransport \/ Speaks \/ Completes \/ GivesUp \/ Reports
  BY <1>1, <1>4
<1>. QED
  BY <1>1, <1>2, <1>3, <1>4, <1>5, <1>6

\* The sentence of the turn is open until it has failed or is over.
LEMMA PyDrops ==
    ASSUME Ready, PySound, SessionsKnown, PyMove, Live', ~Begins, py.stream # 0, py.streamTurn = py.turn
    PROVE  \/ py'.stream = py.stream /\ py'.streamTurn = py.streamTurn
           \/ Failing' \/ Ends(py.stream)
<1>1. /\ py.active /\ py'.turn = py.turn
      /\ \/ Rests \/ LeavesTTS \/ LeavesTransport \/ Speaks \/ Completes \/ GivesUp \/ Reports
         \/ Answers(First) \/ Ignores(First) \/ SoundOn(First) \/ SoundOff(First)
  BY PyOn
<1>2. ~LeavesTTS /\ ~Speaks
  BY DEF LeavesTTS, Speaks, PySound
<1>3. CASE GivesUp
  BY <1>1, <1>3 DEF GivesUp, Failing
<1>4. CASE Completes
  BY <1>4 DEF Completes, Ready, DoneEnded
<1>5. CASE ~GivesUp /\ ~Completes
  BY <1>1, <1>2, <1>5 DEF Rests, LeavesTransport, Reports, Answers, Ignores, SoundOn, SoundOff, StreamKept
<1>. QED
  BY <1>3, <1>4, <1>5

LEMMA HeldIs ==
    ASSUME Ready, TasksKnown, NEW r \in host.requests
    PROVE  /\ r \in Requests /\ r # 0 /\ host.task[r].turn = host.turn /\ host.task[r].turn \in 1 .. py.turns
           /\ r = py.stream => py.streamTurn = host.turn
           /\ ~Ends(r) /\ r # py.requested + 1
<1>1. r \in Requests /\ 0 \notin Requests
  BY OneOpen
<1>2. host.task[r].stage \in Running /\ host.task[r].turn = host.turn
  BY <1>1 DEF Ready, Owned
<1>3. host.task[r].stage # "none" /\ ~Ends(r)
  BY <1>2 DEF Running, Ends
<1>4. py.requested \in Nat /\ Requests \subseteq Nat
  BY SentIs DEF Py, Requests
<1>5. r # py.requested + 1
  BY <1>1, <1>3, <1>4 DEF Ready, AskedOnce
<1>. QED
  BY <1>1, <1>2, <1>3, <1>5 DEF TasksKnown

LEMMA PyGiven ==
    ASSUME Ready, PySound, SessionsKnown, TasksKnown, Given, PyMove
    PROVE  Given'
<1>. SUFFICES ASSUME Live'
              PROVE  /\ \A r \in host'.requests : r # py'.stream /\ host'.task[r].turn = py'.turn => Failing'
                     /\ \A i \in Due' : Asks(i)' /\ toHost'[i].request # py'.stream /\ toHost'[i].turn = py'.turn => Failing'
  BY DEF Given
<1>1. host'.requests = host.requests /\ host'.task = host.task
  BY PyWires DEF HostKept
<1>2. ASSUME NEW i \in Due', Asks(i)', toHost'[i].request # py'.stream
      PROVE  /\ i \in Due /\ Asks(i) /\ toHost'[i] = toHost[i] /\ toHost[i].turn \in 1 .. py.turns
             /\ toHost[i].request = py.stream => toHost[i].turn = py.streamTurn
             /\ ~Ends(toHost[i].request) /\ toHost[i].request # 0
  <2>1. i \in Due
    <3>1. CASE i \notin Due
      <4>1. Sends(i)
        BY <3>1, PyWires
      <4>. QED
        BY <1>2, <4>1 DEF Sends, Asks, Speaks
    <3>. QED
      BY <3>1
  <2>2. toHost'[i] = toHost[i] /\ Asks(i)
    BY <1>2, <2>1, PyWires DEF Asks
  <2>3. ~Ends(toHost[i].request) /\ toHost[i].request # 0
    BY <2>1, <2>2, PyStreams DEF Ends, Requests
  <2>. QED
    BY <2>1, <2>2, <2>3 DEF TasksKnown
<1>3. CASE Begins
  <2>1. py'.turn = py.turns + 1 /\ py.turns \in Nat
    BY <1>3, TurnsAre DEF Begins
  <2>2. py'.turn \notin 1 .. py.turns
    BY <2>1
  <2>. QED
    BY <1>1, <1>2, <2>2, HeldIs
<1>4. CASE ~Begins
  <2>1. Live /\ (Failing => Failing') /\ py'.turn = py.turn
    BY <1>4, PyOn
  <2>2. /\ \A r \in host.requests : r # py.stream /\ host.task[r].turn = py.turn => Failing
        /\ \A i \in Due : Asks(i) /\ toHost[i].request # py.stream /\ toHost[i].turn = py.turn => Failing
    BY <2>1 DEF Given
  <2>3. ASSUME NEW r \in host.requests, r # py'.stream, host.task[r].turn = py.turn PROVE Failing'
    <3>1. CASE r = py.stream
      <4>1. py.streamTurn = py.turn /\ py.stream # 0 /\ ~Ends(py.stream)
        BY <2>3, <3>1, HeldIs
      <4>. QED
        BY <1>4, <2>3, <3>1, <4>1, PyDrops
    <3>. QED
      BY <2>1, <2>2, <2>3, <3>1
  <2>4. ASSUME NEW i \in Due', Asks(i)', toHost'[i].request # py'.stream, toHost'[i].turn = py'.turn PROVE Failing'
    <3>1. CASE toHost[i].request = py.stream
      <4>1. py.streamTurn = py.turn /\ py.stream # 0 /\ ~Ends(py.stream) /\ py'.stream # py.stream
        BY <1>2, <2>1, <2>4, <3>1
      <4>. QED
        BY <1>4, <4>1, PyDrops
    <3>. QED
      BY <1>2, <2>1, <2>2, <2>4, <3>1
  <2>. QED
    BY <1>1, <2>1, <2>3, <2>4
<1>. QED
  BY <1>3, <1>4

LEMMA PyStillOn ==
    ASSUME Ready, PySound, SessionsKnown, TasksKnown, StillOn, PyMove
    PROVE  StillOn'
<1>. SUFFICES ASSUME Joined', ~Failing', host'.speaking
              PROVE  /\ host'.speechRequest # 0
                     /\ host'.speechRequest = py'.stream =>
                        \/ py'.speaking = py'.stream /\ \A i \in Sent' : ~Off(i, py.stream)'
                        \/ \E i \in Sent' : On(i, py.stream)' /\ \A j \in Sent' : j > i => ~Off(j, py.stream)'
  BY DEF StillOn
<1>1. /\ host'.requests = host.requests /\ host'.task = host.task /\ host'.speaking = host.speaking
      /\ host'.speechRequest = host.speechRequest /\ host'.turn = host.turn
  BY PyWires DEF HostKept
<1>2. Live' /\ host.turn = py'.turn
  BY <1>1 DEF Joined
<1>3. ~Begins
  <2>1. ASSUME Begins PROVE FALSE
    <3>1. host.turn = py.turns + 1 /\ py.turns \in Nat
      BY <1>2, <2>1, TurnsAre DEF Begins
    <3>2. host.turn # 0 => host.turn <= py.turns
      BY DEF SessionsKnown
    <3>. QED
      BY <3>1, <3>2
  <2>. QED
    BY <2>1
<1>4. PICK d \in {0, 1} :
              /\ d = 1 => 1 \in Sent /\ (Answers(First) \/ Ignores(First) \/ SoundOn(First) \/ SoundOff(First))
              /\ d = 0 => \/ Rests \/ LeavesTTS \/ LeavesTransport \/ Speaks \/ Completes \/ GivesUp \/ Reports
              /\ SentOn(d)
  BY <1>2, <1>3, PyOn
<1>. USE DEF SentOn
<1>5. /\ Live /\ ~Failing /\ py'.turn = py.turn /\ py'.session = py.session /\ py.turn # 0
      /\ host.session = py.session
  BY <1>2, <1>3, PyOn
<1>6. Joined /\ host.turn = py.turn
  BY <1>2, <1>5 DEF Joined
<1>7. host.speechRequest # 0
  BY <1>1, <1>5, <1>6 DEF StillOn
<1>8. ASSUME host.speechRequest = py'.stream
      PROVE  \/ py'.speaking = py'.stream /\ \A i \in Sent' : ~Off(i, py.stream)'
             \/ \E i \in Sent' : On(i, py.stream)' /\ \A j \in Sent' : j > i => ~Off(j, py.stream)'
  <2>. DEFINE q == host.speechRequest
  <2>1. q \in host.requests
    BY <1>7, OneOpen
  <2>2. py.stream = q /\ py.streamTurn = py.turn /\ py.stream # 0
    <3>1. ~(Speaks /\ py'.stream = q)
      BY <2>1, HeldIs DEF Speaks
    <3>2. py.stream = q
      BY <1>7, <1>8, <3>1, PyStreams
    <3>. QED
      BY <1>6, <1>7, <2>1, <3>2, HeldIs
  <2>3. ~py.atTTS /\ ~py.atTransport
    BY <2>2 DEF PySound
  <2>4. d = 0 => py'.speaking = py.speaking
    BY <1>4, <2>3 DEF Rests, LeavesTTS, LeavesTransport, Speaks, Completes, GivesUp, Reports, VoiceKept
  <2>5. \/ py.speaking = q /\ \A i \in Sent : ~Off(i, q)
        \/ \E i \in Sent : On(i, q) /\ \A j \in Sent : j > i => ~Off(j, q)
    BY <1>1, <1>5, <1>6, <1>7, <2>2 DEF StillOn
  <2>6. CASE py.speaking = q /\ \A i \in Sent : ~Off(i, q)
    <3>1. d = 1 => py'.speaking = py.speaking
      <4>1. CASE SoundOff(First) /\ d = 1
        BY <1>4, <2>6, <4>1 DEF SoundOff, First, Off
      <4>. QED
        BY <1>4, <2>2, <2>6, <4>1 DEF Answers, Ignores, SoundOn, Rests, VoiceKept
    <3>2. \A i \in Sent' : ~Off(i, py.stream)'
      BY <1>4, <1>5, <1>8, <2>6 DEF Off
    <3>. QED
      BY <1>8, <2>4, <2>6, <3>1, <3>2
  <2>7. ASSUME NEW i \in Sent, On(i, q), \A j \in Sent : j > i => ~Off(j, q)
        PROVE  \/ py'.speaking = py'.stream /\ \A n \in Sent' : ~Off(n, py.stream)'
               \/ \E n \in Sent' : On(n, py.stream)' /\ \A j \in Sent' : j > n => ~Off(j, py.stream)'
    <3>1. CASE i > d
      <4>1. i - d \in Sent' /\ host'.sent[i - d] = host.sent[i] /\ i \in Nat
        BY <1>4, <3>1
      <4>2. ASSUME NEW j \in Sent', j > i - d PROVE ~Off(j, py.stream)'
        <5>1. j + d \in Sent /\ j + d > i /\ host'.sent[j] = host.sent[j + d]
          BY <1>4, <4>1, <4>2
        <5>. QED
          BY <1>5, <1>8, <2>7, <5>1 DEF Off
      <4>. QED
        BY <1>5, <1>8, <2>7, <4>1, <4>2 DEF On
    <3>2. CASE ~(i > d)
      <4>1. i = 1 /\ d = 1
        BY <1>4, <3>2
      <4>2. First.kind = "playback_on" /\ First.request = q /\ First.session = py.session
        BY <2>7, <4>1 DEF On, First
      <4>3. SoundOn(First) \/ (Ignores(First) /\ py.speaking = q)
        BY <1>4, <2>2, <4>1, <4>2 DEF Answers, Ignores, SoundOff
      <4>4. py'.speaking = q
        BY <2>2, <4>3 DEF SoundOn, Ignores, Rests, VoiceKept
      <4>5. ASSUME NEW n \in Sent' PROVE ~Off(n, py.stream)'
        <5>1. n + 1 \in Sent /\ n + 1 > i /\ host'.sent[n] = host.sent[n + 1]
          BY <1>4, <4>1
        <5>. QED
          BY <1>5, <1>8, <2>7, <5>1 DEF Off
      <4>. QED
        BY <1>8, <4>4, <4>5
    <3>. QED
      BY <3>1, <3>2
  <2>. QED
    BY <2>5, <2>6, <2>7
<1>. QED
  BY <1>1, <1>7, <1>8

LEMMA PyBacked ==
    ASSUME Ready, PySound, SessionsKnown, TasksKnown, Backed, PyMove
    PROVE  Backed'
<1>. SUFFICES ASSUME Live'
              PROVE  /\ py'.speaking # 0 /\ py'.speakingTurn = py'.turn =>
                           /\ host'.turn = py'.turn
                           /\ \/ \E j \in Sent' : Off(j, py.speaking)'
                              \/ host'.speaking /\ host'.speechRequest = py'.speaking
                              \/ Failing'
                     /\ \A i \in Sent' : py'.stream # 0 /\ On(i, py.stream)' /\ py'.streamTurn = py'.turn =>
                           /\ host'.turn = py'.turn
                           /\ \/ \E j \in Sent' : j > i /\ Off(j, py.stream)'
                              \/ host'.speaking /\ host'.speechRequest = py'.stream
                              \/ Failing'
  BY DEF Backed
<1>1. /\ host'.speaking = host.speaking /\ host'.speechRequest = host.speechRequest /\ host'.turn = host.turn
  BY PyWires DEF HostKept
<1>2. CASE Begins
  <2>1. /\ py'.turn = py.turns + 1 /\ py.turns \in Nat /\ py'.streamTurn = py.streamTurn
        /\ py'.speaking = py.speaking /\ py'.speakingTurn = py.speakingTurn
        /\ py.streamTurn \in Nat /\ py.streamTurn <= py.turns
    BY <1>2, TurnsAre DEF Begins, StreamKept, VoiceKept
  <2>2. py'.streamTurn # py'.turn
    BY <2>1
  <2>3. py.speaking # 0 => py.speakingTurn <= py.turns
    BY DEF PySound
  <2>4. py.speakingTurn \in Nat
    BY SentIs DEF Py, Turns
  <2>5. ~(py'.speaking # 0 /\ py'.speakingTurn = py'.turn)
    BY <2>1, <2>3, <2>4
  <2>. QED
    BY <2>2, <2>5
<1>3. CASE ~Begins
  <2>1. PICK d \in {0, 1} :
              /\ d = 1 => 1 \in Sent /\ (Answers(First) \/ Ignores(First) \/ SoundOn(First) \/ SoundOff(First))
              /\ d = 0 => \/ Rests \/ LeavesTTS \/ LeavesTransport \/ Speaks \/ Completes \/ GivesUp \/ Reports
              /\ SentOn(d)
    BY <1>3, PyOn
  <2>. USE DEF SentOn
  <2>2. /\ Live /\ (Failing => Failing') /\ py'.turn = py.turn /\ py'.session = py.session /\ py.turn # 0
    BY <1>3, PyOn
  <2>3. ASSUME NEW i \in Sent, i >= d, py.stream # 0, On(i, py.stream), py.streamTurn = py.turn
        PROVE  /\ host.turn = py.turn
               /\ \/ \E j \in Sent : j > i /\ Off(j, py.stream)
                  \/ host.speaking /\ host.speechRequest = py.stream
                  \/ Failing
    BY <2>2, <2>3 DEF Backed
  <2>4. ASSUME NEW i \in Sent, NEW j \in Sent, j > i, i >= d, i \in Nat, j \in Nat
        PROVE  j - d \in Sent' /\ host'.sent[j - d] = host.sent[j] /\ j - d > i - d
    BY <2>1, <2>4
  <2>5. ASSUME py'.speaking # 0, py'.speakingTurn = py'.turn
        PROVE  /\ host'.turn = py'.turn
               /\ \/ \E j \in Sent' : Off(j, py.speaking)'
                  \/ host'.speaking /\ host'.speechRequest = py'.speaking
                  \/ Failing'
    <3>1. CASE d = 1 /\ SoundOn(First)
      <4>1. /\ 1 \in Sent /\ py.stream = First.request /\ py.streamTurn = py.turn /\ First.kind = "playback_on"
            /\ First.session = py.session /\ py'.speaking = py.stream
        BY <2>1, <3>1 DEF SoundOn
      <4>2. On(1, py.stream) /\ py.stream # 0
        BY <2>5, <4>1 DEF On, First
      <4>3. /\ host.turn = py.turn
            /\ \/ \E j \in Sent : j > 1 /\ Off(j, py.stream)
               \/ host.speaking /\ host.speechRequest = py.stream
               \/ Failing
        BY <2>3, <3>1, <4>1, <4>2
      <4>4. ASSUME NEW j \in Sent, j > 1, Off(j, py.stream) PROVE \E n \in Sent' : Off(n, py.speaking)'
        <5>1. j - 1 \in Sent' /\ host'.sent[j - 1] = host.sent[j]
          BY <2>1, <3>1, <4>4
        <5>. QED
          BY <2>2, <4>1, <4>4, <5>1 DEF Off
      <4>. QED
        BY <1>1, <2>2, <4>1, <4>3, <4>4
    <3>2. CASE ~(d = 1 /\ SoundOn(First))
      <4>1. VoiceKept /\ ~(d = 1 /\ SoundOff(First))
        BY <2>1, <2>5, <3>2 DEF Rests, LeavesTTS, LeavesTransport, Speaks, Completes, GivesUp, Reports,
                                Answers, Ignores, SoundOff, Hushing
      <4>2. /\ host.turn = py.turn
            /\ \/ \E j \in Sent : Off(j, py.speaking)
               \/ host.speaking /\ host.speechRequest = py.speaking
               \/ Failing
        BY <2>2, <2>5, <4>1 DEF Backed, VoiceKept
      <4>3. ASSUME NEW j \in Sent, Off(j, py.speaking) PROVE \E n \in Sent' : Off(n, py.speaking)'
        <5>1. j > d
          <6>1. CASE ~(j > d)
            <7>1. d = 1 /\ First.kind = "playback_off" /\ First.request = py.speaking /\ First.session = py.session
              BY <2>1, <4>3, <6>1 DEF Off, First
            <7>. QED
              BY <2>1, <3>2, <4>1, <7>1 DEF Answers, Ignores
          <6>. QED
            BY <6>1
        <5>2. j - d \in Sent' /\ host'.sent[j - d] = host.sent[j]
          BY <2>1, <5>1
        <5>. QED
          BY <2>2, <4>1, <4>3, <5>2 DEF Off, VoiceKept
      <4>. QED
        BY <1>1, <2>2, <4>1, <4>2, <4>3 DEF VoiceKept
    <3>. QED
      BY <3>1, <3>2
  <2>6. ASSUME NEW i \in Sent', py'.stream # 0, On(i, py.stream)', py'.streamTurn = py'.turn
        PROVE  /\ host'.turn = py'.turn
               /\ \/ \E j \in Sent' : j > i /\ Off(j, py.stream)'
                  \/ host'.speaking /\ host'.speechRequest = py'.stream
                  \/ Failing'
    <3>1. /\ i + d \in Sent /\ host'.sent[i] = host.sent[i + d] /\ i \in Nat /\ i >= 1 /\ i + d \in Nat
      BY <2>1
    <3>2. On(i + d, py'.stream)
      BY <2>2, <2>6, <3>1 DEF On
    <3>3. ~Speaks
      <4>1. host.sent[i + d].request \in Requests /\ host.task[host.sent[i + d].request].stage # "none"
        BY <3>1, <3>2 DEF TasksKnown, On
      <4>. QED
        BY <3>2, <4>1, PyStreams DEF Speaks, On
    <3>4. py'.stream = py.stream /\ py'.streamTurn = py.streamTurn
      BY <2>6, <3>3, PyStreams
    <3>5. /\ host.turn = py.turn
          /\ \/ \E j \in Sent : j > i + d /\ Off(j, py.stream)
             \/ host.speaking /\ host.speechRequest = py.stream
             \/ Failing
      <4>1. i + d >= d
        BY <3>1
      <4>. QED
        BY <2>2, <2>3, <2>6, <3>1, <3>2, <3>4, <4>1
    <3>6. ASSUME NEW j \in Sent, j > i + d, Off(j, py.stream) PROVE \E n \in Sent' : n > i /\ Off(n, py.stream)'
      <4>1. j - d \in Sent' /\ host'.sent[j - d] = host.sent[j] /\ j - d > i
        BY <2>1, <3>1, <3>6
      <4>. QED
        BY <2>2, <3>4, <3>6, <4>1 DEF Off
    <3>. QED
      BY <1>1, <2>2, <3>4, <3>5, <3>6
  <2>. QED
    BY <2>5, <2>6
<1>. QED
  BY <1>2, <1>3

\* A voice is heard on, or the screen is told of its end.
LEMMA PyVoice ==
    ASSUME Ready, PySound, TasksKnown, PyMove
    PROVE  /\ \/ VoiceKept
              \/ Hushing /\ py'.speaking = 0
              \/ /\ SoundOn(First) /\ 1 \in Sent /\ py.turn # 0 /\ py.stream # 0
                 /\ py'.speaking = py.stream /\ py'.speakingTurn = py.turn
                 /\ py.speaking # 0 => py.speakingTurn = py.turn
           /\ py.speaking # 0 =>
                 \/ py'.speaking # 0 /\ py'.speakingTurn = py.speakingTurn
                 \/ \E j \in Due' : /\ j \notin Due /\ toHost'[j].kind = "bot_stopped"
                                    /\ toHost'[j].turn = py.speakingTurn
<1>1. VoiceKept \/ Hushing \/ (SoundOn(First) /\ 1 \in Sent)
  BY PyWires DEF Begins, Rests, Departs, LeavesTTS, LeavesTransport, Speaks, Completes, GivesUp, Reports,
                 Takes, Answers, Opens, Ignores, SoundOff, Halting
<1>2. CASE VoiceKept
  BY <1>2 DEF VoiceKept
<1>3. CASE Hushing
  <2>1. py'.speaking = 0
    BY <1>3 DEF Hushing
  <2>2. ASSUME py.speaking # 0
        PROVE  \E j \in Due' : /\ j \notin Due /\ toHost'[j].kind = "bot_stopped"
                               /\ toHost'[j].turn = py.speakingTurn
    <3>1. PICK j : Anew(j) /\ toHost'[j].kind = "bot_stopped" /\ toHost'[j].turn = py.speakingTurn
      BY <1>3, <2>2 DEF Hushing, Says, Anew
    <3>2. j \in Due' /\ j \notin Due
      BY <3>1, PyWires
    <3>. QED
      BY <3>1, <3>2
  <2>. QED
    BY <1>3, <2>1, <2>2
<1>4. CASE SoundOn(First) /\ 1 \in Sent
  <2>1. /\ First.kind = "playback_on" /\ py.stream = First.request /\ py.streamTurn = py.turn
        /\ py'.speaking = py.stream /\ py'.speakingTurn = py.turn
    BY <1>4 DEF SoundOn
  <2>2. py.stream \in Requests
    BY <1>4, <2>1 DEF TasksKnown, First
  <2>3. py.stream # 0
    BY <2>2 DEF Requests
  <2>4. py.turn # 0
    BY <2>1, <2>3, TurnsAre
  <2>5. ~py.atTTS /\ ~py.atTransport
    BY <2>1, <2>3 DEF PySound
  <2>6. py.speaking # 0 => py.speakingTurn = py.turn
    BY <2>5 DEF PySound
  <2>. QED
    BY <1>4, <2>1, <2>3, <2>4, <2>6
<1>. QED
  BY <1>1, <1>2, <1>3, <1>4

LEMMA PyScreen ==
    ASSUME Ready, PySound, SessionsKnown, TasksKnown, TurnsInOrder, Screen, PyMove
    PROVE  Screen'
<1>1. /\ \A i \in Due : i \in Nat /\ i \in Due' /\ toHost'[i] = toHost[i]
      /\ \A i \in Due' : i \in Nat /\ (i \notin Due => Anew(i) /\ Sends(i))
      /\ \A i \in Due' : i \notin Due => \A j \in Due : j < i
      /\ \A i, j \in Due' : i \notin Due /\ j \notin Due => i = j
  BY PyWires
<1>2. /\ host'.session = host.session /\ host'.active = host.active /\ host'.botSpeaking = host.botSpeaking
      /\ host'.botTurn = host.botTurn
  BY PyWires DEF HostKept, SameVisible, SameScreen
<1>3. /\ \A t \in 1 .. py.turns : t \in 1 .. py'.turns /\ py'.sessionOf[t] = py.sessionOf[t]
      /\ py.turns \in Nat
  BY PyTurnsGo
<1>4. py.speakingTurn \in Nat /\ (py.speaking # 0 => py.speakingTurn \in 1 .. py.turns)
  <2>1. py.speakingTurn \in Nat
    BY SentIs DEF Py, Turns
  <2>. QED
    BY <1>3, <2>1 DEF PySound
<1>5. ASSUME NEW i \in Due', i \notin Due, toHost'[i].kind \in {"bot_started", "bot_stopped"}
      PROVE  \/ /\ toHost'[i].kind = "bot_stopped" /\ py.speaking # 0 /\ toHost'[i].turn = py.speakingTurn
                /\ toHost'[i].session = SessionOf(py, py.speakingTurn) /\ py'.speaking = 0
             \/ /\ toHost'[i].kind = "bot_started" /\ toHost'[i].turn = py.turn /\ SoundOn(First) /\ 1 \in Sent
                /\ toHost'[i].session = SessionOf(py, py.turn)
  <2>1. Sends(i)
    BY <1>1, <1>5
  <2>2. LeavesTransport \/ SoundOff(First) => py'.speaking = 0
    BY DEF LeavesTransport, SoundOff, Hushing
  <2>. QED
    BY <1>5, <2>1, <2>2 DEF Sends
<1>6. SoundOn(First) /\ 1 \in Sent =>
         py.turn # 0 /\ py.turn \in 1 .. py.turns /\ py'.speaking # 0 /\ py'.speakingTurn = py.turn
  <2>1. ASSUME SoundOn(First), 1 \in Sent PROVE py.turn # 0 /\ py'.speaking # 0 /\ py'.speakingTurn = py.turn
    <3>1. First.kind = "playback_on" /\ py.stream = First.request /\ py.streamTurn = py.turn
          /\ py'.speaking = py.stream /\ py'.speakingTurn = py.turn
      BY <2>1 DEF SoundOn
    <3>2. py.stream \in Requests /\ 0 \notin Requests
      BY <2>1, <3>1 DEF TasksKnown, First, Requests
    <3>. QED
      BY <3>1, <3>2, TurnsAre
  <2>. QED
    BY <2>1, TurnsAre
<1>7. ASSUME NEW i \in Due', toHost'[i].kind \in {"bot_started", "bot_stopped"}
      PROVE  toHost'[i].turn # 0 /\ py'.sessionOf[toHost'[i].turn] = toHost'[i].session
  <2>1. CASE i \in Due
    <3>1. toHost'[i] = toHost[i] /\ toHost[i].turn # 0 /\ py.sessionOf[toHost[i].turn] = toHost[i].session
      BY <1>1, <1>7, <2>1 DEF Screen
    <3>2. toHost[i].turn \in 1 .. py.turns
      BY <1>3, <2>1, <3>1, DueIs DEF TurnsInOrder
    <3>. QED
      BY <1>3, <3>1, <3>2
  <2>2. CASE i \notin Due
    <3>1. PICK t \in 1 .. py.turns : toHost'[i].turn = t /\ toHost'[i].session = SessionOf(py, t)
      BY <1>4, <1>5, <1>6, <1>7, <2>2
    <3>2. t # 0 /\ SessionOf(py, t) = py.sessionOf[t]
      BY <1>3 DEF SessionOf, None
    <3>. QED
      BY <1>3, <3>1, <3>2
  <2>. QED
    BY <2>1, <2>2
<1>8. ASSUME host'.botSpeaking
      PROVE  /\ host'.active /\ host'.botTurn \in 1 .. py'.turns /\ py'.sessionOf[host'.botTurn] = host'.session
             /\ Voice(host.botTurn)' \/ \E i \in Due' : Hides(i, host.botTurn)'
  <2>1. /\ host.active /\ host.botTurn \in 1 .. py.turns /\ py.sessionOf[host.botTurn] = host.session
        /\ Voice(host.botTurn) \/ \E i \in Due : Hides(i, host.botTurn)
    BY <1>2, <1>8 DEF Screen
  <2>2. CASE Voice(host.botTurn)
    <3>1. py.speaking # 0 /\ py.speakingTurn = host.botTurn
      BY <2>2 DEF Voice
    <3>2. \/ py'.speaking # 0 /\ py'.speakingTurn = host.botTurn
          \/ \E j \in Due' : toHost'[j].kind = "bot_stopped" /\ toHost'[j].turn = host.botTurn
      BY <3>1, PyVoice
    <3>. QED
      BY <1>2, <1>3, <2>1, <3>2 DEF Voice, Hides
  <2>3. CASE \E i \in Due : Hides(i, host.botTurn)
    BY <1>1, <1>2, <1>3, <2>1, <2>3 DEF Hides
  <2>. QED
    BY <2>1, <2>2, <2>3
<1>9. ASSUME NEW i \in Due', toHost'[i].kind = "bot_started"
      PROVE  Voice(toHost[i].turn)' \/ \E j \in Due' : j > i /\ Hides(j, toHost[i].turn)'
  <2>1. CASE i \in Due
    <3>1. toHost'[i] = toHost[i] /\ (Voice(toHost[i].turn) \/ \E j \in Due : j > i /\ Hides(j, toHost[i].turn))
      BY <1>1, <1>9, <2>1 DEF Screen
    <3>2. CASE Voice(toHost[i].turn)
      <4>1. py.speaking # 0 /\ py.speakingTurn = toHost[i].turn
        BY <3>2 DEF Voice
      <4>2. \/ py'.speaking # 0 /\ py'.speakingTurn = toHost[i].turn
            \/ \E j \in Due' : /\ j \notin Due /\ toHost'[j].kind = "bot_stopped"
                               /\ toHost'[j].turn = toHost[i].turn
        BY <4>1, PyVoice
      <4>3. \A j \in Due' : j \notin Due => j > i
        BY <1>1, <2>1
      <4>. QED
        BY <3>1, <4>2, <4>3 DEF Voice, Hides
    <3>3. CASE \E j \in Due : j > i /\ Hides(j, toHost[i].turn)
      BY <1>1, <3>1, <3>3 DEF Hides
    <3>. QED
      BY <3>1, <3>2, <3>3
  <2>2. CASE i \notin Due
    <3>1. toHost'[i].turn = py.turn /\ SoundOn(First) /\ 1 \in Sent
      BY <1>5, <1>9, <2>2
    <3>. QED
      BY <1>6, <3>1 DEF Voice
  <2>. QED
    BY <2>1, <2>2
<1>10. ASSUME Live', Voice(py.turn)'
       PROVE  \/ /\ host'.botSpeaking /\ host'.botTurn = py'.turn
                 /\ \A i \in Due' : ~Hides(i, py.turn)'
              \/ \E i \in Due' : Shows(i, py.turn)' /\ \A j \in Due' : j > i => ~Hides(j, py.turn)'
  <2>1. py'.speaking # 0 /\ py'.speakingTurn = py'.turn
    BY <1>10 DEF Voice
  <2>2. ~Begins
    <3>1. ASSUME Begins PROVE FALSE
      <4>1. /\ py'.turn = py.turns + 1 /\ py'.speaking = py.speaking /\ py'.speakingTurn = py.speakingTurn
        BY <3>1 DEF Begins, VoiceKept
      <4>2. py.speakingTurn \in 1 .. py.turns
        BY <1>4, <2>1, <4>1
      <4>. QED
        BY <1>3, <2>1, <4>1, <4>2
    <3>. QED
      BY <3>1
  <2>3. Live /\ py'.turn = py.turn
    BY <1>10, <2>2, PyOn
  <2>4. CASE SoundOn(First) /\ 1 \in Sent
    <3>1. PICK i : Anew(i) /\ toHost'[i].kind = "bot_started" /\ toHost'[i].turn = py.turn
      BY <2>4 DEF SoundOn, Says, Anew
    <3>2. i \in Due' /\ i \notin Due
      BY <3>1, PyWires
    <3>3. \A j \in Due' : ~(j > i)
      <4>1. ASSUME NEW j \in Due', j > i PROVE FALSE
        <5>1. CASE j \in Due
          BY <1>1, <3>2, <4>1, <5>1
        <5>2. CASE j \notin Due
          BY <1>1, <3>2, <4>1, <5>2
        <5>. QED
          BY <5>1, <5>2
      <4>. QED
        BY <4>1
    <3>. QED
      BY <2>3, <3>1, <3>2, <3>3 DEF Shows
  <2>5. CASE ~(SoundOn(First) /\ 1 \in Sent)
    <3>1. VoiceKept
      BY <2>1, <2>5, PyVoice
    <3>2. Voice(py.turn)
      BY <2>1, <2>3, <3>1 DEF Voice, VoiceKept
    <3>3. \A i \in Due' : i \notin Due => ~Hides(i, py.turn)'
      BY <1>5, <2>1 DEF Hides
    <3>4. \A i \in Due : (Hides(i, py.turn)' <=> Hides(i, py.turn)) /\ (Shows(i, py.turn)' <=> Shows(i, py.turn))
      BY <1>1, <2>3 DEF Hides, Shows
    <3>5. \/ /\ host.botSpeaking /\ host.botTurn = py.turn
             /\ \A i \in Due : ~Hides(i, py.turn)
          \/ \E i \in Due : Shows(i, py.turn) /\ \A j \in Due : j > i => ~Hides(j, py.turn)
      BY <2>3, <3>2 DEF Screen
    <3>6. CASE host.botSpeaking /\ host.botTurn = py.turn /\ \A i \in Due : ~Hides(i, py.turn)
      BY <1>2, <2>3, <3>3, <3>4, <3>6
    <3>7. CASE \E i \in Due : Shows(i, py.turn) /\ \A j \in Due : j > i => ~Hides(j, py.turn)
      BY <1>1, <3>3, <3>4, <3>7
    <3>. QED
      BY <3>5, <3>6, <3>7
  <2>. QED
    BY <2>4, <2>5
<1>. QED
  BY <1>7, <1>8, <1>9, <1>10 DEF Screen

-----------------------------------------------------------------------------
(* The agreement holds at every step.                                        *)

LEMMA InitAgreed == Init => Agreed
<1>. SUFFICES ASSUME Init
              PROVE  Agreed
  OBVIOUS
<1>1. /\ host.active = TRUE /\ host.session = 1 /\ host.turn = 0 /\ host.drawn = 1 /\ host.speechRequest = 0
      /\ host.requests = {} /\ host.botSpeaking = FALSE /\ host.speaking = FALSE /\ host.sent = <<>>
      /\ \A r \in Requests : host.task[r].stage = "none"
  <2>1. host = Host0
    BY DEF Init
  <2>. QED
    BY <2>1 DEF Host0, None
<1>2. /\ py.active = TRUE /\ py.session = 1 /\ py.turn = 0 /\ py.turns = 0 /\ py.stream = 0 /\ py.speaking = 0
      /\ py.atTransport = FALSE
  BY DEF Init, None
<1>3. toHost = <<>>
  BY DEF Init
<1>4. Sent = {} /\ Due = {}
  BY <1>1, <1>3 DEF Sent, Due
<1>5. ~Live /\ ~Joined
  BY <1>2 DEF Live, Joined
<1>6. Sustained /\ PySound
  BY <1>1, <1>2 DEF Sustained, PySound
<1>7. SessionsKnown
  BY <1>1, <1>2, <1>4 DEF SessionsKnown
<1>8. TasksKnown /\ TurnsInOrder
  BY <1>1, <1>4, <1>5 DEF TasksKnown, TurnsInOrder
<1>9. Given /\ StillOn /\ Backed
  BY <1>5 DEF Given, StillOn, Backed
<1>10. Screen
  BY <1>1, <1>4, <1>5 DEF Screen
<1>. QED
  BY <1>6, <1>7, <1>8, <1>9, <1>10 DEF Agreed

LEMMA StutterAgreed == Agreed /\ UNCHANGED vars => Agreed'
<1>. SUFFICES ASSUME Agreed, UNCHANGED vars
              PROVE  Agreed'
  OBVIOUS
<1>1. host' = host /\ py' = py /\ toHost' = toHost
  BY DEF vars
<1>2. Sustained' /\ PySound' /\ SessionsKnown' /\ TasksKnown'
  BY <1>1 DEF Agreed, Sustained, PySound, Controlled, Has, SessionsKnown, TasksKnown, Sent, Due, Starts, Closes, Asks
<1>3. (Live' <=> Live) /\ (Joined' <=> Joined)
  BY <1>1 DEF Joined, Live, Doomed, Controlled, Has, Sent, Starts, Halts
<1>4. TurnsInOrder'
  BY <1>1, <1>3 DEF Agreed, TurnsInOrder, Due, Asks, NewTurn, Leaves
<1>5. Failing' <=> Failing
  BY <1>1 DEF Failing, Broken, Faulty, Has, Ends, Sent, Due
<1>6. Given' /\ StillOn' /\ Backed'
  BY <1>1, <1>3, <1>5 DEF Agreed, Given, StillOn, Backed, Due, Sent, Asks, On, Off
<1>7. Screen'
  BY <1>1, <1>3 DEF Agreed, Screen, Due, Shows, Hides, Voice
<1>. QED
  BY <1>2, <1>4, <1>6, <1>7 DEF Agreed

LEMMA NextAgreed == Ready /\ Agreed /\ [Next]_vars => Agreed'
<1>. SUFFICES ASSUME Ready, Agreed, [Next]_vars
              PROVE  Agreed'
  OBVIOUS
<1>1. /\ Sustained /\ PySound /\ SessionsKnown /\ TasksKnown /\ TurnsInOrder
      /\ Given /\ StillOn /\ Backed /\ Screen
  BY DEF Agreed
<1>2. Next <=> HostSteps \/ PySteps
  BY DEF Next, HostSteps, PySteps
<1>3. Next => Drained'
  BY <1>1, NextDrained DEF Sustained, Drained
<1>4. CASE HostSteps
  <2>1. PICK d \in {0, 1} : HostStep(d)
    BY <1>1, <1>4, HostSeen
  <2>2. Sustained'
    BY <1>1, <1>2, <1>3, <1>4, <2>1, HostSustains DEF Sustained, Drained
  <2>3. PySound'
    <3>1. py' = py
      BY <2>1 DEF HostStep
    <3>. QED
      BY <1>1, <3>1 DEF PySound, Controlled, Has
  <2>4. SessionsKnown' /\ TasksKnown' /\ TurnsInOrder'
    BY <1>1, <2>1, HostSessions, HostTasks, HostTurns
  <2>5. Given' /\ StillOn' /\ Backed' /\ Screen'
    BY <1>1, <2>1, HostGiven, HostStillOn, HostBacked, HostScreen
  <2>. QED
    BY <2>2, <2>3, <2>4, <2>5 DEF Agreed
<1>5. CASE PySteps
  <2>1. TypeOK' /\ PyMove
    BY <1>5, PySeen
  <2>2. Sustained'
    <3>1. host'.speaking = host.speaking /\ host'.pending = host.pending
      BY <2>1, PyWires DEF HostKept
    <3>. QED
      BY <1>1, <1>2, <1>3, <1>5, <3>1 DEF Sustained, Drained
  <2>3. PySound' /\ SessionsKnown' /\ TasksKnown' /\ TurnsInOrder'
    BY <1>1, <2>1, PySoundKept, PySessions, PyTasks, PyTurnsInOrder
  <2>4. Given' /\ StillOn' /\ Backed' /\ Screen'
    BY <1>1, <2>1, PyGiven, PyStillOn, PyBacked, PyScreen
  <2>. QED
    BY <2>2, <2>3, <2>4 DEF Agreed
<1>. QED
  BY <1>2, <1>4, <1>5, StutterAgreed

LEMMA AgreedShows == Ready /\ Agreed => PlaybackAgreement
<1>. SUFFICES ASSUME Ready, Agreed, Settled
              PROVE  /\ py.speaking = IF host.speaking THEN host.speechRequest ELSE 0
                     /\ host.botSpeaking = host.speaking
  BY DEF PlaybackAgreement, None
<1>1. /\ PySound /\ TurnsInOrder /\ StillOn /\ Backed /\ Screen
      /\ host.speaking \in BOOLEAN /\ host.botSpeaking \in BOOLEAN
  BY SentIs DEF Agreed, Host
<1>2. Sent = {} /\ Due = {} /\ ~Controlled /\ ~Faulty /\ ~py.atTTS /\ ~py.atTransport /\ py.result = "none"
  BY DEF Settled, Sent, Due, Controlled, Faulty, Has
<1>3. ~Doomed /\ ~Failing
  BY <1>2 DEF Doomed, Failing, Broken
<1>4. py.speaking # 0 => py.speakingTurn # 0 /\ py.speakingTurn = py.turn
  BY <1>1, <1>2 DEF PySound
<1>5. CASE host.speaking
  <2>1. host.turn # 0 /\ py.turn = host.turn
    BY <1>1, <1>2, <1>5 DEF TurnsInOrder
  <2>2. Live /\ Joined
    BY <1>3, <2>1 DEF Live, Joined
  <2>3. host.speechRequest # 0
    BY <1>1, <1>3, <1>5, <2>2 DEF StillOn
  <2>4. host.speechRequest = py.stream
    <3>1. host.speechRequest \in host.requests
      BY <2>3, OneOpen
    <3>. QED
      BY <1>2, <3>1 DEF Ready, InTurn, Due
  <2>5. py.speaking = py.stream
    BY <1>1, <1>2, <1>3, <1>5, <2>2, <2>3, <2>4 DEF StillOn
  <2>6. Voice(py.turn)
    BY <1>4, <2>3, <2>4, <2>5 DEF Voice
  <2>7. host.botSpeaking
    BY <1>1, <1>2, <2>2, <2>6 DEF Screen
  <2>. QED
    BY <1>1, <1>5, <2>4, <2>5, <2>7
<1>6. CASE ~host.speaking
  <2>1. py.speaking = 0
    <3>1. ASSUME py.speaking # 0 PROVE FALSE
      <4>1. Live /\ py.speakingTurn = py.turn
        BY <1>3, <1>4, <3>1 DEF Live
      <4>. QED
        BY <1>1, <1>2, <1>3, <1>6, <3>1, <4>1 DEF Backed
    <3>. QED
      BY <3>1
  <2>2. ~host.botSpeaking
    BY <1>1, <1>2, <2>1 DEF Screen, Voice
  <2>. QED
    BY <1>1, <1>6, <2>1, <2>2
<1>. QED
  BY <1>1, <1>5, <1>6

\* When the messages and the callbacks of PCMPlayer, of the bridge and of the output transport
\* have settled, AppleOutputTransport holds for spoken the very sentence that the player plays,
\* or none, and ConversationModel's screen shows the bot speaking just when it is heard: whatever
\* was interrupted, stopped, cancelled or failed on the way, and in which order it was handled.
THEOREM PlaybackAgrees == Spec => []PlaybackAgreement
BY AlwaysReady, InitAgreed, NextReady, NextAgreed, AgreedShows, PTL DEF Spec
=============================================================================
