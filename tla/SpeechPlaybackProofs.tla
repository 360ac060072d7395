------------------------- MODULE SpeechPlaybackProofs -------------------------
(* Theorems about SpeechPlayback, for any number of turns, sentences, conversations,
   interruptions and failures and chunks of any number: one inference at a time, an old
   cancellation spares the new reply, and what is acknowledged was heard. *)
EXTENDS SpeechPlayback, FiniteSetTheorems, WellFoundedInduction, TLAPS

-----------------------------------------------------------------------------
(* Types.                                                                    *)

TaskStages == {"none", "created", "synthesizing", "streaming", "finishing", "completing",
               "unwinding", "ended"}
TaskRecord == [stage : TaskStages, cancelled : BOOLEAN, turn : Nat, session : Nat, error : BOOLEAN]
Signals == {"playback_on", "playback_off", "done", "error", "stop", "interrupt", "start"}
Told == {m \in [kind : Signals, request : Nat, session : Nat] :
             m.kind \in {"done", "error"} => m.request \in Requests}
Host == [active : BOOLEAN, session : Nat, turn : Nat, drawn : Nat, speechRequest : Requests \cup {0},
         requests : SUBSET Requests, botTurn : Nat, botSpeaking : BOOLEAN,
         task : [Requests -> TaskRecord], generation : Nat, pending : Nat, speaking : BOOLEAN,
         waiter : Requests \cup {0}, handlers : SUBSET Nat, latest : Requests \cup {0},
         sent : Seq(Told)]
SynthStages == {"none", "waiting", "producing", "finished", "failed", "cancelled"}
SynthRecord == [stage : SynthStages, cancelled : BOOLEAN, previous : Requests \cup {0},
                made : Nat, taken : Nat]
Buffer == [request : Requests, epoch : Nat]
Device == [scheduled : Seq(Buffer), callbacks : Seq(Nat)]
Py == [active : BOOLEAN, session : Nat, turn : Turns \cup {0}, sessionOf : [Turns -> Nat],
       turns : Turns \cup {0}, stream : Requests \cup {0}, streamTurn : Turns \cup {0},
       result : {"none", "done", "error"}, speaking : Nat, speakingTurn : Turns \cup {0},
       controls : Seq(Nat), atTTS : BOOLEAN, atTransport : BOOLEAN, errors : Seq(Turns \cup {0}),
       requested : Requests \cup {0}, acknowledged : SUBSET Requests]
Kinds == {"request", "user_turn", "cancel_request", "cancel_turn", "error", "bot_started", "bot_stopped"}
Events == {e \in [kind : Kinds, request : Nat, turn : Turns \cup {0}, session : Nat] :
              e.kind = "request" => e.request \in Requests}

TypeOK ==
    /\ host \in Host /\ synth \in [Requests -> SynthRecord] /\ device \in Device /\ py \in Py
    /\ toHost \in Seq(Events) /\ heard \in [Requests -> Nat] /\ cut \in [Requests -> Nat]
    /\ presses \in Nat /\ failures \in Nat

-----------------------------------------------------------------------------
(* Whose a task is.                                                          *)

Running == {"created", "synthesizing", "streaming", "finishing", "completing", "unwinding"}
Owned ==
    /\ \A r \in Requests : host.task[r].stage \in Running => r \in host.requests \/ host.task[r].cancelled
    /\ \A r \in host.requests :
          /\ host.task[r].stage \in Running /\ ~host.task[r].cancelled
          /\ host.active /\ host.task[r].session = host.session /\ host.task[r].turn = host.turn
    /\ \A r \in Requests : host.task[r].stage = "none" => ~host.task[r].cancelled
    /\ \A r \in Requests : host.task[r].error => host.task[r].stage \in {"unwinding", "ended"}

-----------------------------------------------------------------------------
(* One request at a time.                                                    *)

Asks(i) == toHost[i].kind = "request"
Cancels(k, r, s) == toHost[k].kind = "cancel_request" /\ toHost[k].request = r /\ toHost[k].session = s

AskedOnce ==
    /\ \A i \in DOMAIN toHost : Asks(i) =>
          toHost[i].request <= py.requested /\ host.task[toHost[i].request].stage = "none"
    /\ \A i, j \in DOMAIN toHost : Asks(i) /\ Asks(j) /\ i < j => toHost[i].request # toHost[j].request
    /\ \A r \in Requests : r > py.requested => host.task[r].stage = "none"

InTurn ==
    /\ \A r, q \in host.requests : r = q
    /\ \A j \in DOMAIN toHost : Asks(j) =>
          /\ \A r \in host.requests : \E k \in DOMAIN toHost : k < j /\ Cancels(k, r, host.task[r].session)
          /\ \A i \in DOMAIN toHost : i < j /\ Asks(i) =>
                \E k \in DOMAIN toHost : i < k /\ k < j /\ Cancels(k, toHost[i].request, toHost[i].session)
    /\ \A r \in host.requests : r # py.stream => \E k \in DOMAIN toHost : Cancels(k, r, host.task[r].session)
    /\ \A i \in DOMAIN toHost : Asks(i) /\ toHost[i].request # py.stream =>
          \E k \in DOMAIN toHost : i < k /\ Cancels(k, toHost[i].request, toHost[i].session)

\* The open stream.
StreamKnown ==
    /\ py.stream # 0 => py.stream <= py.requested /\ py.streamTurn # 0
    /\ py.stream \in host.requests => host.task[py.stream].session = SessionOf(py, py.streamTurn)
    /\ \A i \in DOMAIN toHost : Asks(i) /\ toHost[i].request = py.stream =>
          toHost[i].session = SessionOf(py, py.streamTurn)
    /\ py.result # "none" => py.stream # 0
    /\ py.turn <= py.turns /\ py.streamTurn <= py.turns

\* What was said to be done is over.
Ends(r) == r \in Requests /\ host.task[r].stage = "ended"
DoneEnded ==
    /\ \A i \in DOMAIN host.sent : host.sent[i].kind = "done" => Ends(host.sent[i].request)
    /\ py.result = "done" => Ends(py.stream)

-----------------------------------------------------------------------------
(* The player.                                                               *)

PlayerOwned ==
    /\ host.speechRequest # 0 => host.speechRequest \in host.requests
    /\ \A r \in host.requests : host.task[r].stage # "created" => host.speechRequest = r
    /\ \A r \in Requests : host.task[r].stage = "finishing" <=> host.waiter = r
    /\ \A r \in Requests : host.task[r].stage = "finishing" => r \in host.requests
    /\ \A r \in Requests : host.task[r].stage = "unwinding" => host.task[r].cancelled \/ host.task[r].error
    /\ \A g \in host.handlers : g < host.generation

Counted ==
    /\ \A i \in DOMAIN device.scheduled : device.scheduled[i].epoch = host.generation
    /\ \E k \in 0 .. Len(device.callbacks) :
          /\ \A i \in DOMAIN device.callbacks :
                IF i <= k THEN device.callbacks[i] < host.generation ELSE device.callbacks[i] = host.generation
          /\ host.pending + k = Len(device.scheduled) + Len(device.callbacks)

Wasted(r) == host.task[r].cancelled \/ host.task[r].error
Buffers ==
    \A i \in DOMAIN device.scheduled :
        LET r == device.scheduled[i].request
        IN  Wasted(r) \/ (r \in host.requests /\ host.task[r].stage \in {"streaming", "finishing"})

SynthCancelled ==
    /\ \A r \in Requests : synth[r].cancelled => Wasted(r) \/ host.task[r].stage = "ended"
    /\ \A r \in Requests : synth[r].stage = "cancelled" => synth[r].cancelled
    /\ host.latest # 0 => host.task[host.latest].stage # "none"

-----------------------------------------------------------------------------
(* Inferences in line.                                                       *)

Alive(r) == synth[r].stage \in {"waiting", "producing"}
Line(q) ==
    /\ \A i, j \in DOMAIN q : q[i] = q[j] => i = j
    /\ \A r \in Requests : Alive(r) <=> \E i \in DOMAIN q : q[i] = r
    /\ \A i \in DOMAIN q : i > 1 => synth[q[i]].previous = q[i - 1] /\ synth[q[i]].stage = "waiting"
    /\ q # <<>> => IF host.latest = 0 THEN ~host.active ELSE host.latest = q[Len(q)]
InLine ==
    /\ \E q \in Seq(Requests) : Line(q)
    /\ \A r \in Requests : host.task[r].stage \in {"none", "created", "synthesizing"} => synth[r].stage = "none"

-----------------------------------------------------------------------------
(* What was heard.                                                           *)

Heard ==
    /\ \A r \in Requests : synth[r].taken <= synth[r].made
    /\ \A r \in Requests : host.task[r].stage \in {"none", "created", "synthesizing"} =>
          /\ heard[r] = 0 /\ synth[r].taken = 0
          /\ \A i \in DOMAIN device.scheduled : device.scheduled[i].request # r
    /\ \A r \in host.requests : host.task[r].stage \in {"streaming", "finishing", "completing"} =>
          \E k \in 0 .. Len(device.scheduled) :
              /\ \A i \in DOMAIN device.scheduled : device.scheduled[i].request = r <=> i > k
              /\ heard[r] + Len(device.scheduled) = synth[r].taken * Windows + k
    /\ \A r \in host.requests : host.task[r].stage \in {"finishing", "completing"} =>
          synth[r].stage = "finished" /\ synth[r].taken = synth[r].made
    /\ \A r \in host.requests : host.task[r].stage = "completing" => device.scheduled = <<>>

Complete(r) ==
    /\ r \in Requests /\ host.task[r].stage = "ended"
    /\ synth[r].stage = "finished" /\ heard[r] = synth[r].made * Windows
    /\ \A i \in DOMAIN device.scheduled : device.scheduled[i].request # r
CompleteKnown ==
    /\ \A i \in DOMAIN host.sent : host.sent[i].kind = "done" => Complete(host.sent[i].request)
    /\ py.result = "done" => Complete(py.stream)
    /\ \A r \in py.acknowledged : Complete(r)

-----------------------------------------------------------------------------
(* Sequences.                                                                *)

LEMMA SeqIs ==
    ASSUME NEW S, NEW s \in Seq(S)
    PROVE  /\ Len(s) \in Nat /\ DOMAIN s = 1 .. Len(s)
           /\ \A i \in DOMAIN s : s[i] \in S /\ i \in Nat /\ 1 <= i /\ i <= Len(s)
           /\ s # <<>> <=> Len(s) > 0
OBVIOUS

LEMMA JoinedIs ==
    ASSUME NEW S, NEW s \in Seq(S), NEW t \in Seq(S)
    PROVE  /\ s \o t \in Seq(S) /\ Len(s \o t) = Len(s) + Len(t)
           /\ DOMAIN (s \o t) = 1 .. Len(s) + Len(t)
           /\ \A i \in 1 .. Len(s) : (s \o t)[i] = s[i] /\ i \in DOMAIN s
           /\ \A i \in DOMAIN (s \o t) : i > Len(s) =>
                 i - Len(s) \in DOMAIN t /\ (s \o t)[i] = t[i - Len(s)]
<1>1. s \o t \in Seq(S) /\ Len(s) \in Nat /\ Len(t) \in Nat
  OBVIOUS
<1>2. Len(s \o t) = Len(s) + Len(t) /\ DOMAIN (s \o t) = 1 .. Len(s) + Len(t)
  OBVIOUS
<1>3. \A i \in 1 .. Len(s) : (s \o t)[i] = s[i] /\ i \in DOMAIN s
  OBVIOUS
<1>4. \A i \in DOMAIN (s \o t) : i > Len(s) =>
                 i - Len(s) \in DOMAIN t /\ (s \o t)[i] = t[i - Len(s)]
  OBVIOUS
<1>. QED
  BY <1>1, <1>2, <1>3, <1>4

LEMMA AppendedIs ==
    ASSUME NEW S, NEW s \in Seq(S), NEW x \in S
    PROVE  /\ Append(s, x) \in Seq(S) /\ Len(Append(s, x)) = Len(s) + 1 /\ Len(s) \in Nat
           /\ DOMAIN Append(s, x) = 1 .. Len(s) + 1 /\ DOMAIN s = 1 .. Len(s)
           /\ Append(s, x)[Len(s) + 1] = x
           /\ \A i \in 1 .. Len(s) : Append(s, x)[i] = s[i]
OBVIOUS

LEMMA TailIs ==
    ASSUME NEW S, NEW s \in Seq(S), s # <<>>
    PROVE  /\ Head(s) = s[1] /\ s[1] \in S /\ Len(s) \in Nat /\ Len(s) > 0
           /\ Tail(s) \in Seq(S) /\ Len(Tail(s)) = Len(s) - 1
           /\ DOMAIN Tail(s) = 1 .. Len(s) - 1 /\ DOMAIN s = 1 .. Len(s)
           /\ \A i \in 1 .. Len(s) - 1 : Tail(s)[i] = s[i + 1]
<1>1. Len(s) \in Nat /\ Len(s) > 0 /\ DOMAIN s = 1 .. Len(s)
  OBVIOUS
<1>2. Tail(s) \in Seq(S) /\ Len(Tail(s)) = Len(s) - 1
  OBVIOUS
<1>3. Head(s) = s[1] /\ s[1] \in S
  OBVIOUS
<1>4. DOMAIN Tail(s) = 1 .. Len(s) - 1
  BY <1>1, <1>2
<1>5. \A i \in 1 .. Len(s) - 1 : Tail(s)[i] = s[i + 1]
  OBVIOUS
<1>. QED
  BY <1>1, <1>2, <1>3, <1>4, <1>5

-----------------------------------------------------------------------------
(* What the host's operators do.                                             *)

SameTurn(h, g) == g.active = h.active /\ g.session = h.session /\ g.turn = h.turn
SamePlayer(h, g) ==
    /\ g.generation = h.generation /\ g.pending = h.pending /\ g.waiter = h.waiter
    /\ g.handlers = h.handlers
SameRequests(h, g) == g.requests = h.requests /\ g.speechRequest = h.speechRequest
NoNewDone(h, g) ==
    \A i \in DOMAIN g.sent : g.sent[i].kind = "done" => \E j \in DOMAIN h.sent : h.sent[j] = g.sent[i]

\* Only the screen and the wire may differ.
SameCore(h, g) ==
    /\ SameTurn(h, g) /\ SamePlayer(h, g) /\ SameRequests(h, g) /\ g.task = h.task
    /\ g.latest = h.latest /\ g.drawn = h.drawn /\ NoNewDone(h, g)

LEMMA SameDone == ASSUME NEW h, NEW g, g.sent = h.sent PROVE NoNewDone(h, g)
BY DEF NoNewDone

\* Only the message m is new.
TellsOnly(h, g, m) ==
    /\ g.sent = Append(h.sent, m) /\ SameTurn(h, g) /\ SamePlayer(h, g) /\ SameRequests(h, g)
    /\ g.task = h.task /\ g.latest = h.latest /\ g.drawn = h.drawn
LEMMA TellIs ==
    ASSUME NEW h \in Host, NEW kind, NEW request, NEW s, NEW m \in Told,
           m = [kind |-> kind, request |-> request, session |-> s]
    PROVE  /\ Tell(h, kind, request, s) \in Host
           /\ TellsOnly(h, Tell(h, kind, request, s), m)
           /\ kind # "done" => SameCore(h, Tell(h, kind, request, s))
<1>. DEFINE g == Tell(h, kind, request, s)
<1>1. h.sent \in Seq(Told) /\ m \in Told /\ m.kind = kind
  BY DEF Host
<1>2. g = [h EXCEPT !.sent = Append(h.sent, m)]
  BY DEF Tell
<1>3. Append(h.sent, m) \in Seq(Told)
  BY <1>1
<1>4. g \in Host /\ g.sent = Append(h.sent, m)
  BY <1>2, <1>3 DEF Host
<1>5. kind # "done" => NoNewDone(h, g)
  <2>. SUFFICES ASSUME kind # "done", NEW i \in DOMAIN g.sent, g.sent[i].kind = "done"
                PROVE  \E j \in DOMAIN h.sent : h.sent[j] = g.sent[i]
    BY DEF NoNewDone
  <2>1. i \in DOMAIN h.sent \/ i = Len(h.sent) + 1
    BY <1>1, <1>4
  <2>2. i # Len(h.sent) + 1
    BY <1>1, <1>4
  <2>3. i \in DOMAIN h.sent /\ h.sent[i] = g.sent[i]
    BY <1>1, <1>4, <2>1, <2>2
  <2>. QED
    BY <2>3
<1>6. SameTurn(h, g) /\ SamePlayer(h, g) /\ SameRequests(h, g) /\ g.task = h.task /\ g.latest = h.latest
      /\ g.drawn = h.drawn
  BY <1>2 DEF Host, SameTurn, SamePlayer, SameRequests
<1>. HIDE DEF g
<1>7. kind # "done" => SameCore(h, g)
  BY <1>5, <1>6 DEF SameCore
<1>. QED
  BY <1>4, <1>6, <1>7 DEF g, TellsOnly

LEMMA SetSpeakingIs ==
    ASSUME NEW h \in Host, NEW speaking \in BOOLEAN
    PROVE  SetSpeaking(h, speaking) \in Host /\ SameCore(h, SetSpeaking(h, speaking))
<1>. DEFINE now == [h EXCEPT !.speaking = speaking]
            kind == IF speaking THEN "playback_on" ELSE "playback_off"
            m == [kind |-> kind, request |-> h.speechRequest, session |-> h.session]
<1>1. now \in Host /\ SameCore(h, now) /\ now.sent = h.sent
  BY DEF Host, SameCore, SameTurn, SamePlayer, SameRequests, NoNewDone
<1>2. m \in Told /\ kind # "done"
  BY DEF Host, Told, Signals, Requests
<1>3. CASE h.speaking = speaking \/ h.speechRequest = None
  <2>1. SetSpeaking(h, speaking) = now
    BY <1>3 DEF SetSpeaking
  <2>. QED
    BY <1>1, <2>1
<1>4. CASE ~(h.speaking = speaking \/ h.speechRequest = None)
  <2>1. SetSpeaking(h, speaking) = Tell(now, kind, h.speechRequest, h.session)
    BY <1>4 DEF SetSpeaking
  <2>. HIDE DEF now, kind
  <2>2. m = [kind |-> kind, request |-> h.speechRequest, session |-> h.session] /\ m \in Told
    BY <1>2
  <2>. HIDE DEF m
  <2>3. Tell(now, kind, h.speechRequest, h.session) \in Host
        /\ SameCore(now, Tell(now, kind, h.speechRequest, h.session))
    BY <1>1, <1>2, <2>2, TellIs
  <2>. QED
    BY <1>1, <2>1, <2>3 DEF SameCore, SameTurn, SamePlayer, SameRequests, NoNewDone
<1>. QED
  BY <1>3, <1>4

\* The tasks of ids are cancelled, and so is the one that waits for the player.
TasksCut(h, g, ids) ==
    \A r \in Requests :
        /\ g.task[r].cancelled <=> h.task[r].cancelled \/ r \in ids
        /\ g.task[r].stage = IF r = h.waiter THEN "unwinding" ELSE h.task[r].stage
        /\ g.task[r].turn = h.task[r].turn /\ g.task[r].session = h.task[r].session
        /\ g.task[r].error = h.task[r].error

\* The player is stopped: whatever it had is of an old generation.
PlayerSilent(h, g) ==
    /\ g.generation = h.generation + 1 /\ g.pending = 0 /\ g.waiter = 0

LEMMA PlayerStopIs ==
    ASSUME NEW h \in Host
    PROVE  LET g == PlayerStop(h)
           IN  /\ g \in Host /\ PlayerSilent(h, g) /\ SameTurn(h, g) /\ SameRequests(h, g)
               /\ g.handlers = h.handlers /\ g.latest = h.latest /\ g.drawn = h.drawn
               /\ NoNewDone(h, g) /\ TasksCut(h, g, {})
<1>. DEFINE stopped == [h EXCEPT !.generation = @ + 1, !.pending = 0, !.waiter = None]
            s == IF h.waiter = None THEN stopped
                 ELSE [stopped EXCEPT !.task[h.waiter].stage = "unwinding"]
            g == PlayerStop(h)
<1>1. stopped \in Host /\ stopped.task = h.task
  <2>1. h.generation + 1 \in Nat /\ 0 \in Nat
    BY DEF Host
  <2>2. stopped = [h EXCEPT !.generation = h.generation + 1, !.pending = 0, !.waiter = 0]
    BY DEF None, Host
  <2>. QED
    BY <2>1, <2>2 DEF Host
<1>2. s \in Host
  <2>1. CASE h.waiter = None
    BY <1>1, <2>1
  <2>2. CASE h.waiter # None
    <3>1. h.waiter \in Requests /\ h.task[h.waiter] \in TaskRecord
      BY <2>2 DEF Host, None
    <3>2. [h.task EXCEPT ![h.waiter].stage = "unwinding"] \in [Requests -> TaskRecord]
      BY <3>1 DEF Host, TaskRecord, TaskStages
    <3>3. s = [stopped EXCEPT !.task = [h.task EXCEPT ![h.waiter].stage = "unwinding"]]
      BY <1>1, <2>2
    <3>. QED
      BY <1>1, <3>2, <3>3, ZenonT(60) DEF Host
  <2>. QED
    BY <2>1, <2>2
<1>3. /\ PlayerSilent(h, s) /\ SameTurn(h, s) /\ SameRequests(h, s) /\ s.handlers = h.handlers
      /\ s.latest = h.latest /\ s.sent = h.sent /\ s.drawn = h.drawn
  BY <1>1 DEF Host, PlayerSilent, SameTurn, SameRequests, None
<1>4. TasksCut(h, s, {})
  <2>1. h.task \in [Requests -> TaskRecord] /\ 0 \notin Requests
    BY DEF Host, Requests
  <2>2. CASE h.waiter = None
    BY <1>1, <2>1, <2>2 DEF TasksCut, None
  <2>3. CASE h.waiter # None
    <3>1. s.task = [h.task EXCEPT ![h.waiter].stage = "unwinding"]
      BY <1>1, <2>3 DEF Host
    <3>. QED
      BY <2>1, <3>1 DEF TasksCut, TaskRecord
  <2>. QED
    BY <2>2, <2>3
<1>5. g = SetSpeaking(s, FALSE)
  BY DEF PlayerStop
<1>. HIDE DEF s, g
<1>6. g \in Host /\ SameCore(s, g)
  BY <1>2, <1>5, SetSpeakingIs
<1>7. NoNewDone(h, g)
  BY <1>3, <1>6 DEF SameCore, NoNewDone
<1>8. TasksCut(h, g, {})
  BY <1>4, <1>6 DEF SameCore, TasksCut
<1>9. /\ PlayerSilent(h, g) /\ SameTurn(h, g) /\ SameRequests(h, g) /\ g.handlers = h.handlers
      /\ g.latest = h.latest /\ g.drawn = h.drawn
  BY <1>3, <1>6 DEF SameCore, SameTurn, SamePlayer, SameRequests, PlayerSilent
<1>. QED
  BY <1>6, <1>7, <1>8, <1>9 DEF g

\* Of the tasks only the cancellation of ids is new.
Marked(h, g, ids) ==
    \A r \in Requests :
        /\ g.task[r].cancelled <=> h.task[r].cancelled \/ r \in ids
        /\ g.task[r].stage = h.task[r].stage /\ g.task[r].error = h.task[r].error
        /\ g.task[r].turn = h.task[r].turn /\ g.task[r].session = h.task[r].session

\* The handler of the one that waits for the player remembers the generation.
Struck(h, g, ids) ==
    /\ SameTurn(h, g) /\ g.requests = h.requests \ ids
    /\ g.speechRequest = h.speechRequest /\ g.generation = h.generation
    /\ g.pending = h.pending /\ g.waiter = h.waiter /\ g.latest = h.latest
    /\ g.sent = h.sent /\ g.drawn = h.drawn /\ Marked(h, g, ids)
    /\ g.handlers = IF \E r \in ids : h.task[r].stage = "finishing"
                    THEN h.handlers \cup {h.generation} ELSE h.handlers

LEMMA CancelTasksIs ==
    ASSUME NEW h \in Host, NEW ids \in SUBSET Requests, NEW g, g = CancelTasks(h, ids)
    PROVE  g \in Host /\ Struck(h, g, ids)
<1>. DEFINE tasks == [r \in Requests |-> IF r \in ids THEN [h.task[r] EXCEPT !.cancelled = TRUE]
                                         ELSE h.task[r]]
            handlers == IF \E r \in ids : h.task[r].stage = "finishing"
                        THEN h.handlers \cup {h.generation} ELSE h.handlers
<1>1. tasks \in [Requests -> TaskRecord]
  BY DEF Host, TaskRecord
<1>2. handlers \in SUBSET Nat
  BY DEF Host
<1>3. h.requests \ ids \in SUBSET Requests
  BY DEF Host
<1>4. g = [h EXCEPT !.task = tasks, !.handlers = handlers, !.requests = h.requests \ ids]
  BY DEF CancelTasks, Host
<1>5. \A r \in Requests : tasks[r] = IF r \in ids THEN [h.task[r] EXCEPT !.cancelled = TRUE] ELSE h.task[r]
  OBVIOUS
<1>. HIDE DEF tasks
<1>6. g.task = tasks
  BY <1>4 DEF Host
<1>7. g.handlers = handlers
  BY <1>4 DEF Host
<1>. HIDE DEF handlers
<1>8. g \in Host
  BY <1>1, <1>2, <1>3, <1>4 DEF Host
<1>9. /\ SameTurn(h, g) /\ g.requests = h.requests \ ids
      /\ g.speechRequest = h.speechRequest /\ g.generation = h.generation
      /\ g.pending = h.pending /\ g.waiter = h.waiter /\ g.latest = h.latest
      /\ g.sent = h.sent /\ g.drawn = h.drawn
  BY <1>4 DEF Host, SameTurn
<1>10. Marked(h, g, ids)
  <2>. SUFFICES ASSUME NEW r \in Requests
                PROVE  /\ g.task[r].cancelled <=> h.task[r].cancelled \/ r \in ids
                       /\ g.task[r].stage = h.task[r].stage /\ g.task[r].error = h.task[r].error
                       /\ g.task[r].turn = h.task[r].turn /\ g.task[r].session = h.task[r].session
    BY DEF Marked
  <2>1. h.task[r] \in TaskRecord
    BY DEF Host
  <2>2. g.task[r] = IF r \in ids THEN [h.task[r] EXCEPT !.cancelled = TRUE] ELSE h.task[r]
    BY <1>5, <1>6
  <2>. QED
    BY <2>1, <2>2 DEF TaskRecord
<1>. QED
  BY <1>7, <1>8, <1>9, <1>10 DEF handlers, Struck

\* What the cancellation of ids and of whatever plays leaves of h.
Cleared(h, g, ids) ==
    /\ g.requests = h.requests \ ids /\ g.speechRequest = 0 /\ PlayerSilent(h, g) /\ TasksCut(h, g, ids)
    /\ h.handlers \subseteq g.handlers /\ g.handlers \subseteq h.handlers \cup {h.generation}
    /\ NoNewDone(h, g)

\* The requests ids are cancelled and what plays is stopped.
Stopped(h, ids) == [PlayerStop(CancelTasks(h, ids)) EXCEPT !.speechRequest = None]
LEMMA StoppedIs ==
    ASSUME NEW h \in Host, NEW ids \in SUBSET Requests, NEW g, g = Stopped(h, ids)
    PROVE  g \in Host /\ SameTurn(h, g) /\ Cleared(h, g, ids) /\ g.latest = h.latest /\ g.drawn = h.drawn
<1>. DEFINE k == CancelTasks(h, ids)
            p == PlayerStop(k)
<1>1. k \in Host /\ Struck(h, k, ids)
  BY CancelTasksIs
<1>0. g = [p EXCEPT !.speechRequest = None]
  BY DEF Stopped
<1>. HIDE DEF k
<1>2. p = PlayerStop(k)
  OBVIOUS
<1>. HIDE DEF p
<1>3. /\ p \in Host /\ PlayerSilent(k, p) /\ SameTurn(k, p) /\ SameRequests(k, p) /\ p.drawn = k.drawn
      /\ p.handlers = k.handlers /\ p.latest = k.latest /\ NoNewDone(k, p) /\ TasksCut(k, p, {})
  BY <1>1, <1>2, PlayerStopIs
<1>4. /\ g \in Host /\ SamePlayer(p, g) /\ SameTurn(p, g) /\ g.requests = p.requests
      /\ g.speechRequest = 0 /\ g.latest = p.latest /\ g.task = p.task /\ g.sent = p.sent
      /\ g.drawn = p.drawn
  BY <1>0, <1>3 DEF Host, SamePlayer, SameTurn, None
<1>5. SameTurn(h, g) /\ g.drawn = h.drawn /\ g.latest = h.latest /\ g.requests = h.requests \ ids /\ PlayerSilent(h, g)
  BY <1>1, <1>3, <1>4 DEF Struck, SameTurn, SameRequests, SamePlayer, PlayerSilent
<1>6. NoNewDone(h, g)
  BY <1>1, <1>3, <1>4 DEF NoNewDone, Struck
<1>7. TasksCut(h, g, ids)
  BY <1>1, <1>3, <1>4 DEF TasksCut, Struck, Marked
<1>8. h.handlers \subseteq g.handlers /\ g.handlers \subseteq h.handlers \cup {h.generation}
  BY <1>1, <1>3, <1>4 DEF SamePlayer, Struck
<1>. QED
  BY <1>4, <1>5, <1>6, <1>7, <1>8 DEF Cleared

\* The task of r moves to a stage, with its error; nothing else of any task changes.
TaskAt(h, g, r, stage, error) ==
    \A q \in Requests :
        /\ g.task[q].cancelled = h.task[q].cancelled
        /\ g.task[q].turn = h.task[q].turn /\ g.task[q].session = h.task[q].session
        /\ g.task[q].stage = IF q = r THEN stage ELSE h.task[q].stage
        /\ g.task[q].error = IF q = r THEN error ELSE h.task[q].error

LEMMA TaskSet ==
    ASSUME NEW h \in Host, NEW r \in Requests, NEW stage \in TaskStages, NEW error \in BOOLEAN,
           NEW g, g.task = [h.task EXCEPT ![r].stage = stage, ![r].error = error]
    PROVE  /\ [h.task EXCEPT ![r].stage = stage, ![r].error = error] \in [Requests -> TaskRecord]
           /\ TaskAt(h, g, r, stage, error)
<1>1. h.task \in [Requests -> TaskRecord] /\ h.task[r] \in TaskRecord
  BY DEF Host
<1>2. [h.task[r] EXCEPT !.stage = stage, !.error = error] \in TaskRecord
  BY <1>1 DEF TaskRecord
<1>3. g.task = [h.task EXCEPT ![r] = [h.task[r] EXCEPT !.stage = stage, !.error = error]]
  BY <1>1
<1>. QED
  BY <1>1, <1>2, <1>3 DEF TaskAt, TaskRecord

\* The same without the error.
LEMMA StageSet ==
    ASSUME NEW h \in Host, NEW r \in Requests, NEW stage \in TaskStages,
           NEW g, g.task = [h.task EXCEPT ![r].stage = stage]
    PROVE  /\ [h.task EXCEPT ![r].stage = stage] \in [Requests -> TaskRecord]
           /\ TaskAt(h, g, r, stage, h.task[r].error)
<1>1. h.task \in [Requests -> TaskRecord] /\ h.task[r] \in TaskRecord
  BY DEF Host
<1>2. [h.task[r] EXCEPT !.stage = stage] \in TaskRecord
  BY <1>1 DEF TaskRecord
<1>3. g.task = [h.task EXCEPT ![r] = [h.task[r] EXCEPT !.stage = stage]]
  BY <1>1
<1>. QED
  BY <1>1, <1>2, <1>3 DEF TaskAt, TaskRecord

LEMMA EndedIs ==
    ASSUME NEW h \in Host, NEW r \in Requests
    PROVE  LET g == Ended(h, r)
           IN  /\ g \in Host /\ SameTurn(h, g) /\ SamePlayer(h, g) /\ g.latest = h.latest /\ g.sent = h.sent
               /\ g.requests = h.requests \ {r}
               /\ g.speechRequest = IF h.speechRequest = r THEN 0 ELSE h.speechRequest
               /\ TaskAt(h, g, r, "ended", h.task[r].error)
<1>. DEFINE g == Ended(h, r)
            task == [h.task EXCEPT ![r].stage = "ended"]
            speech == IF h.speechRequest = r THEN 0 ELSE h.speechRequest
<1>1. g = [h EXCEPT !.task = task, !.requests = h.requests \ {r}, !.speechRequest = speech]
  BY DEF Ended, Host, None
<1>2. h.requests \ {r} \in SUBSET Requests /\ speech \in Requests \cup {0}
  BY DEF Host
<1>. HIDE DEF speech
<1>3. g.task = task
  BY <1>1 DEF Host
<1>. HIDE DEF g
<1>4. task \in [Requests -> TaskRecord] /\ TaskAt(h, g, r, "ended", h.task[r].error)
  BY <1>3, StageSet DEF TaskStages
<1>. HIDE DEF task
<1>5. /\ g \in Host /\ SameTurn(h, g) /\ SamePlayer(h, g) /\ g.latest = h.latest /\ g.sent = h.sent
      /\ g.requests = h.requests \ {r} /\ g.speechRequest = speech
  BY <1>1, <1>2, <1>4 DEF Host, SameTurn, SamePlayer
<1>. QED
  BY <1>4, <1>5 DEF g, speech

LEMMA UnwindIs ==
    ASSUME NEW h \in Host, NEW r \in Requests, NEW error \in BOOLEAN
    PROVE  LET g == Unwind(h, r, error)
           IN  /\ g \in Host /\ SameTurn(h, g) /\ SamePlayer(h, g) /\ g.latest = h.latest /\ g.sent = h.sent
               /\ SameRequests(h, g) /\ TaskAt(h, g, r, "unwinding", error)
<1>. DEFINE g == Unwind(h, r, error)
            task == [h.task EXCEPT ![r].stage = "unwinding", ![r].error = error]
<1>1. g = [h EXCEPT !.task = task]
  BY DEF Unwind, Host
<1>2. g.task = task
  BY <1>1 DEF Host
<1>. HIDE DEF g
<1>3. task \in [Requests -> TaskRecord] /\ TaskAt(h, g, r, "unwinding", error)
  <2>1. "unwinding" \in TaskStages
    BY DEF TaskStages
  <2>2. g.task = [h.task EXCEPT ![r].stage = "unwinding", ![r].error = error]
    BY <1>2
  <2>. QED
    BY <2>1, <2>2, TaskSet, SMTT(30)
<1>. HIDE DEF task
<1>4. /\ g \in Host /\ SameTurn(h, g) /\ SamePlayer(h, g) /\ g.latest = h.latest /\ g.sent = h.sent
      /\ SameRequests(h, g)
  BY <1>1, <1>3 DEF Host, SameTurn, SamePlayer, SameRequests
<1>. QED
  BY <1>3, <1>4 DEF g

LEMMA EnqueueIs ==
    ASSUME NEW h \in Host
    PROVE  LET g == Enqueue(h)
           IN  /\ g \in Host /\ SameTurn(h, g) /\ g.latest = h.latest /\ SameRequests(h, g) /\ NoNewDone(h, g)
               /\ g.task = h.task /\ g.generation = h.generation /\ g.waiter = h.waiter
               /\ g.handlers = h.handlers /\ g.pending = h.pending + Windows
<1>. DEFINE k == [h EXCEPT !.pending = h.pending + Windows]
            g == Enqueue(h)
<1>1. h.pending + Windows \in Nat
  BY SMTT(60), PlaybackAssumption DEF Host
<1>2. /\ k \in Host /\ SameTurn(h, k) /\ k.latest = h.latest /\ SameRequests(h, k) /\ k.sent = h.sent
      /\ k.task = h.task /\ k.generation = h.generation /\ k.waiter = h.waiter
      /\ k.handlers = h.handlers /\ k.pending = h.pending + Windows
  BY <1>1 DEF Host, SameTurn, SameRequests
<1>3. g = SetSpeaking(k, TRUE)
  BY DEF Enqueue, Host
<1>. HIDE DEF k, g
<1>4. g \in Host /\ SameCore(k, g)
  BY <1>2, <1>3, SetSpeakingIs
<1>. QED
  BY <1>2, <1>4 DEF SameCore, SameTurn, SamePlayer, SameRequests, NoNewDone, g

LEMMA FinishIs ==
    ASSUME NEW h \in Host, NEW r \in Requests
    PROVE  LET g == Finish(h, r)
           IN  /\ g \in Host /\ SameTurn(h, g) /\ g.latest = h.latest /\ SameRequests(h, g) /\ g.sent = h.sent
               /\ g.generation = h.generation /\ g.pending = h.pending /\ g.handlers = h.handlers
               /\ IF h.pending = 0
                  THEN g.waiter = h.waiter /\ TaskAt(h, g, r, "completing", h.task[r].error)
                  ELSE g.waiter = r /\ TaskAt(h, g, r, "finishing", h.task[r].error)
<1>. DEFINE g == Finish(h, r)
            stage == IF h.pending = 0 THEN "completing" ELSE "finishing"
            waiter == IF h.pending = 0 THEN h.waiter ELSE r
            task == [h.task EXCEPT ![r].stage = stage]
<1>1. g = [h EXCEPT !.task = task, !.waiter = waiter]
  BY DEF Finish, Host
<1>2. g.task = task
  BY <1>1 DEF Host
<1>. HIDE DEF g
<1>3. task \in [Requests -> TaskRecord] /\ TaskAt(h, g, r, stage, h.task[r].error)
  BY <1>2, StageSet, ZenonT(60) DEF TaskStages
<1>. HIDE DEF task
<1>4. waiter \in Requests \cup {0}
  BY DEF Host
<1>. HIDE DEF waiter
<1>5. /\ g \in Host /\ SameTurn(h, g) /\ g.latest = h.latest /\ SameRequests(h, g) /\ g.sent = h.sent
      /\ g.generation = h.generation /\ g.pending = h.pending /\ g.handlers = h.handlers
      /\ g.waiter = waiter
  BY <1>1, <1>3, <1>4 DEF Host, SameTurn, SameRequests
<1>. QED
  BY <1>3, <1>5 DEF g, stage, waiter

\* One buffer fewer is pending; whoever waited for the last one goes on.
LEMMA OneFewerIs ==
    ASSUME NEW h \in Host, h.pending # 0
    PROVE  LET g == OneFewer(h)
           IN  /\ g \in Host /\ SameTurn(h, g) /\ g.latest = h.latest /\ SameRequests(h, g) /\ NoNewDone(h, g)
               /\ g.generation = h.generation /\ g.pending = h.pending - 1 /\ g.handlers = h.handlers
               /\ IF h.pending = 1 /\ h.waiter # 0
                  THEN g.waiter = 0 /\ TaskAt(h, g, h.waiter, "completing", h.task[h.waiter].error)
                  ELSE g.waiter = h.waiter /\ g.task = h.task
<1>. DEFINE g == OneFewer(h)
            fewer == [h EXCEPT !.pending = h.pending - 1]
            resumed == IF h.waiter = None THEN fewer
                   ELSE [fewer EXCEPT !.task[h.waiter].stage = "completing", !.waiter = None]
            k == IF h.pending = 1 THEN resumed ELSE fewer
<1>1. h.pending - 1 \in Nat
  BY DEF Host
<1>2. /\ fewer \in Host /\ SameTurn(h, fewer) /\ fewer.latest = h.latest /\ SameRequests(h, fewer)
      /\ fewer.sent = h.sent /\ fewer.generation = h.generation /\ fewer.pending = h.pending - 1
      /\ fewer.handlers = h.handlers /\ fewer.waiter = h.waiter /\ fewer.task = h.task
  BY <1>1 DEF Host, SameTurn, SameRequests
<1>3. CASE h.pending = 1 /\ h.waiter # 0
  <2>. DEFINE task == [h.task EXCEPT ![h.waiter].stage = "completing"]
  <2>1. h.waiter \in Requests
    BY <1>3 DEF Host
  <2>2. k = [fewer EXCEPT !.task = task, !.waiter = 0]
    <3>1. k = resumed
      BY <1>3
    <3>2. resumed = [fewer EXCEPT !.task[h.waiter].stage = "completing", !.waiter = 0]
      BY <1>3 DEF None
    <3>. HIDE DEF fewer, k, resumed
    <3>. QED
      BY <1>2, <3>1, <3>2
  <2>. HIDE DEF fewer
  <2>3. k.task = task
    BY <1>2, <2>2 DEF Host
  <2>. HIDE DEF k
  <2>4. task \in [Requests -> TaskRecord] /\ TaskAt(h, k, h.waiter, "completing", h.task[h.waiter].error)
    BY <2>1, <2>3, StageSet DEF TaskStages
  <2>. HIDE DEF task
  <2>5. /\ k \in Host /\ SameTurn(h, k) /\ k.latest = h.latest /\ SameRequests(h, k)
        /\ k.sent = h.sent /\ k.generation = h.generation /\ k.pending = h.pending - 1
        /\ k.handlers = h.handlers /\ k.waiter = 0
    BY <1>2, <2>2, <2>4 DEF Host, SameTurn, SameRequests
  <2>6. g = SetSpeaking(k, FALSE)
    BY <1>3 DEF OneFewer, fewer, k
  <2>. HIDE DEF k, g
  <2>7. g \in Host /\ SameCore(k, g)
    BY <2>5, <2>6, SetSpeakingIs
  <2>. QED
    BY <1>3, <2>4, <2>5, <2>7 DEF SameCore, SameTurn, SamePlayer, SameRequests, NoNewDone, TaskAt, g
<1>4. CASE ~(h.pending = 1 /\ h.waiter # 0)
  <2>1. k = fewer
    BY <1>4 DEF None
  <2>2. g = SetSpeaking(k, FALSE) \/ g = k
    BY DEF OneFewer
  <2>. HIDE DEF k, g, fewer
  <2>3. g \in Host /\ SameCore(k, g)
    <3>1. SameCore(k, k)
      BY DEF SameCore, SameTurn, SamePlayer, SameRequests, NoNewDone
    <3>. QED
      BY <1>2, <2>1, <2>2, <3>1, SetSpeakingIs
  <2>. QED
    BY <1>2, <1>4, <2>1, <2>3 DEF SameCore, SameTurn, SamePlayer, SameRequests, NoNewDone, g
<1>. QED
  BY <1>3, <1>4

-----------------------------------------------------------------------------
(* What moves of the host do to the synthesizer and the device.              *)

SameSynth(r) ==
    /\ synth'[r].stage = synth[r].stage /\ synth'[r].previous = synth[r].previous
    /\ synth'[r].made = synth[r].made /\ synth'[r].taken = synth[r].taken

\* Only cancellations are added to the syntheses, of tasks that h cut or of those in ids.
SynthAfter(h, ids) ==
    \A r \in Requests :
        /\ SameSynth(r) /\ (synth[r].cancelled => synth'[r].cancelled)
        /\ synth'[r].cancelled => \/ synth[r].cancelled \/ r \in ids
                                  \/ h.task[r].stage = "unwinding" \/ h.task[r].cancelled

LEMMA CancelledSynth ==
    ASSUME TypeOK, NEW h \in Host, NEW ids \in SUBSET Requests,
           synth' = [r \in Requests |-> [synth[r] EXCEPT !.cancelled = @ \/ r \in ids
                           \/ h.task[r].stage = "unwinding" \/ (Streamed(h, r) /\ h.task[r].cancelled)]]
    PROVE  synth' \in [Requests -> SynthRecord] /\ SynthAfter(h, ids)
<1>1. ASSUME NEW r \in Requests
      PROVE  /\ synth'[r] \in SynthRecord /\ SameSynth(r)
             /\ synth'[r].cancelled <=> \/ synth[r].cancelled \/ r \in ids
                                        \/ h.task[r].stage = "unwinding"
                                        \/ (Streamed(h, r) /\ h.task[r].cancelled)
  <2>. DEFINE c == \/ synth[r].cancelled \/ r \in ids \/ h.task[r].stage = "unwinding"
                   \/ (Streamed(h, r) /\ h.task[r].cancelled)
  <2>1. synth[r] \in SynthRecord
    BY DEF TypeOK
  <2>2. c \in BOOLEAN
    OBVIOUS
  <2>3. synth'[r] = [synth[r] EXCEPT !.cancelled = c]
    OBVIOUS
  <2>. HIDE DEF c
  <2>4. synth'[r] \in SynthRecord /\ SameSynth(r) /\ synth'[r].cancelled = c
    BY <2>1, <2>2, <2>3 DEF SynthRecord, SameSynth
  <2>. QED
    BY <2>4 DEF c
<1>2. synth' \in [Requests -> SynthRecord]
  BY <1>1
<1>. QED
  BY <1>1, <1>2 DEF SynthAfter, Streamed

\* A node that is not stopped keeps its buffers; one that is owes all their callbacks.
DeviceAfter(h) ==
    /\ h.generation = host.generation => UNCHANGED <<device, cut>>
    /\ h.generation # host.generation =>
          /\ device'.scheduled = <<>>
          /\ Len(device'.callbacks) = Len(device.callbacks) + Len(device.scheduled)
          /\ \A i \in DOMAIN device'.callbacks :
                \/ i \in DOMAIN device.callbacks /\ device'.callbacks[i] = device.callbacks[i]
                \/ \E j \in DOMAIN device.scheduled : device'.callbacks[i] = device.scheduled[j].epoch
          /\ \A r \in Requests : cut'[r] > 0 =>
                cut[r] > 0 \/ \E i \in DOMAIN device.scheduled : device.scheduled[i].request = r

LEMMA StoppedDevice ==
    ASSUME TypeOK, NEW h \in Host, StopDevice(h)
    PROVE  device' \in Device /\ cut' \in [Requests -> Nat] /\ DeviceAfter(h)
<1>1. device \in Device /\ cut \in [Requests -> Nat]
  BY DEF TypeOK
<1>2. CASE h.generation = host.generation
  BY <1>1, <1>2 DEF StopDevice, DeviceAfter
<1>3. CASE h.generation # host.generation
  <2>. DEFINE s == device.scheduled
              q == device.callbacks
              e == [i \in DOMAIN s |-> s[i].epoch]
  <2>1. s \in Seq(Buffer) /\ q \in Seq(Nat) /\ <<>> \in Seq(Buffer)
    BY <1>1 DEF Device
  <2>. HIDE DEF s, q
  <2>12. DOMAIN s = 1 .. Len(s) /\ Len(s) \in Nat /\ \A i \in DOMAIN s : s[i] \in Buffer
    BY <2>1, SeqIs
  <2>2. DOMAIN s = 1 .. Len(s) /\ Len(s) \in Nat /\ \A i \in DOMAIN s : s[i] \in Buffer /\ s[i].epoch \in Nat
    BY <2>12 DEF Buffer
  <2>3. e \in Seq(Nat) /\ Len(e) = Len(s) /\ \A i \in 1 .. Len(e) : e[i] = s[i].epoch
    BY <2>2
  <2>4. device' = [scheduled |-> <<>>, callbacks |-> q \o e]
        /\ cut' = [r \in Requests |-> cut[r] + Cardinality({i \in DOMAIN s : s[i].request = r})]
    BY <1>3 DEF StopDevice, s, q, e
  <2>. HIDE DEF e
  <2>5. q \o e \in Seq(Nat) /\ Len(q \o e) = Len(q) + Len(s) /\ Len(q) \in Nat
        /\ \A i \in DOMAIN (q \o e) : \/ i \in DOMAIN q /\ (q \o e)[i] = q[i]
                                      \/ i - Len(q) \in 1 .. Len(e) /\ (q \o e)[i] = e[i - Len(q)]
    <3>1. Len(q) \in Nat /\ Len(e) \in Nat /\ DOMAIN e = 1 .. Len(e)
      BY <2>1, <2>3, SeqIs
    <3>2. /\ q \o e \in Seq(Nat) /\ Len(q \o e) = Len(q) + Len(e)
          /\ DOMAIN (q \o e) = 1 .. Len(q) + Len(e)
          /\ \A i \in 1 .. Len(q) : (q \o e)[i] = q[i] /\ i \in DOMAIN q
          /\ \A i \in DOMAIN (q \o e) : i > Len(q) =>
                i - Len(q) \in DOMAIN e /\ (q \o e)[i] = e[i - Len(q)]
      <4>1. q \in Seq(Nat) /\ e \in Seq(Nat)
        BY <2>1, <2>3
      <4>. QED
        BY <4>1, JoinedIs, SMTT(30)
    <3>. DEFINE j == q \o e
    <3>. HIDE DEF j
    <3>3. \A i \in DOMAIN j : i \in 1 .. Len(q) \/ i > Len(q)
      BY <3>1, <3>2 DEF j
    <3>. QED
      BY <2>3, <3>1, <3>2, <3>3 DEF j
  <2>. DEFINE owed == q \o e
  <2>6. device'.callbacks = owed /\ device'.scheduled = <<>>
    BY <2>4
  <2>. HIDE DEF owed
  <2>7. device' \in Device
    BY <2>1, <2>4, <2>5 DEF Device, owed
  <2>8. \A i \in DOMAIN device'.callbacks :
            \/ i \in DOMAIN q /\ device'.callbacks[i] = q[i]
            \/ \E j \in DOMAIN s : device'.callbacks[i] = s[j].epoch
    BY <2>2, <2>3, <2>5, <2>6 DEF owed
  <2>9. ASSUME NEW r \in Requests
        PROVE  /\ cut'[r] \in Nat
               /\ cut'[r] > 0 => cut[r] > 0 \/ \E i \in DOMAIN s : s[i].request = r
    <3>. DEFINE mine == {i \in DOMAIN s : s[i].request = r}
    <3>1. mine \in SUBSET (1 .. Len(s))
      BY <2>2
    <3>2. IsFiniteSet(mine) /\ Cardinality(mine) \in Nat
      BY <2>2, <3>1, FS_Interval, FS_Subset, FS_CardinalityType, 1 \in Int, Len(s) \in Int
    <3>3. mine = {} => Cardinality(mine) = 0
      BY FS_EmptySet
    <3>4. cut'[r] = cut[r] + Cardinality(mine)
      BY <2>4
    <3>5. mine # {} => \E i \in DOMAIN s : s[i].request = r
      OBVIOUS
    <3>. HIDE DEF mine
    <3>6. cut[r] \in Nat
      BY <1>1
    <3>. QED
      BY <3>2, <3>3, <3>4, <3>5, <3>6
  <2>10. cut' \in [Requests -> Nat]
    BY <2>4, <2>9
  <2>11. Len(device'.callbacks) = Len(q) + Len(s)
    BY <2>5, <2>6 DEF owed
  <2>. QED
    BY <1>3, <2>6, <2>7, <2>8, <2>9, <2>10, <2>11 DEF DeviceAfter, s, q
<1>. QED
  BY <1>2, <1>3

LEMMA SameSynths == ASSUME synth' = synth, NEW h PROVE SynthAfter(h, {})
BY DEF SynthAfter, SameSynth

LEMMA HostMovesIs ==
    ASSUME TypeOK, NEW h \in Host, HostMoves(h)
    PROVE  /\ host' = h /\ synth' \in [Requests -> SynthRecord] /\ SynthAfter(h, {})
           /\ device' \in Device /\ cut' \in [Requests -> Nat] /\ DeviceAfter(h)
<1>1. host' = h /\ CancelSyntheses(h) /\ StopDevice(h)
  BY DEF HostMoves
<1>2. synth' = [r \in Requests |-> [synth[r] EXCEPT !.cancelled = @ \/ r \in {}
                     \/ h.task[r].stage = "unwinding" \/ (Streamed(h, r) /\ h.task[r].cancelled)]]
  BY <1>1 DEF CancelSyntheses
<1>3. synth' \in [Requests -> SynthRecord] /\ SynthAfter(h, {})
  BY <1>2, CancelledSynth
<1>. QED
  BY <1>1, <1>3, StoppedDevice

LEMMA UnloadsIs ==
    ASSUME TypeOK, NEW h \in Host, Unloads(h)
    PROVE  /\ host' = h /\ synth' \in [Requests -> SynthRecord]
           /\ device' \in Device /\ cut' \in [Requests -> Nat] /\ DeviceAfter(h)
           /\ SynthAfter(h, {}) \/ (h.latest = 0 /\ host.latest \in Requests /\ SynthAfter(h, {host.latest}))
<1>1. CASE h.latest = None /\ host.latest # None
  <2>1. /\ host' = h /\ StopDevice(h) /\ host.latest \in Requests
        /\ synth' = [r \in Requests |-> [synth[r] EXCEPT !.cancelled = @ \/ r = host.latest
                           \/ h.task[r].stage = "unwinding" \/ (Streamed(h, r) /\ h.task[r].cancelled)]]
    BY <1>1 DEF Unloads, TypeOK, Host, None
  <2>2. synth' = [r \in Requests |-> [synth[r] EXCEPT !.cancelled = @ \/ r \in {host.latest}
                     \/ h.task[r].stage = "unwinding" \/ (Streamed(h, r) /\ h.task[r].cancelled)]]
    BY <2>1
  <2>3. synth' \in [Requests -> SynthRecord] /\ SynthAfter(h, {host.latest})
    BY <2>1, <2>2, CancelledSynth
  <2>. QED
    BY <1>1, <2>1, <2>3, StoppedDevice DEF None
<1>2. CASE ~(h.latest = None /\ host.latest # None)
  BY <1>2, HostMovesIs DEF Unloads
<1>. QED
  BY <1>1, <1>2

-----------------------------------------------------------------------------
(* The host's handlers.                                                      *)

LEMMA CancelRequestsIs ==
    ASSUME NEW h \in Host, NEW g, g = CancelRequests(h)
    PROVE  /\ g \in Host /\ SameTurn(h, g) /\ Cleared(h, g, h.requests) /\ g.latest = h.latest
           /\ g.requests = {} /\ g.drawn = h.drawn
<1>. DEFINE ids == h.requests
<1>1. ids \in SUBSET Requests /\ g = Stopped(h, ids)
  BY DEF CancelRequests, Stopped, Host
<1>. HIDE DEF ids
<1>2. g \in Host /\ SameTurn(h, g) /\ Cleared(h, g, ids) /\ g.latest = h.latest /\ g.drawn = h.drawn
  BY <1>1, StoppedIs
<1>3. g.requests = {}
  BY <1>2 DEF Cleared, ids
<1>. QED
  BY <1>2, <1>3 DEF ids

LEMMA StopConversationIs ==
    ASSUME NEW h \in Host
    PROVE  LET g == StopConversation(h)
           IN  /\ g \in Host /\ Cleared(h, g, h.requests) /\ g.latest = 0 /\ g.requests = {}
               /\ ~g.active /\ g.turn = 0 /\ g.session = h.drawn + 1 /\ g.drawn = h.drawn + 1
<1>. DEFINE told == Tell(h, "stop", None, h.session)
            fresh == [told EXCEPT !.active = FALSE, !.session = h.drawn + 1, !.drawn = @ + 1]
            c == CancelRequests(fresh)
            g == [c EXCEPT !.turn = None, !.botSpeaking = FALSE, !.botTurn = None, !.latest = None]
<1>1. [kind |-> "stop", request |-> None, session |-> h.session] \in Told
  BY DEF Told, Signals, Host, None
<1>2. told \in Host /\ SameCore(h, told) /\ told.drawn = h.drawn
  BY <1>1, TellIs DEF TellsOnly
<1>. HIDE DEF told
<1>3. h.drawn + 1 \in Nat
  BY DEF Host
<1>4. /\ fresh \in Host /\ fresh.task = told.task /\ SamePlayer(told, fresh) /\ SameRequests(told, fresh)
      /\ ~fresh.active /\ fresh.session = h.drawn + 1 /\ fresh.drawn = h.drawn + 1
      /\ fresh.sent = told.sent
  BY <1>2, <1>3 DEF Host, SamePlayer, SameRequests
<1>. HIDE DEF fresh
<1>5. /\ c \in Host /\ SameTurn(fresh, c) /\ Cleared(fresh, c, fresh.requests) /\ c.requests = {} /\ c.drawn = fresh.drawn
  BY <1>4, CancelRequestsIs
<1>. HIDE DEF c
<1>6. /\ g \in Host /\ g.task = c.task /\ SamePlayer(c, g) /\ SameRequests(c, g) /\ g.latest = 0
      /\ g.active = c.active /\ g.session = c.session /\ g.turn = 0 /\ g.sent = c.sent /\ g.drawn = c.drawn
  BY <1>5 DEF Host, SamePlayer, SameRequests, None
<1>7. StopConversation(h) = g
  BY <1>2 DEF StopConversation, told, fresh, c, SameCore, Host
<1>. HIDE DEF g
<1>8. NoNewDone(h, g)
  BY <1>2, <1>4, <1>5, <1>6 DEF NoNewDone, SameCore, Cleared
<1>9. Cleared(h, g, h.requests)
  <2>1. TasksCut(h, g, h.requests)
    BY <1>2, <1>4, <1>5, <1>6
       DEF Cleared, TasksCut, SameCore, SamePlayer, SameRequests
  <2>. QED
    BY <1>2, <1>4, <1>5, <1>6, <1>8, <2>1
       DEF Cleared, SameCore, SamePlayer, SameRequests, PlayerSilent
<1>10. g.requests = {} /\ ~g.active /\ g.session = h.drawn + 1
  BY <1>4, <1>5, <1>6 DEF SameRequests, SameTurn
<1>. QED
  BY <1>4, <1>6, <1>7, <1>9, <1>10, <1>5

\* A request of the current turn is taken on; another is refused.
LEMMA HandleRequestIs ==
    ASSUME NEW h \in Host, NEW m \in Events, m.kind = "request"
    PROVE  LET g == HandleRequest(h, m)
               accepts == h.active /\ m.turn = h.turn /\ m.session = h.session
           IN  /\ g \in Host /\ SameTurn(h, g) /\ SamePlayer(h, g) /\ g.latest = h.latest
               /\ g.speechRequest = h.speechRequest /\ NoNewDone(h, g)
               /\ ~accepts => g.task = h.task /\ g.requests = h.requests
               /\ accepts => /\ g.requests = h.requests \cup {m.request}
                             /\ \A q \in Requests \ {m.request} : g.task[q] = h.task[q]
                             /\ g.task[m.request] = [stage |-> "created", cancelled |-> FALSE, error |-> FALSE,
                                                     turn |-> m.turn, session |-> m.session]
<1>. DEFINE t == [stage |-> "created", cancelled |-> FALSE, error |-> FALSE,
                  turn |-> m.turn, session |-> m.session]
            accepts == h.active /\ m.turn = h.turn /\ m.session = h.session
            g == HandleRequest(h, m)
<1>1. m.request \in Requests /\ m.turn \in Nat /\ m.session \in Nat
  BY DEF Events, Turns
<1>2. CASE accepts
  <2>1. t \in TaskRecord
    BY <1>1 DEF TaskRecord, TaskStages
  <2>2. g = [h EXCEPT !.requests = h.requests \cup {m.request}, !.task = [h.task EXCEPT ![m.request] = t]]
    BY <1>2 DEF HandleRequest, Host
  <2>. HIDE DEF t
  <2>3. h.task \in [Requests -> TaskRecord] /\ [h.task EXCEPT ![m.request] = t] \in [Requests -> TaskRecord]
    BY <1>1, <2>1 DEF Host
  <2>. DEFINE task == [h.task EXCEPT ![m.request] = t]
  <2>4. task[m.request] = t /\ \A q \in Requests \ {m.request} : task[q] = h.task[q]
    BY <1>1, <2>3
  <2>. HIDE DEF task
  <2>5. h.requests \cup {m.request} \in SUBSET Requests
    BY <1>1 DEF Host
  <2>6. /\ g \in Host /\ SameTurn(h, g) /\ SamePlayer(h, g) /\ g.latest = h.latest
        /\ g.speechRequest = h.speechRequest /\ g.sent = h.sent /\ g.task = task
        /\ g.requests = h.requests \cup {m.request}
    BY <2>2, <2>3, <2>5 DEF Host, SameTurn, SamePlayer, task
  <2>. QED
    BY <1>2, <2>4, <2>6, SameDone DEF t
<1>3. CASE ~accepts
  <2>1. g = Tell(h, "error", m.request, None)
    BY <1>3 DEF HandleRequest
  <2>2. [kind |-> "error", request |-> m.request, session |-> None] \in Told
    BY <1>1 DEF Told, Signals, Requests, None
  <2>. QED
    BY <1>3, <2>1, <2>2, TellIs DEF SameCore, SameRequests
<1>. QED
  BY <1>2, <1>3

\* A request is given up: with the player if it holds it, alone otherwise.
LEMMA HandleCancelRequestIs ==
    ASSUME NEW h \in Host, NEW r, NEW ids, ids = h.requests \intersect {r},
           NEW g, g = HandleCancelRequest(h, r)
    PROVE  /\ g \in Host /\ SameTurn(h, g) /\ g.latest = h.latest /\ g.drawn = h.drawn
           /\ h.speechRequest = r => Cleared(h, g, ids)
           /\ h.speechRequest # r => Struck(h, g, ids)
<1>1. ids \in SUBSET Requests
  BY DEF Host
<1>2. CASE h.speechRequest = r
  <2>1. g = Stopped(h, ids)
    BY <1>2 DEF HandleCancelRequest, Stopped
  <2>. QED
    BY <1>1, <1>2, <2>1, StoppedIs
<1>3. CASE h.speechRequest # r
  <2>1. g = CancelTasks(h, ids)
    BY <1>3 DEF HandleCancelRequest
  <2>2. g \in Host /\ Struck(h, g, ids)
    BY <1>1, <2>1, CancelTasksIs
  <2>. QED
    BY <1>3, <2>2 DEF Struck
<1>. QED
  BY <1>2, <1>3

-----------------------------------------------------------------------------
(* What each action does.                                                    *)

Ready ==
    /\ TypeOK /\ Owned /\ AskedOnce /\ InTurn /\ StreamKnown /\ DoneEnded
    /\ PlayerOwned /\ Counted /\ Buffers /\ SynthCancelled

\* A step of the host's that leaves the wire to it, Python and what was heard alone.
Inside == UNCHANGED <<py, toHost, heard>>

\* The task of r goes from one stage to another; only the host moves.
TaskStep(r, stage, error) ==
    /\ TaskAt(host, host', r, stage, error) /\ SameTurn(host, host')
    /\ host'.generation = host.generation /\ host'.handlers = host.handlers
    /\ SynthAfter(host', {}) /\ UNCHANGED <<device, cut>> /\ Inside

Over(r) ==
    /\ host.task[r].stage \in {"created", "synthesizing", "completing", "unwinding"}
    /\ host.task[r].stage \in {"created", "synthesizing"} => host.task[r].cancelled
    /\ TaskStep(r, "ended", host.task[r].error)
    /\ SamePlayer(host, host') /\ host'.latest = host.latest
    /\ host'.requests = host.requests \ {r}
    /\ host'.speechRequest = IF host.speechRequest = r THEN 0 ELSE host.speechRequest
    /\ \A i \in DOMAIN host'.sent : host'.sent[i].kind = "done" =>
          \/ \E j \in DOMAIN host.sent : host.sent[j] = host'.sent[i]
          \/ /\ host'.sent[i].request = r /\ host.task[r].stage = "completing"
             /\ ~host.task[r].cancelled

Begun(r) ==
    /\ host.task[r].stage = "created" /\ r \in host.requests
    /\ TaskStep(r, "synthesizing", host.task[r].error)
    /\ SamePlayer(host, host') /\ host'.latest = host.latest
    /\ host'.requests = host.requests /\ host'.speechRequest = r /\ host'.sent = host.sent

Unwound(r, error) ==
    /\ host.task[r].stage = "streaming"
    /\ error \/ host.task[r].cancelled
    /\ TaskStep(r, "unwinding", error)
    /\ SamePlayer(host, host') /\ host'.latest = host.latest
    /\ SameRequests(host, host') /\ host'.sent = host.sent

\* With nothing pending there is nothing to wait for.
Finished(r) ==
    /\ host.task[r].stage = "streaming" /\ r \in host.requests
    /\ synth[r].stage = "finished" /\ synth[r].taken = synth[r].made
    /\ TaskStep(r, IF host.pending = 0 THEN "completing" ELSE "finishing", host.task[r].error)
    /\ host'.waiter = IF host.pending = 0 THEN host.waiter ELSE r
    /\ host'.pending = host.pending /\ host'.latest = host.latest
    /\ SameRequests(host, host') /\ host'.sent = host.sent

Queued(r) ==
    /\ host.task[r].stage = "synthesizing" /\ r \in host.requests
    /\ TaskAt(host, host', r, "streaming", host.task[r].error)
    /\ SameTurn(host, host') /\ SamePlayer(host, host') /\ SameRequests(host, host')
    /\ host'.latest = r /\ host'.sent = host.sent
    /\ \A q \in Requests : q # r => synth'[q] = synth[q]
    /\ synth'[r].stage = "waiting" /\ synth'[r].previous = host.latest
    /\ synth'[r].cancelled = synth[r].cancelled
    /\ synth'[r].made = synth[r].made /\ synth'[r].taken = synth[r].taken
    /\ UNCHANGED <<device, cut>> /\ Inside

Took(r) ==
    /\ host.task[r].stage = "streaming" /\ r \in host.requests
    /\ synth[r].taken < synth[r].made
    /\ SameTurn(host, host') /\ SameRequests(host, host') /\ NoNewDone(host, host')
    /\ host'.latest = host.latest /\ host'.task = host.task
    /\ host'.generation = host.generation /\ host'.waiter = host.waiter
    /\ host'.handlers = host.handlers /\ host'.pending = host.pending + Windows
    /\ \A q \in Requests : q # r => synth'[q] = synth[q]
    /\ synth'[r].stage = synth[r].stage /\ synth'[r].previous = synth[r].previous
    /\ synth'[r].cancelled = synth[r].cancelled
    /\ synth'[r].made = synth[r].made /\ synth'[r].taken = synth[r].taken + 1
    /\ device'.callbacks = device.callbacks
    /\ DOMAIN device'.scheduled = 1 .. Len(device.scheduled) + Windows
    /\ Len(device'.scheduled) = Len(device.scheduled) + Windows
    /\ \A i \in DOMAIN device.scheduled : device'.scheduled[i] = device.scheduled[i]
    /\ \A i \in DOMAIN device'.scheduled : i \notin DOMAIN device.scheduled =>
          device'.scheduled[i] = [request |-> r, epoch |-> host.generation]
    /\ UNCHANGED cut /\ Inside

\* A task that was not cancelled is the one the turn is about.
LEMMA Undisturbed ==
    ASSUME Ready, NEW r \in Requests, host.task[r].stage \in Running, ~host.task[r].cancelled
    PROVE  /\ r \in host.requests /\ Current(host, r)
           /\ host.task[r].stage # "created" => host.speechRequest = r
<1>1. r \in host.requests
  BY DEF Ready, Owned
<1>. QED
  BY <1>1 DEF Ready, Owned, PlayerOwned, Current

\* A host that moves within a generation leaves the device alone.
LEMMA MovesIs ==
    ASSUME TypeOK, NEW h \in Host, HostMoves(h), h.generation = host.generation, Inside,
           presses' \in Nat, failures' \in Nat
    PROVE  TypeOK' /\ host' = h /\ SynthAfter(h, {}) /\ UNCHANGED <<device, cut>>
<1>1. /\ host' = h /\ synth' \in [Requests -> SynthRecord] /\ SynthAfter(h, {})
      /\ device' \in Device /\ cut' \in [Requests -> Nat] /\ DeviceAfter(h)
  BY HostMovesIs
<1>2. UNCHANGED <<device, cut>>
  BY <1>1 DEF DeviceAfter
<1>3. TypeOK'
  BY <1>1 DEF TypeOK, Inside
<1>. QED
  BY <1>1, <1>2, <1>3

LEMMA MovesOver ==
    ASSUME TypeOK, NEW r \in Requests, NEW h \in Host, HostMoves(Ended(h, r)), Inside,
           presses' \in Nat, failures' \in Nat,
           host.task[r].stage \in {"created", "synthesizing", "completing", "unwinding"},
           host.task[r].stage \in {"created", "synthesizing"} => host.task[r].cancelled,
           h.task = host.task, SameTurn(host, h), SamePlayer(host, h), SameRequests(host, h),
           h.latest = host.latest,
           \A i \in DOMAIN h.sent : h.sent[i].kind = "done" =>
               \/ \E j \in DOMAIN host.sent : host.sent[j] = h.sent[i]
               \/ /\ h.sent[i].request = r /\ host.task[r].stage = "completing"
                  /\ ~host.task[r].cancelled
    PROVE  TypeOK' /\ Over(r)
<1>. DEFINE g == Ended(h, r)
<1>1. /\ g \in Host /\ SameTurn(h, g) /\ SamePlayer(h, g) /\ g.latest = h.latest /\ g.sent = h.sent
      /\ g.requests = h.requests \ {r}
      /\ g.speechRequest = IF h.speechRequest = r THEN 0 ELSE h.speechRequest
      /\ TaskAt(h, g, r, "ended", h.task[r].error)
  BY EndedIs
<1>2. HostMoves(g)
  OBVIOUS
<1>. HIDE DEF g
<1>3. g.generation = host.generation
  BY <1>1 DEF SamePlayer
<1>4. TypeOK' /\ host' = g /\ SynthAfter(g, {}) /\ UNCHANGED <<device, cut>>
  BY <1>1, <1>2, <1>3, MovesIs
<1>5. TaskStep(r, "ended", host.task[r].error)
  BY <1>1, <1>4 DEF TaskStep, TaskAt, SameTurn, SamePlayer
<1>. QED
  BY <1>1, <1>4, <1>5 DEF Over, SamePlayer, SameRequests

LEMMA BeginIs ==
    ASSUME Ready, NEW r \in Requests, Begin(r)
    PROVE  TypeOK' /\ (Over(r) \/ Begun(r))
<1>1. TypeOK /\ host \in Host /\ presses' \in Nat /\ failures' \in Nat /\ Inside
  BY DEF Ready, TypeOK, Begin, Inside
<1>2. host.task[r].stage = "created" /\ host.task[r].stage \in Running
  BY DEF Begin, Running
<1>3. CASE host.task[r].cancelled \/ ~Current(host, r)
  <2>1. host.task[r].cancelled
    BY <1>2, <1>3, Undisturbed
  <2>2. HostMoves(Ended(host, r))
    BY <1>3 DEF Begin
  <2>. DEFINE h == host
  <2>3. /\ h \in Host /\ h.task = host.task /\ SameTurn(host, h) /\ SamePlayer(host, h)
        /\ SameRequests(host, h) /\ h.latest = host.latest /\ HostMoves(Ended(h, r))
        /\ h.sent = host.sent
    BY <1>1, <2>2 DEF SameTurn, SamePlayer, SameRequests
  <2>. HIDE DEF h
  <2>. QED
    BY <1>1, <1>2, <2>1, <2>3, MovesOver
<1>4. CASE ~(host.task[r].cancelled \/ ~Current(host, r))
  <2>. DEFINE task == [host.task EXCEPT ![r].stage = "synthesizing"]
              g == [host EXCEPT !.task[r].stage = "synthesizing", !.speechRequest = r]
  <2>1. g = [host EXCEPT !.task = task, !.speechRequest = r] /\ HostMoves(g)
    BY <1>1, <1>4 DEF Begin, Host
  <2>. HIDE DEF g
  <2>2. g.task = task
    BY <1>1, <2>1 DEF Host
  <2>3. task \in [Requests -> TaskRecord] /\ TaskAt(host, g, r, "synthesizing", host.task[r].error)
    <3>1. "synthesizing" \in TaskStages
      BY DEF TaskStages
    <3>. QED
      BY <1>1, <2>2, <3>1, StageSet
  <2>. HIDE DEF task
  <2>4. /\ g \in Host /\ SameTurn(host, g) /\ SamePlayer(host, g) /\ g.latest = host.latest
        /\ g.sent = host.sent /\ g.requests = host.requests /\ g.speechRequest = r
    BY <1>1, <2>1, <2>3 DEF Host, SameTurn, SamePlayer
  <2>5. TypeOK' /\ host' = g /\ SynthAfter(g, {}) /\ UNCHANGED <<device, cut>>
    BY <1>1, <2>1, <2>4, MovesIs DEF SamePlayer
  <2>6. r \in host.requests
    BY <1>2, <1>4, Undisturbed
  <2>. QED
    BY <1>1, <1>2, <2>3, <2>4, <2>5, <2>6 DEF Begun, TaskStep, SamePlayer
<1>. QED
  BY <1>3, <1>4

LEMMA SynthesizeIs ==
    ASSUME Ready, NEW r \in Requests, Synthesize(r)
    PROVE  TypeOK' /\ (Over(r) \/ Queued(r))
<1>1. TypeOK /\ host \in Host /\ presses' \in Nat /\ failures' \in Nat /\ Inside
  BY DEF Ready, TypeOK, Synthesize, Inside
<1>2. host.task[r].stage = "synthesizing" /\ host.task[r].stage \in Running
  BY DEF Synthesize, Running
<1>3. CASE host.task[r].cancelled
  <2>2. HostMoves(Ended(host, r))
    BY <1>3 DEF Synthesize
  <2>. DEFINE h == host
  <2>3. /\ h \in Host /\ h.task = host.task /\ SameTurn(host, h) /\ SamePlayer(host, h)
        /\ SameRequests(host, h) /\ h.latest = host.latest /\ HostMoves(Ended(h, r))
        /\ h.sent = host.sent
    BY <1>1, <2>2 DEF SameTurn, SamePlayer, SameRequests
  <2>. HIDE DEF h
  <2>. QED
    BY <1>1, <1>2, <1>3, <2>3, MovesOver
<1>4. CASE ~host.task[r].cancelled
  <2>. DEFINE task == [host.task EXCEPT ![r].stage = "streaming"]
              g == [host EXCEPT !.task[r].stage = "streaming", !.latest = r]
  <2>1. g = [host EXCEPT !.task = task, !.latest = r] /\ host' = g
    BY <1>1, <1>4 DEF Synthesize, Host
  <2>. HIDE DEF g
  <2>2. g.task = task
    BY <1>1, <2>1 DEF Host
  <2>3. task \in [Requests -> TaskRecord] /\ TaskAt(host, g, r, "streaming", host.task[r].error)
    <3>1. "streaming" \in TaskStages
      BY DEF TaskStages
    <3>. QED
      BY <1>1, <2>2, <3>1, StageSet
  <2>. HIDE DEF task
  <2>4. /\ g \in Host /\ SameTurn(host, g) /\ SamePlayer(host, g) /\ g.latest = r
        /\ g.sent = host.sent /\ SameRequests(host, g)
    BY <1>1, <2>1, <2>3 DEF Host, SameTurn, SamePlayer, SameRequests
  <2>5. /\ synth' = [synth EXCEPT ![r].stage = "waiting", ![r].previous = host.latest]
        /\ UNCHANGED <<device, cut>>
    BY <1>4 DEF Synthesize
  <2>6. synth \in [Requests -> SynthRecord] /\ synth[r] \in SynthRecord /\ host.latest \in Requests \cup {0}
    BY <1>1 DEF TypeOK, Host
  <2>. DEFINE n == [synth[r] EXCEPT !.stage = "waiting", !.previous = host.latest]
  <2>7. synth' = [synth EXCEPT ![r] = n] /\ n \in SynthRecord
    BY <2>5, <2>6 DEF SynthRecord, SynthStages
  <2>8. /\ n.stage = "waiting" /\ n.previous = host.latest /\ n.cancelled = synth[r].cancelled
        /\ n.made = synth[r].made /\ n.taken = synth[r].taken
    BY <2>6 DEF SynthRecord
  <2>. HIDE DEF n
  <2>9. synth' \in [Requests -> SynthRecord] /\ synth'[r] = n /\ \A q \in Requests : q # r => synth'[q] = synth[q]
    BY <2>6, <2>7
  <2>10. TypeOK'
    BY <1>1, <2>1, <2>4, <2>5, <2>9 DEF TypeOK, Inside
  <2>11. r \in host.requests
    BY <1>2, <1>4, Undisturbed
  <2>. QED
    BY <1>1, <1>2, <2>1, <2>3, <2>4, <2>5, <2>8, <2>9, <2>10, <2>11 DEF Queued
<1>. QED
  BY <1>3, <1>4

\* Windows buffers more of r.
More(s, b) == s \o [w \in 1 .. Windows |-> b]
LEMMA ScheduledMore ==
    ASSUME NEW b \in Buffer, NEW s \in Seq(Buffer), NEW t, t = More(s, b)
    PROVE  /\ t \in Seq(Buffer) /\ DOMAIN t = 1 .. Len(s) + Windows /\ Len(t) = Len(s) + Windows
           /\ \A i \in DOMAIN s : t[i] = s[i]
           /\ \A i \in DOMAIN t : i \notin DOMAIN s => t[i] = b
<1>. DEFINE n == [w \in 1 .. Windows |-> b]
<1>1. Windows \in Nat
  BY PlaybackAssumption
<1>2. t = s \o n
  BY DEF More
<1>3. n \in Seq(Buffer) /\ Len(n) = Windows /\ DOMAIN n = 1 .. Windows /\ \A i \in DOMAIN n : n[i] = b
  BY <1>1
<1>. HIDE DEF n
<1>4. Len(s) \in Nat /\ DOMAIN s = 1 .. Len(s)
  OBVIOUS
<1>5. /\ s \o n \in Seq(Buffer) /\ Len(s \o n) = Len(s) + Len(n)
      /\ DOMAIN (s \o n) = 1 .. Len(s) + Len(n)
      /\ \A i \in 1 .. Len(s) : (s \o n)[i] = s[i] /\ i \in DOMAIN s
      /\ \A i \in DOMAIN (s \o n) : i > Len(s) => i - Len(s) \in DOMAIN n /\ (s \o n)[i] = n[i - Len(s)]
  <2>1. s \in Seq(Buffer) /\ n \in Seq(Buffer)
    BY <1>3
  <2>. QED
    BY <2>1, JoinedIs, SMTT(30)
<1>6. \A i \in DOMAIN t : i \notin DOMAIN s => t[i] = b
  BY <1>1, <1>2, <1>3, <1>4, <1>5
<1>. QED
  BY <1>1, <1>2, <1>3, <1>4, <1>5, <1>6

LEMMA TakeChunkIs ==
    ASSUME Ready, NEW r \in Requests, TakeChunk(r)
    PROVE  TypeOK' /\ Took(r)
<1>1. TypeOK /\ host \in Host /\ presses' \in Nat /\ failures' \in Nat /\ Inside
  BY DEF Ready, TypeOK, TakeChunk, Inside
<1>2. host.task[r].stage = "streaming" /\ host.task[r].stage \in Running /\ ~host.task[r].cancelled
      /\ host.task[r].stage # "created" /\ synth[r].taken < synth[r].made
  BY DEF TakeChunk, Running
<1>3. r \in host.requests /\ Current(host, r) /\ host.speechRequest = r
  BY <1>2, Undisturbed
<1>4. /\ host' = Enqueue(host)
      /\ synth' = [synth EXCEPT ![r].taken = @ + 1]
      /\ device' = [device EXCEPT !.scheduled = @ \o
              [w \in 1..Windows |-> [request |-> r, epoch |-> host.generation]]]
      /\ cut' = cut
  BY <1>3 DEF TakeChunk
<1>. DEFINE g == Enqueue(host)
<1>5. /\ g \in Host /\ SameTurn(host, g) /\ g.latest = host.latest /\ SameRequests(host, g) /\ NoNewDone(host, g)
      /\ g.task = host.task /\ g.generation = host.generation /\ g.waiter = host.waiter
      /\ g.handlers = host.handlers /\ g.pending = host.pending + Windows
  BY <1>1, EnqueueIs
<1>6. host' = g
  BY <1>4
<1>. HIDE DEF g
<1>7. synth \in [Requests -> SynthRecord] /\ synth[r] \in SynthRecord
  BY <1>1 DEF TypeOK
<1>. DEFINE n == [synth[r] EXCEPT !.taken = synth[r].taken + 1]
<1>8. synth' = [synth EXCEPT ![r] = n] /\ n \in SynthRecord
  BY <1>4, <1>7 DEF SynthRecord
<1>9. /\ n.stage = synth[r].stage /\ n.previous = synth[r].previous /\ n.cancelled = synth[r].cancelled
      /\ n.made = synth[r].made /\ n.taken = synth[r].taken + 1
  BY <1>7 DEF SynthRecord
<1>. HIDE DEF n
<1>10. synth' \in [Requests -> SynthRecord] /\ synth'[r] = n /\ \A q \in Requests : q # r => synth'[q] = synth[q]
  BY <1>7, <1>8
<1>. DEFINE s == device.scheduled
            b == [request |-> r, epoch |-> host.generation]
            t == s \o [w \in 1..Windows |-> b]
<1>11. s \in Seq(Buffer) /\ host.generation \in Nat /\ device \in Device
  BY <1>1 DEF TypeOK, Device, Host
<1>12. device' = [device EXCEPT !.scheduled = t]
       /\ t = More(s, b) /\ b \in Buffer
  BY <1>4, <1>11 DEF More, Buffer
<1>. HIDE DEF t, b
<1>13. /\ t \in Seq(Buffer) /\ DOMAIN t = 1 .. Len(s) + Windows /\ Len(t) = Len(s) + Windows
       /\ \A i \in DOMAIN s : t[i] = s[i]
       /\ \A i \in DOMAIN t : i \notin DOMAIN s => t[i] = b
  BY <1>11, <1>12, ScheduledMore
<1>14. device' \in Device /\ device'.scheduled = t /\ device'.callbacks = device.callbacks
  BY <1>11, <1>12, <1>13 DEF Device
<1>15. TypeOK'
  BY <1>1, <1>4, <1>5, <1>6, <1>10, <1>14 DEF TypeOK, Inside
<1>16. /\ SameTurn(host, host') /\ SameRequests(host, host') /\ NoNewDone(host, host')
       /\ host'.latest = host.latest /\ host'.task = host.task
       /\ host'.generation = host.generation /\ host'.waiter = host.waiter
       /\ host'.handlers = host.handlers /\ host'.pending = host.pending + Windows
  BY <1>5, <1>6
<1>17. /\ \A q \in Requests : q # r => synth'[q] = synth[q]
       /\ synth'[r].stage = synth[r].stage /\ synth'[r].previous = synth[r].previous
       /\ synth'[r].cancelled = synth[r].cancelled
       /\ synth'[r].made = synth[r].made /\ synth'[r].taken = synth[r].taken + 1
  BY <1>9, <1>10
<1>18. /\ device'.callbacks = device.callbacks
       /\ DOMAIN device'.scheduled = 1 .. Len(device.scheduled) + Windows
       /\ Len(device'.scheduled) = Len(device.scheduled) + Windows
       /\ \A i \in DOMAIN device.scheduled : device'.scheduled[i] = device.scheduled[i]
       /\ \A i \in DOMAIN device'.scheduled : i \notin DOMAIN device.scheduled =>
             device'.scheduled[i] = [request |-> r, epoch |-> host.generation]
  BY <1>13, <1>14 DEF b
<1>. QED
  BY <1>1, <1>2, <1>3, <1>4, <1>15, <1>16, <1>17, <1>18 DEF Took

LEMMA MovesUnwound ==
    ASSUME TypeOK, NEW r \in Requests, NEW error \in BOOLEAN, HostMoves(Unwind(host, r, error)), Inside,
           presses' \in Nat, failures' \in Nat,
           host.task[r].stage = "streaming", error \/ host.task[r].cancelled
    PROVE  TypeOK' /\ Unwound(r, error)
<1>. DEFINE g == Unwind(host, r, error)
<1>1. /\ g \in Host /\ SameTurn(host, g) /\ SamePlayer(host, g) /\ g.latest = host.latest
      /\ g.sent = host.sent /\ SameRequests(host, g) /\ TaskAt(host, g, r, "unwinding", error)
  BY UnwindIs DEF TypeOK
<1>2. HostMoves(g)
  OBVIOUS
<1>. HIDE DEF g
<1>3. g.generation = host.generation
  BY <1>1 DEF SamePlayer
<1>4. TypeOK' /\ host' = g /\ SynthAfter(g, {}) /\ UNCHANGED <<device, cut>>
  BY <1>1, <1>2, <1>3, MovesIs
<1>5. TaskStep(r, "unwinding", error)
  BY <1>1, <1>4 DEF TaskStep, SamePlayer
<1>. QED
  BY <1>1, <1>4, <1>5 DEF Unwound

LEMMA EngineFailsIs ==
    ASSUME Ready, NEW r \in Requests, EngineFails(r)
    PROVE  TypeOK' /\ Unwound(r, TRUE)
<1>1. TypeOK /\ presses' \in Nat /\ failures' \in Nat /\ Inside
  BY DEF Ready, TypeOK, EngineFails, Inside
<1>2. host.task[r].stage = "streaming" /\ HostMoves(Unwind(host, r, TRUE)) /\ TRUE \in BOOLEAN
  BY DEF EngineFails
<1>. QED
  BY <1>1, <1>2, MovesUnwound

LEMMA StreamEndsIs ==
    ASSUME Ready, NEW r \in Requests, StreamEnds(r)
    PROVE  TypeOK' /\ (Unwound(r, TRUE) \/ Unwound(r, FALSE) \/ Finished(r))
<1>1. TypeOK /\ host \in Host /\ presses' \in Nat /\ failures' \in Nat /\ Inside
  BY DEF Ready, TypeOK, StreamEnds, Inside
<1>2. host.task[r].stage = "streaming" /\ host.task[r].stage \in Running
      /\ TRUE \in BOOLEAN /\ FALSE \in BOOLEAN
  BY DEF StreamEnds, Running
<1>3. CASE host.task[r].cancelled /\ HostMoves(Unwind(host, r, FALSE))
  BY <1>1, <1>2, <1>3, MovesUnwound
<1>4. CASE synth[r].stage = "failed" /\ HostMoves(Unwind(host, r, TRUE))
  BY <1>1, <1>2, <1>4, MovesUnwound
<1>5. CASE ~host.task[r].cancelled /\ synth[r].stage = "cancelled"
  <2>1. host.task[r].error
    BY <1>2, <1>5 DEF Ready, SynthCancelled, Wasted
  <2>. QED
    BY <1>2, <2>1 DEF Ready, Owned
<1>6. CASE /\ ~host.task[r].cancelled /\ synth[r].taken = synth[r].made
           /\ synth[r].stage = "finished" /\ HostMoves(Finish(host, r))
  <2>. DEFINE g == Finish(host, r)
              stage == IF host.pending = 0 THEN "completing" ELSE "finishing"
  <2>1. /\ g \in Host /\ SameTurn(host, g) /\ g.latest = host.latest /\ SameRequests(host, g)
        /\ g.sent = host.sent /\ g.generation = host.generation /\ g.pending = host.pending
        /\ g.handlers = host.handlers
        /\ IF host.pending = 0
           THEN g.waiter = host.waiter /\ TaskAt(host, g, r, "completing", host.task[r].error)
           ELSE g.waiter = r /\ TaskAt(host, g, r, "finishing", host.task[r].error)
    BY <1>1, FinishIs
  <2>2. HostMoves(g)
    BY <1>6
  <2>. HIDE DEF g
  <2>3. TypeOK' /\ host' = g /\ SynthAfter(g, {}) /\ UNCHANGED <<device, cut>>
    BY <1>1, <2>1, <2>2, MovesIs
  <2>4. TaskStep(r, stage, host.task[r].error)
    BY <1>1, <2>1, <2>3 DEF TaskStep
  <2>5. r \in host.requests
    BY <1>2, <1>6, Undisturbed
  <2>. QED
    BY <1>2, <1>6, <2>1, <2>3, <2>4, <2>5 DEF Finished
<1>. QED
  BY <1>3, <1>4, <1>5, <1>6 DEF StreamEnds

LEMMA AnswerIs ==
    ASSUME Ready, NEW r \in Requests, Answer(r)
    PROVE  TypeOK' /\ Over(r)
<1>. DEFINE good == host.task[r].stage = "completing" /\ ~host.task[r].cancelled
            bad == host.task[r].stage = "unwinding" /\ host.task[r].error
            kind == IF good THEN "done" ELSE "error"
            m == [kind |-> kind, request |-> r, session |-> host.session]
            told == IF (good \/ bad) /\ Current(host, r)
                    THEN Tell(host, kind, r, host.session) ELSE host
<1>1. TypeOK /\ host \in Host /\ presses' \in Nat /\ failures' \in Nat /\ Inside
  BY DEF Ready, TypeOK, Answer, Inside
<1>2. host.task[r].stage \in {"created", "synthesizing", "completing", "unwinding"}
      /\ host.task[r].stage \notin {"created", "synthesizing"}
  BY DEF Answer
<1>3. HostMoves(Ended(told, r))
  BY DEF Answer
<1>4. m \in Told
  BY <1>1 DEF Told, Signals, Host, Requests
<1>5. /\ Tell(host, kind, r, host.session) \in Host
      /\ TellsOnly(host, Tell(host, kind, r, host.session), m)
  <2>. HIDE DEF kind
  <2>1. m = [kind |-> kind, request |-> r, session |-> host.session]
    OBVIOUS
  <2>. HIDE DEF m
  <2>. QED
    BY <1>1, <1>4, <2>1, TellIs
<1>6. told = host \/ (TellsOnly(host, told, m) /\ told \in Host /\ (good \/ bad))
  BY <1>5
<1>7. m.kind = "done" => m.request = r /\ good
  OBVIOUS
<1>. HIDE DEF told, m
<1>8. /\ told \in Host /\ told.task = host.task /\ SameTurn(host, told) /\ SamePlayer(host, told)
      /\ SameRequests(host, told) /\ told.latest = host.latest
      /\ told.sent = host.sent \/ told.sent = Append(host.sent, m)
  BY <1>1, <1>6 DEF TellsOnly, SameTurn, SamePlayer, SameRequests
<1>9. \A i \in DOMAIN told.sent : told.sent[i].kind = "done" =>
               \/ \E j \in DOMAIN host.sent : host.sent[j] = told.sent[i]
               \/ /\ told.sent[i].request = r /\ host.task[r].stage = "completing"
                  /\ ~host.task[r].cancelled
  <2>1. CASE told.sent = host.sent
    BY <2>1
  <2>2. CASE told.sent = Append(host.sent, m)
    <3>. DEFINE s == host.sent
                t == told.sent
    <3>1. s \in Seq(Told) /\ m \in Told /\ t = Append(s, m)
      BY <1>1, <1>4, <2>2 DEF Host, m
    <3>. HIDE DEF s, t
    <3>2. /\ Len(s) \in Nat /\ DOMAIN t = 1 .. Len(s) + 1 /\ DOMAIN s = 1 .. Len(s)
          /\ t[Len(s) + 1] = m /\ \A i \in 1 .. Len(s) : t[i] = s[i]
      BY <3>1, AppendedIs
    <3>3. ASSUME NEW i \in DOMAIN t, t[i].kind = "done"
          PROVE  \/ \E j \in DOMAIN s : s[j] = t[i]
                 \/ t[i].request = r /\ good
      <4>1. CASE i = Len(s) + 1
        BY <1>7, <3>2, <3>3, <4>1
      <4>2. CASE i \in DOMAIN s
        BY <3>2, <4>2
      <4>. QED
        BY <3>2, <4>1, <4>2
    <3>. QED
      BY <3>3 DEF s, t
  <2>. QED
    BY <1>8, <2>1, <2>2
<1>. QED
  BY <1>1, <1>2, <1>3, <1>8, <1>9, MovesOver

\* The host's tasks and its player go on as they were.
QuietMove(g) ==
    /\ g.task = host.task /\ SameRequests(host, g) /\ g.latest = host.latest /\ NoNewDone(host, g)
    /\ g.generation = host.generation /\ g.pending = host.pending /\ g.waiter = host.waiter
    /\ g.handlers \subseteq host.handlers
    /\ SameTurn(host, g) \/ host.requests = {}
    /\ g.active => host.active \/ Unloaded

\* Every request that got as far as the player is cut.
CutMove(g, ids) ==
    /\ Cleared(host, g, ids) /\ \A r \in host.requests : r \notin ids => host.task[r].stage = "created"
    /\ SameTurn(host, g) \/ g.requests = {}
    /\ \/ g.latest = host.latest /\ g.active = host.active
       \/ g.latest = 0 /\ ~g.active /\ g.requests = {}

\* A request that has not got as far is cancelled.
EarlyMove(g, ids) ==
    /\ Struck(host, g, ids) /\ \A r \in ids : host.task[r].stage = "created" /\ host.speechRequest # r

AcceptMove(g, m) ==
    /\ SameTurn(host, g) /\ SamePlayer(host, g) /\ g.latest = host.latest
    /\ g.speechRequest = host.speechRequest /\ NoNewDone(host, g)
    /\ host.active /\ m.turn = host.turn /\ m.session = host.session
    /\ g.requests = host.requests \cup {m.request}
    /\ \A q \in Requests \ {m.request} : g.task[q] = host.task[q]
    /\ g.task[m.request] = [stage |-> "created", cancelled |-> FALSE, error |-> FALSE,
                            turn |-> m.turn, session |-> m.session]

\* Nothing at all happens.
LEMMA SameQuiet == QuietMove(host)
BY DEF QuietMove, SameRequests, NoNewDone, SameTurn

\* One request is open at most, so every request is cut with the one that plays.
LEMMA CancelRequestsMoves ==
    ASSUME Ready, NEW c \in Host, c = CancelRequests(host)
    PROVE  c \in Host /\ CutMove(c, host.requests) /\ c.requests = {} /\ SameTurn(host, c)
           /\ c.latest = host.latest
<1>1. host \in Host
  BY DEF Ready, TypeOK
<1>2. /\ SameTurn(host, c) /\ Cleared(host, c, host.requests) /\ c.latest = host.latest /\ c.requests = {}
  BY <1>1, CancelRequestsIs
<1>. QED
  BY <1>2 DEF CutMove, SameTurn

\* The user's turn, the interruption and the bot's messages change a few fields besides.
SameButTurn(c, g) ==
    /\ g.task = c.task /\ SameRequests(c, g) /\ SamePlayer(c, g) /\ g.latest = c.latest
    /\ g.active = c.active /\ g.session = c.session /\ NoNewDone(c, g)

LEMMA CutTurn ==
    ASSUME NEW c, NEW g, NEW ids, CutMove(c, ids), c.requests = {}, SameButTurn(c, g)
    PROVE  CutMove(g, ids)
<1>1. Cleared(host, g, ids)
  <2>1. TasksCut(host, g, ids) /\ PlayerSilent(host, g) /\ NoNewDone(host, g)
    BY DEF CutMove, Cleared, TasksCut, PlayerSilent, NoNewDone, SameButTurn, SamePlayer
  <2>. QED
    BY <2>1 DEF CutMove, Cleared, SameButTurn, SameRequests, SamePlayer
<1>. QED
  BY <1>1 DEF CutMove, SameButTurn, SameRequests, SameTurn

LEMMA UserTurnMoves ==
    ASSUME Ready, NEW m \in Events, NEW g, g = [CancelRequests(host) EXCEPT !.turn = m.turn]
    PROVE  g \in Host /\ CutMove(g, host.requests)
<1>. DEFINE c == CancelRequests(host)
<1>1. host \in Host /\ m.turn \in Nat
  BY DEF Ready, TypeOK, Events, Turns
<1>2. c \in Host
  BY <1>1, CancelRequestsIs
<1>3. g = [c EXCEPT !.turn = m.turn]
  OBVIOUS
<1>4. c = CancelRequests(host)
  OBVIOUS
<1>. HIDE DEF c
<1>5. CutMove(c, host.requests) /\ c.requests = {}
  BY <1>2, <1>4, CancelRequestsMoves
<1>6. g \in Host /\ SameButTurn(c, g)
  BY <1>1, <1>2, <1>3 DEF Host, SameButTurn, SameRequests, SamePlayer, NoNewDone
<1>. QED
  BY <1>5, <1>6, CutTurn

LEMMA StopMoves ==
    ASSUME Ready, NEW g, g = StopConversation(host)
    PROVE  g \in Host /\ CutMove(g, host.requests)
<1>1. host \in Host
  BY DEF Ready, TypeOK
<1>2. /\ g \in Host /\ Cleared(host, g, host.requests) /\ g.latest = 0 /\ g.requests = {} /\ ~g.active
  BY <1>1, StopConversationIs
<1>. QED
  BY <1>2 DEF CutMove

LEMMA CancelRequestMoves ==
    ASSUME Ready, NEW r, NEW g, g = HandleCancelRequest(host, r)
    PROVE  /\ g \in Host /\ r \notin g.requests
           /\ CutMove(g, host.requests \cap {r}) \/ EarlyMove(g, host.requests \cap {r})
<1>. DEFINE ids == host.requests \cap {r}
<1>1. host \in Host
  BY DEF Ready, TypeOK
<1>2. ids = host.requests \cap {r}
  OBVIOUS
<1>. HIDE DEF ids
<1>3. /\ g \in Host /\ SameTurn(host, g) /\ g.latest = host.latest
      /\ host.speechRequest = r => Cleared(host, g, ids)
      /\ host.speechRequest # r => Struck(host, g, ids)
  BY <1>1, <1>2, HandleCancelRequestIs
<1>4. \A q \in host.requests : host.task[q].stage # "created" => host.speechRequest = q
  BY DEF Ready, PlayerOwned
<1>5. CASE host.speechRequest = r
  <2>1. \A q \in host.requests : q \notin ids => host.task[q].stage = "created"
    BY <1>2, <1>4, <1>5
  <2>2. r \notin g.requests
    BY <1>2, <1>3, <1>5 DEF Cleared
  <2>. QED
    BY <1>3, <1>5, <2>1, <2>2 DEF CutMove, ids, SameTurn
<1>6. CASE host.speechRequest # r
  <2>1. \A q \in ids : host.task[q].stage = "created" /\ host.speechRequest # q
    BY <1>2, <1>4, <1>6
  <2>2. r \notin g.requests
    BY <1>2, <1>3, <1>6 DEF Struck
  <2>. QED
    BY <1>3, <1>6, <2>1, <2>2 DEF EarlyMove, ids
<1>. QED
  BY <1>5, <1>6

LEMMA BotMoves ==
    ASSUME Ready, NEW m \in Events, NEW turn \in {m.turn, None}, NEW speaking \in BOOLEAN,
           NEW g, g = [host EXCEPT !.botSpeaking = speaking, !.botTurn = turn]
    PROVE  g \in Host /\ QuietMove(g)
<1>1. host \in Host /\ turn \in Nat
  BY DEF Ready, TypeOK, Events, Turns, None
<1>2. g \in Host /\ g.sent = host.sent
  BY <1>1 DEF Host
<1>3. /\ g.task = host.task /\ SameRequests(host, g) /\ g.latest = host.latest
      /\ g.generation = host.generation /\ g.pending = host.pending /\ g.waiter = host.waiter
      /\ g.handlers = host.handlers /\ SameTurn(host, g)
  BY <1>1 DEF Host, SameRequests, SameTurn
<1>. QED
  BY <1>2, <1>3, SameDone DEF QuietMove, SameTurn

\* The four ways an event of Python's moves the host.
LEMMA HandleEventMoves ==
    ASSUME Ready, NEW m \in Events, NEW g, g = HandleEvent(host, m)
    PROVE  /\ g \in Host
           /\ \/ QuietMove(g)
              \/ \E ids \in SUBSET host.requests : CutMove(g, ids) \/ EarlyMove(g, ids)
              \/ m.kind = "request" /\ AcceptMove(g, m)
           /\ m.kind = "request" => QuietMove(g) \/ AcceptMove(g, m)
           /\ m.kind = "cancel_request" /\ m.session = host.session => m.request \notin g.requests
<1>1. host \in Host /\ host.requests \in SUBSET host.requests
  BY DEF Ready, TypeOK
<1>2. m.kind \in Kinds
  BY DEF Events
<1>3. CASE m.kind = "request"
  <2>1. g = HandleRequest(host, m)
    BY <1>3 DEF HandleEvent
  <2>. DEFINE accepts == host.active /\ m.turn = host.turn /\ m.session = host.session
  <2>2. /\ g \in Host /\ SameTurn(host, g) /\ SamePlayer(host, g) /\ g.latest = host.latest
        /\ g.speechRequest = host.speechRequest /\ NoNewDone(host, g)
        /\ ~accepts => g.task = host.task /\ g.requests = host.requests
        /\ accepts => /\ g.requests = host.requests \cup {m.request}
                      /\ \A q \in Requests \ {m.request} : g.task[q] = host.task[q]
                      /\ g.task[m.request] = [stage |-> "created", cancelled |-> FALSE, error |-> FALSE,
                                              turn |-> m.turn, session |-> m.session]
    BY <1>1, <1>3, <2>1, HandleRequestIs
  <2>3. CASE accepts
    <3>1. AcceptMove(g, m)
      BY <2>2, <2>3 DEF AcceptMove
    <3>. QED
      BY <1>3, <2>2, <3>1
  <2>4. CASE ~accepts
    <3>1. QuietMove(g)
      BY <2>2, <2>4 DEF QuietMove, SameRequests, SamePlayer, SameTurn
    <3>. QED
      BY <1>3, <2>2, <3>1
  <2>. QED
    BY <2>3, <2>4
<1>4. CASE m.kind # "request" /\ m.session # host.session
  <2>1. g = host
    BY <1>2, <1>4 DEF HandleEvent, Kinds
  <2>. QED
    BY <1>1, <1>4, <2>1, SameQuiet
<1>5. CASE m.kind = "user_turn" /\ m.session = host.session
  <2>1. g = IF host.active THEN [CancelRequests(host) EXCEPT !.turn = m.turn] ELSE host
    BY <1>5 DEF HandleEvent
  <2>2. CASE host.active
    BY <1>1, <1>5, <2>1, <2>2, UserTurnMoves
  <2>. QED
    BY <1>1, <1>5, <2>1, <2>2, SameQuiet
<1>6. CASE m.kind = "cancel_request" /\ m.session = host.session
  <2>1. g = HandleCancelRequest(host, m.request)
    BY <1>6 DEF HandleEvent
  <2>2. /\ g \in Host /\ m.request \notin g.requests
        /\ CutMove(g, host.requests \cap {m.request}) \/ EarlyMove(g, host.requests \cap {m.request})
    BY <2>1, CancelRequestMoves
  <2>3. host.requests \cap {m.request} \in SUBSET host.requests
    OBVIOUS
  <2>. QED
    BY <1>6, <2>2, <2>3
<1>7. CASE m.kind = "cancel_turn" /\ m.session = host.session
  <2>1. g = host \/ g = CancelRequests(host)
    BY <1>7 DEF HandleEvent
  <2>2. CASE g = host
    BY <1>1, <1>7, <2>2, SameQuiet
  <2>3. CASE g = CancelRequests(host)
    <3>1. g \in Host
      BY <1>1, <2>3, CancelRequestsIs
    <3>. QED
      BY <1>1, <1>7, <2>3, <3>1, CancelRequestsMoves
  <2>. QED
    BY <2>1, <2>2, <2>3
<1>8. CASE m.kind = "error" /\ m.session = host.session
  <2>1. g = host \/ g = StopConversation(host)
    BY <1>8 DEF HandleEvent
  <2>. QED
    BY <1>1, <1>8, <2>1, SameQuiet, StopMoves
<1>9. CASE m.kind = "bot_started" /\ m.session = host.session
  <2>1. g = host \/ g = [host EXCEPT !.botSpeaking = TRUE, !.botTurn = m.turn]
    BY <1>9 DEF HandleEvent
  <2>. DEFINE k == [host EXCEPT !.botSpeaking = TRUE, !.botTurn = m.turn]
  <2>2. k \in Host /\ QuietMove(k)
    BY BotMoves
  <2>. HIDE DEF k
  <2>3. g = host \/ g = k
    BY <2>1 DEF k
  <2>. QED
    BY <1>1, <1>9, <2>2, <2>3, SameQuiet
<1>10. CASE m.kind = "bot_stopped" /\ m.session = host.session
  <2>1. g = host \/ g = [host EXCEPT !.botSpeaking = FALSE, !.botTurn = None]
    BY <1>10 DEF HandleEvent
  <2>. DEFINE k == [host EXCEPT !.botSpeaking = FALSE, !.botTurn = None]
  <2>2. k \in Host /\ QuietMove(k)
    BY BotMoves
  <2>. HIDE DEF k
  <2>3. g = host \/ g = k
    BY <2>1 DEF k
  <2>. QED
    BY <1>1, <1>10, <2>2, <2>3, SameQuiet
<1>. QED
  BY <1>2, <1>3, <1>4, <1>5, <1>6, <1>7, <1>8, <1>9, <1>10 DEF Kinds

Quieted == QuietMove(host') /\ SynthAfter(host', {}) /\ UNCHANGED <<device, cut, heard>>
Silencing(ids) ==
    /\ CutMove(host', ids) /\ ids \subseteq host.requests /\ DeviceAfter(host') /\ UNCHANGED heard
    /\ \/ SynthAfter(host', {})
       \/ host'.requests = {} /\ host.latest \in Requests /\ SynthAfter(host', {host.latest})
Early(ids) ==
    /\ EarlyMove(host', ids) /\ ids \subseteq host.requests
    /\ SynthAfter(host', {}) /\ UNCHANGED <<device, cut, heard>>
Accepted(m) == AcceptMove(host', m) /\ SynthAfter(host', {}) /\ UNCHANGED <<device, cut, heard>>

\* The host is moved to h by a handler, which may unload the synthesizer.
LEMMA UnloadsMoves ==
    ASSUME Ready, NEW h \in Host, Unloads(h) \/ HostMoves(h), UNCHANGED <<py, heard>>,
           toHost' \in Seq(Events), presses' \in Nat, failures' \in Nat
    PROVE  /\ TypeOK' /\ host' = h
           /\ QuietMove(h) => Quieted
           /\ \A ids \in SUBSET host.requests : CutMove(h, ids) => Silencing(ids)
           /\ \A ids \in SUBSET host.requests : EarlyMove(h, ids) => Early(ids)
           /\ \A m \in Events : AcceptMove(h, m) => Accepted(m)
<1>1. TypeOK
  BY DEF Ready
<1>2. /\ host' = h /\ synth' \in [Requests -> SynthRecord]
      /\ device' \in Device /\ cut' \in [Requests -> Nat] /\ DeviceAfter(h)
      /\ SynthAfter(h, {}) \/ (h.latest = 0 /\ host.latest \in Requests /\ SynthAfter(h, {host.latest}))
  <2>1. CASE Unloads(h)
    BY <1>1, <2>1, UnloadsIs
  <2>2. CASE HostMoves(h)
    BY <1>1, <2>2, HostMovesIs
  <2>. QED
    BY <2>1, <2>2
<1>3. TypeOK'
  BY <1>1, <1>2 DEF TypeOK
<1>4. h.generation = host.generation => UNCHANGED <<device, cut>>
  BY <1>2 DEF DeviceAfter
<1>5. h.latest = host.latest => SynthAfter(h, {})
  <2>1. 0 \notin Requests
    BY DEF Requests
  <2>. QED
    BY <1>2, <2>1
<1>6. QuietMove(h) => Quieted
  BY <1>2, <1>4, <1>5 DEF QuietMove, Quieted
<1>7. ASSUME NEW ids \in SUBSET host.requests, CutMove(h, ids)
      PROVE  Silencing(ids)
  <2>1. h.latest = host.latest \/ h.requests = {}
    BY <1>7 DEF CutMove
  <2>. QED
    BY <1>2, <1>5, <1>7, <2>1 DEF Silencing
<1>8. ASSUME NEW ids \in SUBSET host.requests, EarlyMove(h, ids)
      PROVE  Early(ids)
  BY <1>2, <1>4, <1>5, <1>8 DEF EarlyMove, Early, Struck
<1>9. ASSUME NEW m \in Events, AcceptMove(h, m)
      PROVE  Accepted(m)
  BY <1>2, <1>4, <1>5, <1>9 DEF AcceptMove, Accepted, SamePlayer
<1>. QED
  BY <1>2, <1>3, <1>6, <1>7, <1>8, <1>9

\* What the head of the wire asks for is done.
Handled(m) ==
    /\ toHost # <<>> /\ m = toHost[1] /\ toHost' = Tail(toHost) /\ UNCHANGED py
    /\ \/ Quieted
       \/ \E ids \in SUBSET host.requests : Silencing(ids) \/ Early(ids)
       \/ m.kind = "request" /\ Accepted(m)
    /\ m.kind = "request" => Quieted \/ Accepted(m)
    /\ m.kind = "cancel_request" /\ m.session = host.session => m.request \notin host'.requests

LEMMA HandleIs ==
    ASSUME Ready, Handle
    PROVE  TypeOK' /\ \E m \in Events : Handled(m)
<1>. DEFINE m == Head(toHost)
            g == HandleEvent(host, m)
<1>1. toHost # <<>> /\ toHost \in Seq(Events)
  BY DEF Handle, Ready, TypeOK
<1>2. m \in Events /\ m = toHost[1] /\ Tail(toHost) \in Seq(Events)
  BY <1>1, TailIs
<1>3. /\ Unloads(g) /\ UNCHANGED <<py, heard>> /\ presses' \in Nat /\ failures' \in Nat
      /\ toHost' = Tail(toHost)
  BY DEF Handle, Ready, TypeOK
<1>4. g = HandleEvent(host, m)
  OBVIOUS
<1>. HIDE DEF g, m
<1>5. /\ g \in Host
      /\ \/ QuietMove(g)
         \/ \E ids \in SUBSET host.requests : CutMove(g, ids) \/ EarlyMove(g, ids)
         \/ m.kind = "request" /\ AcceptMove(g, m)
      /\ m.kind = "request" => QuietMove(g) \/ AcceptMove(g, m)
      /\ m.kind = "cancel_request" /\ m.session = host.session => m.request \notin g.requests
  BY <1>2, <1>4, HandleEventMoves
<1>6. toHost' \in Seq(Events)
  BY <1>2, <1>3
<1>7. /\ TypeOK' /\ host' = g
      /\ QuietMove(g) => Quieted
      /\ \A ids \in SUBSET host.requests : CutMove(g, ids) => Silencing(ids)
      /\ \A ids \in SUBSET host.requests : EarlyMove(g, ids) => Early(ids)
      /\ \A e \in Events : AcceptMove(g, e) => Accepted(e)
  BY <1>3, <1>5, <1>6, UnloadsMoves
<1>8. \/ Quieted
      \/ \E ids \in SUBSET host.requests : Silencing(ids) \/ Early(ids)
      \/ m.kind = "request" /\ Accepted(m)
  BY <1>2, <1>5, <1>7
<1>9. m.kind = "request" => Quieted \/ Accepted(m)
  BY <1>2, <1>5, <1>7
<1>10. Handled(m)
  BY <1>1, <1>2, <1>3, <1>5, <1>7, <1>8, <1>9 DEF Handled
<1>. QED
  BY <1>2, <1>7, <1>10

LEMMA StopIs ==
    ASSUME Ready, Stop
    PROVE  TypeOK' /\ Inside /\ Silencing(host.requests)
<1>. DEFINE g == StopConversation(host)
<1>1. /\ Unloads(g) /\ Inside /\ UNCHANGED <<py, heard>> /\ presses' \in Nat /\ failures' \in Nat
      /\ toHost' \in Seq(Events)
  BY DEF Stop, Ready, TypeOK, Inside
<1>2. g = StopConversation(host) /\ host.requests \in SUBSET host.requests
  OBVIOUS
<1>. HIDE DEF g
<1>3. g \in Host /\ CutMove(g, host.requests)
  BY <1>2, StopMoves
<1>. QED
  BY <1>1, <1>2, <1>3, UnloadsMoves

LEMMA InterruptIs ==
    ASSUME Ready, Interrupt
    PROVE  TypeOK' /\ Inside /\ Silencing(host.requests)
<1>. DEFINE c == CancelRequests(host)
            t == Tell(c, "interrupt", None, host.session)
            g == [t EXCEPT !.turn = None, !.botSpeaking = FALSE, !.botTurn = None]
            m == [kind |-> "interrupt", request |-> None, session |-> host.session]
<1>1. /\ HostMoves(g) /\ Inside /\ UNCHANGED <<py, heard>> /\ presses' \in Nat /\ failures' \in Nat
      /\ toHost' \in Seq(Events) /\ host \in Host
  BY DEF Interrupt, Ready, TypeOK, Inside
<1>2. c = CancelRequests(host) /\ host.requests \in SUBSET host.requests
      /\ t = Tell(c, "interrupt", None, host.session)
      /\ g = [t EXCEPT !.turn = None, !.botSpeaking = FALSE, !.botTurn = None]
  OBVIOUS
<1>3. c \in Host
  BY <1>1, CancelRequestsIs
<1>4. m \in Told /\ m = [kind |-> "interrupt", request |-> None, session |-> host.session]
  BY <1>1 DEF Told, Signals, Host, None
<1>. HIDE DEF c, t, g, m
<1>5. CutMove(c, host.requests) /\ c.requests = {}
  BY <1>2, <1>3, CancelRequestsMoves
<1>6. t \in Host /\ TellsOnly(c, t, m) /\ SameCore(c, t)
  BY <1>2, <1>3, <1>4, TellIs
<1>7. g \in Host /\ SameButTurn(c, g)
  <2>1. /\ g \in Host /\ g.task = t.task /\ SameRequests(t, g) /\ SamePlayer(t, g) /\ g.latest = t.latest
        /\ g.active = t.active /\ g.session = t.session /\ g.sent = t.sent
    BY <1>2, <1>6, ZenonT(60) DEF Host, SameRequests, SamePlayer, None
  <2>2. NoNewDone(c, g)
    BY <1>6, <2>1 DEF SameCore, NoNewDone
  <2>. QED
    BY <1>6, <2>1, <2>2 DEF SameCore, SameTurn, SameRequests, SamePlayer, SameButTurn
<1>8. CutMove(g, host.requests)
  BY <1>5, <1>7, CutTurn
<1>. QED
  BY <1>1, <1>2, <1>7, <1>8, UnloadsMoves

LEMMA StartIs ==
    ASSUME Ready, Start
    PROVE  TypeOK' /\ Inside /\ Quieted
<1>. DEFINE f == [host EXCEPT !.active = TRUE, !.session = host.drawn + 1, !.drawn = @ + 1]
            g == Tell(f, "start", None, host.drawn + 1)
            m == [kind |-> "start", request |-> None, session |-> host.drawn + 1]
<1>1. /\ HostMoves(g) /\ Inside /\ UNCHANGED <<py, heard>> /\ presses' \in Nat /\ failures' \in Nat
      /\ toHost' \in Seq(Events) /\ host \in Host /\ ~host.active /\ Unloaded
  BY DEF Start, Ready, TypeOK, Inside
<1>2. /\ f = [host EXCEPT !.active = TRUE, !.session = host.drawn + 1, !.drawn = host.drawn + 1]
      /\ g = Tell(f, "start", None, host.drawn + 1) /\ host.drawn + 1 \in Nat
  BY <1>1 DEF Host
<1>3. m \in Told /\ m = [kind |-> "start", request |-> None, session |-> host.drawn + 1]
  BY <1>2 DEF Told, Signals, None
<1>. HIDE DEF f, g, m
<1>4. /\ f \in Host /\ f.task = host.task /\ SameRequests(host, f) /\ SamePlayer(host, f)
      /\ f.latest = host.latest /\ f.sent = host.sent
  BY <1>1, <1>2 DEF Host, SameRequests, SamePlayer
<1>5. g \in Host /\ SameCore(f, g)
  BY <1>2, <1>3, <1>4, TellIs
<1>6. host.requests = {}
  BY <1>1 DEF Ready, Owned
<1>7. QuietMove(g)
  <2>1. NoNewDone(host, g)
    BY <1>4, <1>5 DEF SameCore, NoNewDone
  <2>. QED
    BY <1>1, <1>4, <1>5, <1>6, <2>1 DEF QuietMove, SameCore, SameRequests, SamePlayer
<1>. QED
  BY <1>1, <1>5, <1>7, UnloadsMoves

LEMMA CancellationHandlerIs ==
    ASSUME Ready, CancellationHandler
    PROVE  TypeOK' /\ Inside /\ Quieted
<1>1. PICK e \in host.handlers : HostMoves(HandlerRuns([host EXCEPT !.handlers = @ \ {e}], e))
  BY DEF CancellationHandler
<1>. DEFINE g == [host EXCEPT !.handlers = @ \ {e}]
<1>2. host \in Host /\ e < host.generation /\ host.generation \in Nat /\ e \in Nat
  BY <1>1 DEF Ready, TypeOK, PlayerOwned, Host
<1>3. g.generation = host.generation
  BY <1>2 DEF Host
<1>4. HandlerRuns(g, e) = g
  BY <1>2, <1>3 DEF HandlerRuns
<1>5. /\ HostMoves(g) /\ Inside /\ UNCHANGED <<py, heard>> /\ presses' \in Nat /\ failures' \in Nat
      /\ toHost' \in Seq(Events)
  BY <1>1, <1>4 DEF CancellationHandler, Ready, TypeOK, Inside
<1>6. g \in Host /\ g.sent = host.sent
  BY <1>2 DEF Host
<1>7. /\ g.task = host.task /\ SameRequests(host, g) /\ g.latest = host.latest
      /\ g.generation = host.generation /\ g.pending = host.pending /\ g.waiter = host.waiter
      /\ g.handlers \subseteq host.handlers /\ SameTurn(host, g)
  BY <1>2 DEF Host, SameRequests, SameTurn
<1>8. QuietMove(g)
  BY <1>6, <1>7, SameDone DEF QuietMove, SameTurn
<1>. HIDE DEF g
<1>. QED
  BY <1>5, <1>6, <1>8, UnloadsMoves

\* The callback of the player's own generation counts one buffer off.
CalledBack ==
    /\ device.callbacks # <<>> /\ device'.scheduled = device.scheduled
    /\ device'.callbacks = Tail(device.callbacks) /\ UNCHANGED <<synth, cut>> /\ Inside
    /\ \/ device.callbacks[1] # host.generation /\ host' = host
       \/ /\ device.callbacks[1] = host.generation
          /\ SameTurn(host, host') /\ host'.latest = host.latest /\ SameRequests(host, host')
          /\ NoNewDone(host, host') /\ host'.generation = host.generation
          /\ host'.pending = host.pending - 1 /\ host'.handlers = host.handlers
          /\ IF host.pending = 1 /\ host.waiter # 0
             THEN /\ host'.waiter = 0
                  /\ TaskAt(host, host', host.waiter, "completing", host.task[host.waiter].error)
             ELSE host'.waiter = host.waiter /\ host'.task = host.task

LEMMA CallbackIs ==
    ASSUME Ready, Callback
    PROVE  TypeOK' /\ CalledBack
<1>1. TypeOK /\ host \in Host /\ device \in Device /\ device.callbacks # <<>>
  BY DEF Ready, TypeOK, Callback
<1>2. device.callbacks \in Seq(Nat)
  BY <1>1 DEF Device
<1>3. /\ Head(device.callbacks) = device.callbacks[1] /\ device.callbacks[1] \in Nat
      /\ Tail(device.callbacks) \in Seq(Nat) /\ Len(device.callbacks) \in Nat /\ Len(device.callbacks) > 0
      /\ DOMAIN device.callbacks = 1 .. Len(device.callbacks)
  BY <1>1, <1>2, TailIs
<1>4. /\ host' = Completed(host, device.callbacks[1])
      /\ device' = [device EXCEPT !.callbacks = Tail(device.callbacks)]
      /\ UNCHANGED <<synth, py, toHost, heard, cut, presses, failures>>
  BY <1>3 DEF Callback
<1>5. device' \in Device /\ device'.scheduled = device.scheduled /\ device'.callbacks = Tail(device.callbacks)
  BY <1>1, <1>3, <1>4 DEF Device
<1>6. CASE device.callbacks[1] # host.generation
  <2>1. host' = host
    BY <1>4, <1>6 DEF Completed
  <2>. QED
    BY <1>1, <1>4, <1>5, <1>6, <2>1 DEF TypeOK, CalledBack, Inside
<1>7. CASE device.callbacks[1] = host.generation
  <2>. DEFINE g == OneFewer(host)
  <2>1. host' = g
    BY <1>4, <1>7 DEF Completed
  <2>2. host.pending # 0
    <3>1. PICK k \in 0 .. Len(device.callbacks) :
              /\ \A i \in DOMAIN device.callbacks :
                    IF i <= k THEN device.callbacks[i] < host.generation
                    ELSE device.callbacks[i] = host.generation
              /\ host.pending + k = Len(device.scheduled) + Len(device.callbacks)
      BY DEF Ready, Counted
    <3>2. ~(1 <= k)
      BY <1>3, <1>7, <3>1
    <3>3. device.scheduled \in Seq(Buffer) /\ host.pending \in Nat
      BY <1>1 DEF Device, Host
    <3>4. Len(device.scheduled) \in Nat /\ Len(device.scheduled) >= 0
      BY <3>3
    <3>5. k = 0
      BY <1>3, <3>1, <3>2
    <3>6. host.pending + k = Len(device.scheduled) + Len(device.callbacks)
      BY <3>1
    <3>7. \A a, b, c \in Nat : a + 0 = b + c /\ c > 0 => a # 0
      OBVIOUS
    <3>. QED
      BY <1>3, <3>3, <3>4, <3>5, <3>6, <3>7
  <2>3. /\ g \in Host /\ SameTurn(host, g) /\ g.latest = host.latest /\ SameRequests(host, g)
        /\ NoNewDone(host, g)
        /\ g.generation = host.generation /\ g.pending = host.pending - 1 /\ g.handlers = host.handlers
        /\ IF host.pending = 1 /\ host.waiter # 0
           THEN g.waiter = 0 /\ TaskAt(host, g, host.waiter, "completing", host.task[host.waiter].error)
           ELSE g.waiter = host.waiter /\ g.task = host.task
    BY <1>1, <2>2, OneFewerIs
  <2>. HIDE DEF g
  <2>4. TypeOK'
    BY <1>1, <1>4, <1>5, <2>1, <2>3 DEF TypeOK
  <2>. QED
    BY <1>1, <1>4, <1>5, <1>7, <2>1, <2>3, <2>4 DEF CalledBack, Inside
<1>. QED
  BY <1>6, <1>7

\* The synthesis of r goes on; nothing else does.
Synthesized(r) ==
    /\ UNCHANGED <<host, device, cut>> /\ Inside
    /\ \A q \in Requests : q # r => synth'[q] = synth[q]
    /\ synth'[r].previous = synth[r].previous /\ synth'[r].cancelled = synth[r].cancelled
    /\ synth'[r].taken = synth[r].taken
    /\ \/ /\ synth[r].stage = "waiting" /\ PreviousOver(r) /\ synth'[r].made = synth[r].made
          /\ synth'[r].stage = IF synth[r].cancelled THEN "cancelled" ELSE "producing"
       \/ /\ synth[r].stage = "producing" /\ synth'[r].made >= synth[r].made
          /\ synth'[r].stage \in {"producing", "finished", "failed", "cancelled"}
          /\ synth'[r].stage = "cancelled" => synth[r].cancelled

SynthAt(r, stage, made) == synth' = [synth EXCEPT ![r].stage = stage, ![r].made = made]
LEMMA SynthSet ==
    ASSUME TypeOK, NEW r \in Requests, NEW stage \in SynthStages, NEW made \in Nat,
           SynthAt(r, stage, made),
           UNCHANGED <<host, device, py, toHost, heard, cut, presses>>, failures' \in Nat
    PROVE  /\ TypeOK' /\ \A q \in Requests : q # r => synth'[q] = synth[q]
           /\ synth'[r].previous = synth[r].previous /\ synth'[r].cancelled = synth[r].cancelled
           /\ synth'[r].taken = synth[r].taken
           /\ synth'[r].stage = stage /\ synth'[r].made = made
<1>. DEFINE n == [synth[r] EXCEPT !.stage = stage, !.made = made]
<1>1. synth \in [Requests -> SynthRecord] /\ synth[r] \in SynthRecord
  BY DEF TypeOK
<1>2. synth' = [synth EXCEPT ![r] = n] /\ n \in SynthRecord
  BY <1>1 DEF SynthRecord, SynthAt
<1>3. /\ n.previous = synth[r].previous /\ n.cancelled = synth[r].cancelled
      /\ n.taken = synth[r].taken /\ n.stage = stage /\ n.made = made
  BY <1>1 DEF SynthRecord
<1>. HIDE DEF n
<1>4. synth' \in [Requests -> SynthRecord] /\ synth'[r] = n /\ \A q \in Requests : q # r => synth'[q] = synth[q]
  BY <1>1, <1>2
<1>5. TypeOK'
  BY <1>4 DEF TypeOK
<1>. QED
  BY <1>3, <1>4, <1>5

LEMMA SynthesisIs ==
    ASSUME Ready, NEW r \in Requests, Synthesis(r) \/ SynthesisFails(r)
    PROVE  TypeOK' /\ Synthesized(r)
<1>1. TypeOK /\ synth \in [Requests -> SynthRecord] /\ synth[r] \in SynthRecord /\ synth[r].made \in Nat
      /\ synth[r].stage \in SynthStages
  BY DEF Ready, TypeOK, SynthRecord
<1>2. /\ UNCHANGED <<host, device, py, toHost, heard, cut, presses>> /\ failures' \in Nat
      /\ UNCHANGED <<host, device, cut>> /\ Inside
  BY <1>1 DEF Synthesis, SynthesisBegins, SynthesisYields, SynthesisEnds, SynthesisFails, TypeOK, Inside
<1>3. ASSUME NEW stage \in SynthStages, NEW made \in Nat,
             SynthAt(r, stage, made)
      PROVE  /\ TypeOK' /\ \A q \in Requests : q # r => synth'[q] = synth[q]
             /\ synth'[r].previous = synth[r].previous /\ synth'[r].cancelled = synth[r].cancelled
             /\ synth'[r].taken = synth[r].taken
             /\ synth'[r].stage = stage /\ synth'[r].made = made
  BY <1>1, <1>2, <1>3, SynthSet
<1>4. CASE SynthesisBegins(r)
  <2>. DEFINE stage == IF synth[r].cancelled THEN "cancelled" ELSE "producing"
  <2>1. stage \in SynthStages
    BY DEF SynthStages
  <2>2. SynthAt(r, stage, synth[r].made)
    BY <1>1, <1>4 DEF SynthesisBegins, SynthRecord, SynthAt
  <2>3. synth[r].stage = "waiting" /\ PreviousOver(r)
    BY <1>4 DEF SynthesisBegins
  <2>4. stage = IF synth[r].cancelled THEN "cancelled" ELSE "producing"
    OBVIOUS
  <2>. HIDE DEF stage
  <2>5. /\ TypeOK' /\ \A q \in Requests : q # r => synth'[q] = synth[q]
        /\ synth'[r].previous = synth[r].previous /\ synth'[r].cancelled = synth[r].cancelled
        /\ synth'[r].taken = synth[r].taken
        /\ synth'[r].stage = stage /\ synth'[r].made = synth[r].made
    BY <1>1, <1>3, <2>1, <2>2
  <2>. QED
    BY <1>2, <2>3, <2>4, <2>5 DEF Synthesized
<1>5. CASE SynthesisYields(r)
  <2>1. SynthAt(r, synth[r].stage, synth[r].made + 1)
    BY <1>1, <1>5 DEF SynthesisYields, SynthRecord, SynthAt
  <2>2. synth[r].stage = "producing" /\ synth[r].made + 1 \in Nat
    BY <1>1, <1>5 DEF SynthesisYields, Producing
  <2>3. /\ TypeOK' /\ \A q \in Requests : q # r => synth'[q] = synth[q]
        /\ synth'[r].previous = synth[r].previous /\ synth'[r].cancelled = synth[r].cancelled
        /\ synth'[r].taken = synth[r].taken
        /\ synth'[r].stage = synth[r].stage /\ synth'[r].made = synth[r].made + 1
    BY <1>1, <1>3, <2>1, <2>2
  <2>. QED
    BY <1>1, <1>2, <2>2, <2>3 DEF Synthesized
<1>6. CASE SynthesisEnds(r) \/ SynthesisFails(r)
  <2>1. PICK stage \in {"finished", "failed", "cancelled"} :
            /\ synth' = [synth EXCEPT ![r].stage = stage]
            /\ stage = "cancelled" => synth[r].cancelled
    BY <1>6 DEF SynthesisEnds, SynthesisFails
  <2>2. stage \in SynthStages /\ SynthAt(r, stage, synth[r].made)
    BY <1>1, <2>1 DEF SynthStages, SynthRecord, SynthAt
  <2>3. synth[r].stage = "producing"
    BY <1>6 DEF SynthesisEnds, SynthesisFails, Producing
  <2>4. /\ TypeOK' /\ \A q \in Requests : q # r => synth'[q] = synth[q]
        /\ synth'[r].previous = synth[r].previous /\ synth'[r].cancelled = synth[r].cancelled
        /\ synth'[r].taken = synth[r].taken
        /\ synth'[r].stage = stage /\ synth'[r].made = synth[r].made
    BY <1>1, <1>3, <2>2
  <2>. QED
    BY <1>1, <1>2, <2>1, <2>3, <2>4 DEF Synthesized
<1>. QED
  BY <1>4, <1>5, <1>6 DEF Synthesis

Played ==
    /\ device.scheduled # <<>> /\ device.scheduled[1] \in Buffer
    /\ device'.scheduled = Tail(device.scheduled)
    /\ device'.callbacks = Append(device.callbacks, device.scheduled[1].epoch)
    /\ \A r \in Requests : heard'[r] = IF r = device.scheduled[1].request THEN heard[r] + 1 ELSE heard[r]
    /\ UNCHANGED <<host, synth, py, toHost, cut>>

LEMMA DevicePlaysIs ==
    ASSUME Ready, DevicePlays
    PROVE  TypeOK' /\ Played
<1>1. TypeOK /\ device \in Device /\ heard \in [Requests -> Nat]
  BY DEF Ready, TypeOK
<1>2. device.scheduled \in Seq(Buffer) /\ device.callbacks \in Seq(Nat) /\ device.scheduled # <<>>
  BY <1>1 DEF Device, DevicePlays
<1>. DEFINE b == device.scheduled[1]
<1>3. b = Head(device.scheduled) /\ b \in Buffer /\ Tail(device.scheduled) \in Seq(Buffer)
  BY <1>2, TailIs
<1>4. /\ heard' = [heard EXCEPT ![b.request] = @ + 1]
      /\ device' = [scheduled |-> Tail(device.scheduled), callbacks |-> Append(device.callbacks, b.epoch)]
      /\ UNCHANGED <<host, synth, py, toHost, cut, presses, failures>>
  BY <1>3 DEF DevicePlays
<1>. HIDE DEF b
<1>5. b.request \in Requests /\ b.epoch \in Nat
  BY <1>3 DEF Buffer
<1>6. /\ heard' \in [Requests -> Nat]
      /\ \A r \in Requests : heard'[r] = IF r = b.request THEN heard[r] + 1 ELSE heard[r]
  BY <1>1, <1>4, <1>5
<1>7. Append(device.callbacks, b.epoch) \in Seq(Nat)
  BY <1>2, <1>5
<1>8. device' \in Device
  BY <1>3, <1>4, <1>7 DEF Device
<1>9. TypeOK'
  BY <1>1, <1>4, <1>6, <1>8 DEF TypeOK
<1>. QED
  BY <1>2, <1>3, <1>4, <1>6, <1>9 DEF Played, b

-----------------------------------------------------------------------------
(* Python's steps.                                                           *)

LEMMA EventIs ==
    ASSUME NEW kind \in Kinds, NEW request \in Nat, NEW turn \in Turns \cup {0}, NEW session \in Nat,
           kind = "request" => request \in Requests, NEW e, e = Event(kind, request, turn, session)
    PROVE  /\ e \in Events /\ e.kind = kind /\ e.request = request /\ e.session = session
BY DEF Event, Events

LEMMA SessionIs ==
    ASSUME NEW p \in Py, NEW turn \in Turns \cup {0}
    PROVE  SessionOf(p, turn) \in Nat
BY DEF SessionOf, Py, None

LEMMA SaysNothing == ASSUME toHost \in Seq(Events) PROVE toHost \o <<>> = toHost
OBVIOUS

LEMMA SaysOne ==
    ASSUME toHost \in Seq(Events), NEW e \in Events
    PROVE  toHost \o <<e>> = Append(toHost, e) /\ Append(toHost, e) \in Seq(Events)
OBVIOUS

LEMMA TurnsAre ==
    ASSUME Ready
    PROVE  /\ py.turn \in Nat /\ py.turns \in Nat /\ py.streamTurn \in Nat
           /\ py.turn <= py.turns /\ py.streamTurn <= py.turns
           /\ py.stream # 0 => py.streamTurn # 0
<1>1. /\ py.turn \in Turns \cup {0} /\ py.turns \in Turns \cup {0} /\ py.streamTurn \in Turns \cup {0}
  BY DEF Ready, TypeOK, Py
<1>2. Turns \cup {0} \subseteq Nat
  BY DEF Turns
<1>3. py.turn <= py.turns /\ py.streamTurn <= py.turns /\ (py.stream # 0 => py.streamTurn # 0)
  BY DEF Ready, StreamKnown
<1>. QED
  BY <1>1, <1>2, <1>3

\* A step of Python's, and what it leaves of the host's side.
Elsewhere == UNCHANGED <<synth, device, heard, cut>>
PyTurns == py'.turn <= py'.turns /\ py'.streamTurn <= py'.turns

\* The open request stays the open one; it may be answered.
Keeps ==
    /\ py'.stream = py.stream /\ py'.streamTurn = py.streamTurn
    /\ py'.requested = py.requested /\ py'.acknowledged = py.acknowledged
    /\ py.stream # 0 => SessionOf(py', py.streamTurn) = SessionOf(py, py.streamTurn)
    /\ \/ py'.result = py.result
       \/ py.stream # 0 /\ \E i \in DOMAIN host.sent : /\ host.sent[i].kind = py'.result
                                                       /\ host.sent[i].request = py.stream
    /\ \/ toHost' = toHost
       \/ \E e \in Events : e.kind \notin {"request", "cancel_request"} /\ toHost' = Append(toHost, e)

\* The open request, if there is one, is given up and the host is told so.
Drops ==
    /\ py'.stream = 0 /\ py'.result = "none"
    /\ py'.requested = py.requested /\ py'.acknowledged = py.acknowledged
    /\ IF py.stream = 0 THEN toHost' = toHost
       ELSE \E e \in Events : /\ e.kind = "cancel_request" /\ e.request = py.stream
                              /\ e.session = SessionOf(py, py.streamTurn)
                              /\ toHost' = Append(toHost, e)

\* The open request is done.
Acknowledges ==
    /\ py.stream # 0 /\ py.result = "done" /\ py'.stream = 0 /\ py'.result = "none"
    /\ py'.requested = py.requested /\ py'.acknowledged \subseteq py.acknowledged \cup {py.stream}
    /\ toHost' = toHost

\* A new request is asked for.
Requested ==
    /\ py.stream = 0 /\ py'.stream = py.requested + 1 /\ py'.stream \in Requests
    /\ py'.requested = py.requested + 1 /\ py'.acknowledged = py.acknowledged
    /\ py'.result = py.result /\ py'.streamTurn # 0
    /\ \E e \in Events : /\ e.kind = "request" /\ e.request = py'.stream
                         /\ e.session = SessionOf(py', py'.streamTurn)
                         /\ toHost' = Append(toHost, e)

PyStep ==
    /\ QuietMove(host') /\ Elsewhere /\ PyTurns
    /\ Keeps \/ Drops \/ Acknowledges \/ Requested

HostQuiet == host' \in Host /\ QuietMove(host') /\ presses' \in Nat

LEMMA HostStill ==
    ASSUME Ready, UNCHANGED <<host, presses>>
    PROVE  HostQuiet
<1>1. host \in Host /\ presses \in Nat
  BY DEF Ready, TypeOK
<1>. QED
  BY <1>1, SameQuiet DEF HostQuiet

\* What Python does to itself, p, and says, nothing or e.
LEMMA SaysIs ==
    ASSUME Ready, NEW p \in Py, NEW events, Python(p, events), HostQuiet,
           failures' \in Nat, events = <<>> \/ \E e \in Events : events = <<e>>
    PROVE  /\ TypeOK' /\ py' = p /\ QuietMove(host') /\ Elsewhere
           /\ events = <<>> => toHost' = toHost
           /\ \A e \in Events : events = <<e>> => toHost' = Append(toHost, e)
<1>1. TypeOK /\ toHost \in Seq(Events)
  BY DEF Ready, TypeOK
<1>2. py' = p /\ toHost' = toHost \o events /\ Elsewhere
  BY DEF Python, Elsewhere
<1>3. CASE events = <<>>
  <2>1. toHost' = toHost
    BY <1>1, <1>2, <1>3, SaysNothing
  <2>. QED
    BY <1>1, <1>2, <1>3, <2>1 DEF TypeOK, Elsewhere, HostQuiet
<1>4. ASSUME NEW e \in Events, events = <<e>>
      PROVE  TypeOK' /\ toHost' = Append(toHost, e) /\ QuietMove(host') /\ events # <<>>
  <2>1. toHost' = Append(toHost, e) /\ toHost' \in Seq(Events)
    BY <1>1, <1>2, <1>4, SaysOne
  <2>. QED
    BY <1>1, <1>2, <1>4, <2>1 DEF TypeOK, Elsewhere, HostQuiet
<1>. QED
  BY <1>2, <1>3, <1>4

\* The events of Drop and Silence.
LEMMA DropIs ==
    ASSUME Ready
    PROVE  /\ py.stream = 0 => Drop(py) = <<>>
           /\ py.stream # 0 => \E e \in Events : /\ Drop(py) = <<e>> /\ e.kind = "cancel_request"
                                                 /\ e.request = py.stream
                                                 /\ e.session = SessionOf(py, py.streamTurn)
<1>1. py \in Py /\ py.stream \in Nat /\ py.streamTurn \in Turns \cup {0} /\ "cancel_request" \in Kinds
  BY DEF Ready, TypeOK, Py, Requests, Kinds
<1>. DEFINE s == SessionOf(py, py.streamTurn)
            e == Event("cancel_request", py.stream, py.streamTurn, s)
<1>2. s \in Nat
  BY <1>1, SessionIs
<1>3. py.stream # 0 => Drop(py) = <<e>>
  BY DEF Drop, None
<1>. HIDE DEF s
<1>4. e \in Events /\ e.kind = "cancel_request" /\ e.request = py.stream /\ e.session = s
  BY <1>1, <1>2, EventIs
<1>. HIDE DEF e
<1>. QED
  BY <1>3, <1>4 DEF Drop, None, s

LEMMA SilenceIs ==
    ASSUME Ready
    PROVE  \/ Silence(py) = <<>>
           \/ \E e \in Events : Silence(py) = <<e>> /\ e.kind \notin {"request", "cancel_request"}
<1>1. py \in Py /\ None \in Nat /\ py.speakingTurn \in Turns \cup {0} /\ "bot_stopped" \in Kinds
  BY DEF Ready, TypeOK, Py, Kinds, None
<1>. DEFINE s == SessionOf(py, py.speakingTurn)
            e == Event("bot_stopped", None, py.speakingTurn, s)
<1>2. s \in Nat
  BY <1>1, SessionIs
<1>3. Silence(py) = <<>> \/ Silence(py) = <<e>>
  BY DEF Silence
<1>. HIDE DEF s
<1>4. e \in Events /\ e.kind = "bot_stopped"
  BY <1>1, <1>2, EventIs
<1>. HIDE DEF e
<1>. QED
  BY <1>3, <1>4

\* p only drops the request, and may move in other ways that do not concern it.
LEMMA DropsIs ==
    ASSUME Ready, NEW p \in Py, Python(p, Drop(py)), HostQuiet, failures' \in Nat,
           p.stream = 0, p.result = "none", p.requested = py.requested,
           p.acknowledged = py.acknowledged, p.streamTurn = py.streamTurn,
           p.turns = py.turns, p.turn = py.turn \/ p.turn = 0
    PROVE  TypeOK' /\ PyStep
<1>1. /\ py.stream = 0 => Drop(py) = <<>>
      /\ py.stream # 0 => \E e \in Events : /\ Drop(py) = <<e>> /\ e.kind = "cancel_request"
                                            /\ e.request = py.stream
                                            /\ e.session = SessionOf(py, py.streamTurn)
  BY DropIs
<1>2. Drop(py) = <<>> \/ \E e \in Events : Drop(py) = <<e>>
  BY <1>1
<1>3. /\ TypeOK' /\ py' = p /\ QuietMove(host') /\ Elsewhere
      /\ Drop(py) = <<>> => toHost' = toHost
      /\ \A e \in Events : Drop(py) = <<e>> => toHost' = Append(toHost, e)
  BY <1>2, SaysIs
<1>4. Drops
  BY <1>1, <1>3 DEF Drops
<1>5. PyTurns
  BY <1>3, TurnsAre DEF PyTurns
<1>. QED
  BY <1>3, <1>4, <1>5 DEF PyStep

\* p does not concern the open request, nor does what is said.
LEMMA KeepsIs ==
    ASSUME Ready, NEW p \in Py, NEW events, Python(p, events), HostQuiet,
           failures' \in Nat,
           events = <<>> \/ \E e \in Events : events = <<e>> /\ e.kind \notin {"request", "cancel_request"},
           p.stream = py.stream, p.requested = py.requested, p.result = py.result,
           p.acknowledged = py.acknowledged, p.streamTurn = py.streamTurn, p.session = py.session,
           \A t \in 1 .. py.turns : p.sessionOf[t] = py.sessionOf[t],
           p.turns >= py.turns, p.turn <= p.turns
    PROVE  TypeOK' /\ PyStep
<1>1. /\ TypeOK' /\ py' = p /\ QuietMove(host') /\ Elsewhere
      /\ events = <<>> => toHost' = toHost
      /\ \A e \in Events : events = <<e>> => toHost' = Append(toHost, e)
  BY SaysIs
<1>2. py.streamTurn \in Nat /\ py.turns \in Nat /\ p.turns \in Nat /\ py.streamTurn <= py.turns
  BY TurnsAre DEF Py, Turns
<1>3. SessionOf(p, py.streamTurn) = SessionOf(py, py.streamTurn)
  BY <1>2 DEF SessionOf, None
<1>4. Keeps
  BY <1>1, <1>3 DEF Keeps
<1>5. PyTurns
  BY <1>1, <1>2 DEF PyTurns
<1>. QED
  BY <1>1, <1>4, <1>5 DEF PyStep

LEMMA DroppedIs ==
    ASSUME NEW p \in Py
    PROVE  /\ Dropped(p) \in Py /\ Dropped(p).stream = 0 /\ Dropped(p).result = "none"
           /\ Dropped(p).requested = p.requested /\ Dropped(p).acknowledged = p.acknowledged
           /\ Dropped(p).streamTurn = p.streamTurn /\ Dropped(p).turns = p.turns /\ Dropped(p).turn = p.turn
           /\ Dropped(p).session = p.session /\ Dropped(p).sessionOf = p.sessionOf
           /\ Dropped(p).errors = p.errors /\ Dropped(p).controls = p.controls
           /\ Dropped(p).active = p.active
BY DEF Dropped, Py, None

LEMMA BeginTurnIs == ASSUME Ready, BeginTurn PROVE TypeOK' /\ PyStep
<1>. DEFINE t == py.turns + 1
            p == [py EXCEPT !.turn = t, !.turns = t, !.sessionOf = [py.sessionOf EXCEPT ![t] = py.session],
                            !.atTTS = TRUE]
            e == Event("user_turn", None, t, py.session)
<1>1. py \in Py /\ py.session \in Nat /\ py.turns \in Nat /\ "user_turn" \in Kinds /\ None \in Nat
  BY TurnsAre DEF Ready, TypeOK, Py, Kinds, None
<1>2. t \in Turns
  BY <1>1, PlaybackAssumption DEF BeginTurn, Turns
<1>3. Python(p, <<e>>) /\ HostQuiet /\ failures' \in Nat
  BY HostStill DEF BeginTurn, PyMoves, Ready, TypeOK
<1>4. e \in Events /\ e.kind = "user_turn"
  BY <1>1, <1>2, EventIs
<1>. HIDE DEF e
<1>5. /\ [py.sessionOf EXCEPT ![t] = py.session] \in [Turns -> Nat]
      /\ \A u \in 1 .. py.turns : [py.sessionOf EXCEPT ![t] = py.session][u] = py.sessionOf[u]
  BY <1>1, <1>2 DEF Py, Turns
<1>. DEFINE f == [py.sessionOf EXCEPT ![t] = py.session]
<1>. HIDE DEF f
<1>6. /\ p \in Py /\ p.stream = py.stream /\ p.requested = py.requested /\ p.result = py.result
      /\ p.acknowledged = py.acknowledged /\ p.streamTurn = py.streamTurn /\ p.session = py.session
      /\ p.sessionOf = f /\ p.turns = t /\ p.turn = t
  BY <1>1, <1>2, <1>5 DEF Py, f
<1>. HIDE DEF p
<1>7. \A u \in 1 .. py.turns : p.sessionOf[u] = py.sessionOf[u]
  BY <1>5, <1>6 DEF f
<1>8. p.turns >= py.turns /\ p.turn <= p.turns
  BY <1>1, <1>6
<1>. QED
  BY <1>3, <1>4, <1>6, <1>7, <1>8, KeepsIs

LEMMA ControlIs == ASSUME Ready, Control PROVE TypeOK' /\ PyStep
<1>. DEFINE rest == [py EXCEPT !.controls = Tail(@)]
            next == [rest EXCEPT !.turn = None, !.atTTS = TRUE]
            e == Event("cancel_turn", None, py.turn, py.session)
<1>1. /\ py \in Py /\ py.session \in Nat /\ py.turn \in Turns \cup {0} /\ "cancel_turn" \in Kinds
      /\ None \in Nat /\ py.controls \in Seq(Nat) /\ py.controls # <<>>
  BY DEF Ready, TypeOK, Py, Kinds, None, Control
<1>2. Tail(py.controls) \in Seq(Nat)
  BY <1>1
<1>3. \/ Python(rest, <<>>)
      \/ Python(next, <<e>>)
  BY DEF Control, PyMoves
<1>4. HostQuiet /\ failures' \in Nat
  BY HostStill DEF Control, PyMoves, Ready, TypeOK
<1>6. /\ rest \in Py /\ rest.stream = py.stream /\ rest.requested = py.requested /\ rest.result = py.result
      /\ rest.acknowledged = py.acknowledged /\ rest.streamTurn = py.streamTurn
      /\ rest.session = py.session /\ rest.sessionOf = py.sessionOf /\ rest.turns = py.turns
      /\ rest.turn = py.turn
  BY <1>1, <1>2 DEF Py
<1>. HIDE DEF rest
<1>7. /\ next \in Py /\ next.stream = py.stream /\ next.requested = py.requested
      /\ next.result = py.result /\ next.acknowledged = py.acknowledged
      /\ next.streamTurn = py.streamTurn /\ next.session = py.session
      /\ next.sessionOf = py.sessionOf /\ next.turns = py.turns /\ next.turn = 0
  BY <1>6 DEF Py, None
<1>. HIDE DEF next
<1>5. e \in Events /\ e.kind = "cancel_turn"
  <2>. QED
    BY <1>1 DEF Event, Events, Kinds
<1>. HIDE DEF e
<1>8. /\ rest.turns >= py.turns /\ rest.turn <= rest.turns /\ next.turns >= py.turns
      /\ next.turn <= next.turns
  BY <1>6, <1>7, TurnsAre
<1>9. CASE Python(rest, <<>>)
  BY <1>4, <1>6, <1>8, <1>9, KeepsIs
<1>10. CASE Python(next, <<e>>)
  BY <1>4, <1>5, <1>7, <1>8, <1>10, KeepsIs
<1>. QED
  BY <1>3, <1>9, <1>10

LEMMA InterruptTTSIs == ASSUME Ready, InterruptTTS PROVE TypeOK' /\ PyStep
<1>. DEFINE d == Dropped(py)
            p == [d EXCEPT !.atTTS = FALSE, !.atTransport = TRUE]
<1>1. Python(p, Drop(py)) /\ HostQuiet /\ failures' \in Nat /\ py \in Py
  BY HostStill DEF InterruptTTS, PyMoves, Ready, TypeOK
<1>2. /\ d \in Py /\ d.stream = 0 /\ d.result = "none" /\ d.requested = py.requested
      /\ d.acknowledged = py.acknowledged /\ d.streamTurn = py.streamTurn /\ d.turns = py.turns
      /\ d.turn = py.turn
  BY <1>1, DroppedIs
<1>. HIDE DEF d
<1>3. /\ p \in Py /\ p.stream = 0 /\ p.result = "none" /\ p.requested = py.requested
      /\ p.acknowledged = py.acknowledged /\ p.streamTurn = py.streamTurn /\ p.turns = py.turns
      /\ p.turn = py.turn
  BY <1>2, ZenonT(60) DEF Py
<1>. HIDE DEF p
<1>. QED
  BY <1>1, <1>3, DropsIs

LEMMA SilencedIs ==
    ASSUME NEW p \in Py
    PROVE  /\ Silenced(p) \in Py /\ Silenced(p).stream = p.stream /\ Silenced(p).result = p.result
           /\ Silenced(p).requested = p.requested /\ Silenced(p).acknowledged = p.acknowledged
           /\ Silenced(p).streamTurn = p.streamTurn /\ Silenced(p).turns = p.turns
           /\ Silenced(p).turn = p.turn
           /\ Silenced(p).session = p.session /\ Silenced(p).sessionOf = p.sessionOf
BY DEF Silenced, Py, None

LEMMA InterruptTransportIs == ASSUME Ready, InterruptTransport PROVE TypeOK' /\ PyStep
<1>. DEFINE d == Silenced(py)
            p == [d EXCEPT !.atTransport = FALSE]
<1>1. Python(p, Silence(py)) /\ HostQuiet /\ failures' \in Nat /\ py \in Py
  BY HostStill DEF InterruptTransport, PyMoves, Ready, TypeOK
<1>2. /\ d \in Py /\ d.stream = py.stream /\ d.result = py.result /\ d.requested = py.requested
      /\ d.acknowledged = py.acknowledged /\ d.streamTurn = py.streamTurn /\ d.turns = py.turns
      /\ d.turn = py.turn /\ d.session = py.session /\ d.sessionOf = py.sessionOf
  BY <1>1, SilencedIs
<1>. HIDE DEF d
<1>3. /\ p \in Py /\ p.stream = py.stream /\ p.result = py.result /\ p.requested = py.requested
      /\ p.acknowledged = py.acknowledged /\ p.streamTurn = py.streamTurn /\ p.turns = py.turns
      /\ p.turn = py.turn /\ p.session = py.session /\ p.sessionOf = py.sessionOf
  BY <1>2, ZenonT(60) DEF Py
<1>. HIDE DEF p
<1>4. p.turns >= py.turns /\ p.turn <= p.turns
  BY <1>3, TurnsAre
<1>5. \/ Silence(py) = <<>>
      \/ \E e \in Events : Silence(py) = <<e>> /\ e.kind \notin {"request", "cancel_request"}
  BY SilenceIs
<1>. QED
  BY <1>1, <1>3, <1>4, <1>5, KeepsIs

LEMMA SpeakIs == ASSUME Ready, Speak PROVE TypeOK' /\ PyStep
<1>. DEFINE r == py.requested + 1
            p == [py EXCEPT !.requested = r, !.stream = r, !.streamTurn = py.turn]
            s == SessionOf(py, py.turn)
            e == Event("request", r, py.turn, s)
<1>1. /\ py \in Py /\ py.turn \in Turns \cup {0} /\ "request" \in Kinds /\ py.turn # 0
      /\ py.stream = 0 /\ py.requested \in Requests \cup {0} /\ py.requested < MaxRequests
  BY DEF Ready, TypeOK, Py, Kinds, None, Speak
<1>2. r \in Requests /\ r \in Nat
  BY <1>1, PlaybackAssumption DEF Requests
<1>3. Python(p, <<e>>) /\ HostQuiet /\ failures' \in Nat
  BY HostStill DEF Speak, PyMoves, Ready, TypeOK
<1>4. s \in Nat
  BY <1>1, SessionIs
<1>5. /\ p \in Py /\ p.stream = r /\ p.requested = r /\ p.result = py.result
      /\ p.acknowledged = py.acknowledged /\ p.streamTurn = py.turn /\ p.session = py.session
      /\ p.sessionOf = py.sessionOf /\ p.turns = py.turns /\ p.turn = py.turn
  BY <1>1, <1>2, ZenonT(60) DEF Py
<1>6. SessionOf(p, p.streamTurn) = s
  BY <1>5 DEF SessionOf
<1>. HIDE DEF p, r, s
<1>7. e \in Events /\ e.kind = "request" /\ e.request = r /\ e.session = s
  BY <1>1, <1>2, <1>4, EventIs
<1>. HIDE DEF e
<1>8. /\ TypeOK' /\ py' = p /\ QuietMove(host') /\ Elsewhere /\ toHost' = Append(toHost, e)
  BY <1>3, <1>5, <1>7, SaysIs
<1>9. Requested
  BY <1>1, <1>2, <1>5, <1>6, <1>7, <1>8 DEF Requested, r
<1>10. PyTurns
  BY <1>5, <1>8, TurnsAre DEF PyTurns
<1>. QED
  BY <1>8, <1>9, <1>10 DEF PyStep

\* The request's error, when it is of the current turn, is one of the service's.
LEMMA GivenUp ==
    ASSUME Ready, NEW current \in BOOLEAN, HostQuiet, failures' \in Nat,
           Python(IF current THEN [Dropped(py) EXCEPT !.errors = Append(@, py.streamTurn)]
                  ELSE Dropped(py), Drop(py))
    PROVE  TypeOK' /\ PyStep
<1>. DEFINE d == Dropped(py)
            p == IF current THEN [d EXCEPT !.errors = Append(d.errors, py.streamTurn)] ELSE d
<1>1. py \in Py /\ Python(p, Drop(py))
  BY DEF Ready, TypeOK
<1>2. /\ d \in Py /\ d.stream = 0 /\ d.result = "none" /\ d.requested = py.requested
      /\ d.acknowledged = py.acknowledged /\ d.streamTurn = py.streamTurn /\ d.turns = py.turns
      /\ d.turn = py.turn
  BY <1>1, DroppedIs
<1>. HIDE DEF d
<1>3. d.errors \in Seq(Turns \cup {0}) /\ py.streamTurn \in Turns \cup {0}
  BY <1>1, <1>2 DEF Py
<1>4. Append(d.errors, py.streamTurn) \in Seq(Turns \cup {0})
  BY <1>3
<1>5. /\ p \in Py /\ p.stream = 0 /\ p.result = "none" /\ p.requested = py.requested
      /\ p.acknowledged = py.acknowledged /\ p.streamTurn = py.streamTurn /\ p.turns = py.turns
      /\ p.turn = py.turn
  BY <1>2, <1>4, ZenonT(60) DEF Py
<1>. HIDE DEF p
<1>. QED
  BY <1>1, <1>5, DropsIs

LEMMA TimesOutIs == ASSUME Ready, TimesOut PROVE TypeOK' /\ PyStep
<1>. DEFINE current == py.active /\ py.streamTurn = py.turn
<1>1. /\ Python(IF current THEN [Dropped(py) EXCEPT !.errors = Append(@, py.streamTurn)]
                ELSE Dropped(py), Drop(py))
      /\ HostQuiet /\ failures' \in Nat
  BY HostStill DEF TimesOut, Ready, TypeOK
<1>2. current \in BOOLEAN
  BY DEF Ready, TypeOK, Py
<1>. HIDE DEF current
<1>. QED
  BY <1>1, <1>2, GivenUp

LEMMA ResumeIs == ASSUME Ready, Resume PROVE TypeOK' /\ PyStep
<1>. DEFINE current == py.active /\ py.streamTurn = py.turn
<1>1. /\ py.stream # 0 /\ py \in Py /\ HostQuiet /\ failures' \in Nat
  BY HostStill DEF Resume, Resumed, PyMoves, Ready, TypeOK, None
<1>2. current \in BOOLEAN
  BY <1>1 DEF Py
<1>3. CASE py.result # "done"
  <2>1. Python(IF current THEN [Dropped(py) EXCEPT !.errors = Append(@, py.streamTurn)]
               ELSE Dropped(py), Drop(py))
    BY <1>3 DEF Resume, Resumed, PyMoves
  <2>. HIDE DEF current
  <2>. QED
    BY <1>1, <1>2, <2>1, GivenUp
<1>4. CASE py.result = "done"
  <2>. DEFINE d == Dropped(py)
              p == IF current THEN [d EXCEPT !.acknowledged = d.acknowledged \cup {py.stream}] ELSE d
  <2>1. Python(p, <<>>)
    BY <1>4 DEF Resume, Resumed, PyMoves
  <2>2. /\ d \in Py /\ d.stream = 0 /\ d.result = "none" /\ d.requested = py.requested
        /\ d.acknowledged = py.acknowledged /\ d.streamTurn = py.streamTurn /\ d.turns = py.turns
        /\ d.turn = py.turn
    BY <1>1, DroppedIs
  <2>. HIDE DEF d, current
  <2>3. d.acknowledged \cup {py.stream} \in SUBSET Requests
    BY <1>1, <2>2 DEF Py
  <2>. DEFINE a == IF current THEN d.acknowledged \cup {py.stream} ELSE d.acknowledged
  <2>8. a \in SUBSET Requests /\ a \subseteq py.acknowledged \cup {py.stream}
    BY <2>2, <2>3 DEF Py
  <2>9. p = [d EXCEPT !.acknowledged = a]
    BY <2>2 DEF Py
  <2>. HIDE DEF p, a
  <2>4. /\ p \in Py /\ p.stream = 0 /\ p.result = "none" /\ p.requested = py.requested
        /\ p.acknowledged \subseteq py.acknowledged \cup {py.stream}
        /\ p.streamTurn = py.streamTurn /\ p.turns = py.turns /\ p.turn = py.turn
    BY <2>2, <2>8, <2>9, ZenonT(60) DEF Py
  <2>5. /\ TypeOK' /\ py' = p /\ QuietMove(host') /\ Elsewhere /\ toHost' = toHost
    BY <1>1, <2>1, <2>4, SaysIs
  <2>6. Acknowledges
    BY <1>1, <1>4, <2>4, <2>5 DEF Acknowledges
  <2>7. PyTurns
    BY <2>4, <2>5, TurnsAre DEF PyTurns
  <2>. QED
    BY <2>5, <2>6, <2>7 DEF PyStep
<1>. QED
  BY <1>3, <1>4

LEMMA ReportErrorIs == ASSUME Ready, ReportError PROVE TypeOK' /\ PyStep
<1>. DEFINE t == Head(py.errors)
            p == [py EXCEPT !.errors = Tail(@)]
            e == Event("error", None, t, py.session)
<1>1. /\ py \in Py /\ py.session \in Nat /\ py.errors \in Seq(Turns \cup {0}) /\ py.errors # <<>>
  BY DEF Ready, TypeOK, Py, ReportError
<1>2. t \in Turns \cup {0} /\ Tail(py.errors) \in Seq(Turns \cup {0})
  BY <1>1
<1>3. Python(p, <<e>>) \/ Python(p, <<>>)
  BY DEF ReportError, PyMoves
<1>4. HostQuiet /\ failures' \in Nat
  BY HostStill DEF ReportError, PyMoves, Ready, TypeOK
<1>. HIDE DEF t
<1>5. e \in Events /\ e.kind = "error"
  BY <1>1, <1>2 DEF Event, Events, Kinds, None
<1>. HIDE DEF e
<1>6. /\ p \in Py /\ p.stream = py.stream /\ p.requested = py.requested /\ p.result = py.result
      /\ p.acknowledged = py.acknowledged /\ p.streamTurn = py.streamTurn
      /\ p.session = py.session /\ p.sessionOf = py.sessionOf /\ p.turns = py.turns
      /\ p.turn = py.turn
  BY <1>1, <1>2 DEF Py
<1>. HIDE DEF p
<1>7. p.turns >= py.turns /\ p.turn <= p.turns
  BY <1>6, TurnsAre
<1>8. CASE Python(p, <<>>)
  BY <1>4, <1>6, <1>7, <1>8, KeepsIs
<1>9. CASE Python(p, <<e>>)
  BY <1>4, <1>5, <1>6, <1>7, <1>9, KeepsIs
<1>. QED
  BY <1>3, <1>8, <1>9

-----------------------------------------------------------------------------
(* What the host says reaches Python.                                        *)

LEMMA AnsweredIs ==
    ASSUME Ready, NEW m \in Told, m.kind \in {"done", "error"}, HostQuiet, failures' \in Nat,
           \E i \in DOMAIN host.sent : host.sent[i] = m,
           Python(IF py.stream = m.request THEN [py EXCEPT !.result = m.kind] ELSE py, <<>>)
    PROVE  TypeOK' /\ PyStep
<1>. DEFINE p == IF py.stream = m.request THEN [py EXCEPT !.result = m.kind] ELSE py
<1>1. py \in Py /\ Python(p, <<>>) /\ m.request \in Requests /\ 0 \notin Requests
  BY DEF Ready, TypeOK, Told, Requests
<1>2. /\ p \in Py /\ p.stream = py.stream /\ p.requested = py.requested
      /\ p.acknowledged = py.acknowledged /\ p.streamTurn = py.streamTurn
      /\ p.session = py.session /\ p.sessionOf = py.sessionOf /\ p.turns = py.turns
      /\ p.turn = py.turn
      /\ p.result = py.result \/ (p.result = m.kind /\ py.stream = m.request)
  <2>1. CASE py.stream = m.request
    <3>1. p = [py EXCEPT !.result = m.kind] /\ m.kind \in {"none", "done", "error"}
      BY <2>1
    <3>. HIDE DEF p
    <3>. QED
      BY <1>1, <2>1, <3>1 DEF Py
  <2>2. CASE py.stream # m.request
    <3>1. p = py
      BY <2>2
    <3>. QED
      BY <1>1, <3>1
  <2>. QED
    BY <2>1, <2>2
<1>. HIDE DEF p
<1>3. /\ TypeOK' /\ py' = p /\ QuietMove(host') /\ Elsewhere /\ toHost' = toHost
  BY <1>1, <1>2, SaysIs
<1>4. SessionOf(p, py.streamTurn) = SessionOf(py, py.streamTurn)
  BY <1>2 DEF SessionOf
<1>5. Keeps
  BY <1>1, <1>2, <1>3, <1>4 DEF Keeps
<1>6. PyTurns
  BY <1>2, <1>3, TurnsAre DEF PyTurns
<1>. QED
  BY <1>3, <1>5, <1>6 DEF PyStep

LEMMA StartedIs ==
    ASSUME Ready, NEW m \in Told, HostQuiet, failures' \in Nat,
           Python([Dropped(py) EXCEPT !.active = TRUE, !.session = m.session, !.turn = None,
                        !.atTransport = TRUE, !.controls = Append(@, m.session)], Drop(py))
    PROVE  TypeOK' /\ PyStep
<1>. DEFINE d == Dropped(py)
            c == Append(d.controls, m.session)
            p == [d EXCEPT !.active = TRUE, !.session = m.session, !.turn = None,
                           !.atTransport = TRUE, !.controls = c]
<1>1. py \in Py /\ Python(p, Drop(py))
  BY DEF Ready, TypeOK
<1>7. m.session \in Nat
  BY DEF Told
<1>2. /\ d \in Py /\ d.stream = 0 /\ d.result = "none" /\ d.requested = py.requested
      /\ d.acknowledged = py.acknowledged /\ d.streamTurn = py.streamTurn /\ d.turns = py.turns
      /\ d.turn = py.turn
  BY <1>1, DroppedIs
<1>. HIDE DEF d
<1>3. c \in Seq(Nat)
  BY <1>2, <1>7 DEF Py
<1>. HIDE DEF c
<1>. DEFINE q == [d EXCEPT !.active = TRUE, !.session = m.session, !.turn = None]
<1>5. /\ q \in Py /\ q.stream = 0 /\ q.result = "none" /\ q.requested = py.requested
      /\ q.acknowledged = py.acknowledged /\ q.streamTurn = py.streamTurn /\ q.turns = py.turns
      /\ q.turn = 0
  BY <1>2, <1>7, ZenonT(60) DEF Py, None
<1>6. p = [q EXCEPT !.atTransport = TRUE, !.controls = c]
  BY <1>2 DEF Py
<1>. HIDE DEF p, q
<1>4. /\ p \in Py /\ p.stream = 0 /\ p.result = "none" /\ p.requested = py.requested
      /\ p.acknowledged = py.acknowledged /\ p.streamTurn = py.streamTurn /\ p.turns = py.turns
      /\ p.turn = 0
  BY <1>3, <1>5, <1>6 DEF Py
<1>. HIDE DEF p
<1>. QED
  BY <1>1, <1>4, DropsIs

LEMMA ControlledIs ==
    ASSUME Ready, NEW p, NEW m \in Told, NEW active \in BOOLEAN, HostQuiet, failures' \in Nat,
           Python(p, <<>>), p = [py EXCEPT !.active = active, !.controls = Append(@, m.session)]
    PROVE  TypeOK' /\ PyStep
<1>. DEFINE c == Append(py.controls, m.session)
<1>1. py \in Py /\ m.session \in Nat /\ p = [py EXCEPT !.active = active, !.controls = c]
  BY DEF Ready, TypeOK, Told
<1>2. c \in Seq(Nat)
  BY <1>1 DEF Py
<1>. HIDE DEF c
<1>3. /\ p \in Py /\ p.stream = py.stream /\ p.requested = py.requested /\ p.result = py.result
      /\ p.acknowledged = py.acknowledged /\ p.streamTurn = py.streamTurn
      /\ p.session = py.session /\ p.sessionOf = py.sessionOf /\ p.turns = py.turns
      /\ p.turn = py.turn
  BY <1>1, <1>2, ZenonT(60) DEF Py
<1>4. p.turns >= py.turns /\ p.turn <= p.turns
  BY <1>3, TurnsAre
<1>. QED
  BY <1>3, <1>4, KeepsIs

\* Nothing is heard of another session.
LEMMA IgnoredIs ==
    ASSUME Ready, HostQuiet, failures' \in Nat, Python(py, <<>>)
    PROVE  TypeOK' /\ PyStep
<1>1. py \in Py /\ py.turns >= py.turns /\ py.turn <= py.turns
  BY TurnsAre DEF Ready, TypeOK
<1>. QED
  BY <1>1, KeepsIs

LEMMA PlaybackOffIs ==
    ASSUME Ready, NEW r, HostQuiet, failures' \in Nat, PlaybackOff(r)
    PROVE  TypeOK' /\ PyStep
<1>. DEFINE p == Silenced(py)
<1>1. Python(p, Silence(py)) \/ Python(py, <<>>)
  BY DEF PlaybackOff
<1>2. py \in Py
  BY DEF Ready, TypeOK
<1>3. /\ p \in Py /\ p.stream = py.stream /\ p.result = py.result /\ p.requested = py.requested
      /\ p.acknowledged = py.acknowledged /\ p.streamTurn = py.streamTurn /\ p.turns = py.turns
      /\ p.turn = py.turn /\ p.session = py.session /\ p.sessionOf = py.sessionOf
  BY <1>2, SilencedIs
<1>. HIDE DEF p
<1>4. p.turns >= py.turns /\ p.turn <= p.turns
  BY <1>3, TurnsAre
<1>5. \/ Silence(py) = <<>>
      \/ \E e \in Events : Silence(py) = <<e>> /\ e.kind \notin {"request", "cancel_request"}
  BY SilenceIs
<1>6. CASE Python(p, Silence(py))
  BY <1>3, <1>4, <1>5, <1>6, KeepsIs
<1>. QED
  BY <1>1, <1>6, IgnoredIs

LEMMA PlaybackOnIs ==
    ASSUME Ready, NEW r \in Nat, HostQuiet, failures' \in Nat, PlaybackOn(r)
    PROVE  TypeOK' /\ PyStep
<1>. DEFINE p == [py EXCEPT !.speaking = r, !.speakingTurn = py.turn]
            s == SessionOf(py, py.turn)
            e == Event("bot_started", None, py.turn, s)
<1>1. Python(p, <<e>>) \/ Python(py, <<>>)
  BY DEF PlaybackOn
<1>2. py \in Py /\ py.turn \in Turns \cup {0}
  BY DEF Ready, TypeOK, Py
<1>3. /\ p \in Py /\ p.stream = py.stream /\ p.result = py.result /\ p.requested = py.requested
      /\ p.acknowledged = py.acknowledged /\ p.streamTurn = py.streamTurn /\ p.turns = py.turns
      /\ p.turn = py.turn /\ p.session = py.session /\ p.sessionOf = py.sessionOf
  BY <1>2 DEF Py
<1>4. s \in Nat
  BY <1>2, SessionIs
<1>. HIDE DEF p, s
<1>5. e \in Events /\ e.kind = "bot_started"
  BY <1>2, <1>4 DEF Event, Events, Kinds, None
<1>. HIDE DEF e
<1>6. p.turns >= py.turns /\ p.turn <= p.turns
  BY <1>3, TurnsAre
<1>7. CASE Python(p, <<e>>)
  BY <1>3, <1>5, <1>6, <1>7, KeepsIs
<1>. QED
  BY <1>1, <1>7, IgnoredIs

LEMMA ReceiveIs == ASSUME Ready, Receive PROVE TypeOK' /\ PyStep
<1>. DEFINE m == Head(host.sent)
            g == [host EXCEPT !.sent = Tail(@)]
<1>1. host \in Host /\ host.sent \in Seq(Told) /\ host.sent # <<>>
  BY DEF Ready, TypeOK, Host, Receive
<1>2. /\ m = host.sent[1] /\ m \in Told /\ Tail(host.sent) \in Seq(Told) /\ Len(host.sent) \in Nat
      /\ Len(host.sent) > 0 /\ DOMAIN Tail(host.sent) = 1 .. Len(host.sent) - 1
      /\ DOMAIN host.sent = 1 .. Len(host.sent)
      /\ \A i \in 1 .. Len(host.sent) - 1 : Tail(host.sent)[i] = host.sent[i + 1]
  BY <1>1, TailIs
<1>3. /\ g \in Host /\ g.sent = Tail(host.sent) /\ g.task = host.task /\ SameRequests(host, g)
      /\ g.latest = host.latest /\ SamePlayer(host, g) /\ SameTurn(host, g)
  BY <1>1, <1>2 DEF Host, SameRequests, SamePlayer, SameTurn
<1>4. host' = g /\ Received(m) /\ failures' \in Nat /\ presses' \in Nat
  BY DEF Receive, Ready, TypeOK
<1>. HIDE DEF g, m
<1>5. NoNewDone(host, g)
  <2>1. \A i \in DOMAIN g.sent : i + 1 \in DOMAIN host.sent /\ host.sent[i + 1] = g.sent[i]
    BY <1>2, <1>3
  <2>. QED
    BY <2>1 DEF NoNewDone
<1>6. HostQuiet
  BY <1>3, <1>4, <1>5 DEF HostQuiet, QuietMove, SamePlayer, SameTurn
<1>7. \E i \in DOMAIN host.sent : host.sent[i] = m
  BY <1>2
<1>8. m.kind \in Signals /\ m.request \in Nat /\ py.active \in BOOLEAN /\ TRUE \in BOOLEAN /\ FALSE \in BOOLEAN
  BY <1>2 DEF Told, Ready, TypeOK, Py
<1>9. CASE m.kind \in {"done", "error"}
  <2>1. Python(IF py.stream = m.request THEN [py EXCEPT !.result = m.kind] ELSE py, <<>>)
    BY <1>4, <1>9 DEF Received
  <2>. QED
    BY <1>2, <1>4, <1>6, <1>7, <1>9, <2>1, AnsweredIs
<1>10. CASE m.kind = "start"
  <2>1. Python([Dropped(py) EXCEPT !.active = TRUE, !.session = m.session, !.turn = None,
                     !.atTransport = TRUE, !.controls = Append(@, m.session)], Drop(py))
    BY <1>4, <1>10 DEF Received
  <2>. QED
    BY <1>2, <1>4, <1>6, <2>1, StartedIs
<1>11. CASE m.kind \notin {"done", "error", "start"} /\ m.session # py.session
  <2>1. Python(py, <<>>)
    BY <1>4, <1>11 DEF Received
  <2>. QED
    BY <1>4, <1>6, <2>1, IgnoredIs
<1>12. CASE m.kind = "playback_on" /\ m.session = py.session
  <2>1. PlaybackOn(m.request)
    BY <1>4, <1>12 DEF Received
  <2>. QED
    BY <1>4, <1>6, <1>8, <2>1, PlaybackOnIs
<1>13. CASE m.kind = "playback_off" /\ m.session = py.session
  <2>1. PlaybackOff(m.request)
    BY <1>4, <1>13 DEF Received
  <2>. QED
    BY <1>4, <1>6, <1>8, <2>1, PlaybackOffIs
<1>14. CASE m.kind = "stop" /\ m.session = py.session
  <2>. DEFINE p == [py EXCEPT !.active = FALSE, !.controls = Append(@, m.session)]
  <2>1. Python(p, <<>>)
    BY <1>4, <1>14 DEF Received
  <2>. QED
    BY <1>2, <1>4, <1>6, <1>8, <2>1, ControlledIs
<1>15. CASE m.kind = "interrupt" /\ m.session = py.session
  <2>. DEFINE p == [py EXCEPT !.controls = Append(@, m.session)]
  <2>1. Python(p, <<>>)
    BY <1>4, <1>15 DEF Received
  <2>2. p = [py EXCEPT !.active = py.active, !.controls = Append(@, m.session)]
    BY DEF Ready, TypeOK, Py
  <2>. HIDE DEF p
  <2>. QED
    BY <1>2, <1>4, <1>6, <1>8, <2>1, <2>2, ControlledIs
<1>. QED
  BY <1>8, <1>9, <1>10, <1>11, <1>12, <1>13, <1>14, <1>15 DEF Signals

-----------------------------------------------------------------------------
(* How the tasks go on.                                                      *)

\* No task starts, is forgotten or comes back; what is no longer asked for is cancelled
\* or over, and what is asked for still runs, undisturbed.
Ran ==
    /\ host'.requests \subseteq host.requests
    /\ host'.requests # {} => SameTurn(host, host')
    /\ \A r \in Requests :
          /\ host'.task[r].session = host.task[r].session /\ host'.task[r].turn = host.task[r].turn
          /\ host'.task[r].stage = "none" <=> host.task[r].stage = "none"
          /\ host.task[r].stage = "ended" => host'.task[r].stage = "ended"
          /\ host.task[r].cancelled => host'.task[r].cancelled
          /\ host'.task[r].stage \in Running => host.task[r].stage \in Running
          /\ r \in host.requests \ host'.requests => host'.task[r].cancelled \/ host'.task[r].stage = "ended"
          /\ r \in host'.requests => host'.task[r].stage \in Running /\ ~host'.task[r].cancelled
          /\ host.task[r].stage = "none" => ~host'.task[r].cancelled
          /\ host'.task[r].error => host'.task[r].stage \in {"unwinding", "ended"}
          /\ host.task[r].error => host'.task[r].error \/ host'.task[r].cancelled

\* Where the tasks are.
LEMMA TasksAre ==
    ASSUME Ready, NEW r \in Requests
    PROVE  /\ r \in host.requests => host.task[r].stage \in Running /\ ~host.task[r].cancelled /\ ~(host.task[r].stage = "none")
                                     /\ ~(host.task[r].stage = "ended")
           /\ host.task[r].stage = "none" => ~host.task[r].cancelled
           /\ host.task[r].error => host.task[r].stage \in {"unwinding", "ended"}
           /\ host.task[r].stage = "finishing" <=> host.waiter = r
           /\ host.task[r].stage = "finishing" => r \in host.requests
           /\ host.task[r].cancelled \in BOOLEAN /\ host.task[r].error \in BOOLEAN
           /\ host.task[r].stage \in TaskStages
<1>1. host.task[r] \in TaskRecord
  BY DEF Ready, TypeOK, Host
<1>. QED
  BY <1>1 DEF Ready, Owned, PlayerOwned, TaskRecord, Running

LEMMA MovedRan ==
    ASSUME Ready, NEW r \in Requests, NEW stage \in {"synthesizing", "streaming", "finishing", "completing"},
           TaskAt(host, host', r, stage, host.task[r].error), SameTurn(host, host'),
           host'.requests = host.requests, r \in host.requests,
           host.task[r].stage \in {"created", "synthesizing", "streaming", "finishing"}
    PROVE  Ran
<1>. SUFFICES ASSUME NEW q \in Requests
              PROVE  /\ host'.task[q].session = host.task[q].session /\ host'.task[q].turn = host.task[q].turn
                     /\ host'.task[q].stage = "none" <=> host.task[q].stage = "none"
                     /\ host.task[q].stage = "ended" => host'.task[q].stage = "ended"
                     /\ host.task[q].cancelled => host'.task[q].cancelled
                     /\ host'.task[q].stage \in Running => host.task[q].stage \in Running
                     /\ q \in host'.requests => host'.task[q].stage \in Running /\ ~host'.task[q].cancelled
                     /\ host.task[q].stage = "none" => ~host'.task[q].cancelled
                     /\ host'.task[q].error => host'.task[q].stage \in {"unwinding", "ended"}
                     /\ host.task[q].error => host'.task[q].error \/ host'.task[q].cancelled
  BY DEF Ran
<1>. QED
  BY TasksAre DEF TaskAt, Running

LEMMA OverRan ==
    ASSUME Ready, NEW r \in Requests, Over(r)
    PROVE  Ran
<1>1. /\ TaskAt(host, host', r, "ended", host.task[r].error) /\ SameTurn(host, host')
      /\ host'.requests = host.requests \ {r}
      /\ host.task[r].stage \in {"created", "synthesizing", "completing", "unwinding"}
  BY DEF Over, TaskStep
<1>. SUFFICES ASSUME NEW q \in Requests
              PROVE  /\ host'.task[q].session = host.task[q].session /\ host'.task[q].turn = host.task[q].turn
                     /\ host'.task[q].stage = "none" <=> host.task[q].stage = "none"
                     /\ host.task[q].stage = "ended" => host'.task[q].stage = "ended"
                     /\ host.task[q].cancelled => host'.task[q].cancelled
                     /\ host'.task[q].stage \in Running => host.task[q].stage \in Running
                     /\ q \in host.requests \ host'.requests => host'.task[q].stage = "ended"
                     /\ q \in host'.requests => host'.task[q].stage \in Running /\ ~host'.task[q].cancelled
                     /\ host.task[q].stage = "none" => ~host'.task[q].cancelled
                     /\ host'.task[q].error => host'.task[q].stage \in {"unwinding", "ended"}
                     /\ host.task[q].error => host'.task[q].error
  BY <1>1 DEF Ran
<1>. QED
  BY <1>1, TasksAre DEF TaskAt, Running

LEMMA UnwoundRan ==
    ASSUME Ready, NEW r \in Requests, NEW error \in BOOLEAN, Unwound(r, error)
    PROVE  Ran
<1>1. /\ TaskAt(host, host', r, "unwinding", error) /\ SameTurn(host, host')
      /\ host'.requests = host.requests /\ host.task[r].stage = "streaming"
      /\ error \/ host.task[r].cancelled
  BY DEF Unwound, TaskStep, SameRequests
<1>. SUFFICES ASSUME NEW q \in Requests
              PROVE  /\ host'.task[q].session = host.task[q].session /\ host'.task[q].turn = host.task[q].turn
                     /\ host'.task[q].stage = "none" <=> host.task[q].stage = "none"
                     /\ host.task[q].stage = "ended" => host'.task[q].stage = "ended"
                     /\ host.task[q].cancelled => host'.task[q].cancelled
                     /\ host'.task[q].stage \in Running => host.task[q].stage \in Running
                     /\ q \in host'.requests => host'.task[q].stage \in Running /\ ~host'.task[q].cancelled
                     /\ host.task[q].stage = "none" => ~host'.task[q].cancelled
                     /\ host'.task[q].error => host'.task[q].stage \in {"unwinding", "ended"}
                     /\ host.task[q].error => host'.task[q].error \/ host'.task[q].cancelled
  BY <1>1 DEF Ran
<1>. QED
  BY <1>1, TasksAre DEF TaskAt, Running

LEMMA QuietRan ==
    ASSUME Ready, host'.task = host.task, host'.requests = host.requests,
           SameTurn(host, host') \/ host.requests = {}
    PROVE  Ran
<1>. SUFFICES ASSUME NEW q \in Requests
              PROVE  /\ q \in host'.requests => host'.task[q].stage \in Running /\ ~host'.task[q].cancelled
                     /\ host.task[q].stage = "none" => ~host'.task[q].cancelled
                     /\ host'.task[q].error => host'.task[q].stage \in {"unwinding", "ended"}
  BY DEF Ran
<1>. QED
  BY TasksAre

LEMMA CutRan ==
    ASSUME Ready, NEW ids \in SUBSET host.requests, CutMove(host', ids)
    PROVE  Ran
<1>1. /\ TasksCut(host, host', ids) /\ host'.requests = host.requests \ ids
      /\ host'.requests # {} => SameTurn(host, host')
      /\ \A r \in host.requests : r \notin ids => host.task[r].stage = "created"
  BY DEF CutMove, Cleared
<1>. SUFFICES ASSUME NEW q \in Requests
              PROVE  /\ host'.task[q].session = host.task[q].session /\ host'.task[q].turn = host.task[q].turn
                     /\ host'.task[q].stage = "none" <=> host.task[q].stage = "none"
                     /\ host.task[q].stage = "ended" => host'.task[q].stage = "ended"
                     /\ host.task[q].cancelled => host'.task[q].cancelled
                     /\ host'.task[q].stage \in Running => host.task[q].stage \in Running
                     /\ q \in host.requests \ host'.requests => host'.task[q].cancelled
                     /\ q \in host'.requests => host'.task[q].stage \in Running /\ ~host'.task[q].cancelled
                     /\ host.task[q].stage = "none" => ~host'.task[q].cancelled
                     /\ host'.task[q].error => host'.task[q].stage \in {"unwinding", "ended"}
                     /\ host.task[q].error => host'.task[q].error
  BY <1>1 DEF Ran
<1>2. q \in host.requests => host.task[q].stage # "none"
  BY TasksAre
<1>3. q = host.waiter => host.task[q].stage = "finishing"
  BY TasksAre
<1>. QED
  BY <1>1, <1>2, <1>3, TasksAre DEF TasksCut, Running

LEMMA EarlyRan ==
    ASSUME Ready, NEW ids \in SUBSET host.requests, EarlyMove(host', ids)
    PROVE  Ran
<1>1. /\ Marked(host, host', ids) /\ host'.requests = host.requests \ ids /\ SameTurn(host, host')
  BY DEF EarlyMove, Struck
<1>. SUFFICES ASSUME NEW q \in Requests
              PROVE  /\ host'.task[q].session = host.task[q].session /\ host'.task[q].turn = host.task[q].turn
                     /\ host'.task[q].stage = host.task[q].stage
                     /\ host.task[q].cancelled => host'.task[q].cancelled
                     /\ q \in host.requests \ host'.requests => host'.task[q].cancelled
                     /\ q \in host'.requests => host'.task[q].stage \in Running /\ ~host'.task[q].cancelled
                     /\ host.task[q].stage = "none" => ~host'.task[q].cancelled
                     /\ host'.task[q].error => host'.task[q].stage \in {"unwinding", "ended"}
                     /\ host.task[q].error => host'.task[q].error
  BY <1>1 DEF Ran
<1>2. q \in host.requests => host.task[q].stage # "none"
  BY TasksAre
<1>. QED
  BY <1>1, <1>2, TasksAre DEF Marked

LEMMA CalledBackRan ==
    ASSUME Ready, CalledBack
    PROVE  Ran
<1>1. CASE host'.task = host.task /\ (host' = host \/ (SameTurn(host, host') /\ SameRequests(host, host')))
  <2>1. host'.requests = host.requests /\ SameTurn(host, host')
    BY <1>1 DEF SameRequests, SameTurn
  <2>. QED
    BY <1>1, <2>1, QuietRan
<1>2. CASE /\ host.waiter # 0 /\ SameTurn(host, host') /\ SameRequests(host, host')
           /\ TaskAt(host, host', host.waiter, "completing", host.task[host.waiter].error)
  <2>1. host.waiter \in Requests
    BY <1>2 DEF Ready, TypeOK, Host
  <2>2. host.task[host.waiter].stage = "finishing" /\ host.waiter \in host.requests
    BY <2>1, TasksAre
  <2>3. host'.requests = host.requests
    BY <1>2 DEF SameRequests
  <2>. DEFINE r == host.waiter
  <2>4. r \in Requests /\ TaskAt(host, host', r, "completing", host.task[r].error)
        /\ host.task[r].stage = "finishing" /\ r \in host.requests
    BY <1>2, <2>1, <2>2
  <2>. HIDE DEF r
  <2>. QED
    BY <1>2, <2>3, <2>4, MovedRan
<1>. QED
  BY <1>1, <1>2 DEF CalledBack

LEMMA TaskRan ==
    ASSUME Ready, NEW r \in Requests,
           Begun(r) \/ Queued(r) \/ Took(r) \/ Finished(r) \/ Synthesized(r)
    PROVE  Ran
<1>1. CASE Begun(r)
  <2>1. /\ TaskAt(host, host', r, "synthesizing", host.task[r].error) /\ SameTurn(host, host')
        /\ host'.requests = host.requests /\ r \in host.requests /\ host.task[r].stage = "created"
    BY <1>1 DEF Begun, TaskStep
  <2>. QED
    BY <2>1, MovedRan
<1>2. CASE Queued(r)
  <2>1. /\ TaskAt(host, host', r, "streaming", host.task[r].error) /\ SameTurn(host, host')
        /\ host'.requests = host.requests /\ r \in host.requests /\ host.task[r].stage = "synthesizing"
    BY <1>2 DEF Queued, SameRequests
  <2>. QED
    BY <2>1, MovedRan
<1>3. CASE Finished(r)
  <2>. DEFINE stage == IF host.pending = 0 THEN "completing" ELSE "finishing"
  <2>1. /\ TaskAt(host, host', r, stage, host.task[r].error) /\ SameTurn(host, host')
        /\ host'.requests = host.requests /\ r \in host.requests /\ host.task[r].stage = "streaming"
    BY <1>3 DEF Finished, TaskStep, SameRequests
  <2>2. stage \in {"synthesizing", "streaming", "finishing", "completing"}
    OBVIOUS
  <2>. HIDE DEF stage
  <2>. QED
    BY <2>1, <2>2, MovedRan
<1>4. CASE Took(r) \/ Synthesized(r)
  <2>1. host'.task = host.task /\ host'.requests = host.requests /\ SameTurn(host, host')
    BY <1>4 DEF Took, Synthesized, SameRequests, SameTurn
  <2>. QED
    BY <2>1, QuietRan
<1>. QED
  BY <1>1, <1>2, <1>3, <1>4

LEMMA RanOwned ==
    ASSUME Ready, TypeOK', Ran
    PROVE  Owned'
<1>1. ASSUME NEW r \in Requests, host'.task[r].stage \in Running
      PROVE  r \in host'.requests \/ host'.task[r].cancelled
  <2>1. host.task[r].stage \in Running /\ host'.task[r].stage # "ended"
    BY <1>1 DEF Ran, Running
  <2>2. r \in host.requests \/ host.task[r].cancelled
    BY <2>1 DEF Ready, Owned
  <2>. QED
    BY <2>1, <2>2 DEF Ran
<1>2. ASSUME NEW r \in host'.requests
      PROVE  /\ host'.task[r].stage \in Running /\ ~host'.task[r].cancelled
             /\ host'.active /\ host'.task[r].session = host'.session /\ host'.task[r].turn = host'.turn
  <2>1. r \in Requests /\ r \in host.requests /\ SameTurn(host, host')
    BY <1>2 DEF Ran, Ready, TypeOK, Host
  <2>2. host.active /\ host.task[r].session = host.session /\ host.task[r].turn = host.turn
    BY <2>1 DEF Ready, Owned
  <2>. QED
    BY <1>2, <2>1, <2>2 DEF Ran, SameTurn
<1>3. \A r \in Requests : host'.task[r].stage = "none" => ~host'.task[r].cancelled
  BY DEF Ran
<1>4. \A r \in Requests : host'.task[r].error => host'.task[r].stage \in {"unwinding", "ended"}
  BY DEF Ran
<1>. QED
  BY <1>1, <1>2, <1>3, <1>4 DEF Owned

LEMMA AcceptOwned ==
    ASSUME Ready, TypeOK', NEW m \in Events, m.request \in Requests, Accepted(m)
    PROVE  Owned'
<1>. DEFINE r == m.request
<1>1. /\ r \in Requests /\ host'.requests = host.requests \cup {r} /\ host.active /\ SameTurn(host, host')
      /\ \A q \in Requests \ {r} : host'.task[q] = host.task[q]
      /\ host'.task[r].stage = "created" /\ ~host'.task[r].cancelled /\ ~host'.task[r].error
      /\ host'.task[r].turn = host.turn /\ host'.task[r].session = host.session
  BY DEF Accepted, AcceptMove
<1>. HIDE DEF r
<1>2. ASSUME NEW q \in Requests
      PROVE  /\ host'.task[q].stage \in Running => q \in host'.requests \/ host'.task[q].cancelled
             /\ host'.task[q].stage = "none" => ~host'.task[q].cancelled
             /\ host'.task[q].error => host'.task[q].stage \in {"unwinding", "ended"}
             /\ q \in host'.requests =>
                   /\ host'.task[q].stage \in Running /\ ~host'.task[q].cancelled
                   /\ host'.active /\ host'.task[q].session = host'.session /\ host'.task[q].turn = host'.turn
  <2>1. CASE q = r
    BY <1>1, <2>1 DEF Running, SameTurn
  <2>2. CASE q # r
    <3>1. host'.task[q] = host.task[q] /\ (q \in host'.requests <=> q \in host.requests)
      BY <1>1, <2>2
    <3>. QED
      BY <1>1, <3>1 DEF Ready, Owned, SameTurn
  <2>. QED
    BY <2>1, <2>2
<1>3. host'.requests \subseteq Requests
  BY DEF TypeOK, Host
<1>. QED
  BY <1>2, <1>3 DEF Owned

-----------------------------------------------------------------------------
(* What is on its way to the host.                                           *)

LEMMA WireIs ==
    ASSUME Ready
    PROVE  /\ DOMAIN toHost = 1 .. Len(toHost) /\ Len(toHost) \in Nat
           /\ \A i \in DOMAIN toHost : /\ i \in Nat /\ toHost[i] \in Events
                                       /\ Asks(i) => toHost[i].request \in Requests
<1>1. toHost \in Seq(Events)
  BY DEF Ready, TypeOK
<1>2. /\ DOMAIN toHost = 1 .. Len(toHost) /\ Len(toHost) \in Nat
      /\ \A i \in DOMAIN toHost : i \in Nat /\ toHost[i] \in Events
  BY <1>1, SeqIs
<1>. QED
  BY <1>2 DEF Asks, Events

\* The wire is as it was, or its head is gone.
Shifted(d) ==
    /\ \A i \in DOMAIN toHost' : i \in Nat /\ i >= 1 /\ i + d \in DOMAIN toHost /\ toHost'[i] = toHost[i + d]
    /\ \A k \in DOMAIN toHost : k > d => k - d \in DOMAIN toHost' /\ toHost'[k - d] = toHost[k]

LEMMA SameShift == ASSUME Ready, toHost' = toHost PROVE Shifted(0)
<1>1. DOMAIN toHost = 1 .. Len(toHost) /\ Len(toHost) \in Nat
  BY WireIs
<1>. QED
  BY <1>1 DEF Shifted

LEMMA TailShift == ASSUME Ready, toHost # <<>>, toHost' = Tail(toHost) PROVE Shifted(1) /\ 1 \in DOMAIN toHost
<1>1. toHost \in Seq(Events)
  BY DEF Ready, TypeOK
<1>2. /\ Len(toHost) \in Nat /\ Len(toHost) > 0
      /\ DOMAIN toHost' = 1 .. Len(toHost) - 1 /\ DOMAIN toHost = 1 .. Len(toHost)
      /\ \A i \in 1 .. Len(toHost) - 1 : toHost'[i] = toHost[i + 1]
  BY <1>1, TailIs
<1>. QED
  BY <1>2 DEF Shifted

\* What was asked for stays so, whatever the host does to the requests it has.
LEMMA ShiftedAsked ==
    ASSUME Ready, NEW d \in {0, 1}, Shifted(d), UNCHANGED py,
           \A r \in Requests : host.task[r].stage = "none" =>
               \/ host'.task[r].stage = "none"
               \/ d = 1 /\ 1 \in DOMAIN toHost /\ Asks(1) /\ toHost[1].request = r
    PROVE  AskedOnce'
<1>1. ASSUME NEW i \in DOMAIN toHost', Asks(i)'
      PROVE  /\ toHost'[i].request <= py.requested
             /\ host'.task[toHost'[i].request].stage = "none"
  <2>1. i + d \in DOMAIN toHost /\ toHost'[i] = toHost[i + d] /\ i \in Nat /\ i >= 1
    BY <1>1 DEF Shifted
  <2>2. Asks(i + d)
    BY <1>1, <2>1 DEF Asks
  <2>3. toHost[i + d].request \in Requests
    BY <2>1, <2>2, WireIs
  <2>4. toHost[i + d].request <= py.requested /\ host.task[toHost[i + d].request].stage = "none"
    BY <2>1, <2>2 DEF Ready, AskedOnce
  <2>5. ~(d = 1 /\ Asks(1) /\ toHost[1].request = toHost[i + d].request)
    <3>. SUFFICES ASSUME d = 1, Asks(1), toHost[1].request = toHost[i + d].request
                  PROVE  FALSE
      OBVIOUS
    <3>1. 1 \in DOMAIN toHost /\ 1 < i + d
      BY <2>1, WireIs
    <3>. QED
      BY <2>1, <2>2, <3>1 DEF Ready, AskedOnce
  <2>. QED
    BY <2>1, <2>3, <2>4, <2>5
<1>2. ASSUME NEW i \in DOMAIN toHost', NEW j \in DOMAIN toHost', Asks(i)', Asks(j)', i < j
      PROVE  toHost'[i].request # toHost'[j].request
  <2>1. /\ i + d \in DOMAIN toHost /\ toHost'[i] = toHost[i + d] /\ i \in Nat
        /\ j + d \in DOMAIN toHost /\ toHost'[j] = toHost[j + d] /\ j \in Nat
    BY DEF Shifted
  <2>2. Asks(i + d) /\ Asks(j + d) /\ i + d < j + d
    BY <1>2, <2>1 DEF Asks
  <2>. QED
    BY <2>1, <2>2 DEF Ready, AskedOnce
<1>3. ASSUME NEW r \in Requests, r > py.requested
      PROVE  host'.task[r].stage = "none"
  <2>1. host.task[r].stage = "none"
    BY <1>3 DEF Ready, AskedOnce
  <2>2. ~(d = 1 /\ 1 \in DOMAIN toHost /\ Asks(1) /\ toHost[1].request = r)
    <3>. SUFFICES ASSUME d = 1, Asks(1), toHost[1].request = r, 1 \in DOMAIN toHost
                  PROVE  FALSE
      OBVIOUS
    <3>1. r <= py.requested
      BY DEF Ready, AskedOnce
    <3>2. r \in Nat /\ py.requested \in Nat
      BY DEF Ready, TypeOK, Py, Requests
    <3>. QED
      BY <1>3, <3>1, <3>2
  <2>. QED
    BY <2>1, <2>2
<1>. QED
  BY <1>1, <1>2, <1>3 DEF AskedOnce

\* A cancellation on the wire that is left.
Hears(k, r, s) ==
    toHost'[k].kind = "cancel_request" /\ toHost'[k].request = r /\ toHost'[k].session = s

\* A cancellation that the host has heard is not forgotten: it has given up the request.
LEMMA ShiftedInTurn ==
    ASSUME Ready, NEW d \in {0, 1}, Shifted(d), UNCHANGED py, host'.requests \subseteq host.requests,
           \A r \in Requests : host'.task[r].session = host.task[r].session,
           \A r \in host'.requests : d = 1 => ~Cancels(1, r, host.task[r].session)
    PROVE  InTurn' /\ StreamKnown'
<1>1. \A r \in host'.requests : r \in Requests /\ r \in host.requests
      /\ host'.task[r].session = host.task[r].session
  BY DEF Ready, TypeOK, Host
<1>2. ASSUME NEW r \in host'.requests, NEW k \in DOMAIN toHost, Cancels(k, r, host.task[r].session)
      PROVE  k - d \in DOMAIN toHost' /\ Hears(k - d, r, host'.task[r].session)
  <2>1. k > d
    <3>1. k \in Nat /\ k >= 1 /\ ~(d = 1 /\ k = 1)
      BY <1>2, WireIs
    <3>. QED
      BY <3>1
  <2>2. k - d \in DOMAIN toHost' /\ toHost'[k - d] = toHost[k]
    BY <2>1 DEF Shifted
  <2>. QED
    BY <1>1, <1>2, <2>2 DEF Cancels, Hears
<1>3. \A r, q \in host'.requests : r = q
  BY DEF Ready, InTurn
<1>4. ASSUME NEW j \in DOMAIN toHost', Asks(j)'
      PROVE  /\ j + d \in DOMAIN toHost /\ toHost'[j] = toHost[j + d] /\ Asks(j + d) /\ j \in Nat /\ j >= 1
  BY <1>4 DEF Shifted, Asks
<1>5. ASSUME NEW j \in DOMAIN toHost', Asks(j)', NEW r \in host'.requests
      PROVE  \E k \in DOMAIN toHost' : k < j /\ Hears(k, r, host'.task[r].session)
  <2>1. j + d \in DOMAIN toHost /\ Asks(j + d) /\ j \in Nat /\ r \in host.requests
    BY <1>1, <1>4, <1>5
  <2>2. PICK k \in DOMAIN toHost : k < j + d /\ Cancels(k, r, host.task[r].session)
    BY <2>1 DEF Ready, InTurn
  <2>3. k - d \in DOMAIN toHost' /\ Hears(k - d, r, host'.task[r].session)
    BY <1>2, <2>2
  <2>4. k - d < j
    BY <2>1, <2>2, WireIs
  <2>. QED
    BY <2>3, <2>4
<1>6. ASSUME NEW i \in DOMAIN toHost', Asks(i)', NEW k \in DOMAIN toHost, i + d < k,
             Cancels(k, toHost[i + d].request, toHost[i + d].session)
      PROVE  /\ k - d \in DOMAIN toHost' /\ i < k - d
             /\ Hears(k - d, toHost'[i].request, toHost'[i].session)
  <2>1. toHost'[i] = toHost[i + d] /\ i \in Nat /\ k \in Nat /\ i >= 1
    BY <1>4, <1>6, WireIs
  <2>2. k - d \in DOMAIN toHost' /\ toHost'[k - d] = toHost[k]
    BY <1>6, <2>1 DEF Shifted
  <2>3. i < k - d
    BY <1>6, <2>1
  <2>. QED
    BY <1>6, <2>1, <2>2, <2>3 DEF Cancels, Hears
<1>7. ASSUME NEW j \in DOMAIN toHost', Asks(j)', NEW i \in DOMAIN toHost', i < j, Asks(i)'
      PROVE  \E k \in DOMAIN toHost' : i < k /\ k < j /\ Hears(k, toHost'[i].request, toHost'[i].session)
  <2>1. /\ j + d \in DOMAIN toHost /\ Asks(j + d) /\ j \in Nat
        /\ i + d \in DOMAIN toHost /\ Asks(i + d) /\ i \in Nat /\ i + d < j + d
    BY <1>4, <1>7
  <2>2. PICK k \in DOMAIN toHost : i + d < k /\ k < j + d /\ Cancels(k, toHost[i + d].request, toHost[i + d].session)
    BY <2>1 DEF Ready, InTurn
  <2>3. /\ k - d \in DOMAIN toHost' /\ i < k - d
        /\ Hears(k - d, toHost'[i].request, toHost'[i].session)
    BY <1>6, <1>7, <2>2
  <2>4. k - d < j
    BY <2>1, <2>2, WireIs
  <2>. QED
    BY <2>3, <2>4
<1>8. ASSUME NEW r \in host'.requests, r # py.stream
      PROVE  \E k \in DOMAIN toHost' : Hears(k, r, host'.task[r].session)
  <2>1. PICK k \in DOMAIN toHost : Cancels(k, r, host.task[r].session)
    BY <1>1, <1>8 DEF Ready, InTurn
  <2>. QED
    BY <1>2, <2>1
<1>9. ASSUME NEW i \in DOMAIN toHost', Asks(i)', toHost'[i].request # py.stream
      PROVE  \E k \in DOMAIN toHost' : i < k /\ Hears(k, toHost'[i].request, toHost'[i].session)
  <2>1. i + d \in DOMAIN toHost /\ Asks(i + d) /\ toHost[i + d].request # py.stream
    BY <1>4, <1>9
  <2>2. PICK k \in DOMAIN toHost : i + d < k /\ Cancels(k, toHost[i + d].request, toHost[i + d].session)
    BY <2>1 DEF Ready, InTurn
  <2>. QED
    BY <1>6, <1>9, <2>2
<1>10. InTurn'
  BY <1>3, <1>5, <1>7, <1>8, <1>9 DEF InTurn, Cancels, Hears
<1>11. ASSUME NEW i \in DOMAIN toHost', Asks(i)', toHost'[i].request = py.stream
       PROVE  toHost'[i].session = SessionOf(py, py.streamTurn)
  <2>1. i + d \in DOMAIN toHost /\ Asks(i + d) /\ toHost[i + d] = toHost'[i]
    BY <1>4, <1>11
  <2>. QED
    BY <1>11, <2>1 DEF Ready, StreamKnown
<1>12. py.stream \in host'.requests => host'.task[py.stream].session = SessionOf(py, py.streamTurn)
  BY <1>1 DEF Ready, StreamKnown
<1>13. StreamKnown'
  BY <1>11, <1>12 DEF Ready, StreamKnown, SessionOf
<1>. QED
  BY <1>10, <1>13

LEMMA InsideAsked ==
    ASSUME Ready, TypeOK', Ran, UNCHANGED <<py, toHost>>
    PROVE  AskedOnce' /\ InTurn' /\ StreamKnown'
<1>1. Shifted(0) /\ 0 \in {0, 1} /\ UNCHANGED py
  BY SameShift
<1>2. /\ host'.requests \subseteq host.requests
      /\ \A r \in Requests : host'.task[r].session = host.task[r].session
      /\ \A r \in Requests : host.task[r].stage = "none" => host'.task[r].stage = "none"
  BY DEF Ran
<1>3. AskedOnce'
  BY <1>1, <1>2, ShiftedAsked
<1>. QED
  BY <1>1, <1>2, <1>3, ShiftedInTurn

LEMMA PoppedAsked ==
    ASSUME Ready, TypeOK', NEW m \in Events, Handled(m), Ran
    PROVE  AskedOnce' /\ InTurn' /\ StreamKnown'
<1>1. Shifted(1) /\ 1 \in {0, 1} /\ UNCHANGED py /\ 1 \in DOMAIN toHost /\ m = toHost[1]
  BY TailShift DEF Handled
<1>2. /\ host'.requests \subseteq host.requests
      /\ \A r \in Requests : host'.task[r].session = host.task[r].session
      /\ \A r \in Requests : host.task[r].stage = "none" => host'.task[r].stage = "none"
  BY DEF Ran
<1>3. AskedOnce'
  BY <1>1, <1>2, ShiftedAsked
<1>4. ASSUME NEW r \in host'.requests, Cancels(1, r, host.task[r].session)
      PROVE  FALSE
  <2>1. m.kind = "cancel_request" /\ m.request = r /\ m.session = host.task[r].session
    BY <1>1, <1>4 DEF Cancels, Hears
  <2>2. host.task[r].session = host.session
    BY <1>2, <1>4 DEF Ready, Owned
  <2>. QED
    BY <1>4, <2>1, <2>2 DEF Handled
<1>. QED
  BY <1>1, <1>2, <1>3, <1>4, ShiftedInTurn

\* The request at the head finds no other one open.
LEMMA AcceptedAsked ==
    ASSUME Ready, TypeOK', NEW m \in Events, Handled(m), Accepted(m), m.kind = "request"
    PROVE  AskedOnce' /\ InTurn' /\ StreamKnown'
<1>. DEFINE r == m.request
<1>1. Shifted(1) /\ 1 \in {0, 1} /\ UNCHANGED py /\ 1 \in DOMAIN toHost /\ m = toHost[1]
  BY TailShift DEF Handled
<1>2. /\ host'.requests = host.requests \cup {r} /\ SameTurn(host, host')
      /\ \A q \in Requests \ {r} : host'.task[q] = host.task[q]
      /\ host'.task[r].session = m.session /\ r \in Requests
  BY DEF Accepted, AcceptMove, Events
<1>3. Asks(1)
  BY <1>1 DEF Asks
<1>4. host.requests = {}
  <2>. SUFFICES ASSUME NEW q \in host.requests
                PROVE  FALSE
    OBVIOUS
  <2>1. PICK k \in DOMAIN toHost : k < 1
    BY <1>1, <1>3 DEF Ready, InTurn
  <2>. QED
    BY <2>1, WireIs
<1>5. AskedOnce'
  <2>1. \A q \in Requests : host.task[q].stage = "none" =>
               \/ host'.task[q].stage = "none"
               \/ 1 \in DOMAIN toHost /\ Asks(1) /\ toHost[1].request = q
    BY <1>1, <1>2, <1>3
  <2>. QED
    BY <1>1, <2>1, ShiftedAsked
<1>6. host'.requests = {r}
  BY <1>2, <1>4
<1>7. ASSUME NEW j \in DOMAIN toHost', Asks(j)'
      PROVE  /\ j + 1 \in DOMAIN toHost /\ toHost'[j] = toHost[j + 1] /\ Asks(j + 1) /\ j \in Nat /\ j >= 1
  BY <1>1, <1>7 DEF Shifted, Asks
<1>8. ASSUME NEW k \in DOMAIN toHost, k > 1
      PROVE  k - 1 \in DOMAIN toHost' /\ toHost'[k - 1] = toHost[k] /\ k \in Nat
  BY <1>1, <1>8, WireIs DEF Shifted
<1>. HIDE DEF r
<1>9. ASSUME NEW j \in DOMAIN toHost', Asks(j)'
      PROVE  \E k \in DOMAIN toHost' : k < j /\ Hears(k, r, host'.task[r].session)
  <2>1. j + 1 \in DOMAIN toHost /\ Asks(j + 1) /\ j \in Nat /\ 1 < j + 1
    BY <1>7, <1>9
  <2>2. PICK k \in DOMAIN toHost : 1 < k /\ k < j + 1 /\ Cancels(k, toHost[1].request, toHost[1].session)
    BY <1>1, <1>3, <2>1 DEF Ready, InTurn
  <2>3. k - 1 \in DOMAIN toHost' /\ toHost'[k - 1] = toHost[k] /\ k - 1 < j
    BY <1>8, <2>1, <2>2
  <2>4. toHost[k].kind = "cancel_request" /\ toHost[k].request = r /\ toHost[k].session = host'.task[r].session
    BY <1>1, <1>2, <2>2 DEF Cancels, Hears, r
  <2>. QED
    BY <2>3, <2>4 DEF Cancels, Hears
<1>10. ASSUME NEW i \in DOMAIN toHost', Asks(i)', NEW k \in DOMAIN toHost, i + 1 < k,
              Cancels(k, toHost[i + 1].request, toHost[i + 1].session)
       PROVE  /\ k - 1 \in DOMAIN toHost' /\ i < k - 1 /\ k \in Nat
              /\ Hears(k - 1, toHost'[i].request, toHost'[i].session)
  <2>1. toHost'[i] = toHost[i + 1] /\ i \in Nat /\ k \in Nat /\ i >= 1
    BY <1>7, <1>10, WireIs
  <2>2. k - 1 \in DOMAIN toHost' /\ toHost'[k - 1] = toHost[k]
    BY <1>8, <1>10, <2>1
  <2>3. i < k - 1
    BY <1>10, <2>1
  <2>. QED
    BY <1>10, <2>1, <2>2, <2>3 DEF Cancels, Hears
<1>11. ASSUME NEW j \in DOMAIN toHost', Asks(j)', NEW i \in DOMAIN toHost', i < j, Asks(i)'
       PROVE  \E k \in DOMAIN toHost' : i < k /\ k < j /\ Hears(k, toHost'[i].request, toHost'[i].session)
  <2>1. /\ j + 1 \in DOMAIN toHost /\ Asks(j + 1) /\ j \in Nat
        /\ i + 1 \in DOMAIN toHost /\ Asks(i + 1) /\ i \in Nat /\ i + 1 < j + 1
    BY <1>7, <1>11
  <2>2. PICK k \in DOMAIN toHost : i + 1 < k /\ k < j + 1 /\ Cancels(k, toHost[i + 1].request, toHost[i + 1].session)
    BY <2>1 DEF Ready, InTurn
  <2>3. /\ k - 1 \in DOMAIN toHost' /\ i < k - 1 /\ k \in Nat
        /\ Hears(k - 1, toHost'[i].request, toHost'[i].session)
    BY <1>10, <1>11, <2>2
  <2>4. k - 1 < j
    BY <2>1, <2>2, <2>3
  <2>. QED
    BY <2>3, <2>4
<1>12. ASSUME r # py.stream
       PROVE  \E k \in DOMAIN toHost' : Hears(k, r, host'.task[r].session)
  <2>1. PICK k \in DOMAIN toHost : 1 < k /\ Cancels(k, toHost[1].request, toHost[1].session)
    BY <1>1, <1>3, <1>12 DEF Ready, InTurn, r
  <2>2. k - 1 \in DOMAIN toHost' /\ toHost'[k - 1] = toHost[k]
    BY <1>8, <2>1
  <2>3. toHost[k].kind = "cancel_request" /\ toHost[k].request = r /\ toHost[k].session = host'.task[r].session
    BY <1>1, <1>2, <2>1 DEF Cancels, Hears, r
  <2>. QED
    BY <2>2, <2>3 DEF Cancels, Hears
<1>13. ASSUME NEW i \in DOMAIN toHost', Asks(i)', toHost'[i].request # py.stream
       PROVE  \E k \in DOMAIN toHost' : i < k /\ Hears(k, toHost'[i].request, toHost'[i].session)
  <2>1. i + 1 \in DOMAIN toHost /\ Asks(i + 1) /\ toHost[i + 1].request # py.stream
    BY <1>7, <1>13
  <2>2. PICK k \in DOMAIN toHost : i + 1 < k /\ Cancels(k, toHost[i + 1].request, toHost[i + 1].session)
    BY <2>1 DEF Ready, InTurn
  <2>. QED
    BY <1>10, <1>13, <2>2
<1>14. InTurn'
  BY <1>1, <1>6, <1>9, <1>11, <1>12, <1>13 DEF InTurn, Cancels, Hears
<1>15. ASSUME NEW i \in DOMAIN toHost', Asks(i)', toHost'[i].request = py.stream
       PROVE  toHost'[i].session = SessionOf(py, py.streamTurn)
  <2>1. i + 1 \in DOMAIN toHost /\ Asks(i + 1) /\ toHost[i + 1] = toHost'[i]
    BY <1>7, <1>15
  <2>. QED
    BY <1>15, <2>1 DEF Ready, StreamKnown
<1>16. py.stream \in host'.requests => host'.task[py.stream].session = SessionOf(py, py.streamTurn)
  <2>. SUFFICES ASSUME py.stream = r
                PROVE  m.session = SessionOf(py, py.streamTurn)
    BY <1>2, <1>6
  <2>. QED
    BY <1>1, <1>3 DEF Ready, StreamKnown, r
<1>17. StreamKnown'
  BY <1>1, <1>15, <1>16 DEF Ready, StreamKnown, SessionOf
<1>. QED
  BY <1>5, <1>14, <1>17

\* Python says e, and what it has said before stays on the wire.
Kept == \A i \in DOMAIN toHost : i \in DOMAIN toHost' /\ toHost'[i] = toHost[i]

LEMMA GrownIs ==
    ASSUME Ready, NEW e \in Events, toHost' = Append(toHost, e)
    PROVE  /\ Kept /\ Len(toHost) \in Nat /\ DOMAIN toHost = 1 .. Len(toHost)
           /\ DOMAIN toHost' = 1 .. Len(toHost) + 1 /\ toHost'[Len(toHost) + 1] = e
<1>1. toHost \in Seq(Events)
  BY DEF Ready, TypeOK
<1>2. /\ Len(toHost) \in Nat /\ DOMAIN toHost = 1 .. Len(toHost)
      /\ DOMAIN toHost' = 1 .. Len(toHost) + 1 /\ toHost'[Len(toHost) + 1] = e
      /\ \A i \in 1 .. Len(toHost) : toHost'[i] = toHost[i]
  BY <1>1, AppendedIs
<1>. QED
  BY <1>2 DEF Kept

\* Nothing new is asked for.
NoNewAsk == \A i \in DOMAIN toHost' : Asks(i)' => i \in DOMAIN toHost /\ Asks(i) /\ toHost'[i] = toHost[i]

LEMMA GrownAsk ==
    ASSUME Ready, NEW e \in Events, toHost' = Append(toHost, e), e.kind # "request"
    PROVE  NoNewAsk /\ Kept
<1>1. /\ Kept /\ Len(toHost) \in Nat /\ DOMAIN toHost = 1 .. Len(toHost)
      /\ DOMAIN toHost' = 1 .. Len(toHost) + 1 /\ toHost'[Len(toHost) + 1] = e
  BY GrownIs
<1>2. ASSUME NEW i \in DOMAIN toHost', Asks(i)'
      PROVE  i \in DOMAIN toHost /\ Asks(i) /\ toHost'[i] = toHost[i]
  <2>1. i # Len(toHost) + 1
    BY <1>1, <1>2 DEF Asks
  <2>2. i \in DOMAIN toHost
    BY <1>1, <2>1
  <2>. QED
    BY <1>1, <1>2, <2>2 DEF Kept, Asks
<1>. QED
  BY <1>1, <1>2 DEF NoNewAsk

LEMMA SameAsk == ASSUME toHost' = toHost PROVE NoNewAsk /\ Kept
BY DEF NoNewAsk, Kept, Asks

\* A cancellation that was on the wire still is.
LEMMA StillCancels ==
    ASSUME Kept, NEW k \in DOMAIN toHost, NEW r, NEW s, Cancels(k, r, s)
    PROVE  k \in DOMAIN toHost' /\ Hears(k, r, s)
BY DEF Kept, Cancels, Hears

LEMMA PyAsked ==
    ASSUME Ready, QuietMove(host'), Kept, NoNewAsk, py'.requested = py.requested,
           \A r \in host.requests : r = py.stream /\ r # py'.stream =>
               \E k \in DOMAIN toHost' : Hears(k, r, host.task[r].session),
           \A i \in DOMAIN toHost : Asks(i) /\ toHost[i].request = py.stream /\ py.stream # py'.stream =>
               \E k \in DOMAIN toHost' : i < k /\ Hears(k, toHost[i].request, toHost[i].session)
    PROVE  AskedOnce' /\ InTurn'
<1>1. host'.task = host.task /\ host'.requests = host.requests
  BY DEF QuietMove, SameRequests
<1>2. AskedOnce'
  BY <1>1 DEF Ready, AskedOnce, NoNewAsk
<1>3. \A r, q \in host'.requests : r = q
  BY <1>1 DEF Ready, InTurn
<1>4. ASSUME NEW j \in DOMAIN toHost', Asks(j)', NEW r \in host'.requests
      PROVE  \E k \in DOMAIN toHost' : k < j /\ Hears(k, r, host'.task[r].session)
  <2>1. PICK k \in DOMAIN toHost : k < j /\ Cancels(k, r, host.task[r].session)
    BY <1>1, <1>4 DEF Ready, InTurn, NoNewAsk
  <2>. QED
    BY <1>1, <2>1, StillCancels
<1>5. ASSUME NEW j \in DOMAIN toHost', Asks(j)', NEW i \in DOMAIN toHost', i < j, Asks(i)'
      PROVE  \E k \in DOMAIN toHost' : i < k /\ k < j /\ Hears(k, toHost'[i].request, toHost'[i].session)
  <2>1. PICK k \in DOMAIN toHost : i < k /\ k < j /\ Cancels(k, toHost[i].request, toHost[i].session)
    BY <1>5 DEF Ready, InTurn, NoNewAsk
  <2>2. toHost'[i] = toHost[i]
    BY <1>5 DEF NoNewAsk
  <2>. QED
    BY <2>1, <2>2, StillCancels
<1>6. ASSUME NEW r \in host'.requests, r # py'.stream
      PROVE  \E k \in DOMAIN toHost' : Hears(k, r, host'.task[r].session)
  <2>1. CASE r = py.stream
    BY <1>1, <1>6, <2>1
  <2>2. CASE r # py.stream
    <3>1. PICK k \in DOMAIN toHost : Cancels(k, r, host.task[r].session)
      BY <1>1, <1>6, <2>2 DEF Ready, InTurn
    <3>. QED
      BY <1>1, <3>1, StillCancels
  <2>. QED
    BY <2>1, <2>2
<1>7. ASSUME NEW i \in DOMAIN toHost', Asks(i)', toHost'[i].request # py'.stream
      PROVE  \E k \in DOMAIN toHost' : i < k /\ Hears(k, toHost'[i].request, toHost'[i].session)
  <2>1. i \in DOMAIN toHost /\ Asks(i) /\ toHost'[i] = toHost[i]
    BY <1>7 DEF NoNewAsk
  <2>2. CASE toHost[i].request = py.stream
    BY <1>7, <2>1, <2>2
  <2>3. CASE toHost[i].request # py.stream
    <3>1. PICK k \in DOMAIN toHost : i < k /\ Cancels(k, toHost[i].request, toHost[i].session)
      BY <2>1, <2>3 DEF Ready, InTurn
    <3>. QED
      BY <2>1, <3>1, StillCancels
  <2>. QED
    BY <2>2, <2>3
<1>8. InTurn'
  BY <1>3, <1>4, <1>5, <1>6, <1>7 DEF InTurn, Cancels, Hears
<1>. QED
  BY <1>2, <1>8

LEMMA KeepsAsked ==
    ASSUME Ready, TypeOK', QuietMove(host'), PyTurns, Keeps
    PROVE  AskedOnce' /\ InTurn' /\ StreamKnown'
<1>1. NoNewAsk /\ Kept
  BY GrownAsk, SameAsk DEF Keeps
<1>2. /\ py'.stream = py.stream /\ py'.streamTurn = py.streamTurn /\ py'.requested = py.requested
      /\ py.stream # 0 => SessionOf(py', py.streamTurn) = SessionOf(py, py.streamTurn)
      /\ py'.result = py.result \/ py.stream # 0
  BY DEF Keeps
<1>3. AskedOnce' /\ InTurn'
  BY <1>1, <1>2, PyAsked
<1>4. host'.task = host.task /\ host'.requests = host.requests
  BY DEF QuietMove, SameRequests
<1>5. 0 \notin host.requests
  BY DEF Ready, TypeOK, Host, Requests
<1>6. py'.stream \in host'.requests => host'.task[py'.stream].session = SessionOf(py', py'.streamTurn)
  BY <1>2, <1>4, <1>5 DEF Ready, StreamKnown
<1>7. ASSUME NEW i \in DOMAIN toHost', Asks(i)', toHost'[i].request = py'.stream
      PROVE  toHost'[i].session = SessionOf(py', py'.streamTurn)
  <2>1. i \in DOMAIN toHost /\ Asks(i) /\ toHost'[i] = toHost[i]
    BY <1>1, <1>7 DEF NoNewAsk
  <2>2. toHost[i].request \in Requests
    BY <2>1, WireIs
  <2>3. py.stream # 0
    BY <1>2, <1>7, <2>1, <2>2 DEF Requests
  <2>. QED
    BY <1>2, <1>7, <2>1, <2>3 DEF Ready, StreamKnown
<1>8. /\ py'.stream # 0 => py'.stream <= py'.requested /\ py'.streamTurn # 0
      /\ py'.result # "none" => py'.stream # 0
      /\ py'.turn <= py'.turns /\ py'.streamTurn <= py'.turns
  BY <1>2 DEF Ready, StreamKnown, PyTurns
<1>9. StreamKnown'
  BY <1>6, <1>7, <1>8 DEF StreamKnown, SessionOf
<1>. QED
  BY <1>3, <1>9

\* With no request open nothing is to be known of it.
LEMMA ClosedKnown ==
    ASSUME Ready, TypeOK', py'.stream = 0, py'.result = "none", PyTurns
    PROVE  StreamKnown'
<1>1. 0 \notin host'.requests
  BY DEF TypeOK, Host, Requests
<1>2. ASSUME NEW i \in DOMAIN toHost', Asks(i)'
      PROVE  toHost'[i].request # 0
  <2>1. toHost' \in Seq(Events)
    BY DEF TypeOK
  <2>2. toHost'[i] \in Events
    BY <2>1, SeqIs
  <2>. QED
    BY <1>2, <2>2 DEF Asks, Events, Requests
<1>. QED
  BY <1>1, <1>2 DEF StreamKnown, PyTurns, SessionOf

LEMMA DropsAsked ==
    ASSUME Ready, TypeOK', QuietMove(host'), PyTurns, Drops
    PROVE  AskedOnce' /\ InTurn' /\ StreamKnown'
<1>1. StreamKnown'
  BY ClosedKnown DEF Drops
<1>2. py'.stream = 0 /\ py'.requested = py.requested
  BY DEF Drops
<1>3. CASE py.stream = 0
  <2>1. NoNewAsk /\ Kept
    BY <1>3, SameAsk DEF Drops
  <2>. QED
    BY <1>1, <1>2, <1>3, <2>1, PyAsked
<1>4. CASE py.stream # 0
  <2>1. PICK e \in Events : /\ e.kind = "cancel_request" /\ e.request = py.stream
                            /\ e.session = SessionOf(py, py.streamTurn)
                            /\ toHost' = Append(toHost, e)
    BY <1>4 DEF Drops
  <2>2. NoNewAsk /\ Kept
    BY <2>1, GrownAsk
  <2>3. /\ Len(toHost) \in Nat /\ DOMAIN toHost = 1 .. Len(toHost)
        /\ DOMAIN toHost' = 1 .. Len(toHost) + 1 /\ toHost'[Len(toHost) + 1] = e
    BY <2>1, GrownIs
  <2>. DEFINE k == Len(toHost) + 1
  <2>4. k \in DOMAIN toHost' /\ Hears(k, py.stream, SessionOf(py, py.streamTurn))
        /\ \A i \in DOMAIN toHost : i < k
    BY <2>1, <2>3 DEF Hears
  <2>. HIDE DEF k
  <2>5. \A r \in host.requests : r = py.stream /\ r # py'.stream =>
               \E q \in DOMAIN toHost' : Hears(q, r, host.task[r].session)
    BY <2>4 DEF Ready, StreamKnown
  <2>6. \A i \in DOMAIN toHost : Asks(i) /\ toHost[i].request = py.stream /\ py.stream # py'.stream =>
               \E q \in DOMAIN toHost' : i < q /\ Hears(q, toHost[i].request, toHost[i].session)
    BY <2>4 DEF Ready, StreamKnown
  <2>. QED
    BY <1>1, <1>2, <2>2, <2>5, <2>6, PyAsked
<1>. QED
  BY <1>3, <1>4

LEMMA AcknowledgesAsked ==
    ASSUME Ready, TypeOK', QuietMove(host'), PyTurns, Acknowledges
    PROVE  AskedOnce' /\ InTurn' /\ StreamKnown'
<1>1. StreamKnown'
  BY ClosedKnown DEF Acknowledges
<1>2. py'.stream = 0 /\ py'.requested = py.requested /\ NoNewAsk /\ Kept
  BY SameAsk DEF Acknowledges
<1>3. py.stream \in Requests /\ host.task[py.stream].stage = "ended"
  BY DEF Acknowledges, Ready, DoneEnded, Ends
<1>4. py.stream \notin host.requests
  BY <1>3, TasksAre
<1>5. ASSUME NEW i \in DOMAIN toHost, Asks(i)
      PROVE  toHost[i].request # py.stream
  BY <1>3, <1>5 DEF Ready, AskedOnce
<1>. QED
  BY <1>1, <1>2, <1>4, <1>5, PyAsked

LEMMA RequestedAsked ==
    ASSUME Ready, TypeOK', QuietMove(host'), PyTurns, Requested
    PROVE  AskedOnce' /\ InTurn' /\ StreamKnown'
<1>. DEFINE r == py.requested + 1
            n == Len(toHost) + 1
<1>1. PICK e \in Events : /\ e.kind = "request" /\ e.request = py'.stream
                          /\ e.session = SessionOf(py', py'.streamTurn)
                          /\ toHost' = Append(toHost, e)
  BY DEF Requested
<1>2. /\ py.stream = 0 /\ py'.stream = r /\ r \in Requests /\ py'.requested = r
      /\ py'.result = py.result /\ py'.streamTurn # 0
  BY DEF Requested
<1>3. /\ Kept /\ Len(toHost) \in Nat /\ DOMAIN toHost = 1 .. Len(toHost)
      /\ DOMAIN toHost' = 1 .. Len(toHost) + 1 /\ toHost'[Len(toHost) + 1] = e
  BY <1>1, GrownIs
<1>4. n \in DOMAIN toHost' /\ toHost'[n] = e /\ \A i \in DOMAIN toHost : i < n /\ i \in Nat
  BY <1>3
<1>5. \A i \in DOMAIN toHost' : i = n \/ (i \in DOMAIN toHost /\ toHost'[i] = toHost[i] /\ i < n)
  BY <1>3 DEF Kept
<1>6. host'.task = host.task /\ host'.requests = host.requests
  BY DEF QuietMove, SameRequests
<1>7. py.requested \in Nat /\ r \in Nat /\ r > py.requested /\ \A q \in Requests : q > r => q > py.requested
  <2>1. py.requested \in Requests \cup {0} /\ Requests \subseteq Nat
    BY DEF Ready, TypeOK, Py, Requests
  <2>3. py.requested \in Nat
    BY <2>1 DEF Requests
  <2>4. r \in Nat /\ r > py.requested
    BY <2>3
  <2>5. \A q \in Nat : q > r => q > py.requested
    BY <2>3
  <2>. QED
    BY <2>1, <2>3, <2>4, <2>5
<1>8. host.task[r].stage = "none" /\ r \notin host.requests
  BY <1>2, <1>7, TasksAre DEF Ready, AskedOnce
<1>9. n \in Nat
  BY <1>3
<1>. HIDE DEF r, n
<1>10. ASSUME NEW i \in DOMAIN toHost, Asks(i)
       PROVE  toHost[i].request <= py.requested /\ toHost[i].request # r /\ toHost[i].request \in Requests
              /\ host.task[toHost[i].request].stage = "none"
              /\ toHost[i].request <= r /\ toHost[i].request # 0
  <2>1. toHost[i].request \in Requests
    BY <1>10, WireIs
  <2>2. toHost[i].request <= py.requested /\ host.task[toHost[i].request].stage = "none"
    BY <1>10 DEF Ready, AskedOnce
  <2>. QED
    BY <1>7, <2>1, <2>2 DEF Requests
<1>11. ASSUME NEW i \in DOMAIN toHost', Asks(i)'
       PROVE  i = n \/ (i \in DOMAIN toHost /\ Asks(i) /\ toHost'[i] = toHost[i] /\ i < n)
  BY <1>5, <1>11 DEF Asks
<1>12. AskedOnce'
  <2>1. ASSUME NEW i \in DOMAIN toHost', Asks(i)'
        PROVE  toHost'[i].request <= py'.requested /\ host'.task[toHost'[i].request].stage = "none"
    BY <1>1, <1>2, <1>4, <1>6, <1>7, <1>8, <1>10, <1>11, <2>1
  <2>2. ASSUME NEW i \in DOMAIN toHost', NEW j \in DOMAIN toHost', Asks(i)', Asks(j)', i < j
        PROVE  toHost'[i].request # toHost'[j].request
    <3>1. i \in DOMAIN toHost /\ Asks(i) /\ toHost'[i] = toHost[i]
      <4>1. i # n
        BY <1>4, <1>9, <1>11, <2>2
      <4>. QED
        BY <1>11, <2>2, <4>1
    <3>2. CASE j = n
      BY <1>1, <1>2, <1>4, <1>10, <3>1, <3>2
    <3>3. CASE j # n
      <4>1. j \in DOMAIN toHost /\ Asks(j) /\ toHost'[j] = toHost[j]
        BY <1>11, <2>2, <3>3
      <4>. QED
        BY <2>2, <3>1, <4>1 DEF Ready, AskedOnce
    <3>. QED
      BY <3>2, <3>3
  <2>3. \A q \in Requests : q > py'.requested => host'.task[q].stage = "none"
    BY <1>2, <1>6, <1>7 DEF Ready, AskedOnce
  <2>. QED
    BY <2>1, <2>2, <2>3 DEF AskedOnce
<1>13. \A q \in host.requests : q # 0
  BY DEF Ready, TypeOK, Host, Requests
<1>14. InTurn'
  <2>1. \A p, q \in host'.requests : p = q
    BY <1>6 DEF Ready, InTurn
  <2>2. ASSUME NEW j \in DOMAIN toHost', Asks(j)', NEW q \in host'.requests
        PROVE  \E k \in DOMAIN toHost' : k < j /\ Hears(k, q, host'.task[q].session)
    <3>1. PICK k \in DOMAIN toHost : Cancels(k, q, host.task[q].session) /\ k < j
      <4>1. CASE j = n
        <5>1. PICK k \in DOMAIN toHost : Cancels(k, q, host.task[q].session)
          BY <1>2, <1>6, <1>13, <2>2 DEF Ready, InTurn
        <5>. QED
          BY <1>4, <4>1, <5>1
      <4>2. CASE j # n
        BY <1>6, <1>11, <2>2, <4>2 DEF Ready, InTurn
      <4>. QED
        BY <4>1, <4>2
    <3>. QED
      BY <1>3, <1>6, <3>1, StillCancels
  <2>3. ASSUME NEW j \in DOMAIN toHost', Asks(j)', NEW i \in DOMAIN toHost', i < j, Asks(i)'
        PROVE  \E k \in DOMAIN toHost' : i < k /\ k < j /\ Hears(k, toHost'[i].request, toHost'[i].session)
    <3>1. i \in DOMAIN toHost /\ Asks(i) /\ toHost'[i] = toHost[i]
      <4>1. i # n
        BY <1>4, <1>9, <1>11, <2>3
      <4>. QED
        BY <1>11, <2>3, <4>1
    <3>2. PICK k \in DOMAIN toHost : i < k /\ k < j /\ Cancels(k, toHost[i].request, toHost[i].session)
      <4>1. CASE j = n
        <5>1. PICK k \in DOMAIN toHost : i < k /\ Cancels(k, toHost[i].request, toHost[i].session)
          BY <1>2, <1>10, <3>1 DEF Ready, InTurn
        <5>. QED
          BY <1>4, <4>1, <5>1
      <4>2. CASE j # n
        <5>1. j \in DOMAIN toHost /\ Asks(j)
          BY <1>11, <2>3, <4>2
        <5>. QED
          BY <2>3, <3>1, <5>1 DEF Ready, InTurn
      <4>. QED
        BY <4>1, <4>2
    <3>. QED
      BY <1>3, <3>1, <3>2, StillCancels
  <2>4. ASSUME NEW q \in host'.requests
        PROVE  \E k \in DOMAIN toHost' : Hears(k, q, host'.task[q].session)
    <3>1. PICK k \in DOMAIN toHost : Cancels(k, q, host.task[q].session)
      BY <1>2, <1>6, <1>13, <2>4 DEF Ready, InTurn
    <3>. QED
      BY <1>3, <1>6, <3>1, StillCancels
  <2>5. ASSUME NEW i \in DOMAIN toHost', Asks(i)', toHost'[i].request # py'.stream
        PROVE  \E k \in DOMAIN toHost' : i < k /\ Hears(k, toHost'[i].request, toHost'[i].session)
    <3>1. i \in DOMAIN toHost /\ Asks(i) /\ toHost'[i] = toHost[i]
      BY <1>1, <1>2, <1>4, <1>11, <2>5
    <3>2. PICK k \in DOMAIN toHost : i < k /\ Cancels(k, toHost[i].request, toHost[i].session)
      BY <1>2, <1>10, <3>1 DEF Ready, InTurn
    <3>. QED
      BY <1>3, <3>1, <3>2, StillCancels
  <2>. QED
    BY <2>1, <2>2, <2>3, <2>4, <2>5 DEF InTurn, Cancels, Hears
<1>15. py.result = "none"
  BY <1>2 DEF Ready, StreamKnown
<1>16. ASSUME NEW i \in DOMAIN toHost', Asks(i)', toHost'[i].request = py'.stream
       PROVE  toHost'[i].session = SessionOf(py', py'.streamTurn)
  <2>1. i = n
    BY <1>2, <1>10, <1>11, <1>16
  <2>. QED
    BY <1>1, <1>4, <2>1
<1>17. StreamKnown'
  <2>1. py'.stream \notin host'.requests
    BY <1>2, <1>6, <1>8
  <2>2. py'.stream <= py'.requested /\ py'.streamTurn # 0
    BY <1>2, <1>7
  <2>. QED
    BY <1>2, <1>15, <1>16, <2>1, <2>2 DEF StreamKnown, PyTurns, SessionOf
<1>. QED
  BY <1>12, <1>14, <1>17

LEMMA PyStepAsked ==
    ASSUME Ready, TypeOK', PyStep
    PROVE  AskedOnce' /\ InTurn' /\ StreamKnown'
BY KeepsAsked, DropsAsked, AcknowledgesAsked, RequestedAsked DEF PyStep

-----------------------------------------------------------------------------
(* The player, the device and the syntheses.                                 *)

LEMMA RanDone ==
    ASSUME Ready, Ran, NoNewDone(host, host'), UNCHANGED py
    PROVE  DoneEnded'
<1>1. \A r : Ends(r) => Ends(r)'
  BY DEF Ran, Ends
<1>2. \A i \in DOMAIN host'.sent : host'.sent[i].kind = "done" => Ends(host'.sent[i].request)
  BY DEF NoNewDone, Ready, DoneEnded
<1>. QED
  BY <1>1, <1>2 DEF Ready, DoneEnded, Ends

LEMMA OverDone ==
    ASSUME Ready, NEW r \in Requests, Over(r)
    PROVE  DoneEnded'
<1>1. Ran /\ UNCHANGED py
  BY OverRan DEF Over, TaskStep, Inside
<1>2. \A q : Ends(q) => Ends(q)'
  BY <1>1 DEF Ran, Ends
<1>3. Ends(r)'
  BY DEF Over, TaskStep, TaskAt, Ends
<1>4. ASSUME NEW i \in DOMAIN host'.sent, host'.sent[i].kind = "done"
      PROVE  Ends(host'.sent[i].request) \/ host'.sent[i].request = r
  BY <1>4 DEF Over, Ready, DoneEnded
<1>5. py'.result = "done" => Ends(py'.stream)
  BY <1>1 DEF Ready, DoneEnded
<1>. QED
  BY <1>2, <1>3, <1>4, <1>5 DEF DoneEnded, Ends

LEMMA AcceptedDone ==
    ASSUME Ready, NEW m \in Events, m.request \in Requests, host.task[m.request].stage = "none",
           Accepted(m), UNCHANGED py
    PROVE  DoneEnded'
<1>. DEFINE r == m.request
<1>1. /\ \A q \in Requests \ {r} : host'.task[q] = host.task[q]
      /\ NoNewDone(host, host') /\ host.task[r].stage # "ended"
  BY DEF Accepted, AcceptMove
<1>. HIDE DEF r
<1>2. \A q : Ends(q) => Ends(q)'
  BY <1>1 DEF Ends
<1>3. \A i \in DOMAIN host'.sent : host'.sent[i].kind = "done" => Ends(host'.sent[i].request)
  BY <1>1 DEF NoNewDone, Ready, DoneEnded
<1>. QED
  BY <1>2, <1>3 DEF Ready, DoneEnded, Ends

LEMMA PyStepDone ==
    ASSUME Ready, PyStep
    PROVE  DoneEnded'
<1>1. host'.task = host.task /\ NoNewDone(host, host')
  BY DEF PyStep, QuietMove
<1>2. \A q : Ends(q) => Ends(q)'
  BY <1>1 DEF Ends
<1>3. \A i \in DOMAIN host'.sent : host'.sent[i].kind = "done" => Ends(host'.sent[i].request)
  BY <1>1 DEF NoNewDone, Ready, DoneEnded
<1>4. ASSUME py'.result = "done"
      PROVE  Ends(py'.stream)
  <2>1. CASE Keeps
    <3>1. py'.stream = py.stream
      BY <2>1 DEF Keeps
    <3>2. py.result = "done" \/ \E i \in DOMAIN host.sent : host.sent[i].kind = "done" /\ host.sent[i].request = py.stream
      BY <1>4, <2>1 DEF Keeps
    <3>. QED
      BY <3>1, <3>2 DEF Ready, DoneEnded
  <2>2. CASE Requested
    <3>1. py.result = "done" /\ py.stream = 0
      BY <1>4, <2>2 DEF Requested
    <3>. QED
      BY <3>1 DEF Ready, StreamKnown
  <2>3. CASE Drops \/ Acknowledges
    BY <1>4, <2>3 DEF Drops, Acknowledges
  <2>. QED
    BY <2>1, <2>2, <2>3 DEF PyStep
<1>. QED
  BY <1>2, <1>3, <1>4 DEF DoneEnded, Ends

LEMMA SameCount ==
    ASSUME Ready, UNCHANGED device, host'.generation = host.generation, host'.pending = host.pending
    PROVE  Counted'
BY DEF Ready, Counted

\* With nothing pending nothing is scheduled.
LEMMA NothingScheduled ==
    ASSUME Ready
    PROVE  /\ host.pending = 0 => device.scheduled = <<>>
           /\ host.pending = 1 /\ device.callbacks # <<>> /\ device.callbacks[1] = host.generation =>
                 device.scheduled = <<>>
<1>1. /\ device.scheduled \in Seq(Buffer) /\ device.callbacks \in Seq(Nat) /\ host.pending \in Nat
      /\ host.generation \in Nat
  BY DEF Ready, TypeOK, Device, Host
<1>2. PICK k \in 0 .. Len(device.callbacks) :
          /\ \A i \in DOMAIN device.callbacks :
                IF i <= k THEN device.callbacks[i] < host.generation
                ELSE device.callbacks[i] = host.generation
          /\ host.pending + k = Len(device.scheduled) + Len(device.callbacks)
  BY DEF Ready, Counted
<1>3. /\ Len(device.scheduled) \in Nat /\ Len(device.callbacks) \in Nat
      /\ DOMAIN device.callbacks = 1 .. Len(device.callbacks)
      /\ device.scheduled = <<>> <=> Len(device.scheduled) = 0
      /\ device.callbacks = <<>> <=> Len(device.callbacks) = 0
  BY <1>1, SeqIs
<1>4. k \in Nat /\ k <= Len(device.callbacks)
  BY <1>2, <1>3
<1>5. ASSUME host.pending = 0
      PROVE  device.scheduled = <<>>
  <2>1. \A a, b, c \in Nat : 0 + a = b + c /\ a <= c => b = 0
    OBVIOUS
  <2>. QED
    BY <1>2, <1>3, <1>4, <1>5, <2>1
<1>6. ASSUME host.pending = 1, device.callbacks # <<>>, device.callbacks[1] = host.generation
      PROVE  device.scheduled = <<>>
  <2>1. Len(device.callbacks) >= 1 /\ 1 \in DOMAIN device.callbacks
    BY <1>3, <1>6
  <2>2. ~(device.callbacks[1] < host.generation)
    BY <1>1, <1>6
  <2>3. ~(1 <= k)
    BY <1>2, <2>1, <2>2
  <2>4. k = 0
    BY <1>4, <2>3
  <2>5. \A b, c \in Nat : 1 + 0 = b + c /\ c >= 1 => b = 0
    OBVIOUS
  <2>. QED
    BY <1>2, <1>3, <1>6, <2>1, <2>4, <2>5
<1>. QED
  BY <1>5, <1>6

\* What was wasted stays so.
Lost(r) == host'.task[r].cancelled \/ host'.task[r].error
LEMMA RanWasted == ASSUME Ran, NEW r \in Requests, Wasted(r) PROVE Lost(r)
BY DEF Ran, Wasted, Lost

\* The buffers that are left belong to whom they belonged to.
LEMMA RanBuffers ==
    ASSUME Ready, Ran,
           \A i \in DOMAIN device'.scheduled :
               \E j \in DOMAIN device.scheduled : device'.scheduled[i].request = device.scheduled[j].request,
           \A i \in DOMAIN device.scheduled :
               LET r == device.scheduled[i].request
               IN  r \in host.requests /\ host.task[r].stage \in {"streaming", "finishing"} =>
                       \/ Lost(r)
                       \/ r \in host'.requests /\ host'.task[r].stage \in {"streaming", "finishing"}
    PROVE  Buffers'
<1>. SUFFICES ASSUME NEW i \in DOMAIN device'.scheduled
              PROVE  LET r == device'.scheduled[i].request
                     IN  \/ Lost(r)
                         \/ r \in host'.requests /\ host'.task[r].stage \in {"streaming", "finishing"}
  BY DEF Buffers, Wasted, Lost
<1>1. PICK j \in DOMAIN device.scheduled : device'.scheduled[i].request = device.scheduled[j].request
  OBVIOUS
<1>. DEFINE r == device.scheduled[j].request
<1>2. r \in Requests
  <2>1. device.scheduled \in Seq(Buffer)
    BY DEF Ready, TypeOK, Device
  <2>2. device.scheduled[j] \in Buffer
    BY <2>1, SeqIs
  <2>. QED
    BY <2>2 DEF Buffer
<1>3. Wasted(r) \/ (r \in host.requests /\ host.task[r].stage \in {"streaming", "finishing"})
  BY DEF Ready, Buffers
<1>4. CASE Wasted(r)
  <2>1. Lost(r)
    BY <1>2, <1>4, RanWasted
  <2>. QED
    BY <1>1, <2>1
<1>. QED
  BY <1>1, <1>3, <1>4

LEMMA SameBuffers ==
    ASSUME Ready, Ran, UNCHANGED device, \A r \in host.requests :
               host.task[r].stage \in {"streaming", "finishing"} =>
                   \/ Lost(r)
                   \/ r \in host'.requests /\ host'.task[r].stage \in {"streaming", "finishing"}
    PROVE  Buffers'
<1>1. \A i \in DOMAIN device'.scheduled :
               \E j \in DOMAIN device.scheduled : device'.scheduled[i].request = device.scheduled[j].request
  OBVIOUS
<1>2. \A i \in DOMAIN device.scheduled :
               LET r == device.scheduled[i].request
               IN  r \in host.requests /\ host.task[r].stage \in {"streaming", "finishing"} =>
                       \/ Lost(r)
                       \/ r \in host'.requests /\ host'.task[r].stage \in {"streaming", "finishing"}
  OBVIOUS
<1>. QED
  BY <1>1, <1>2, RanBuffers

\* A synthesis is cancelled only with its task.
LEMMA RanSynth ==
    ASSUME Ready, Ran, PlayerOwned', NEW ids \in SUBSET Requests, SynthAfter(host', ids),
           \A r \in ids : Lost(r) \/ host'.task[r].stage = "ended",
           host'.latest = host.latest \/ host'.latest = 0
    PROVE  SynthCancelled'
<1>1. ASSUME NEW r \in Requests, synth'[r].cancelled
      PROVE  Lost(r) \/ host'.task[r].stage = "ended"
  <2>1. CASE synth[r].cancelled
    <3>1. Wasted(r) \/ host.task[r].stage = "ended"
      BY <2>1 DEF Ready, SynthCancelled
    <3>. QED
      BY <3>1, RanWasted DEF Ran
  <2>2. CASE host'.task[r].stage = "unwinding"
    BY <2>2 DEF PlayerOwned, Lost
  <2>3. CASE host'.task[r].cancelled
    BY <2>3 DEF Lost
  <2>. QED
    BY <1>1, <2>1, <2>2, <2>3 DEF SynthAfter
<1>2. ASSUME NEW r \in Requests, synth'[r].stage = "cancelled"
      PROVE  synth'[r].cancelled
  BY <1>2 DEF SynthAfter, SameSynth, Ready, SynthCancelled
<1>3. host'.latest # 0 => host'.task[host'.latest].stage # "none"
  <2>1. host.latest # 0 => host.latest \in Requests /\ host.task[host.latest].stage # "none"
    BY DEF Ready, SynthCancelled, TypeOK, Host
  <2>. QED
    BY <2>1 DEF Ran
<1>. QED
  BY <1>1, <1>2, <1>3 DEF SynthCancelled, Wasted, Lost

\* The same with no synthesis more.
LEMMA RanSynths ==
    ASSUME Ready, Ran, PlayerOwned', SynthAfter(host', {}), host'.latest = host.latest \/ host'.latest = 0
    PROVE  SynthCancelled'
BY RanSynth

Player == PlayerOwned /\ Counted /\ Buffers /\ SynthCancelled

\* At most one request is open, and its task is where the request is.
LEMMA OneOpen ==
    ASSUME Ready
    PROVE  /\ \A r, q \in host.requests : r = q
           /\ host.requests \subseteq Requests /\ 0 \notin Requests
           /\ host.speechRequest # 0 => host.speechRequest \in host.requests
           /\ \A r \in host.requests : host.task[r].stage # "created" => host.speechRequest = r
           /\ \A r \in Requests : host.task[r].stage = "unwinding" => host.task[r].cancelled \/ host.task[r].error
           /\ \A g \in host.handlers : g < host.generation
           /\ host.waiter \in Requests \cup {0} /\ host.speechRequest \in Requests \cup {0}
BY DEF Ready, InTurn, PlayerOwned, TypeOK, Host, Requests

LEMMA OverPlayer ==
    ASSUME Ready, NEW r \in Requests, Over(r)
    PROVE  Player'
<1>1. Ran
  BY OverRan
<1>2. /\ host.task[r].stage \in {"created", "synthesizing", "completing", "unwinding"}
      /\ TaskAt(host, host', r, "ended", host.task[r].error)
      /\ host'.generation = host.generation /\ host'.handlers = host.handlers
      /\ host'.pending = host.pending /\ host'.waiter = host.waiter /\ host'.latest = host.latest
      /\ SynthAfter(host', {}) /\ UNCHANGED <<device, cut>>
      /\ host'.requests = host.requests \ {r}
      /\ host'.speechRequest = IF host.speechRequest = r THEN 0 ELSE host.speechRequest
  BY DEF Over, TaskStep, SamePlayer
<1>3. \A q \in Requests : host'.task[q].stage = "finishing" <=> host'.waiter = q
  BY <1>2, TasksAre DEF TaskAt
<1>4. \A q \in Requests : host'.task[q].stage = "finishing" => q \in host'.requests
  BY <1>2, TasksAre DEF TaskAt
<1>5. \A q \in Requests : host'.task[q].stage = "unwinding" => host'.task[q].cancelled \/ host'.task[q].error
  BY <1>2, OneOpen DEF TaskAt
<1>6. host'.speechRequest # 0 => host'.speechRequest \in host'.requests
  BY <1>2, OneOpen
<1>7. \A q \in host'.requests : host'.task[q].stage # "created" => host'.speechRequest = q
  BY <1>2, OneOpen DEF TaskAt
<1>8. PlayerOwned'
  BY <1>2, <1>3, <1>4, <1>5, <1>6, <1>7, OneOpen DEF PlayerOwned
<1>9. \A q \in host.requests : host.task[q].stage \in {"streaming", "finishing"} =>
          q \in host'.requests /\ host'.task[q].stage \in {"streaming", "finishing"}
  BY <1>2, OneOpen DEF TaskAt
<1>10. Counted' /\ Buffers' /\ SynthCancelled'
  BY <1>1, <1>2, <1>8, <1>9, SameCount, SameBuffers, RanSynths
<1>. QED
  BY <1>8, <1>10 DEF Player

LEMMA BegunPlayer ==
    ASSUME Ready, NEW r \in Requests, Begun(r)
    PROVE  Player'
<1>1. Ran
  BY TaskRan
<1>2. /\ host.task[r].stage = "created" /\ r \in host.requests
      /\ TaskAt(host, host', r, "synthesizing", host.task[r].error)
      /\ host'.generation = host.generation /\ host'.handlers = host.handlers
      /\ host'.pending = host.pending /\ host'.waiter = host.waiter /\ host'.latest = host.latest
      /\ SynthAfter(host', {}) /\ UNCHANGED <<device, cut>>
      /\ host'.requests = host.requests /\ host'.speechRequest = r
  BY DEF Begun, TaskStep, SamePlayer
<1>3. \A q \in Requests : host'.task[q].stage = "finishing" <=> host'.waiter = q
  BY <1>2, TasksAre DEF TaskAt
<1>4. \A q \in Requests : host'.task[q].stage = "finishing" => q \in host'.requests
  BY <1>2, TasksAre DEF TaskAt
<1>5. \A q \in Requests : host'.task[q].stage = "unwinding" => host'.task[q].cancelled \/ host'.task[q].error
  BY <1>2, OneOpen DEF TaskAt
<1>7. \A q \in host'.requests : host'.speechRequest = q
  BY <1>2, OneOpen
<1>8. PlayerOwned'
  BY <1>2, <1>3, <1>4, <1>5, <1>7, OneOpen DEF PlayerOwned
<1>9. \A q \in host.requests : host.task[q].stage \in {"streaming", "finishing"} =>
          q \in host'.requests /\ host'.task[q].stage \in {"streaming", "finishing"}
  BY <1>2, OneOpen DEF TaskAt
<1>10. Counted' /\ Buffers' /\ SynthCancelled'
  BY <1>1, <1>2, <1>8, <1>9, SameCount, SameBuffers, RanSynths
<1>. QED
  BY <1>8, <1>10 DEF Player

LEMMA UnwoundPlayer ==
    ASSUME Ready, NEW r \in Requests, NEW error \in BOOLEAN, Unwound(r, error)
    PROVE  Player'
<1>1. Ran
  BY UnwoundRan
<1>2. /\ host.task[r].stage = "streaming" /\ (error \/ host.task[r].cancelled)
      /\ TaskAt(host, host', r, "unwinding", error)
      /\ host'.generation = host.generation /\ host'.handlers = host.handlers
      /\ host'.pending = host.pending /\ host'.waiter = host.waiter /\ host'.latest = host.latest
      /\ SynthAfter(host', {}) /\ UNCHANGED <<device, cut>>
      /\ host'.requests = host.requests /\ host'.speechRequest = host.speechRequest
  BY DEF Unwound, TaskStep, SamePlayer, SameRequests
<1>3. \A q \in Requests : host'.task[q].stage = "finishing" <=> host'.waiter = q
  BY <1>2, TasksAre DEF TaskAt
<1>4. \A q \in Requests : host'.task[q].stage = "finishing" => q \in host'.requests
  BY <1>2, TasksAre DEF TaskAt
<1>5. \A q \in Requests : host'.task[q].stage = "unwinding" => host'.task[q].cancelled \/ host'.task[q].error
  BY <1>2, OneOpen DEF TaskAt
<1>7. \A q \in host'.requests : host'.task[q].stage # "created" => host'.speechRequest = q
  BY <1>2, OneOpen DEF TaskAt
<1>8. PlayerOwned'
  BY <1>2, <1>3, <1>4, <1>5, <1>7, OneOpen DEF PlayerOwned
<1>9. \A q \in host.requests : host.task[q].stage \in {"streaming", "finishing"} =>
          Lost(q) \/ (q \in host'.requests /\ host'.task[q].stage \in {"streaming", "finishing"})
  BY <1>2, OneOpen DEF TaskAt, Lost
<1>10. Counted' /\ Buffers' /\ SynthCancelled'
  BY <1>1, <1>2, <1>8, <1>9, SameCount, SameBuffers, RanSynths
<1>. QED
  BY <1>8, <1>10 DEF Player

LEMMA FinishedPlayer ==
    ASSUME Ready, NEW r \in Requests, Finished(r)
    PROVE  Player'
<1>1. Ran
  BY TaskRan
<1>. DEFINE stage == IF host.pending = 0 THEN "completing" ELSE "finishing"
<1>2. /\ host.task[r].stage = "streaming" /\ r \in host.requests
      /\ TaskAt(host, host', r, stage, host.task[r].error)
      /\ host'.generation = host.generation /\ host'.handlers = host.handlers
      /\ host'.waiter = IF host.pending = 0 THEN host.waiter ELSE r
      /\ host'.pending = host.pending /\ host'.latest = host.latest
      /\ SynthAfter(host', {}) /\ UNCHANGED <<device, cut>>
      /\ host'.requests = host.requests /\ host'.speechRequest = host.speechRequest
  BY DEF Finished, TaskStep, SameRequests
<1>3. \A q \in Requests : host.task[q].stage # "finishing" /\ host.waiter # q
  BY <1>2, OneOpen, TasksAre
<1>4. \A q \in Requests : host'.task[q].stage = "finishing" <=> host'.waiter = q
  BY <1>2, <1>3, OneOpen DEF TaskAt
<1>5. \A q \in Requests : host'.task[q].stage = "finishing" => q \in host'.requests
  BY <1>2, <1>3 DEF TaskAt
<1>6. \A q \in Requests : host'.task[q].stage = "unwinding" => host'.task[q].cancelled \/ host'.task[q].error
  BY <1>2, OneOpen DEF TaskAt
<1>7. \A q \in host'.requests : host'.task[q].stage # "created" => host'.speechRequest = q
  BY <1>2, OneOpen DEF TaskAt
<1>8. PlayerOwned'
  BY <1>2, <1>4, <1>5, <1>6, <1>7, OneOpen DEF PlayerOwned
<1>9. CASE host.pending # 0
  <2>1. \A q \in host.requests : host.task[q].stage \in {"streaming", "finishing"} =>
            q \in host'.requests /\ host'.task[q].stage \in {"streaming", "finishing"}
    BY <1>2, <1>9, OneOpen DEF TaskAt
  <2>. QED
    BY <1>1, <1>2, <1>8, <2>1, SameCount, SameBuffers, RanSynths DEF Player
<1>10. CASE host.pending = 0
  <2>1. device'.scheduled = <<>>
    BY <1>2, <1>10, NothingScheduled
  <2>2. Buffers'
    BY <2>1 DEF Buffers
  <2>. QED
    BY <1>1, <1>2, <1>8, <2>2, SameCount, RanSynths DEF Player
<1>. QED
  BY <1>9, <1>10

LEMMA QueuedPlayer ==
    ASSUME Ready, NEW r \in Requests, Queued(r)
    PROVE  Player'
<1>1. Ran
  BY TaskRan
<1>2. /\ host.task[r].stage = "synthesizing" /\ r \in host.requests
      /\ TaskAt(host, host', r, "streaming", host.task[r].error)
      /\ host'.generation = host.generation /\ host'.handlers = host.handlers
      /\ host'.waiter = host.waiter /\ host'.pending = host.pending /\ host'.latest = r
      /\ UNCHANGED <<device, cut>>
      /\ host'.requests = host.requests /\ host'.speechRequest = host.speechRequest
      /\ \A q \in Requests : q # r => synth'[q] = synth[q]
      /\ synth'[r].stage = "waiting" /\ synth'[r].cancelled = synth[r].cancelled
  BY DEF Queued, SamePlayer, SameRequests
<1>3. \A q \in Requests : host'.task[q].stage = "finishing" <=> host'.waiter = q
  BY <1>2, TasksAre DEF TaskAt
<1>4. \A q \in Requests : host'.task[q].stage = "finishing" => q \in host'.requests
  BY <1>2, TasksAre DEF TaskAt
<1>5. \A q \in Requests : host'.task[q].stage = "unwinding" => host'.task[q].cancelled \/ host'.task[q].error
  BY <1>2, OneOpen DEF TaskAt
<1>7. \A q \in host'.requests : host'.task[q].stage # "created" => host'.speechRequest = q
  BY <1>2, OneOpen DEF TaskAt
<1>8. PlayerOwned'
  BY <1>2, <1>3, <1>4, <1>5, <1>7, OneOpen DEF PlayerOwned
<1>9. \A q \in host.requests : host.task[q].stage \in {"streaming", "finishing"} =>
          q \in host'.requests /\ host'.task[q].stage \in {"streaming", "finishing"}
  BY <1>2, OneOpen DEF TaskAt
<1>10. Counted' /\ Buffers'
  BY <1>1, <1>2, <1>8, <1>9, SameCount, SameBuffers
<1>11. ASSUME NEW q \in Requests
       PROVE  /\ synth'[q].cancelled => Lost(q) \/ host'.task[q].stage = "ended"
              /\ synth'[q].stage = "cancelled" => synth'[q].cancelled
  <2>1. synth'[q].cancelled = synth[q].cancelled
    BY <1>2
  <2>2. synth[q].cancelled => Wasted(q) \/ host.task[q].stage = "ended"
    BY DEF Ready, SynthCancelled
  <2>3. synth[q].cancelled => Lost(q) \/ host'.task[q].stage = "ended"
    BY <1>1, <2>2, RanWasted DEF Ran
  <2>4. synth'[q].stage = "cancelled" => synth[q].stage = "cancelled"
    BY <1>2
  <2>. QED
    BY <2>1, <2>3, <2>4 DEF Ready, SynthCancelled
<1>12. host'.task[r].stage # "none"
  BY <1>2 DEF TaskAt
<1>13. SynthCancelled'
  BY <1>2, <1>11, <1>12 DEF SynthCancelled, Wasted, Lost
<1>. QED
  BY <1>8, <1>10, <1>13 DEF Player

LEMMA TookPlayer ==
    ASSUME Ready, NEW r \in Requests, Took(r)
    PROVE  Player'
<1>1. Ran
  BY TaskRan
<1>2. /\ host.task[r].stage = "streaming" /\ r \in host.requests
      /\ host'.requests = host.requests /\ host'.speechRequest = host.speechRequest
      /\ host'.latest = host.latest /\ host'.task = host.task
      /\ host'.generation = host.generation /\ host'.waiter = host.waiter
      /\ host'.handlers = host.handlers /\ host'.pending = host.pending + Windows
      /\ device'.callbacks = device.callbacks
      /\ DOMAIN device'.scheduled = 1 .. Len(device.scheduled) + Windows
      /\ Len(device'.scheduled) = Len(device.scheduled) + Windows
      /\ \A i \in DOMAIN device.scheduled : device'.scheduled[i] = device.scheduled[i]
      /\ \A i \in DOMAIN device'.scheduled : i \notin DOMAIN device.scheduled =>
            device'.scheduled[i].request = r /\ device'.scheduled[i].epoch = host.generation
  BY DEF Took, SameRequests
<1>3. PlayerOwned'
  BY <1>2 DEF Ready, PlayerOwned
<1>4. Counted'
  <2>1. PICK k \in 0 .. Len(device.callbacks) :
            /\ \A i \in DOMAIN device.callbacks :
                  IF i <= k THEN device.callbacks[i] < host.generation
                  ELSE device.callbacks[i] = host.generation
            /\ host.pending + k = Len(device.scheduled) + Len(device.callbacks)
    BY DEF Ready, Counted
  <2>2. /\ device.scheduled \in Seq(Buffer) /\ device.callbacks \in Seq(Nat) /\ host.pending \in Nat
        /\ Windows \in Nat
    BY PlaybackAssumption DEF Ready, TypeOK, Device, Host
  <2>3. Len(device.scheduled) \in Nat /\ Len(device.callbacks) \in Nat /\ k \in Nat
    BY <2>2
  <2>5. host'.pending + k = Len(device'.scheduled) + Len(device'.callbacks)
    <3>1. host.pending + k = Len(device.scheduled) + Len(device.callbacks)
      BY <2>1
    <3>2. (host.pending + Windows) + k = (Len(device.scheduled) + Windows) + Len(device.callbacks)
      <4>. DEFINE p == host.pending
                  s == Len(device.scheduled)
                  c == Len(device.callbacks)
      <4>1. p \in Nat /\ s \in Nat /\ c \in Nat /\ k \in Nat /\ Windows \in Nat /\ p + k = s + c
        BY <2>2, <2>3, <3>1
      <4>. HIDE DEF p, s, c
      <4>2. (p + Windows) + k = (s + Windows) + c
        BY <4>1
      <4>. QED
        BY <4>2 DEF p, s, c
    <3>. QED
      BY <1>2, <3>2
  <2>6. \A i \in DOMAIN device'.scheduled : device'.scheduled[i].epoch = host'.generation
    BY <1>2 DEF Ready, Counted
  <2>7. \E j \in 0 .. Len(device'.callbacks) :
            /\ \A i \in DOMAIN device'.callbacks :
                  IF i <= j THEN device'.callbacks[i] < host'.generation
                  ELSE device'.callbacks[i] = host'.generation
            /\ host'.pending + j = Len(device'.scheduled) + Len(device'.callbacks)
    BY <1>2, <2>1, <2>5
  <2>. QED
    BY <2>6, <2>7 DEF Counted
<1>5. Buffers'
  <2>. SUFFICES ASSUME NEW i \in DOMAIN device'.scheduled
                PROVE  LET q == device'.scheduled[i].request
                       IN  \/ Lost(q)
                           \/ q \in host'.requests /\ host'.task[q].stage \in {"streaming", "finishing"}
    BY DEF Buffers, Wasted, Lost
  <2>1. CASE i \in DOMAIN device.scheduled
    BY <1>2, <2>1 DEF Ready, Buffers, Wasted, Lost
  <2>2. CASE i \notin DOMAIN device.scheduled
    BY <1>2, <2>2
  <2>. QED
    BY <2>1, <2>2
<1>6. SynthCancelled'
  <2>1. \A q \in Requests : synth'[q].cancelled = synth[q].cancelled /\ synth'[q].stage = synth[q].stage
    BY DEF Took
  <2>. QED
    BY <1>2, <2>1 DEF Ready, SynthCancelled, Wasted
<1>. QED
  BY <1>3, <1>4, <1>5, <1>6 DEF Player

LEMMA CalledBackPlayer ==
    ASSUME Ready, CalledBack
    PROVE  Player'
<1>. DEFINE cb == device.callbacks
            w == host.waiter
<1>1. Ran
  BY CalledBackRan
<1>2. /\ cb # <<>> /\ device'.scheduled = device.scheduled /\ device'.callbacks = Tail(cb)
      /\ UNCHANGED <<synth, cut>>
  BY DEF CalledBack
<1>3. cb \in Seq(Nat) /\ device.scheduled \in Seq(Buffer) /\ host.pending \in Nat /\ host.generation \in Nat
  BY DEF Ready, TypeOK, Device, Host
<1>4. PICK k \in 0 .. Len(cb) :
          /\ \A i \in DOMAIN cb : IF i <= k THEN cb[i] < host.generation ELSE cb[i] = host.generation
          /\ host.pending + k = Len(device.scheduled) + Len(cb)
  BY DEF Ready, Counted
<1>5. /\ \A i \in DOMAIN device.scheduled : device.scheduled[i].epoch = host.generation
      /\ cb[1] = device.callbacks[1]
  BY DEF Ready, Counted
<1>6. /\ Len(cb) \in Nat /\ Len(cb) > 0 /\ Len(Tail(cb)) = Len(cb) - 1 /\ Len(device.scheduled) \in Nat
      /\ DOMAIN Tail(cb) = 1 .. Len(cb) - 1 /\ DOMAIN cb = 1 .. Len(cb)
      /\ \A i \in 1 .. Len(cb) - 1 : Tail(cb)[i] = cb[i + 1]
  BY <1>2, <1>3, TailIs
<1>7. CASE cb[1] # host.generation
  <2>1. host' = host
    BY <1>7 DEF CalledBack
  <2>2. PlayerOwned' /\ SynthCancelled'
    BY <1>2, <2>1 DEF Ready, PlayerOwned, SynthCancelled, Wasted
  <2>3. Buffers'
    BY <1>2, <2>1 DEF Ready, Buffers, Wasted
  <2>4. k \in Nat /\ k >= 1 /\ k <= Len(cb)
    BY <1>4, <1>6, <1>7
  <2>5. /\ k - 1 \in 0 .. Len(Tail(cb))
        /\ \A i \in DOMAIN Tail(cb) : IF i <= k - 1 THEN Tail(cb)[i] < host.generation
                                      ELSE Tail(cb)[i] = host.generation
        /\ host.pending + (k - 1) = Len(device.scheduled) + Len(Tail(cb))
    <3>1. k - 1 \in 0 .. Len(Tail(cb))
      BY <1>6, <2>4
    <3>2. ASSUME NEW i \in DOMAIN Tail(cb)
          PROVE  IF i <= k - 1 THEN Tail(cb)[i] < host.generation ELSE Tail(cb)[i] = host.generation
      <4>1. i \in Nat /\ i + 1 \in DOMAIN cb /\ Tail(cb)[i] = cb[i + 1] /\ (i <= k - 1 <=> i + 1 <= k)
        BY <1>6, <2>4
      <4>. QED
        BY <1>4, <4>1
    <3>3. host.pending + (k - 1) = Len(device.scheduled) + Len(Tail(cb))
      <4>. DEFINE p == host.pending
                  s == Len(device.scheduled)
                  c == Len(cb)
      <4>1. p \in Nat /\ s \in Nat /\ c \in Nat /\ k \in Nat /\ p + k = s + c /\ Len(Tail(cb)) = c - 1
        BY <1>3, <1>4, <1>6, <2>4
      <4>. HIDE DEF p, s, c
      <4>2. p + (k - 1) = s + (c - 1)
        BY <4>1
      <4>. QED
        BY <4>1, <4>2 DEF p, s
    <3>. QED
      BY <3>1, <3>2, <3>3
  <2>6. Counted'
    BY <1>2, <1>5, <2>1, <2>5 DEF Counted
  <2>. QED
    BY <2>2, <2>3, <2>6 DEF Player
<1>8. CASE cb[1] = host.generation
  <2>1. /\ host'.latest = host.latest /\ host'.requests = host.requests
        /\ host'.speechRequest = host.speechRequest /\ host'.generation = host.generation
        /\ host'.pending = host.pending - 1 /\ host'.handlers = host.handlers
    BY <1>8 DEF CalledBack, SameRequests
  <2>2. IF host.pending = 1 /\ w # 0
        THEN host'.waiter = 0 /\ TaskAt(host, host', w, "completing", host.task[w].error)
        ELSE host'.waiter = w /\ host'.task = host.task
    BY <1>8 DEF CalledBack
  <2>3. \A i \in DOMAIN cb : cb[i] = host.generation
    <3>1. ~(1 <= k)
      BY <1>3, <1>4, <1>6, <1>8, SMTT(30)
    <3>2. k = 0
      BY <1>4, <1>6, <3>1
    <3>. QED
      BY <1>4, <1>6, <3>2
  <2>4. host.pending = Len(device.scheduled) + Len(cb)
    <3>1. ~(1 <= k)
      BY <1>3, <1>4, <1>6, <1>8, SMTT(30)
    <3>2. k = 0
      BY <1>4, <1>6, <3>1
    <3>. DEFINE p == host.pending
                n == Len(device.scheduled)
                c == Len(cb)
    <3>3. p + 0 = n + c /\ p \in Nat /\ n \in Nat /\ c \in Nat
      BY <1>3, <1>4, <1>6, <3>2
    <3>. HIDE DEF p, n, c
    <3>4. p = n + c
      BY <3>3
    <3>. QED
      BY <3>4 DEF p, n, c
  <2>5. Counted'
    <3>1. 0 \in 0 .. Len(Tail(cb))
      BY <1>6
    <3>2. \A i \in DOMAIN Tail(cb) : ~(i <= 0) /\ Tail(cb)[i] = host.generation
      BY <1>6, <2>3
    <3>3. (host.pending - 1) + 0 = Len(device.scheduled) + Len(Tail(cb))
      <4>. DEFINE p == host.pending
                  n == Len(device.scheduled)
                  c == Len(cb)
      <4>1. p = n + c /\ p \in Nat /\ n \in Nat /\ c \in Nat /\ Len(Tail(cb)) = c - 1
        BY <1>3, <1>6, <2>4
      <4>. HIDE DEF p, n, c
      <4>2. (p - 1) + 0 = n + (c - 1)
        BY <4>1
      <4>. QED
        BY <4>1, <4>2 DEF p, n
    <3>. QED
      BY <1>2, <1>5, <2>1, <3>1, <3>2, <3>3 DEF Counted
  <2>6. CASE host.pending = 1 /\ w # 0
    <3>1. host'.waiter = 0 /\ TaskAt(host, host', w, "completing", host.task[w].error)
      BY <2>2, <2>6
    <3>2. w \in Requests /\ host.task[w].stage = "finishing" /\ w \in host.requests
      BY <2>6, OneOpen, TasksAre
    <3>3. \A q \in Requests : host'.task[q].stage # "finishing"
      BY <3>1, TasksAre DEF TaskAt
    <3>4. \A q \in Requests : host'.task[q].stage = "unwinding" => host'.task[q].cancelled \/ host'.task[q].error
      BY <3>1, OneOpen DEF TaskAt
    <3>5. \A q \in host'.requests : host'.task[q].stage # "created" => host'.speechRequest = q
      BY <2>1, <3>1, <3>2, OneOpen DEF TaskAt
    <3>6. PlayerOwned'
      BY <2>1, <3>1, <3>3, <3>4, <3>5, OneOpen DEF PlayerOwned
    <3>7. device'.scheduled = <<>>
      BY <1>2, <1>5, <1>8, <2>6, NothingScheduled
    <3>8. Buffers'
      BY <3>7 DEF Buffers
    <3>9. SynthAfter(host', {})
      BY <1>2, SameSynths
    <3>. QED
      BY <1>1, <2>1, <2>5, <3>6, <3>8, <3>9, RanSynths DEF Player
  <2>7. CASE ~(host.pending = 1 /\ w # 0)
    <3>1. host'.waiter = w /\ host'.task = host.task
      BY <2>2, <2>7
    <3>2. PlayerOwned'
      BY <2>1, <3>1 DEF Ready, PlayerOwned
    <3>3. SynthCancelled'
      BY <1>2, <2>1, <3>1 DEF Ready, SynthCancelled, Wasted
    <3>4. Buffers'
      BY <1>2, <2>1, <3>1 DEF Ready, Buffers, Wasted
    <3>. QED
      BY <2>5, <3>2, <3>3, <3>4 DEF Player
  <2>. QED
    BY <2>6, <2>7
<1>. QED
  BY <1>7, <1>8

LEMMA SynthesizedPlayer ==
    ASSUME Ready, NEW r \in Requests, Synthesized(r)
    PROVE  Player'
<1>1. UNCHANGED <<host, device>>
  BY DEF Synthesized
<1>2. PlayerOwned' /\ Counted' /\ Buffers'
  BY <1>1 DEF Ready, PlayerOwned, Counted, Buffers, Wasted
<1>3. \A q \in Requests : /\ synth'[q].cancelled = synth[q].cancelled
                          /\ synth'[q].stage = "cancelled" => synth[q].cancelled
  BY DEF Synthesized, Ready, SynthCancelled
<1>4. SynthCancelled'
  BY <1>1, <1>3 DEF Ready, SynthCancelled, Wasted
<1>. QED
  BY <1>2, <1>4 DEF Player

LEMMA PlayedPlayer ==
    ASSUME Ready, Played
    PROVE  Player'
<1>. DEFINE s == device.scheduled
            cb == device.callbacks
            e == s[1].epoch
<1>1. /\ s # <<>> /\ s \in Seq(Buffer) /\ cb \in Seq(Nat) /\ device'.scheduled = Tail(s)
      /\ device'.callbacks = Append(cb, e) /\ UNCHANGED <<host, synth, cut>>
      /\ host.pending \in Nat
  BY DEF Ready, TypeOK, Device, Played, Host
<1>2. /\ Len(s) \in Nat /\ Len(s) > 0 /\ Len(Tail(s)) = Len(s) - 1
      /\ DOMAIN Tail(s) = 1 .. Len(s) - 1 /\ DOMAIN s = 1 .. Len(s)
      /\ \A i \in 1 .. Len(s) - 1 : Tail(s)[i] = s[i + 1]
  BY <1>1, TailIs
<1>3. e = host.generation /\ e \in Nat
  <2>1. 1 \in DOMAIN device.scheduled
    BY <1>2
  <2>2. e = host.generation
    BY <2>1 DEF Ready, Counted
  <2>. QED
    BY <2>2 DEF Ready, TypeOK, Host
<1>4. /\ Len(Append(cb, e)) = Len(cb) + 1 /\ Len(cb) \in Nat
      /\ DOMAIN Append(cb, e) = 1 .. Len(cb) + 1 /\ DOMAIN cb = 1 .. Len(cb)
      /\ Append(cb, e)[Len(cb) + 1] = e
      /\ \A i \in 1 .. Len(cb) : Append(cb, e)[i] = cb[i]
  BY <1>1, <1>3, AppendedIs
<1>5. \A i \in DOMAIN Tail(s) : i + 1 \in DOMAIN s /\ Tail(s)[i] = s[i + 1]
  BY <1>2
<1>6. PlayerOwned' /\ SynthCancelled'
  BY <1>1 DEF Ready, PlayerOwned, SynthCancelled, Wasted
<1>7. Buffers'
  <2>. SUFFICES ASSUME NEW i \in DOMAIN device'.scheduled
                PROVE  LET q == device'.scheduled[i].request
                       IN  \/ Lost(q)
                           \/ q \in host'.requests /\ host'.task[q].stage \in {"streaming", "finishing"}
    BY DEF Buffers, Wasted, Lost
  <2>1. i + 1 \in DOMAIN device.scheduled /\ device'.scheduled[i] = device.scheduled[i + 1]
    BY <1>1, <1>5
  <2>. QED
    BY <1>1, <2>1 DEF Ready, Buffers, Wasted, Lost
<1>8. PICK k \in 0 .. Len(cb) :
          /\ \A i \in DOMAIN cb : IF i <= k THEN cb[i] < host.generation ELSE cb[i] = host.generation
          /\ host.pending + k = Len(s) + Len(cb)
  BY DEF Ready, Counted
<1>9. \A i \in DOMAIN s : s[i].epoch = host.generation
  BY DEF Ready, Counted
<1>10. Counted'
  <2>1. k \in 0 .. Len(Append(cb, e))
    BY <1>4, <1>8
  <2>2. \A i \in DOMAIN Append(cb, e) : IF i <= k THEN Append(cb, e)[i] < host.generation
                                       ELSE Append(cb, e)[i] = host.generation
    <3>. SUFFICES ASSUME NEW i \in DOMAIN Append(cb, e)
                  PROVE  IF i <= k THEN Append(cb, e)[i] < host.generation
                         ELSE Append(cb, e)[i] = host.generation
      OBVIOUS
    <3>1. CASE i \in DOMAIN cb
      BY <1>4, <1>8, <3>1
    <3>2. CASE i \notin DOMAIN cb
      <4>1. i = Len(cb) + 1 /\ ~(i <= k)
        BY <1>4, <1>8, <3>2
      <4>. QED
        BY <1>3, <1>4, <4>1
    <3>. QED
      BY <3>1, <3>2
  <2>3. host.pending + k = Len(Tail(s)) + Len(Append(cb, e))
    <3>. DEFINE p == host.pending
                n == Len(s)
                c == Len(cb)
    <3>4. p \in Nat /\ n \in Nat /\ c \in Nat
      BY <1>1, <1>2, <1>4
    <3>5. p + k = n + c
      BY <1>8
    <3>6. k \in Nat
      BY <1>4
    <3>1. p \in Nat /\ n \in Nat /\ c \in Nat /\ k \in Nat /\ p + k = n + c
      BY <3>4, <3>5, <3>6
    <3>2. Len(Tail(s)) = n - 1 /\ Len(Append(cb, e)) = c + 1
      BY <1>2, <1>4
    <3>. HIDE DEF p, n, c
    <3>3. p + k = (n - 1) + (c + 1)
      BY <3>1
    <3>. QED
      BY <3>2, <3>3 DEF p
  <2>4. \A i \in DOMAIN Tail(s) : Tail(s)[i].epoch = host.generation
    BY <1>5, <1>9
  <2>. QED
    BY <1>1, <2>1, <2>2, <2>3, <2>4 DEF Counted
<1>. QED
  BY <1>6, <1>7, <1>10 DEF Player

\* Neither the tasks nor the player move.
LEMMA QuietPlayer ==
    ASSUME Ready, QuietMove(host'), SynthAfter(host', {}), UNCHANGED device
    PROVE  Player'
<1>1. /\ host'.task = host.task /\ host'.requests = host.requests
      /\ host'.speechRequest = host.speechRequest /\ host'.latest = host.latest
      /\ host'.generation = host.generation /\ host'.pending = host.pending /\ host'.waiter = host.waiter
      /\ host'.handlers \subseteq host.handlers /\ (SameTurn(host, host') \/ host.requests = {})
  BY DEF QuietMove, SameRequests
<1>2. Ran
  BY <1>1, QuietRan
<1>3. PlayerOwned'
  BY <1>1 DEF Ready, PlayerOwned
<1>4. Counted' /\ Buffers'
  BY <1>1 DEF Ready, Counted, Buffers, Wasted
<1>5. SynthCancelled'
  BY <1>1, <1>2, <1>3, RanSynths
<1>. QED
  BY <1>3, <1>4, <1>5 DEF Player

LEMMA SilencingPlayer ==
    ASSUME Ready, TypeOK', NEW ids \in SUBSET host.requests, Silencing(ids)
    PROVE  Player'
<1>1. Ran
  BY CutRan DEF Silencing
<1>2. /\ TasksCut(host, host', ids) /\ host'.requests = host.requests \ ids /\ host'.speechRequest = 0
      /\ host'.generation = host.generation + 1 /\ host'.pending = 0 /\ host'.waiter = 0
      /\ host'.handlers \subseteq host.handlers \cup {host.generation}
      /\ \A r \in host.requests : r \notin ids => host.task[r].stage = "created"
      /\ host'.latest = host.latest \/ host'.latest = 0
      /\ DeviceAfter(host')
  BY DEF Silencing, CutMove, Cleared, PlayerSilent
<1>3. host.generation \in Nat /\ host'.generation # host.generation /\ host.handlers \subseteq Nat
  <2>1. host.generation \in Nat /\ host.handlers \subseteq Nat
    BY DEF Ready, TypeOK, Host
  <2>. QED
    BY <1>2, <2>1
<1>4. /\ device'.scheduled = <<>>
      /\ Len(device'.callbacks) = Len(device.callbacks) + Len(device.scheduled)
      /\ \A i \in DOMAIN device'.callbacks :
            \/ i \in DOMAIN device.callbacks /\ device'.callbacks[i] = device.callbacks[i]
            \/ \E j \in DOMAIN device.scheduled : device'.callbacks[i] = device.scheduled[j].epoch
  BY <1>2, <1>3 DEF DeviceAfter
<1>5. Buffers'
  BY <1>4 DEF Buffers
<1>6. Counted'
  <2>1. \A i \in DOMAIN device.callbacks : device.callbacks[i] < host.generation \/ device.callbacks[i] = host.generation
    BY DEF Ready, Counted
  <2>2. \A j \in DOMAIN device.scheduled : device.scheduled[j].epoch = host.generation
    BY DEF Ready, Counted
  <2>3. device.callbacks \in Seq(Nat) /\ device'.callbacks \in Seq(Nat)
    BY DEF Ready, TypeOK, Device
  <2>4. \A i \in DOMAIN device.callbacks : device.callbacks[i] \in Nat
    BY <2>3
  <2>5. \A a \in Nat : a < host.generation \/ a = host.generation => a < host.generation + 1
    BY <1>3
  <2>6. \A i \in DOMAIN device'.callbacks : device'.callbacks[i] < host'.generation
    BY <1>2, <1>3, <1>4, <2>1, <2>2, <2>4, <2>5
  <2>7. Len(device'.callbacks) \in Nat /\ DOMAIN device'.callbacks = 1 .. Len(device'.callbacks)
    BY <2>3
  <2>. DEFINE k == Len(device'.callbacks)
  <2>8. k \in 0 .. k /\ \A i \in DOMAIN device'.callbacks : i <= k
    BY <2>7
  <2>9. host'.pending + k = Len(device'.scheduled) + k
    BY <1>2, <1>4
  <2>10. k \in 0 .. Len(device'.callbacks)
    BY <2>8
  <2>11. host'.pending + k = Len(device'.scheduled) + Len(device'.callbacks)
    BY <2>9
  <2>. HIDE DEF k
  <2>12. \A i \in DOMAIN device'.scheduled : device'.scheduled[i].epoch = host'.generation
    BY <1>4
  <2>13. \E j \in 0 .. Len(device'.callbacks) :
            /\ \A i \in DOMAIN device'.callbacks :
                  IF i <= j THEN device'.callbacks[i] < host'.generation
                  ELSE device'.callbacks[i] = host'.generation
            /\ host'.pending + j = Len(device'.scheduled) + Len(device'.callbacks)
    BY <2>6, <2>8, <2>10, <2>11
  <2>. QED
    BY <2>12, <2>13 DEF Counted
<1>7. \A r \in Requests : host'.task[r].stage # "finishing" /\ host'.waiter # r
  BY <1>2, TasksAre, OneOpen DEF TasksCut
<1>8. \A r \in Requests : host'.task[r].stage = "unwinding" => host'.task[r].cancelled \/ host'.task[r].error
  <2>. SUFFICES ASSUME NEW r \in Requests, host'.task[r].stage = "unwinding"
                PROVE  host'.task[r].cancelled \/ host'.task[r].error
    OBVIOUS
  <2>1. CASE r = host.waiter
    <3>1. host.task[r].stage = "finishing" /\ r \in host.requests
      BY <2>1, TasksAre
    <3>. QED
      BY <1>2, <3>1 DEF TasksCut
  <2>2. CASE r # host.waiter
    BY <1>2, <2>2, OneOpen DEF TasksCut
  <2>. QED
    BY <2>1, <2>2
<1>9. \A r \in host'.requests : host'.task[r].stage = "created"
  BY <1>2, OneOpen, TasksAre DEF TasksCut
<1>10. \A g \in host'.handlers : g < host'.generation
  <2>. SUFFICES ASSUME NEW g \in host'.handlers
                PROVE  g < host.generation + 1
    BY <1>2
  <2>1. g \in Nat /\ (g < host.generation \/ g = host.generation)
    BY <1>2, <1>3, OneOpen
  <2>. QED
    BY <1>3, <2>1
<1>11. PlayerOwned'
  BY <1>2, <1>7, <1>8, <1>9, <1>10 DEF PlayerOwned
<1>12. SynthCancelled'
  <2>1. CASE SynthAfter(host', {})
    BY <1>1, <1>2, <1>11, <2>1, RanSynths
  <2>2. CASE host'.requests = {} /\ host.latest \in Requests /\ SynthAfter(host', {host.latest})
    <3>1. host.task[host.latest].stage # "none"
      BY <2>2, OneOpen DEF Ready, SynthCancelled
    <3>2. host'.task[host.latest].stage # "none"
      BY <1>1, <2>2, <3>1 DEF Ran
    <3>3. host'.task[host.latest].stage \in TaskStages
      BY <2>2 DEF TypeOK, Host, TaskRecord
    <3>4. host'.task[host.latest].stage = "ended" \/ host'.task[host.latest].stage \in Running
      BY <3>2, <3>3 DEF TaskStages, Running
    <3>5. Owned'
      BY <1>1, RanOwned
    <3>6. host'.task[host.latest].stage = "ended" \/ host'.task[host.latest].cancelled
      BY <2>2, <3>4, <3>5 DEF Owned
    <3>. DEFINE more == {host.latest}
    <3>7. /\ more \in SUBSET Requests /\ SynthAfter(host', more)
          /\ \A r \in more : Lost(r) \/ host'.task[r].stage = "ended"
      BY <2>2, <3>6 DEF Lost
    <3>. HIDE DEF more
    <3>. QED
      BY <1>1, <1>2, <1>11, <3>7, RanSynth
  <2>. QED
    BY <2>1, <2>2 DEF Silencing
<1>. QED
  BY <1>5, <1>6, <1>11, <1>12 DEF Player

LEMMA EarlyPlayer ==
    ASSUME Ready, NEW ids \in SUBSET host.requests, Early(ids)
    PROVE  Player'
<1>1. Ran
  BY EarlyRan DEF Early
<1>2. /\ Marked(host, host', ids) /\ host'.requests = host.requests \ ids
      /\ host'.speechRequest = host.speechRequest /\ host'.generation = host.generation
      /\ host'.pending = host.pending /\ host'.waiter = host.waiter /\ host'.latest = host.latest
      /\ \A r \in ids : host.task[r].stage = "created" /\ host.speechRequest # r
      /\ SynthAfter(host', {}) /\ UNCHANGED device
  BY DEF Early, EarlyMove, Struck
<1>3. host'.handlers = host.handlers
  BY <1>2 DEF Early, EarlyMove, Struck
<1>4. \A r \in Requests : host'.task[r].stage = "finishing" <=> host'.waiter = r
  BY <1>2, TasksAre DEF Marked
<1>5. \A r \in Requests : host'.task[r].stage = "finishing" => r \in host'.requests
  BY <1>2, TasksAre DEF Marked
<1>6. \A r \in Requests : host'.task[r].stage = "unwinding" => host'.task[r].cancelled \/ host'.task[r].error
  BY <1>2, OneOpen DEF Marked
<1>7. \A r \in host'.requests : host'.task[r].stage # "created" => host'.speechRequest = r
  BY <1>2, OneOpen DEF Marked
<1>8. host'.speechRequest # 0 => host'.speechRequest \in host'.requests
  BY <1>2, OneOpen
<1>9. PlayerOwned'
  BY <1>2, <1>3, <1>4, <1>5, <1>6, <1>7, <1>8, OneOpen DEF PlayerOwned
<1>10. \A q \in host.requests : host.task[q].stage \in {"streaming", "finishing"} =>
          q \in host'.requests /\ host'.task[q].stage \in {"streaming", "finishing"}
  BY <1>2, OneOpen DEF Marked
<1>. QED
  BY <1>1, <1>2, <1>9, <1>10, SameCount, SameBuffers, RanSynths DEF Player

LEMMA AcceptedPlayer ==
    ASSUME Ready, NEW m \in Events, m.request \in Requests, host.task[m.request].stage = "none",
           Accepted(m)
    PROVE  Player'
<1>. DEFINE r == m.request
<1>1. /\ r \in Requests /\ host.task[r].stage = "none"
      /\ host'.generation = host.generation /\ host'.pending = host.pending /\ host'.waiter = host.waiter
      /\ host'.handlers = host.handlers /\ host'.latest = host.latest
      /\ host'.speechRequest = host.speechRequest
      /\ host'.requests = host.requests \cup {r}
      /\ \A q \in Requests \ {r} : host'.task[q] = host.task[q]
      /\ host'.task[r].stage = "created" /\ ~host'.task[r].cancelled /\ ~host'.task[r].error
      /\ SynthAfter(host', {}) /\ UNCHANGED device
  BY DEF Accepted, AcceptMove, SamePlayer
<1>. HIDE DEF r
<1>2. ~host.task[r].cancelled /\ ~host.task[r].error /\ host.waiter # r /\ r \notin host.requests
  BY <1>1, TasksAre
<1>3. \A q \in Requests : host'.task[q].stage = "finishing" <=> host'.waiter = q
  BY <1>1, <1>2, TasksAre
<1>4. \A q \in Requests : host'.task[q].stage = "finishing" => q \in host'.requests
  BY <1>1, TasksAre
<1>5. \A q \in Requests : host'.task[q].stage = "unwinding" => host'.task[q].cancelled \/ host'.task[q].error
  BY <1>1, OneOpen
<1>6. \A q \in host'.requests : host'.task[q].stage # "created" => host'.speechRequest = q
  BY <1>1, OneOpen
<1>7. PlayerOwned'
  BY <1>1, <1>3, <1>4, <1>5, <1>6, OneOpen DEF PlayerOwned
<1>8. Counted'
  BY <1>1, SameCount
<1>9. Buffers'
  <2>. SUFFICES ASSUME NEW i \in DOMAIN device'.scheduled
                PROVE  LET q == device'.scheduled[i].request
                       IN  \/ Lost(q)
                           \/ q \in host'.requests /\ host'.task[q].stage \in {"streaming", "finishing"}
    BY DEF Buffers, Wasted, Lost
  <2>. DEFINE q == device.scheduled[i].request
  <2>1. i \in DOMAIN device.scheduled /\ device'.scheduled[i] = device.scheduled[i]
    BY <1>1
  <2>2. Wasted(q) \/ (q \in host.requests /\ host.task[q].stage \in {"streaming", "finishing"})
    BY <2>1 DEF Ready, Buffers
  <2>3. device.scheduled[i] \in Buffer
    <3>1. device.scheduled \in Seq(Buffer)
      BY DEF Ready, TypeOK, Device
    <3>. QED
      BY <2>1, <3>1
  <2>4. q \in Requests
    BY <2>3 DEF Buffer
  <2>5. q # r
    BY <1>1, <1>2, <2>2 DEF Wasted
  <2>. QED
    BY <1>1, <2>1, <2>2, <2>4, <2>5 DEF Wasted, Lost
<1>10. SynthCancelled'
  <2>1. ASSUME NEW q \in Requests
        PROVE  /\ synth'[q].cancelled => Lost(q) \/ host'.task[q].stage = "ended"
               /\ synth'[q].stage = "cancelled" => synth'[q].cancelled
    <3>1. /\ synth'[q].stage = synth[q].stage /\ (synth[q].cancelled => synth'[q].cancelled)
          /\ synth'[q].cancelled => \/ synth[q].cancelled
                                    \/ host'.task[q].stage = "unwinding" \/ host'.task[q].cancelled
      BY <1>1 DEF SynthAfter, SameSynth
    <3>2. synth[q].cancelled => Wasted(q) \/ host.task[q].stage = "ended"
      BY DEF Ready, SynthCancelled
    <3>3. synth[q].cancelled => Lost(q) \/ host'.task[q].stage = "ended"
      BY <1>1, <1>2, <3>2 DEF Wasted, Lost
    <3>4. host'.task[q].stage = "unwinding" \/ host'.task[q].cancelled => Lost(q)
      BY <1>5 DEF Lost
    <3>5. synth'[q].stage = "cancelled" => synth'[q].cancelled
      BY <3>1 DEF Ready, SynthCancelled
    <3>. QED
      BY <3>1, <3>3, <3>4, <3>5
  <2>2. host'.latest # 0 => host'.task[host'.latest].stage # "none"
    <3>1. host.latest # 0 => host.latest \in Requests /\ host.task[host.latest].stage # "none"
      BY DEF Ready, SynthCancelled, TypeOK, Host
    <3>. QED
      BY <1>1, <3>1
  <2>. QED
    BY <2>1, <2>2 DEF SynthCancelled, Wasted, Lost
<1>. QED
  BY <1>7, <1>8, <1>9, <1>10 DEF Player

-----------------------------------------------------------------------------
(* Every step keeps what Ready says.                                         *)

\* The steps of the host's own, one by one.
Moves ==
    /\ Inside
    /\ \/ \E r \in Requests : \/ Over(r) \/ Begun(r) \/ Unwound(r, TRUE) \/ Unwound(r, FALSE)
                              \/ Finished(r) \/ Queued(r) \/ Took(r) \/ Synthesized(r)
       \/ CalledBack \/ Quieted \/ Silencing(host.requests)

LEMMA Steps ==
    ASSUME Ready, Next
    PROVE  TypeOK' /\ (Moves \/ Played \/ (\E m \in Events : Handled(m)) \/ PyStep)
<1>1. ASSUME NEW r \in Requests, Task(r) \/ Synthesis(r) \/ Fail(r)
      PROVE  TypeOK' /\ Moves
  <2>1. CASE Begin(r)
    BY <2>1, BeginIs DEF Moves, Over, Begun, TaskStep
  <2>2. CASE Synthesize(r)
    BY <2>2, SynthesizeIs DEF Moves, Over, Queued, TaskStep
  <2>3. CASE TakeChunk(r)
    BY <2>3, TakeChunkIs DEF Moves, Took
  <2>4. CASE StreamEnds(r)
    BY <2>4, StreamEndsIs DEF Moves, Unwound, Finished, TaskStep
  <2>5. CASE Answer(r)
    BY <2>5, AnswerIs DEF Moves, Over, TaskStep
  <2>6. CASE Synthesis(r) \/ SynthesisFails(r)
    BY <2>6, SynthesisIs DEF Moves, Synthesized
  <2>7. CASE EngineFails(r)
    BY <2>7, EngineFailsIs DEF Moves, Unwound, TaskStep
  <2>. QED
    BY <1>1, <2>1, <2>2, <2>3, <2>4, <2>5, <2>6, <2>7 DEF Task, Fail
<1>2. CASE DevicePlays
  BY <1>2, DevicePlaysIs
<1>3. CASE Callback
  BY <1>3, CallbackIs DEF Moves, CalledBack
<1>4. CASE CancellationHandler
  BY <1>4, CancellationHandlerIs DEF Moves
<1>5. CASE Handle
  BY <1>5, HandleIs
<1>6. CASE Interrupt
  BY <1>6, InterruptIs DEF Moves
<1>7. CASE Stop
  BY <1>7, StopIs DEF Moves
<1>8. CASE Start
  BY <1>8, StartIs DEF Moves
<1>9. CASE Receive \/ BeginTurn \/ Speak \/ TimesOut \/ PythonTasks
  BY <1>9, ReceiveIs, BeginTurnIs, SpeakIs, TimesOutIs, ControlIs, InterruptTTSIs, InterruptTransportIs,
     ResumeIs, ReportErrorIs DEF PythonTasks
<1>. QED
  BY <1>1, <1>2, <1>3, <1>4, <1>5, <1>6, <1>7, <1>8, <1>9 DEF Next

\* Every step of the host's own is one that lets the tasks run on.
LEMMA MovesRan ==
    ASSUME Ready, TypeOK', Moves
    PROVE  Ran /\ Player' /\ DoneEnded'
<1>1. UNCHANGED py
  BY DEF Moves, Inside
<1>2. ASSUME NEW r \in Requests, Over(r)
      PROVE  Ran /\ Player' /\ DoneEnded'
  BY <1>2, OverRan, OverPlayer, OverDone
<1>3. ASSUME NEW r \in Requests, Begun(r)
      PROVE  Ran /\ Player' /\ DoneEnded'
  <2>1. Ran /\ Player' /\ NoNewDone(host, host')
    BY <1>3, TaskRan, BegunPlayer, SameDone DEF Begun
  <2>. QED
    BY <1>1, <2>1, RanDone
<1>4. ASSUME NEW r \in Requests, NEW error \in BOOLEAN, Unwound(r, error)
      PROVE  Ran /\ Player' /\ DoneEnded'
  <2>1. Ran /\ Player' /\ NoNewDone(host, host')
    BY <1>4, UnwoundRan, UnwoundPlayer, SameDone DEF Unwound
  <2>. QED
    BY <1>1, <2>1, RanDone
<1>5. ASSUME NEW r \in Requests, Finished(r)
      PROVE  Ran /\ Player' /\ DoneEnded'
  <2>1. Ran /\ Player' /\ NoNewDone(host, host')
    BY <1>5, TaskRan, FinishedPlayer, SameDone DEF Finished
  <2>. QED
    BY <1>1, <2>1, RanDone
<1>6. ASSUME NEW r \in Requests, Queued(r)
      PROVE  Ran /\ Player' /\ DoneEnded'
  <2>1. Ran /\ Player' /\ NoNewDone(host, host')
    BY <1>6, TaskRan, QueuedPlayer, SameDone DEF Queued
  <2>. QED
    BY <1>1, <2>1, RanDone
<1>7. ASSUME NEW r \in Requests, Took(r)
      PROVE  Ran /\ Player' /\ DoneEnded'
  <2>1. Ran /\ Player' /\ NoNewDone(host, host')
    BY <1>7, TaskRan, TookPlayer DEF Took
  <2>. QED
    BY <1>1, <2>1, RanDone
<1>8. ASSUME NEW r \in Requests, Synthesized(r)
      PROVE  Ran /\ Player' /\ DoneEnded'
  <2>1. host' = host
    BY <1>8 DEF Synthesized
  <2>2. Ran /\ Player' /\ NoNewDone(host, host')
    BY <1>8, <2>1, TaskRan, SynthesizedPlayer, SameDone
  <2>. QED
    BY <1>1, <2>2, RanDone
<1>9. CASE CalledBack
  <2>1. NoNewDone(host, host')
    BY <1>9 DEF CalledBack, NoNewDone
  <2>2. Ran /\ Player'
    BY <1>9, CalledBackRan, CalledBackPlayer
  <2>. QED
    BY <1>1, <2>1, <2>2, RanDone
<1>10. CASE Quieted
  <2>1. NoNewDone(host, host') /\ Player'
    BY <1>10, QuietPlayer DEF Quieted, QuietMove
  <2>2. Ran
    BY <1>10, QuietRan DEF Quieted, QuietMove, SameRequests
  <2>. QED
    BY <1>1, <2>1, <2>2, RanDone
<1>11. CASE Silencing(host.requests)
  <2>1. Ran /\ Player' /\ NoNewDone(host, host')
    BY <1>11, CutRan, SilencingPlayer DEF Silencing, CutMove, Cleared
  <2>. QED
    BY <1>1, <2>1, RanDone
<1>. QED
  BY <1>2, <1>3, <1>4, <1>5, <1>6, <1>7, <1>8, <1>9, <1>10, <1>11 DEF Moves

LEMMA MovesReady == ASSUME Ready, TypeOK', Moves PROVE Ready'
<1>1. Ran /\ Player' /\ DoneEnded'
  BY MovesRan
<1>2. UNCHANGED <<py, toHost>>
  BY DEF Moves, Inside
<1>3. AskedOnce' /\ InTurn' /\ StreamKnown' /\ Owned'
  BY <1>1, <1>2, InsideAsked, RanOwned
<1>. QED
  BY <1>1, <1>3 DEF Ready, Player

LEMMA PlayedReady == ASSUME Ready, TypeOK', Played PROVE Ready'
<1>1. UNCHANGED <<host, synth, py, toHost, cut>>
  BY DEF Played
<1>2. Player'
  BY PlayedPlayer
<1>3. Owned' /\ AskedOnce' /\ InTurn' /\ StreamKnown' /\ DoneEnded'
  BY <1>1 DEF Ready, Owned, AskedOnce, InTurn, StreamKnown, DoneEnded, Asks, Cancels, SessionOf, Ends
<1>. QED
  BY <1>2, <1>3 DEF Ready, Player

\* The request at the head of the wire has not been seen before.
LEMMA HeadIsNew ==
    ASSUME Ready, NEW m \in Events, Handled(m), m.kind = "request"
    PROVE  m.request \in Requests /\ host.task[m.request].stage = "none"
<1>1. 1 \in DOMAIN toHost /\ m = toHost[1] /\ Asks(1)
  BY TailShift DEF Handled, Asks
<1>. QED
  BY <1>1, WireIs DEF Ready, AskedOnce

LEMMA HandledReady == ASSUME Ready, TypeOK', NEW m \in Events, Handled(m) PROVE Ready'
<1>1. UNCHANGED py
  BY DEF Handled
<1>2. ASSUME Ran, NoNewDone(host, host'), Player'
      PROVE  Ready'
  BY <1>1, <1>2, PoppedAsked, RanOwned, RanDone DEF Ready, Player
<1>3. CASE Quieted
  <2>1. NoNewDone(host, host') /\ Player'
    BY <1>3, QuietPlayer DEF Quieted, QuietMove
  <2>2. Ran
    BY <1>3, QuietRan DEF Quieted, QuietMove, SameRequests
  <2>. QED
    BY <1>2, <2>1, <2>2
<1>4. ASSUME NEW ids \in SUBSET host.requests, Silencing(ids)
      PROVE  Ready'
  <2>1. Ran /\ Player' /\ NoNewDone(host, host')
    BY <1>4, CutRan, SilencingPlayer DEF Silencing, CutMove, Cleared
  <2>. QED
    BY <1>2, <2>1
<1>5. ASSUME NEW ids \in SUBSET host.requests, Early(ids)
      PROVE  Ready'
  <2>1. Ran /\ Player' /\ NoNewDone(host, host')
    BY <1>5, EarlyRan, EarlyPlayer, SameDone DEF Early, EarlyMove, Struck
  <2>. QED
    BY <1>2, <2>1
<1>6. CASE m.kind = "request" /\ Accepted(m)
  <2>1. m.request \in Requests /\ host.task[m.request].stage = "none"
    BY <1>6, HeadIsNew
  <2>2. AskedOnce' /\ InTurn' /\ StreamKnown'
    BY <1>6, AcceptedAsked
  <2>3. Owned' /\ DoneEnded' /\ Player'
    BY <1>1, <1>6, <2>1, AcceptOwned, AcceptedDone, AcceptedPlayer
  <2>. QED
    BY <2>2, <2>3 DEF Ready, Player
<1>. QED
  BY <1>3, <1>4, <1>5, <1>6 DEF Handled

LEMMA PyReady == ASSUME Ready, TypeOK', PyStep PROVE Ready'
<1>1. QuietMove(host') /\ UNCHANGED <<synth, device, heard, cut>>
  BY DEF PyStep, Elsewhere
<1>2. SynthAfter(host', {}) /\ UNCHANGED device
  BY <1>1, SameSynths
<1>3. Player'
  BY <1>1, <1>2, QuietPlayer
<1>4. Ran
  BY <1>1, QuietRan DEF QuietMove, SameRequests
<1>5. AskedOnce' /\ InTurn' /\ StreamKnown' /\ DoneEnded' /\ Owned'
  BY <1>4, PyStepAsked, PyStepDone, RanOwned
<1>. QED
  BY <1>3, <1>5 DEF Ready, Player

LEMMA InitReady == Init => Ready
<1>. SUFFICES ASSUME Init
              PROVE  Ready
  OBVIOUS
<1>1. host = Host0 /\ toHost = <<>> /\ device = [scheduled |-> <<>>, callbacks |-> <<>>]
  BY DEF Init
<1>2. /\ host.active = TRUE /\ host.session = 1 /\ host.turn = 0 /\ host.drawn = 1 /\ host.speechRequest = 0
      /\ host.requests = {} /\ host.botTurn = 0 /\ host.botSpeaking = FALSE /\ host.generation = 0
      /\ host.pending = 0 /\ host.speaking = FALSE /\ host.waiter = 0 /\ host.handlers = {}
      /\ host.latest = 0 /\ host.sent = <<>>
      /\ host.task = [r \in Requests |-> [stage |-> "none", cancelled |-> FALSE, turn |-> 0,
                                          session |-> 0, error |-> FALSE]]
  BY <1>1 DEF Host0, None
<1>3. \A r \in Requests : /\ host.task[r].stage = "none" /\ host.task[r].cancelled = FALSE
                          /\ host.task[r].error = FALSE
  BY <1>2
<1>4. host.task \in [Requests -> TaskRecord]
  BY <1>2 DEF TaskRecord, TaskStages
<1>5. host \in Host
  <2>1. <<>> \in Seq(Told)
    OBVIOUS
  <2>2. {} \in SUBSET Requests /\ {} \in SUBSET Nat
    OBVIOUS
  <2>3. 0 \in Requests \cup {0} /\ 0 \in Nat /\ 1 \in Nat
    OBVIOUS
  <2>4. host = [active |-> TRUE, session |-> 1, turn |-> 0, drawn |-> 1, speechRequest |-> 0,
                requests |-> {}, botTurn |-> 0, botSpeaking |-> FALSE, task |-> host.task,
                generation |-> 0, pending |-> 0, speaking |-> FALSE, waiter |-> 0,
                handlers |-> {}, latest |-> 0, sent |-> <<>>]
    BY <1>1, <1>2 DEF Host0, None
  <2>. DEFINE task == host.task
  <2>5. host = [active |-> TRUE, session |-> 1, turn |-> 0, drawn |-> 1, speechRequest |-> 0,
                requests |-> {}, botTurn |-> 0, botSpeaking |-> FALSE, task |-> task,
                generation |-> 0, pending |-> 0, speaking |-> FALSE, waiter |-> 0,
                handlers |-> {}, latest |-> 0, sent |-> <<>>] /\ task \in [Requests -> TaskRecord]
    BY <1>4, <2>4
  <2>. HIDE DEF task
  <2>. QED
    BY <2>1, <2>2, <2>3, <2>5 DEF Host
<1>6. synth \in [Requests -> SynthRecord] /\ \A r \in Requests : ~synth[r].cancelled /\ synth[r].stage = "none"
  BY DEF Init, SynthRecord, SynthStages, None
<1>7. device \in Device /\ device.scheduled = <<>> /\ device.callbacks = <<>>
  <2>1. <<>> \in Seq(Buffer) /\ <<>> \in Seq(Nat)
    OBVIOUS
  <2>. QED
    BY <1>1, <2>1 DEF Device
<1>8. /\ py \in Py /\ py.stream = 0 /\ py.result = "none" /\ py.turn = 0 /\ py.turns = 0
      /\ py.streamTurn = 0 /\ py.requested = 0
  <2>1. <<>> \in Seq(Nat) /\ <<>> \in Seq(Turns \cup {0}) /\ {} \in SUBSET Requests
    OBVIOUS
  <2>2. [t \in Turns |-> 0] \in [Turns -> Nat]
    OBVIOUS
  <2>3. py = [active |-> TRUE, session |-> 1, turn |-> 0, sessionOf |-> [t \in Turns |-> 0],
             turns |-> 0, stream |-> 0, streamTurn |-> 0, result |-> "none",
             speaking |-> 0, speakingTurn |-> 0, controls |-> <<>>, atTTS |-> FALSE,
             atTransport |-> FALSE, errors |-> <<>>, requested |-> 0, acknowledged |-> {}]
    BY DEF Init, None
  <2>. DEFINE of == [t \in Turns |-> 0]
  <2>4. py = [active |-> TRUE, session |-> 1, turn |-> 0, sessionOf |-> of,
             turns |-> 0, stream |-> 0, streamTurn |-> 0, result |-> "none",
             speaking |-> 0, speakingTurn |-> 0, controls |-> <<>>, atTTS |-> FALSE,
             atTransport |-> FALSE, errors |-> <<>>, requested |-> 0, acknowledged |-> {}]
        /\ of \in [Turns -> Nat]
    BY <2>2, <2>3
  <2>. HIDE DEF of
  <2>. QED
    BY <2>1, <2>4 DEF Py
<1>9. toHost \in Seq(Events) /\ DOMAIN toHost = {}
  BY <1>1
<1>10. TypeOK
  BY <1>5, <1>6, <1>7, <1>8, <1>9 DEF TypeOK, Init
<1>11. Owned
  BY <1>2, <1>3 DEF Owned, Running
<1>12. AskedOnce /\ InTurn
  BY <1>2, <1>3, <1>9 DEF AskedOnce, InTurn
<1>13. StreamKnown /\ DoneEnded
  <2>1. DOMAIN host.sent = {}
    BY <1>2
  <2>. QED
    BY <1>2, <1>8, <1>9, <2>1 DEF StreamKnown, DoneEnded
<1>14. PlayerOwned
  BY <1>2, <1>3 DEF PlayerOwned, Requests
<1>15. Counted
  <2>1. Len(device.callbacks) = 0 /\ Len(device.scheduled) = 0 /\ DOMAIN device.callbacks = {}
        /\ DOMAIN device.scheduled = {}
    BY <1>7
  <2>2. 0 \in 0 .. Len(device.callbacks) /\ host.pending + 0 = Len(device.scheduled) + Len(device.callbacks)
    BY <1>2, <2>1
  <2>. QED
    BY <2>1, <2>2 DEF Counted
<1>16. Buffers /\ SynthCancelled
  BY <1>2, <1>6, <1>7 DEF Buffers, SynthCancelled
<1>. QED
  BY <1>10, <1>11, <1>12, <1>13, <1>14, <1>15, <1>16 DEF Ready

LEMMA StutterReady == Ready /\ UNCHANGED vars => Ready'
<1>. SUFFICES ASSUME Ready, UNCHANGED vars
              PROVE  Ready'
  OBVIOUS
<1>1. UNCHANGED <<host, synth, device, py, toHost, heard, cut, presses, failures>>
  BY DEF vars
<1>2. TypeOK' /\ Owned' /\ AskedOnce' /\ InTurn'
  BY <1>1 DEF Ready, TypeOK, Owned, AskedOnce, InTurn, Asks, Cancels
<1>3. StreamKnown' /\ DoneEnded' /\ PlayerOwned' /\ Counted' /\ Buffers' /\ SynthCancelled'
  BY <1>1, ZenonT(60) DEF Ready, StreamKnown, DoneEnded, PlayerOwned, Counted, Buffers, SynthCancelled, Asks, SessionOf,
              Ends, Wasted
<1>. QED
  BY <1>2, <1>3 DEF Ready

\* One step keeps what Ready says of the requests, the tasks, the player and the wire.
LEMMA NextReady == Ready /\ [Next]_vars => Ready'
<1>. SUFFICES ASSUME Ready, [Next]_vars
              PROVE  Ready'
  OBVIOUS
<1>1. CASE Next
  <2>1. TypeOK' /\ (Moves \/ Played \/ (\E m \in Events : Handled(m)) \/ PyStep)
    BY <1>1, Steps
  <2>. QED
    BY <2>1, MovesReady, PlayedReady, HandledReady, PyReady
<1>2. CASE UNCHANGED vars
  BY <1>2, StutterReady
<1>. QED
  BY <1>1, <1>2

\* Every run keeps the types, whose task and player a request is, the order of the wire and
\* the player's count of what it has scheduled.
THEOREM AlwaysReady == Spec => []Ready
BY InitReady, NextReady, PTL DEF Spec

-----------------------------------------------------------------------------
(* What is thrown away.                                                      *)

\* The host stops the device only when it cuts what was played.
LEMMA CutKept ==
    ASSUME Ready, CancelSparesNewReply, Next
    PROVE  CancelSparesNewReply'
<1>1. ASSUME Ran, UNCHANGED cut
      PROVE  CancelSparesNewReply'
  BY <1>1 DEF CancelSparesNewReply, Ran
<1>2. ASSUME NEW ids \in SUBSET host.requests, Silencing(ids)
      PROVE  CancelSparesNewReply'
  <2>1. Ran
    BY <1>2, CutRan DEF Silencing
  <2>2. /\ DeviceAfter(host') /\ TasksCut(host, host', ids)
        /\ \A r \in host.requests : r \notin ids => host.task[r].stage = "created"
        /\ host'.generation = host.generation + 1
    BY <1>2 DEF Silencing, CutMove, Cleared, PlayerSilent
  <2>3. host'.generation # host.generation
    BY <2>2 DEF Ready, TypeOK, Host
  <2>. SUFFICES ASSUME NEW r \in Requests, cut'[r] > 0
                PROVE  host'.task[r].cancelled \/ host'.task[r].error
    BY DEF CancelSparesNewReply
  <2>4. CASE cut[r] > 0
    BY <2>1, <2>4 DEF CancelSparesNewReply, Ran
  <2>5. CASE ~(cut[r] > 0)
    <3>1. PICK i \in DOMAIN device.scheduled : device.scheduled[i].request = r
      BY <2>2, <2>3, <2>5 DEF DeviceAfter
    <3>2. Wasted(r) \/ (r \in host.requests /\ host.task[r].stage \in {"streaming", "finishing"})
      BY <3>1 DEF Ready, Buffers
    <3>3. CASE Wasted(r)
      BY <2>1, <3>3, RanWasted DEF Lost
    <3>4. CASE r \in host.requests /\ host.task[r].stage \in {"streaming", "finishing"}
      BY <2>2, <3>4 DEF TasksCut
    <3>. QED
      BY <3>2, <3>3, <3>4
  <2>. QED
    BY <2>4, <2>5
<1>3. TypeOK' /\ (Moves \/ Played \/ (\E m \in Events : Handled(m)) \/ PyStep)
  BY Steps
<1>4. CASE Moves
  <2>1. CASE Silencing(host.requests)
    BY <1>2, <2>1
  <2>2. CASE ~Silencing(host.requests)
    <3>1. UNCHANGED cut
      BY <1>4, <2>2 DEF Moves, Over, Begun, Unwound, Finished, Queued, Took, Synthesized, TaskStep, CalledBack,
                        Quieted
    <3>. QED
      BY <1>1, <1>3, <1>4, <3>1, MovesRan
  <2>. QED
    BY <2>1, <2>2
<1>5. CASE Played
  BY <1>5 DEF Played, CancelSparesNewReply
<1>6. ASSUME NEW m \in Events, Handled(m)
      PROVE  CancelSparesNewReply'
  <2>1. CASE Quieted
    BY <1>1, <2>1, QuietRan DEF Quieted, QuietMove, SameRequests
  <2>2. ASSUME NEW ids \in SUBSET host.requests, Early(ids)
        PROVE  CancelSparesNewReply'
    BY <1>1, <2>2, EarlyRan DEF Early
  <2>3. CASE m.kind = "request" /\ Accepted(m)
    <3>1. host.task[m.request].stage = "none" /\ m.request \in Requests
      BY <1>6, <2>3, HeadIsNew
    <3>2. ~host.task[m.request].cancelled /\ ~host.task[m.request].error
      BY <3>1, TasksAre
    <3>3. \A q \in Requests : q = m.request \/ host'.task[q] = host.task[q]
      BY <2>3 DEF Accepted, AcceptMove
    <3>4. UNCHANGED cut
      BY <2>3 DEF Accepted
    <3>. QED
      BY <3>1, <3>2, <3>3, <3>4 DEF CancelSparesNewReply
  <2>. QED
    BY <1>2, <1>6, <2>1, <2>2, <2>3 DEF Handled
<1>7. CASE PyStep
  <2>1. UNCHANGED cut /\ host'.task = host.task
    BY <1>7 DEF PyStep, Elsewhere, QuietMove
  <2>. QED
    BY <2>1 DEF CancelSparesNewReply
<1>. QED
  BY <1>3, <1>4, <1>5, <1>6, <1>7

-----------------------------------------------------------------------------
(* One inference at a time.                                                  *)

Unbegun == {"none", "created", "synthesizing"}

\* No task goes back to where its synthesis has not begun.
Forward == \A r \in Requests : host'.task[r].stage \in Unbegun => host.task[r].stage \in Unbegun

\* The syntheses go on as they were, up to their cancellation.
SameStages == \A r \in Requests : /\ synth'[r].stage = synth[r].stage
                                  /\ synth'[r].previous = synth[r].previous

LEMMA QuietForward == ASSUME QuietMove(host') PROVE Forward
BY DEF QuietMove, Forward

LEMMA CutForward == ASSUME NEW ids, CutMove(host', ids) PROVE Forward
BY DEF CutMove, Cleared, TasksCut, Forward, Unbegun

LEMMA EarlyForward == ASSUME NEW ids, EarlyMove(host', ids) PROVE Forward
BY DEF EarlyMove, Struck, Marked, Forward

LEMMA AcceptForward ==
    ASSUME NEW m, host.task[m.request].stage = "none", AcceptMove(host', m)
    PROVE  Forward
BY DEF AcceptMove, Forward, Unbegun

LEMMA TaskForward ==
    ASSUME NEW r \in Requests, NEW stage, NEW error, TaskAt(host, host', r, stage, error),
           stage \in Unbegun => host.task[r].stage \in Unbegun
    PROVE  Forward
BY DEF TaskAt, Forward

LEMMA SameLine ==
    ASSUME Ready, NEW q \in Seq(Requests), Line(q), SameStages,
           \/ host'.latest = host.latest /\ (host'.active => host.active \/ Unloaded)
           \/ host'.latest = 0 /\ ~host'.active
    PROVE  Line(q)'
<1>1. DOMAIN q = 1 .. Len(q) /\ Len(q) \in Nat /\ (q # <<>> <=> Len(q) > 0) /\ \A i \in DOMAIN q : q[i] \in Requests
  BY SeqIs
<1>2. \A r \in Requests : Alive(r)' <=> Alive(r)
  BY DEF SameStages, Alive
<1>3. \A i, j \in DOMAIN q : q[i] = q[j] => i = j
  BY DEF Line
<1>4. \A r \in Requests : Alive(r)' <=> \E i \in DOMAIN q : q[i] = r
  BY <1>2 DEF Line
<1>5. \A i \in DOMAIN q : i > 1 => synth'[q[i]].previous = q[i - 1] /\ synth'[q[i]].stage = "waiting"
  BY <1>1 DEF Line, SameStages
<1>6. ASSUME q # <<>>
      PROVE  IF host'.latest = 0 THEN ~host'.active ELSE host'.latest = q[Len(q)]
  <2>1. 1 \in DOMAIN q /\ q[1] \in Requests
    BY <1>1, <1>6
  <2>2. Alive(q[1])
    BY <2>1 DEF Line
  <2>3. ~Unloaded
    BY <2>1, <2>2 DEF Unloaded, SynthesisOver, Alive
  <2>. QED
    BY <1>6, <2>3 DEF Line
<1>. QED
  BY <1>3, <1>4, <1>5, <1>6 DEF Line, Alive

\* A synthesis is asked for behind the last one.
LEMMA QueuedLine ==
    ASSUME Ready, NEW q \in Seq(Requests), Line(q), NEW r \in Requests, Queued(r), synth[r].stage = "none"
    PROVE  Line(Append(q, r))'
<1>1. /\ Append(q, r) \in Seq(Requests) /\ Len(Append(q, r)) = Len(q) + 1 /\ Len(q) \in Nat
      /\ DOMAIN Append(q, r) = 1 .. Len(q) + 1 /\ DOMAIN q = 1 .. Len(q)
      /\ Append(q, r)[Len(q) + 1] = r
      /\ \A i \in 1 .. Len(q) : Append(q, r)[i] = q[i]
  BY AppendedIs
<1>2. (q # <<>> <=> Len(q) > 0) /\ \A i \in DOMAIN q : q[i] \in Requests
  BY SeqIs
<1>. DEFINE s == Append(q, r)
<1>3. /\ r \in host.requests /\ host'.latest = r
      /\ \A p \in Requests : p # r => synth'[p] = synth[p]
      /\ synth'[r].stage = "waiting" /\ synth'[r].previous = host.latest
  BY DEF Queued
<1>4. host.active
  BY <1>3 DEF Ready, Owned
<1>5. \A i \in DOMAIN q : q[i] # r
  <2>1. ~Alive(r)
    BY DEF Alive
  <2>. QED
    BY <2>1 DEF Line
<1>6. q # <<>> => host.latest = q[Len(q)]
  BY <1>4 DEF Line
<1>. HIDE DEF s
<1>7. /\ Len(s) = Len(q) + 1 /\ DOMAIN s = 1 .. Len(q) + 1 /\ s[Len(q) + 1] = r
      /\ \A i \in DOMAIN q : s[i] = q[i] /\ i \in DOMAIN s
      /\ \A i \in DOMAIN s : i = Len(q) + 1 \/ i \in DOMAIN q
  BY <1>1 DEF s
<1>8. \A i, j \in DOMAIN s : s[i] = s[j] => i = j
  BY <1>5, <1>7 DEF Line
<1>9. \A p \in Requests : Alive(p)' <=> \E i \in DOMAIN s : s[i] = p
  <2>. SUFFICES ASSUME NEW p \in Requests
                PROVE  Alive(p)' <=> \E i \in DOMAIN s : s[i] = p
    OBVIOUS
  <2>1. CASE p = r
    <3>1. Len(q) + 1 \in DOMAIN s
      BY <1>1, <1>7
    <3>. QED
      BY <1>3, <1>7, <2>1, <3>1 DEF Alive
  <2>2. CASE p # r
    <3>1. Alive(p)' <=> Alive(p)
      BY <1>3, <2>2 DEF Alive
    <3>2. Alive(p) <=> \E i \in DOMAIN q : q[i] = p
      BY DEF Line
    <3>. QED
      BY <1>7, <2>2, <3>1, <3>2
  <2>. QED
    BY <2>1, <2>2
<1>10. ASSUME NEW i \in DOMAIN s, i > 1
       PROVE  synth'[s[i]].previous = s[i - 1] /\ synth'[s[i]].stage = "waiting"
  <2>1. CASE i \in DOMAIN q
    <3>1. i - 1 \in DOMAIN q
      BY <1>1, <1>10, <2>1
    <3>2. synth[q[i]].previous = q[i - 1] /\ synth[q[i]].stage = "waiting"
      BY <1>10, <2>1 DEF Line
    <3>. QED
      BY <1>2, <1>3, <1>5, <1>7, <2>1, <3>1, <3>2
  <2>2. CASE i = Len(q) + 1
    <3>1. Len(q) > 0 /\ i - 1 = Len(q) /\ Len(q) \in DOMAIN q
      BY <1>1, <1>10, <2>2
    <3>. QED
      BY <1>2, <1>3, <1>6, <1>7, <2>2, <3>1
  <2>. QED
    BY <1>7, <2>1, <2>2
<1>11. IF host'.latest = 0 THEN ~host'.active ELSE host'.latest = s[Len(s)]
  BY <1>3, <1>7, OneOpen
<1>. QED
  BY <1>8, <1>9, <1>10, <1>11 DEF Line, Alive, s

\* The head of the line leaves it.
LEMMA TailLine ==
    ASSUME Ready, NEW q \in Seq(Requests), Line(q), q # <<>>, UNCHANGED host,
           \A p \in Requests : p # q[1] => synth'[p] = synth[p], synth'[q[1]].stage \notin {"waiting", "producing"}
    PROVE  Line(Tail(q))'
<1>. DEFINE s == Tail(q)
<1>1. /\ q[1] \in Requests /\ Len(q) \in Nat /\ Len(q) > 0
      /\ s \in Seq(Requests) /\ Len(s) = Len(q) - 1
      /\ DOMAIN s = 1 .. Len(q) - 1 /\ DOMAIN q = 1 .. Len(q)
      /\ \A i \in 1 .. Len(q) - 1 : s[i] = q[i + 1]
  BY TailIs
<1>2. /\ \A i \in DOMAIN q : q[i] \in Requests
      /\ s # <<>> <=> Len(s) > 0
  BY <1>1, SeqIs
<1>. HIDE DEF s
<1>3. \A i \in DOMAIN s : /\ i \in Nat /\ i + 1 \in DOMAIN q /\ s[i] = q[i + 1] /\ s[i] # q[1] /\ s[i] \in Requests
  <2>. SUFFICES ASSUME NEW i \in DOMAIN s
                PROVE  i \in Nat /\ i + 1 \in DOMAIN q /\ s[i] = q[i + 1] /\ s[i] # q[1] /\ s[i] \in Requests
    OBVIOUS
  <2>1. i \in Nat /\ i + 1 \in DOMAIN q /\ s[i] = q[i + 1] /\ i + 1 # 1 /\ 1 \in DOMAIN q
    BY <1>1
  <2>. QED
    BY <1>2, <2>1 DEF Line
<1>4. \A j \in DOMAIN q : j = 1 \/ (j - 1 \in DOMAIN s /\ s[j - 1] = q[j])
  BY <1>1
<1>5. \A i, j \in DOMAIN s : s[i] = s[j] => i = j
  <2>. SUFFICES ASSUME NEW i \in DOMAIN s, NEW j \in DOMAIN s, s[i] = s[j]
                PROVE  i = j
    OBVIOUS
  <2>1. i + 1 = j + 1
    BY <1>3 DEF Line
  <2>. QED
    BY <1>3, <2>1
<1>6. \A p \in Requests : Alive(p)' <=> \E i \in DOMAIN s : s[i] = p
  <2>. SUFFICES ASSUME NEW p \in Requests
                PROVE  Alive(p)' <=> \E i \in DOMAIN s : s[i] = p
    OBVIOUS
  <2>1. CASE p = q[1]
    BY <1>3, <2>1 DEF Alive
  <2>2. CASE p # q[1]
    <3>1. Alive(p)' <=> Alive(p)
      BY <2>2 DEF Alive
    <3>2. Alive(p) <=> \E i \in DOMAIN q : q[i] = p
      BY DEF Line
    <3>3. (\E i \in DOMAIN q : q[i] = p) => \E i \in DOMAIN s : s[i] = p
      BY <1>4, <2>2
    <3>4. (\E i \in DOMAIN s : s[i] = p) => \E i \in DOMAIN q : q[i] = p
      BY <1>3
    <3>. QED
      BY <3>1, <3>2, <3>3, <3>4
  <2>. QED
    BY <2>1, <2>2
<1>7. ASSUME NEW i \in DOMAIN s, i > 1
      PROVE  synth'[s[i]].previous = s[i - 1] /\ synth'[s[i]].stage = "waiting"
  <2>1. i - 1 \in DOMAIN s /\ s[i - 1] = q[i] /\ i \in DOMAIN q /\ i + 1 > 1 /\ (i + 1) - 1 = i
    BY <1>1, <1>3, <1>4, <1>7
  <2>2. synth[q[i + 1]].previous = q[(i + 1) - 1] /\ synth[q[i + 1]].stage = "waiting"
    BY <1>3, <2>1 DEF Line
  <2>. QED
    BY <1>3, <2>1, <2>2
<1>8. ASSUME s # <<>>
      PROVE  IF host'.latest = 0 THEN ~host'.active ELSE host'.latest = s[Len(s)]
  <2>1. Len(s) \in DOMAIN s /\ s[Len(s)] = q[Len(q)]
    BY <1>1, <1>2, <1>8
  <2>. QED
    BY <2>1 DEF Line
<1>. QED
  BY <1>5, <1>6, <1>7, <1>8 DEF Line, Alive, s

\* Only the head of the line infers, and only when it is its turn.
LEMMA SynthesizedLine ==
    ASSUME Ready, NEW q \in Seq(Requests), Line(q), NEW r \in Requests, Synthesized(r)
    PROVE  Line(q)' \/ Line(Tail(q))'
<1>1. DOMAIN q = 1 .. Len(q) /\ Len(q) \in Nat /\ (q # <<>> <=> Len(q) > 0) /\ \A i \in DOMAIN q : q[i] \in Requests
  BY SeqIs
<1>2. /\ UNCHANGED host /\ \A p \in Requests : p # r => synth'[p] = synth[p]
      /\ synth'[r].previous = synth[r].previous
      /\ \/ synth[r].stage = "waiting" /\ PreviousOver(r) /\ synth'[r].stage \in {"cancelled", "producing"}
         \/ /\ synth[r].stage = "producing"
            /\ synth'[r].stage \in {"producing", "finished", "failed", "cancelled"}
  BY DEF Synthesized
<1>3. Alive(r)
  BY <1>2 DEF Alive
<1>4. PICK i \in DOMAIN q : q[i] = r
  BY <1>3 DEF Line
<1>5. i = 1
  <2>. SUFFICES ASSUME i > 1
                PROVE  FALSE
    BY <1>1
  <2>1. synth[r].stage = "waiting" /\ synth[r].previous = q[i - 1]
    BY <1>4 DEF Line
  <2>2. i - 1 \in DOMAIN q /\ q[i - 1] \in Requests
    BY <1>1
  <2>3. Alive(q[i - 1])
    BY <2>2 DEF Line
  <2>4. PreviousOver(r)
    BY <1>2, <2>1
  <2>5. q[i - 1] # 0
    BY <2>2 DEF Requests
  <2>. QED
    BY <2>1, <2>3, <2>4, <2>5 DEF PreviousOver, SynthesisOver, Alive, None
<1>6. q # <<>> /\ q[1] = r
  BY <1>1, <1>4, <1>5
<1>7. CASE synth'[r].stage = "producing"
  <2>1. \A p \in Requests : Alive(p)' <=> Alive(p)
    BY <1>2, <1>7 DEF Alive
  <2>2. \A p \in Requests : Alive(p)' <=> \E j \in DOMAIN q : q[j] = p
    BY <2>1 DEF Line
  <2>3. ASSUME NEW j \in DOMAIN q, j > 1
        PROVE  synth'[q[j]].previous = q[j - 1] /\ synth'[q[j]].stage = "waiting"
    <3>1. q[j] # r
      BY <1>1, <1>6, <2>3 DEF Line
    <3>2. synth[q[j]].previous = q[j - 1] /\ synth[q[j]].stage = "waiting"
      BY <2>3 DEF Line
    <3>. QED
      BY <1>1, <1>2, <3>1, <3>2
  <2>. QED
    BY <1>2, <2>2, <2>3 DEF Line, Alive
<1>8. CASE synth'[r].stage # "producing"
  <2>1. synth'[q[1]].stage \notin {"waiting", "producing"}
    BY <1>2, <1>6, <1>8
  <2>. QED
    BY <1>2, <1>6, <2>1, TailLine
<1>. QED
  BY <1>7, <1>8

LEMMA InitLine == Init => InLine
<1>. SUFFICES ASSUME Init
              PROVE  InLine
  OBVIOUS
<1>1. \A r \in Requests : synth[r].stage = "none"
  BY DEF Init
<1>2. <<>> \in Seq(Requests)
  OBVIOUS
<1>3. DOMAIN <<>> = {} /\ <<>> = <<>>
  OBVIOUS
<1>4. Line(<<>>)
  BY <1>1, <1>3 DEF Line, Alive
<1>. QED
  BY <1>1, <1>2, <1>4 DEF InLine

\* A task whose synthesis has not begun has none, and one in line keeps its place.
LEMMA StepLine ==
    ASSUME Ready, InLine, Forward, SameStages,
           \/ host'.latest = host.latest /\ (host'.active => host.active \/ Unloaded)
           \/ host'.latest = 0 /\ ~host'.active
    PROVE  InLine'
<1>1. PICK q \in Seq(Requests) : Line(q)
  BY DEF InLine
<1>2. Line(q)'
  BY <1>1, SameLine
<1>3. \A r \in Requests : host'.task[r].stage \in Unbegun => synth'[r].stage = "none"
  BY DEF InLine, Forward, SameStages, Unbegun
<1>. QED
  BY <1>2, <1>3 DEF InLine, Unbegun

LEMMA QueuedInLine ==
    ASSUME Ready, InLine, NEW r \in Requests, Queued(r)
    PROVE  InLine'
<1>1. PICK q \in Seq(Requests) : Line(q)
  BY DEF InLine
<1>2. /\ host.task[r].stage = "synthesizing" /\ TaskAt(host, host', r, "streaming", host.task[r].error)
      /\ \A p \in Requests : p # r => synth'[p] = synth[p]
  BY DEF Queued
<1>3. synth[r].stage = "none"
  BY <1>2 DEF InLine
<1>4. Line(Append(q, r))'
  BY <1>1, <1>3, QueuedLine
<1>5. Append(q, r) \in Seq(Requests)
  BY AppendedIs
<1>6. \A p \in Requests : host'.task[p].stage \in Unbegun => synth'[p].stage = "none"
  BY <1>2 DEF InLine, TaskAt, Unbegun
<1>. QED
  BY <1>4, <1>5, <1>6 DEF InLine, Unbegun

LEMMA SynthesizedInLine ==
    ASSUME Ready, InLine, NEW r \in Requests, Synthesized(r)
    PROVE  InLine'
<1>1. PICK q \in Seq(Requests) : Line(q)
  BY DEF InLine
<1>2. Line(q)' \/ Line(Tail(q))'
  BY <1>1, SynthesizedLine
<1>3. /\ UNCHANGED host /\ \A p \in Requests : p # r => synth'[p] = synth[p]
      /\ synth[r].stage \in {"waiting", "producing"}
  BY DEF Synthesized
<1>4. \A p \in Requests : host'.task[p].stage \in Unbegun => synth'[p].stage = "none"
  BY <1>3 DEF InLine, Unbegun
<1>5. CASE q # <<>>
  <2>1. Tail(q) \in Seq(Requests)
    BY <1>5, TailIs
  <2>. QED
    BY <1>2, <1>4, <2>1 DEF InLine, Unbegun
<1>6. CASE q = <<>>
  <2>1. Alive(r)
    BY <1>3 DEF Alive
  <2>. QED
    BY <1>1, <1>6, <2>1 DEF Line
<1>. QED
  BY <1>5, <1>6

LEMMA SameSynthStages == ASSUME NEW h, NEW ids, SynthAfter(h, ids) PROVE SameStages
BY DEF SynthAfter, SameSynth, SameStages

LEMMA CutInLine ==
    ASSUME Ready, InLine, NEW ids \in SUBSET host.requests, Silencing(ids)
    PROVE  InLine'
<1>1. Forward
  BY CutForward DEF Silencing
<1>2. \/ host'.latest = host.latest /\ host'.active = host.active
      \/ host'.latest = 0 /\ ~host'.active
  BY DEF Silencing, CutMove
<1>3. SameStages
  BY SameSynthStages DEF Silencing
<1>. QED
  BY <1>1, <1>2, <1>3, StepLine

LEMMA QuietInLine ==
    ASSUME Ready, InLine, QuietMove(host'), SynthAfter(host', {})
    PROVE  InLine'
<1>1. Forward /\ SameStages
  BY QuietForward, SameSynthStages
<1>2. host'.latest = host.latest /\ (host'.active => host.active \/ Unloaded)
  BY DEF QuietMove
<1>. QED
  BY <1>1, <1>2, StepLine

LEMMA MovesInLine ==
    ASSUME Ready, InLine, Moves
    PROVE  InLine'
<1>1. ASSUME NEW r \in Requests, NEW stage, NEW error, TaskStep(r, stage, error), host'.latest = host.latest,
             stage \in Unbegun => host.task[r].stage \in Unbegun
      PROVE  InLine'
  <2>1. Forward /\ SameStages /\ host'.active = host.active
    BY <1>1, TaskForward, SameSynthStages DEF TaskStep, SameTurn
  <2>. QED
    BY <1>1, <2>1, StepLine
<1>2. ASSUME NEW r \in Requests, Over(r)
      PROVE  InLine'
  BY <1>1, <1>2 DEF Over, Unbegun
<1>3. ASSUME NEW r \in Requests, Begun(r)
      PROVE  InLine'
  BY <1>1, <1>3 DEF Begun, Unbegun
<1>4. ASSUME NEW r \in Requests, NEW error \in BOOLEAN, Unwound(r, error)
      PROVE  InLine'
  BY <1>1, <1>4 DEF Unwound, Unbegun
<1>5. ASSUME NEW r \in Requests, Finished(r)
      PROVE  InLine'
  <2>. DEFINE stage == IF host.pending = 0 THEN "completing" ELSE "finishing"
  <2>1. TaskStep(r, stage, host.task[r].error) /\ host'.latest = host.latest /\ stage \notin Unbegun
    BY <1>5 DEF Finished, Unbegun
  <2>. HIDE DEF stage
  <2>. QED
    BY <1>1, <2>1
<1>6. ASSUME NEW r \in Requests, Took(r)
      PROVE  InLine'
  <2>1. Forward /\ SameStages /\ host'.active = host.active /\ host'.latest = host.latest
    BY <1>6 DEF Took, Forward, SameStages, SameTurn
  <2>. QED
    BY <2>1, StepLine
<1>7. CASE CalledBack
  <2>1. SameStages
    BY <1>7 DEF CalledBack, SameStages
  <2>2. Forward
    BY <1>7 DEF CalledBack, TaskAt, Forward, Unbegun
  <2>3. host'.active = host.active /\ host'.latest = host.latest
    BY <1>7 DEF CalledBack, SameTurn
  <2>. QED
    BY <2>1, <2>2, <2>3, StepLine
<1>8. CASE Quieted
  BY <1>8, QuietInLine DEF Quieted
<1>. QED
  BY <1>2, <1>3, <1>4, <1>5, <1>6, <1>7, <1>8, QueuedInLine, SynthesizedInLine, CutInLine DEF Moves

\* The line of inferences goes on, whatever happens.
LEMMA NextInLine == Ready /\ InLine /\ [Next]_vars => InLine'
<1>. SUFFICES ASSUME Ready, InLine, [Next]_vars
              PROVE  InLine'
  OBVIOUS
<1>1. CASE Next
  <2>1. Moves \/ Played \/ (\E m \in Events : Handled(m)) \/ PyStep
    BY <1>1, Steps
  <2>2. CASE Played
    BY <2>2 DEF Played, InLine, Line, Alive
  <2>3. ASSUME NEW m \in Events, Handled(m)
        PROVE  InLine'
    <3>1. CASE Quieted
      BY <3>1, QuietInLine DEF Quieted
    <3>2. ASSUME NEW ids \in SUBSET host.requests, Early(ids)
          PROVE  InLine'
      <4>1. Forward /\ SameStages
        BY <3>2, EarlyForward, SameSynthStages DEF Early
      <4>2. host'.latest = host.latest /\ host'.active = host.active
        BY <3>2 DEF Early, EarlyMove, Struck, SameTurn
      <4>. QED
        BY <4>1, <4>2, StepLine
    <3>3. CASE m.kind = "request" /\ Accepted(m)
      <4>1. host.task[m.request].stage = "none"
        BY <2>3, <3>3, HeadIsNew
      <4>2. Forward /\ SameStages
        BY <3>3, <4>1, AcceptForward, SameSynthStages DEF Accepted
      <4>3. host'.latest = host.latest /\ host'.active = host.active
        BY <3>3 DEF Accepted, AcceptMove, SameTurn
      <4>. QED
        BY <4>2, <4>3, StepLine
    <3>. QED
      BY <2>3, <3>1, <3>2, <3>3, CutInLine DEF Handled
  <2>4. CASE PyStep
    <3>1. SynthAfter(host', {})
      BY <2>4, SameSynths DEF PyStep, Elsewhere
    <3>. QED
      BY <2>4, <3>1, QuietInLine DEF PyStep
  <2>. QED
    BY <2>1, <2>2, <2>3, <2>4, MovesInLine
<1>2. CASE UNCHANGED vars
  BY <1>2 DEF vars, InLine, Line, Alive
<1>. QED
  BY <1>1, <1>2

\* The one that infers is the head of the line.
LEMMA LineIsSole == InLine => SoleInference
<1>. SUFFICES ASSUME InLine, NEW r \in Requests, NEW p \in Requests, Producing(r), Producing(p)
              PROVE  r = p
  BY DEF SoleInference
<1>1. PICK q \in Seq(Requests) : Line(q)
  BY DEF InLine
<1>2. Alive(r) /\ Alive(p) /\ synth[r].stage # "waiting" /\ synth[p].stage # "waiting"
  BY DEF Alive, Producing
<1>3. PICK i \in DOMAIN q : q[i] = r
  BY <1>1, <1>2 DEF Line
<1>4. PICK j \in DOMAIN q : q[j] = p
  BY <1>1, <1>2 DEF Line
<1>5. ~(i > 1) /\ ~(j > 1)
  BY <1>1, <1>2, <1>3, <1>4 DEF Line
<1>6. i = 1 /\ j = 1
  BY <1>5, SeqIs
<1>. QED
  BY <1>3, <1>4, <1>6

-----------------------------------------------------------------------------
(* What was heard.                                                           *)

Sounding == {"streaming", "finishing", "completing"}

\* The buffers of r are the last ones of s, and n chunks of it were scheduled or played.
Share(s, played, n, r) ==
    \E k \in 0 .. Len(s) :
        /\ \A i \in DOMAIN s : s[i].request = r <=> i > k
        /\ played + Len(s) = n * Windows + k

\* The syntheses have made and given what they had.
Amounts == \A r \in Requests : /\ synth'[r].stage = synth[r].stage
                               /\ synth'[r].made = synth[r].made /\ synth'[r].taken = synth[r].taken

LEMMA SynthAmounts == ASSUME NEW h, NEW ids, SynthAfter(h, ids) PROVE Amounts
BY DEF SynthAfter, SameSynth, Amounts

LEMMA HeardShare ==
    ASSUME Heard, NEW r \in host.requests, host.task[r].stage \in Sounding
    PROVE  Share(device.scheduled, heard[r], synth[r].taken, r)
BY DEF Heard, Share, Sounding

\* The request that sounds is the one open request.
LEMMA SoundingIs ==
    ASSUME Ready, TypeOK'
    PROVE  /\ host'.requests \subseteq Requests
           /\ Len(device.scheduled) \in Nat /\ DOMAIN device.scheduled = 1 .. Len(device.scheduled)
           /\ Windows \in Nat
           /\ \A r \in Requests : synth[r].taken \in Nat /\ synth[r].made \in Nat /\ heard[r] \in Nat
<1>1. device.scheduled \in Seq(Buffer) /\ host'.requests \subseteq Requests /\ synth \in [Requests -> SynthRecord]
  BY DEF Ready, TypeOK, Device, Host
<1>. QED
  BY <1>1, PlaybackAssumption, SMTT(30) DEF Ready, TypeOK, SynthRecord

\* Nothing sounds that did not, and nothing more is played.
LEMMA HeardKept ==
    ASSUME Ready, Heard, TypeOK', Forward, Amounts, heard' = heard, device'.scheduled = device.scheduled,
           \A r \in host'.requests : host'.task[r].stage \in Sounding =>
               r \in host.requests /\ host.task[r].stage = host'.task[r].stage
    PROVE  Heard'
<1>1. host'.requests \subseteq Requests
  BY SoundingIs
<1>2. \A r \in Requests : synth'[r].taken <= synth'[r].made
  BY DEF Heard, Amounts
<1>3. \A r \in Requests : host'.task[r].stage \in Unbegun =>
          /\ heard'[r] = 0 /\ synth'[r].taken = 0
          /\ \A i \in DOMAIN device'.scheduled : device'.scheduled[i].request # r
  BY DEF Heard, Amounts, Forward, Unbegun
<1>4. \A r \in host'.requests : host'.task[r].stage \in Sounding =>
          Share(device'.scheduled, heard'[r], synth'[r].taken, r)
  BY <1>1, HeardShare DEF Amounts
<1>5. \A r \in host'.requests : host'.task[r].stage \in {"finishing", "completing"} =>
          synth'[r].stage = "finished" /\ synth'[r].taken = synth'[r].made
  BY <1>1 DEF Heard, Amounts, Sounding
<1>6. \A r \in host'.requests : host'.task[r].stage = "completing" => device'.scheduled = <<>>
  BY DEF Heard, Sounding
<1>. QED
  BY <1>2, <1>3, <1>4, <1>5, <1>6 DEF Heard, Share, Unbegun, Sounding

LEMMA TaskHeard ==
    ASSUME Ready, Heard, TypeOK', NEW r \in Requests, NEW stage, NEW error, TaskStep(r, stage, error),
           host'.requests \subseteq host.requests, stage \notin Sounding,
           stage \in Unbegun => host.task[r].stage \in Unbegun
    PROVE  Heard'
<1>1. Forward
  BY TaskForward DEF TaskStep
<1>2. Amounts
  BY SynthAmounts DEF TaskStep
<1>3. \A q \in host'.requests : host'.task[q].stage \in Sounding =>
               q \in host.requests /\ host.task[q].stage = host'.task[q].stage
  BY SoundingIs DEF TaskStep, TaskAt
<1>4. heard' = heard /\ device'.scheduled = device.scheduled
  BY DEF TaskStep, Inside
<1>. QED
  BY <1>1, <1>2, <1>3, <1>4, HeardKept

LEMMA FinishedHeard ==
    ASSUME Ready, Heard, TypeOK', NEW r \in Requests, Finished(r)
    PROVE  Heard'
<1>. DEFINE stage == IF host.pending = 0 THEN "completing" ELSE "finishing"
<1>1. /\ host.task[r].stage = "streaming" /\ r \in host.requests /\ host'.requests = host.requests
      /\ synth[r].stage = "finished" /\ synth[r].taken = synth[r].made
      /\ TaskAt(host, host', r, stage, host.task[r].error)
      /\ Amounts /\ heard' = heard /\ device' = device
  BY SynthAmounts DEF Finished, TaskStep, Inside, SameRequests
<1>2. \A q \in host.requests : q = r
  BY <1>1, OneOpen
<1>3. \A q \in Requests : synth'[q].taken <= synth'[q].made
  BY <1>1 DEF Heard, Amounts
<1>4. \A q \in Requests : host'.task[q].stage \in Unbegun =>
          /\ heard'[q] = 0 /\ synth'[q].taken = 0
          /\ \A i \in DOMAIN device'.scheduled : device'.scheduled[i].request # q
  BY <1>1 DEF Heard, Amounts, TaskAt, Unbegun
<1>5. \A q \in host'.requests : Share(device'.scheduled, heard'[q], synth'[q].taken, q)
  BY <1>1, <1>2, HeardShare DEF Amounts, Sounding
<1>6. synth'[r].stage = "finished" /\ synth'[r].taken = synth'[r].made
  BY <1>1 DEF Amounts
<1>7. host'.task[r].stage = "completing" => device'.scheduled = <<>>
  BY <1>1, NothingScheduled DEF TaskAt
<1>. QED
  BY <1>1, <1>2, <1>3, <1>4, <1>5, <1>6, <1>7 DEF Heard, Share, Unbegun, Sounding

LEMMA QueuedHeard ==
    ASSUME Ready, Heard, TypeOK', NEW r \in Requests, Queued(r)
    PROVE  Heard'
<1>1. /\ host.task[r].stage = "synthesizing" /\ r \in host.requests /\ host'.requests = host.requests
      /\ TaskAt(host, host', r, "streaming", host.task[r].error)
      /\ \A q \in Requests : synth'[q].made = synth[q].made /\ synth'[q].taken = synth[q].taken
      /\ heard' = heard /\ device' = device
  BY DEF Queued, Inside, SameRequests
<1>2. \A q \in host.requests : q = r
  BY <1>1, OneOpen
<1>3. \A q \in Requests : synth'[q].taken <= synth'[q].made
  BY <1>1 DEF Heard
<1>4. \A q \in Requests : host'.task[q].stage \in Unbegun =>
          /\ heard'[q] = 0 /\ synth'[q].taken = 0
          /\ \A i \in DOMAIN device'.scheduled : device'.scheduled[i].request # q
  BY <1>1 DEF Heard, TaskAt, Unbegun
<1>5. Share(device'.scheduled, heard'[r], synth'[r].taken, r)
  <2>. DEFINE n == Len(device.scheduled)
  <2>1. n \in Nat /\ DOMAIN device.scheduled = 1 .. n /\ Windows \in Nat
    BY SoundingIs
  <2>2. heard[r] = 0 /\ synth[r].taken = 0 /\ \A i \in DOMAIN device.scheduled : device.scheduled[i].request # r
    BY <1>1 DEF Heard
  <2>. HIDE DEF n
  <2>3. n \in 0 .. n /\ 0 + n = 0 * Windows + n /\ \A i \in 1 .. n : ~(i > n)
    BY <2>1
  <2>. QED
    BY <1>1, <2>1, <2>2, <2>3 DEF Share, n
<1>6. host'.task[r].stage = "streaming"
  BY <1>1 DEF TaskAt
<1>. QED
  BY <1>1, <1>2, <1>3, <1>4, <1>5, <1>6 DEF Heard, Share, Unbegun, Sounding

LEMMA TookHeard ==
    ASSUME Ready, Heard, TypeOK', NEW r \in Requests, Took(r)
    PROVE  Heard'
<1>. DEFINE s == device.scheduled
            n == Len(device.scheduled)
            t == synth[r].taken
            p == heard[r]
<1>1. /\ host.task[r].stage = "streaming" /\ r \in host.requests
      /\ host'.requests = host.requests /\ host'.task = host.task /\ heard' = heard
      /\ synth[r].taken < synth[r].made
      /\ \A q \in Requests : q # r => synth'[q] = synth[q]
      /\ synth'[r].made = synth[r].made /\ synth'[r].taken = t + 1
      /\ DOMAIN device'.scheduled = 1 .. n + Windows /\ Len(device'.scheduled) = n + Windows
      /\ \A i \in DOMAIN s : device'.scheduled[i] = s[i]
      /\ \A i \in DOMAIN device'.scheduled : i \notin DOMAIN s => device'.scheduled[i].request = r
  BY DEF Took, Inside, SameRequests
<1>2. /\ n \in Nat /\ DOMAIN s = 1 .. n /\ Windows \in Nat /\ t \in Nat /\ p \in Nat /\ synth[r].made \in Nat
  BY SoundingIs
<1>3. \A q \in host.requests : q = r
  BY <1>1, OneOpen
<1>4. \A q \in Requests : synth'[q].taken <= synth'[q].made
  <2>1. t + 1 <= synth[r].made
    BY <1>1, <1>2
  <2>. QED
    BY <1>1, <2>1 DEF Heard
<1>5. \A q \in Requests : host'.task[q].stage \in Unbegun =>
          /\ heard'[q] = 0 /\ synth'[q].taken = 0
          /\ \A i \in DOMAIN device'.scheduled : device'.scheduled[i].request # q
  BY <1>1 DEF Heard, Unbegun
<1>6. Share(device'.scheduled, heard'[r], synth'[r].taken, r)
  <2>1. PICK k \in 0 .. n : (\A i \in DOMAIN s : s[i].request = r <=> i > k) /\ p + n = t * Windows + k
    BY <1>1, HeardShare DEF Share, Sounding
  <2>2. ASSUME NEW i \in DOMAIN device'.scheduled
        PROVE  device'.scheduled[i].request = r <=> i > k
    <3>1. CASE i \in DOMAIN s
      <4>1. device'.scheduled[i] = s[i]
        BY <1>1, <3>1
      <4>. QED
        BY <2>1, <3>1, <4>1
    <3>2. CASE i \notin DOMAIN s
      <4>1. device'.scheduled[i].request = r
        BY <1>1, <3>2
      <4>2. i \in Nat /\ i > n /\ k \in Nat /\ k <= n
        <5>1. i \in 1 .. n + Windows /\ i \notin 1 .. n /\ k \in 0 .. n
          BY <1>1, <1>2, <3>2
        <5>. HIDE DEF n
        <5>. QED
          BY <1>2, <5>1
      <4>. HIDE DEF n
      <4>. QED
        BY <1>2, <4>1, <4>2
    <3>. QED
      BY <3>1, <3>2
  <2>3. k \in Nat /\ k \in 0 .. n + Windows
    BY <1>2, <2>1
  <2>4. p + (n + Windows) = (t + 1) * Windows + k
    <3>1. (t + 1) * Windows = t * Windows + Windows /\ t * Windows \in Nat
      BY <1>2
    <3>. DEFINE m == t * Windows
    <3>2. p + n = m + k /\ m \in Nat
      BY <2>1, <3>1
    <3>. HIDE DEF m, n, p
    <3>3. p + (n + Windows) = (m + Windows) + k
      BY <1>2, <2>3, <3>2
    <3>. QED
      BY <3>1, <3>3 DEF m
  <2>. QED
    BY <1>1, <2>2, <2>3, <2>4 DEF Share
<1>. QED
  BY <1>1, <1>3, <1>4, <1>5, <1>6 DEF Heard, Share, Unbegun, Sounding

LEMMA SynthesizedHeard ==
    ASSUME Ready, Heard, TypeOK', NEW r \in Requests, Synthesized(r)
    PROVE  Heard'
<1>1. /\ UNCHANGED <<host, device, heard>> /\ synth'[r].taken = synth[r].taken
      /\ \A q \in Requests : q # r => synth'[q] = synth[q]
      /\ synth'[r].made >= synth[r].made /\ synth[r].stage \in {"waiting", "producing"}
  <2>1. synth[r].made \in Nat
    BY DEF Ready, TypeOK, SynthRecord
  <2>. QED
    BY <2>1 DEF Synthesized, Inside
<1>2. \A q \in Requests : synth'[q].taken = synth[q].taken
  BY <1>1
<1>3. synth'[r].taken <= synth'[r].made
  <2>1. synth[r].taken <= synth[r].made
    BY DEF Heard
  <2>2. synth[r].taken \in Nat /\ synth[r].made \in Nat
    BY SoundingIs
  <2>4. synth'[r].made \in Nat
    BY DEF TypeOK, SynthRecord
  <2>3. synth'[r].made >= synth[r].made
    BY <1>1
  <2>. QED
    BY <1>1, <2>1, <2>2, <2>3, <2>4
<1>4. \A q \in host.requests : host.task[q].stage \in {"finishing", "completing"} => q # r
  BY <1>1 DEF Heard
<1>. QED
  BY <1>1, <1>2, <1>3, <1>4, OneOpen DEF Heard

LEMMA CalledBackHeard ==
    ASSUME Ready, Heard, TypeOK', CalledBack
    PROVE  Heard'
<1>1. /\ device'.scheduled = device.scheduled /\ heard' = heard /\ synth' = synth
      /\ device.callbacks # <<>>
  BY DEF CalledBack, Inside
<1>2. Amounts
  BY <1>1 DEF Amounts
<1>3. CASE host'.task = host.task /\ host'.requests = host.requests
  BY <1>1, <1>2, <1>3, HeardKept DEF Forward
<1>4. CASE ~(host'.task = host.task /\ host'.requests = host.requests)
  <2>. DEFINE r == host.waiter
  <2>1. /\ device.callbacks[1] = host.generation /\ host.pending = 1 /\ r # 0
        /\ TaskAt(host, host', r, "completing", host.task[r].error) /\ host'.requests = host.requests
    BY <1>4 DEF CalledBack, SameRequests
  <2>2. r \in Requests /\ host.task[r].stage = "finishing" /\ r \in host.requests
    BY <2>1, OneOpen, TasksAre
  <2>3. device.scheduled = <<>>
    BY <1>1, <2>1, NothingScheduled
  <2>4. \A q \in host.requests : q = r
    BY <2>2, OneOpen
  <2>5. Share(device'.scheduled, heard'[r], synth'[r].taken, r)
    BY <1>1, <2>2, HeardShare DEF Sounding
  <2>6. synth'[r].stage = "finished" /\ synth'[r].taken = synth'[r].made
    BY <1>1, <2>2 DEF Heard
  <2>7. \A q \in Requests : host'.task[q].stage \in Unbegun =>
          /\ heard'[q] = 0 /\ synth'[q].taken = 0
          /\ \A i \in DOMAIN device'.scheduled : device'.scheduled[i].request # q
    BY <1>1, <2>1 DEF Heard, TaskAt, Unbegun
  <2>8. \A q \in Requests : synth'[q].taken <= synth'[q].made
    BY <1>1 DEF Heard
  <2>. QED
    BY <1>1, <2>1, <2>3, <2>4, <2>5, <2>6, <2>7, <2>8 DEF Heard, Share, Unbegun, Sounding
<1>. QED
  BY <1>3, <1>4

LEMMA PlayedHeard ==
    ASSUME Ready, Heard, TypeOK', Played
    PROVE  Heard'
<1>. DEFINE s == device.scheduled
            n == Len(device.scheduled)
            q == device.scheduled[1].request
<1>1. /\ s # <<>> /\ s \in Seq(Buffer) /\ device'.scheduled = Tail(s) /\ q \in Requests
      /\ \A r \in Requests : heard'[r] = IF r = q THEN heard[r] + 1 ELSE heard[r]
      /\ UNCHANGED <<host, synth>>
  BY DEF Ready, TypeOK, Device, Played, Buffer
<1>2. /\ n \in Nat /\ n > 0 /\ Len(Tail(s)) = n - 1
      /\ DOMAIN Tail(s) = 1 .. n - 1 /\ DOMAIN s = 1 .. n
      /\ \A i \in 1 .. n - 1 : Tail(s)[i] = s[i + 1]
  BY <1>1, TailIs
<1>3. /\ 1 \in DOMAIN s /\ s[1].request = q
      /\ \A i \in DOMAIN Tail(s) : i + 1 \in DOMAIN s /\ Tail(s)[i] = s[i + 1]
  BY <1>2
<1>4. \A r \in Requests : synth'[r].taken <= synth'[r].made
  BY <1>1 DEF Heard
<1>5. ASSUME NEW r \in Requests, host'.task[r].stage \in Unbegun
      PROVE  /\ heard'[r] = 0 /\ synth'[r].taken = 0
             /\ \A i \in DOMAIN Tail(s) : Tail(s)[i].request # r
  BY <1>1, <1>3, <1>5 DEF Heard, Unbegun
<1>6. ASSUME NEW r \in host.requests, host.task[r].stage \in Sounding
      PROVE  Share(Tail(s), heard'[r], synth[r].taken, r)
  <2>. DEFINE c == synth[r].taken * Windows
              p == heard[r]
  <2>1. PICK k \in 0 .. n : (\A i \in DOMAIN s : s[i].request = r <=> i > k) /\ p + n = c + k
    BY <1>6, HeardShare DEF Share
  <2>2. r \in Requests /\ p \in Nat /\ c \in Nat /\ k \in Nat /\ k <= n
    <3>1. synth[r].taken \in Nat /\ Windows \in Nat /\ p \in Nat /\ r \in Requests
      BY SoundingIs, OneOpen
    <3>2. k \in Nat /\ k <= n
      BY <1>2, <2>1
    <3>. QED
      BY <3>1, <3>2
  <2>3. CASE k = 0
    <3>1. r = q /\ heard'[r] = p + 1
      BY <1>1, <1>3, <2>1, <2>2, <2>3
    <3>2. \A i \in DOMAIN Tail(s) : Tail(s)[i].request = r <=> i > 0
      BY <1>2, <1>3, <2>1, <2>3
    <3>3. (p + 1) + (n - 1) = c + 0 /\ 0 \in 0 .. n - 1
      <4>1. p + n = c + 0
        BY <2>1, <2>3
      <4>. HIDE DEF p, n, c
      <4>. QED
        BY <1>2, <2>2, <4>1
    <3>. QED
      BY <1>2, <3>1, <3>2, <3>3 DEF Share
  <2>4. CASE k # 0
    <3>1. r # q
      BY <1>3, <2>1, <2>2, <2>4
    <3>2. ASSUME NEW i \in DOMAIN Tail(s)
          PROVE  Tail(s)[i].request = r <=> i > k - 1
      <4>1. i \in Nat /\ i + 1 \in DOMAIN s /\ Tail(s)[i] = s[i + 1]
        BY <1>2, <1>3
      <4>2. i + 1 > k <=> i > k - 1
        BY <2>2, <4>1
      <4>. QED
        BY <2>1, <4>1, <4>2
    <3>3. p + (n - 1) = c + (k - 1) /\ k - 1 \in 0 .. n - 1
      <4>1. p + n = c + k
        BY <2>1
      <4>. HIDE DEF p, n, c
      <4>. QED
        BY <1>2, <2>2, <2>4, <4>1
    <3>4. heard'[r] = p
      BY <1>1, <2>2, <3>1
    <3>. QED
      BY <1>2, <3>2, <3>3, <3>4 DEF Share
  <2>. QED
    BY <2>3, <2>4
<1>7. \A r \in host'.requests : host'.task[r].stage \in Sounding =>
          Share(device'.scheduled, heard'[r], synth'[r].taken, r)
  BY <1>1, <1>6
<1>8. \A r \in host'.requests : host'.task[r].stage \in {"finishing", "completing"} =>
          synth'[r].stage = "finished" /\ synth'[r].taken = synth'[r].made
  BY <1>1 DEF Heard
<1>9. \A r \in host'.requests : host'.task[r].stage # "completing"
  BY <1>1 DEF Heard
<1>. QED
  BY <1>1, <1>4, <1>5, <1>7, <1>8, <1>9, SMTT(30) DEF Heard, Share, Unbegun, Sounding

LEMMA SilencingHeard ==
    ASSUME Ready, Heard, TypeOK', NEW ids \in SUBSET host.requests, Silencing(ids)
    PROVE  Heard'
<1>1. /\ TasksCut(host, host', ids) /\ host'.requests = host.requests \ ids
      /\ host'.generation = host.generation + 1
      /\ \A r \in host.requests : r \notin ids => host.task[r].stage = "created"
      /\ DeviceAfter(host') /\ heard' = heard
  BY DEF Silencing, CutMove, Cleared, PlayerSilent
<1>2. host'.generation # host.generation
  BY <1>1, SMTT(30) DEF Ready, TypeOK, Host
<1>3. device'.scheduled = <<>>
  BY <1>1, <1>2 DEF DeviceAfter
<1>4. Forward /\ Amounts
  BY CutForward, SynthAmounts DEF Silencing
<1>5. \A r \in host'.requests : host'.task[r].stage \notin Sounding
  <2>. SUFFICES ASSUME NEW r \in host'.requests
                PROVE  host'.task[r].stage \notin Sounding
    OBVIOUS
  <2>1. r \in Requests /\ host.task[r].stage = "created"
    BY <1>1, OneOpen
  <2>2. host.waiter # r
    BY <2>1, TasksAre
  <2>. QED
    BY <1>1, <2>1, <2>2 DEF TasksCut, Sounding
<1>6. \A r \in Requests : synth'[r].taken <= synth'[r].made
  BY <1>4 DEF Heard, Amounts
<1>7. \A r \in Requests : host'.task[r].stage \in Unbegun => heard'[r] = 0 /\ synth'[r].taken = 0
  BY <1>1, <1>4 DEF Heard, Amounts, Forward, Unbegun
<1>. QED
  BY <1>3, <1>5, <1>6, <1>7 DEF Heard, Unbegun, Sounding

\* What the tasks do, whether of the host's own or at Python's asking.
LEMMA QuietHeard ==
    ASSUME Ready, Heard, TypeOK', QuietMove(host'), Amounts, heard' = heard, device'.scheduled = device.scheduled
    PROVE  Heard'
<1>1. Forward
  BY QuietForward
<1>2. host'.requests = host.requests /\ host'.task = host.task
  BY DEF QuietMove, SameRequests
<1>. QED
  BY <1>1, <1>2, HeardKept

LEMMA EarlyHeard ==
    ASSUME Ready, Heard, TypeOK', NEW ids \in SUBSET host.requests, Early(ids)
    PROVE  Heard'
<1>1. Forward /\ Amounts /\ heard' = heard /\ device'.scheduled = device.scheduled
  BY EarlyForward, SynthAmounts DEF Early
<1>2. host'.requests \subseteq host.requests /\ \A r \in Requests : host'.task[r].stage = host.task[r].stage
  BY DEF Early, EarlyMove, Struck, Marked
<1>3. host'.requests \subseteq Requests
  BY SoundingIs
<1>. QED
  BY <1>1, <1>2, <1>3, HeardKept

LEMMA AcceptedHeard ==
    ASSUME Ready, Heard, TypeOK', NEW m \in Events, m.request \in Requests,
           host.task[m.request].stage = "none", Accepted(m)
    PROVE  Heard'
<1>1. Forward /\ Amounts /\ heard' = heard /\ device'.scheduled = device.scheduled
  BY AcceptForward, SynthAmounts DEF Accepted
<1>. DEFINE r == m.request
<1>2. /\ host'.requests = host.requests \cup {r} /\ host'.task[r].stage = "created"
      /\ \A q \in Requests \ {r} : host'.task[q] = host.task[q]
  BY DEF Accepted, AcceptMove
<1>3. host'.requests \subseteq Requests
  BY SoundingIs
<1>4. \A q \in host'.requests : host'.task[q].stage \in Sounding =>
               q \in host.requests /\ host.task[q].stage = host'.task[q].stage
  BY <1>2, <1>3 DEF Sounding
<1>. QED
  BY <1>1, <1>4, HeardKept

LEMMA MovesHeard ==
    ASSUME Ready, Heard, TypeOK', Moves
    PROVE  Heard'
<1>1. ASSUME NEW r \in Requests, Over(r)
      PROVE  Heard'
  <2>1. TaskStep(r, "ended", host.task[r].error) /\ host'.requests \subseteq host.requests
    BY <1>1 DEF Over
  <2>. QED
    BY <2>1, TaskHeard DEF Sounding, Unbegun
<1>2. ASSUME NEW r \in Requests, Begun(r)
      PROVE  Heard'
  <2>1. /\ TaskStep(r, "synthesizing", host.task[r].error) /\ host'.requests \subseteq host.requests
        /\ host.task[r].stage \in Unbegun
    BY <1>2 DEF Begun, Unbegun
  <2>. QED
    BY <2>1, TaskHeard DEF Sounding
<1>3. ASSUME NEW r \in Requests, NEW error \in BOOLEAN, Unwound(r, error)
      PROVE  Heard'
  <2>1. TaskStep(r, "unwinding", error) /\ host'.requests \subseteq host.requests
    BY <1>3 DEF Unwound, SameRequests
  <2>. QED
    BY <2>1, TaskHeard DEF Sounding, Unbegun
<1>4. CASE Quieted
  <2>1. Amounts
    BY <1>4, SynthAmounts DEF Quieted
  <2>. QED
    BY <1>4, <2>1, QuietHeard DEF Quieted
<1>5. CASE Silencing(host.requests)
  BY <1>5, SilencingHeard
<1>. QED
  BY <1>1, <1>2, <1>3, <1>4, <1>5, FinishedHeard, QueuedHeard, TookHeard, SynthesizedHeard, CalledBackHeard
     DEF Moves

LEMMA NextHeard == Ready /\ Heard /\ [Next]_vars => Heard'
<1>. SUFFICES ASSUME Ready, Heard, [Next]_vars
              PROVE  Heard'
  OBVIOUS
<1>1. CASE Next
  <2>1. TypeOK' /\ (Moves \/ Played \/ (\E m \in Events : Handled(m)) \/ PyStep)
    BY <1>1, Steps
  <2>2. ASSUME NEW m \in Events, Handled(m)
        PROVE  Heard'
    <3>1. CASE Quieted
      <4>1. Amounts
        BY <3>1, SynthAmounts DEF Quieted
      <4>. QED
        BY <2>1, <3>1, <4>1, QuietHeard DEF Quieted
    <3>2. CASE m.kind = "request" /\ Accepted(m)
      <4>1. m.request \in Requests /\ host.task[m.request].stage = "none"
        BY <2>2, <3>2, HeadIsNew
      <4>. QED
        BY <2>1, <3>2, <4>1, AcceptedHeard
    <3>. QED
      BY <2>1, <2>2, <3>1, <3>2, SilencingHeard, EarlyHeard DEF Handled
  <2>3. CASE PyStep
    <3>1. QuietMove(host') /\ Amounts /\ heard' = heard /\ device' = device
      BY <2>3 DEF PyStep, Elsewhere, Amounts
    <3>. QED
      BY <2>1, <3>1, QuietHeard
  <2>. QED
    BY <2>1, <2>2, <2>3, MovesHeard, PlayedHeard
<1>2. CASE UNCHANGED vars
  BY <1>2 DEF vars, Heard
<1>. QED
  BY <1>1, <1>2

-----------------------------------------------------------------------------
(* What is done was heard, and stays so.                                     *)

\* r is complete after the step.
Remains(r) ==
    /\ r \in Requests /\ host'.task[r].stage = "ended"
    /\ synth'[r].stage = "finished" /\ heard'[r] = synth'[r].made * Windows
    /\ \A i \in DOMAIN device'.scheduled : device'.scheduled[i].request # r

\* The step leaves what is complete alone.
Settles == \A r : Complete(r) => Remains(r)

\* Nothing is played or scheduled, and no request starts again.
LEMMA SameSettles ==
    ASSUME Amounts, heard' = heard, device'.scheduled = device.scheduled \/ device'.scheduled = <<>>,
           \A r \in Requests : host.task[r].stage = "ended" => host'.task[r].stage = "ended"
    PROVE  Settles
<1>. SUFFICES ASSUME NEW r, Complete(r)
              PROVE  Remains(r)
  BY DEF Settles
<1>1. \A i \in DOMAIN device'.scheduled : device'.scheduled[i].request # r
  BY DEF Complete
<1>. QED
  BY <1>1 DEF Complete, Remains, Amounts

LEMMA MovesSettle ==
    ASSUME Ready, TypeOK', Moves
    PROVE  Settles
<1>1. Ran
  BY MovesRan
<1>2. /\ \A r \in Requests : host.task[r].stage = "ended" => host'.task[r].stage = "ended"
      /\ heard' = heard
  BY <1>1 DEF Ran, Moves, Inside
<1>3. ASSUME Amounts, device'.scheduled = device.scheduled \/ device'.scheduled = <<>>
      PROVE  Settles
  BY <1>2, <1>3, SameSettles
<1>4. ASSUME NEW r \in Requests, Over(r) \/ Begun(r) \/ Unwound(r, TRUE) \/ Unwound(r, FALSE) \/ Finished(r)
      PROVE  Settles
  <2>1. SynthAfter(host', {}) /\ device' = device
    BY <1>4 DEF Over, Begun, Unwound, Finished, TaskStep
  <2>2. Amounts
    BY <2>1, SynthAmounts
  <2>. QED
    BY <1>3, <2>1, <2>2
<1>5. ASSUME NEW r \in Requests, host.task[r].stage # "ended" \/ synth[r].stage # "finished",
             \A q \in Requests : q # r => synth'[q] = synth[q],
             \A i \in DOMAIN device'.scheduled :
                 \/ i \in DOMAIN device.scheduled /\ device'.scheduled[i] = device.scheduled[i]
                 \/ device'.scheduled[i].request = r
      PROVE  Settles
  <2>. SUFFICES ASSUME NEW q, Complete(q)
                PROVE  Remains(q)
    BY DEF Settles
  <2>1. q \in Requests /\ q # r
    BY <1>5 DEF Complete
  <2>2. \A i \in DOMAIN device'.scheduled : device'.scheduled[i].request # q
    BY <1>5, <2>1 DEF Complete
  <2>. QED
    BY <1>2, <1>5, <2>1, <2>2 DEF Complete, Remains
<1>6. ASSUME NEW r \in Requests, Queued(r) \/ Took(r)
      PROVE  Settles
  <2>1. /\ host.task[r].stage # "ended" /\ \A q \in Requests : q # r => synth'[q] = synth[q]
        /\ \A i \in DOMAIN device'.scheduled :
              \/ i \in DOMAIN device.scheduled /\ device'.scheduled[i] = device.scheduled[i]
              \/ device'.scheduled[i].request = r
    BY <1>6 DEF Queued, Took
  <2>. QED
    BY <1>5, <2>1
<1>7. ASSUME NEW r \in Requests, Synthesized(r)
      PROVE  Settles
  <2>1. /\ synth[r].stage # "finished" /\ \A q \in Requests : q # r => synth'[q] = synth[q]
        /\ device' = device
    BY <1>7 DEF Synthesized
  <2>. QED
    BY <1>5, <2>1
<1>8. CASE CalledBack
  <2>1. Amounts /\ device'.scheduled = device.scheduled
    BY <1>8 DEF CalledBack, Amounts
  <2>. QED
    BY <1>3, <2>1
<1>9. CASE Quieted
  <2>1. Amounts /\ device'.scheduled = device.scheduled
    BY <1>9, SynthAmounts DEF Quieted
  <2>. QED
    BY <1>3, <2>1
<1>10. CASE Silencing(host.requests)
  <2>1. Amounts
    BY <1>10, SynthAmounts DEF Silencing
  <2>2. device'.scheduled = device.scheduled \/ device'.scheduled = <<>>
    BY <1>10 DEF Silencing, DeviceAfter
  <2>. QED
    BY <1>3, <2>1, <2>2
<1>. QED
  BY <1>4, <1>6, <1>7, <1>8, <1>9, <1>10 DEF Moves

LEMMA PlayedSettles ==
    ASSUME Ready, Played
    PROVE  Settles
<1>. SUFFICES ASSUME NEW r, Complete(r)
              PROVE  Remains(r)
  BY DEF Settles
<1>. DEFINE s == device.scheduled
<1>1. s # <<>> /\ s \in Seq(Buffer) /\ device'.scheduled = Tail(s) /\ UNCHANGED <<host, synth>>
  BY DEF Ready, TypeOK, Device, Played
<1>2. /\ 1 \in DOMAIN s
      /\ \A i \in DOMAIN Tail(s) : i + 1 \in DOMAIN s /\ Tail(s)[i] = s[i + 1]
  BY <1>1, TailIs
<1>3. r # s[1].request /\ r \in Requests
  BY <1>2 DEF Complete
<1>4. heard'[r] = heard[r]
  BY <1>3 DEF Played
<1>5. \A i \in DOMAIN device'.scheduled : device'.scheduled[i].request # r
  BY <1>1, <1>2 DEF Complete
<1>. QED
  BY <1>1, <1>4, <1>5 DEF Complete, Remains

LEMMA HandledSettles ==
    ASSUME Ready, NEW m \in Events, Handled(m)
    PROVE  Settles /\ NoNewDone(host, host')
<1>1. CASE Quieted
  <2>1. Amounts /\ heard' = heard /\ device' = device /\ host'.task = host.task /\ NoNewDone(host, host')
    BY <1>1, SynthAmounts DEF Quieted, QuietMove
  <2>. QED
    BY <2>1, SameSettles
<1>2. ASSUME NEW ids \in SUBSET host.requests, Silencing(ids)
      PROVE  Settles /\ NoNewDone(host, host')
  <2>1. Amounts /\ Ran /\ NoNewDone(host, host') /\ heard' = heard
    BY <1>2, SynthAmounts, CutRan DEF Silencing, CutMove, Cleared
  <2>2. device'.scheduled = device.scheduled \/ device'.scheduled = <<>>
    BY <1>2 DEF Silencing, DeviceAfter
  <2>. QED
    BY <2>1, <2>2, SameSettles DEF Ran
<1>3. ASSUME NEW ids \in SUBSET host.requests, Early(ids)
      PROVE  Settles /\ NoNewDone(host, host')
  <2>1. Amounts /\ Ran /\ NoNewDone(host, host') /\ heard' = heard /\ device' = device
    BY <1>3, SynthAmounts, EarlyRan, SameDone DEF Early, EarlyMove, Struck
  <2>. QED
    BY <2>1, SameSettles DEF Ran
<1>4. CASE m.kind = "request" /\ Accepted(m)
  <2>1. m.request \in Requests /\ host.task[m.request].stage = "none"
    BY <1>4, HeadIsNew
  <2>2. Amounts /\ NoNewDone(host, host') /\ heard' = heard /\ device' = device
    BY <1>4, SynthAmounts DEF Accepted, AcceptMove
  <2>3. \A q \in Requests : host.task[q].stage = "ended" => host'.task[q].stage = "ended"
    BY <1>4, <2>1 DEF Accepted, AcceptMove
  <2>. QED
    BY <2>2, <2>3, SameSettles
<1>. QED
  BY <1>1, <1>2, <1>3, <1>4 DEF Handled

\* Nothing more is said to be done.
LEMMA KnownKept ==
    ASSUME CompleteKnown, Settles, NoNewDone(host, host'), UNCHANGED py
    PROVE  CompleteKnown'
<1>1. \A i \in DOMAIN host'.sent : host'.sent[i].kind = "done" => Remains(host'.sent[i].request)
  BY DEF NoNewDone, CompleteKnown, Settles
<1>2. py'.result = "done" => Remains(py'.stream)
  BY DEF CompleteKnown, Settles
<1>3. \A r \in py'.acknowledged : Remains(r)
  BY DEF CompleteKnown, Settles
<1>. QED
  BY <1>1, <1>2, <1>3 DEF CompleteKnown, Complete, Remains

\* A task that ends well has played all that was made.
LEMMA OverKnown ==
    ASSUME Ready, Heard, CompleteKnown, TypeOK', NEW r \in Requests, Over(r)
    PROVE  CompleteKnown'
<1>1. Settles
  BY MovesSettle DEF Moves, Over, TaskStep
<1>2. ASSUME host.task[r].stage = "completing", ~host.task[r].cancelled
      PROVE  Remains(r)
  <2>1. r \in host.requests
    BY <1>2 DEF Ready, Owned, Running
  <2>2. device.scheduled = <<>> /\ synth[r].stage = "finished" /\ synth[r].taken = synth[r].made
    BY <1>2, <2>1 DEF Heard
  <2>3. heard[r] = synth[r].made * Windows
    <3>. DEFINE p == heard[r]
                c == synth[r].taken * Windows
    <3>1. PICK k \in 0 .. Len(device.scheduled) : p + Len(device.scheduled) = c + k
      BY <1>2, <2>1, HeardShare DEF Share, Sounding
    <3>2. Len(device.scheduled) = 0 /\ k = 0
      BY <2>2, <3>1
    <3>3. p \in Nat /\ c \in Nat
      BY SoundingIs
    <3>4. p + 0 = c + 0
      BY <3>1, <3>2
    <3>. HIDE DEF p, c
    <3>5. p = c
      BY <3>3, <3>4
    <3>. QED
      BY <2>2, <3>5 DEF p, c
  <2>4. /\ SynthAfter(host', {}) /\ heard' = heard /\ device' = device /\ host'.task[r].stage = "ended"
    BY DEF Over, TaskStep, TaskAt, Inside
  <2>5. Amounts
    BY <2>4, SynthAmounts
  <2>. QED
    BY <2>2, <2>3, <2>4, <2>5 DEF Remains, Amounts
<1>3. ASSUME NEW i \in DOMAIN host'.sent, host'.sent[i].kind = "done"
      PROVE  Remains(host'.sent[i].request)
  <2>1. CASE \E j \in DOMAIN host.sent : host.sent[j] = host'.sent[i]
    BY <1>1, <1>3, <2>1 DEF CompleteKnown, Settles
  <2>2. CASE host'.sent[i].request = r /\ host.task[r].stage = "completing" /\ ~host.task[r].cancelled
    BY <1>2, <2>2
  <2>. QED
    BY <1>3, <2>1, <2>2 DEF Over
<1>4. UNCHANGED py
  BY DEF Over, TaskStep, Inside
<1>5. py'.result = "done" => Remains(py'.stream)
  BY <1>1, <1>4 DEF CompleteKnown, Settles
<1>6. \A q \in py'.acknowledged : Remains(q)
  BY <1>1, <1>4 DEF CompleteKnown, Settles
<1>. QED
  BY <1>3, <1>5, <1>6 DEF CompleteKnown, Complete, Remains

\* What a step of the host's own says to be done, it had played.
LEMMA MovesKnown ==
    ASSUME Ready, Heard, CompleteKnown, TypeOK', Moves
    PROVE  CompleteKnown'
<1>1. Settles /\ UNCHANGED py
  BY MovesSettle DEF Moves, Inside
<1>2. ASSUME NoNewDone(host, host')
      PROVE  CompleteKnown'
  BY <1>1, <1>2, KnownKept
<1>3. ASSUME NEW r \in Requests, \/ Begun(r) \/ Unwound(r, TRUE) \/ Unwound(r, FALSE)
                                 \/ Finished(r) \/ Queued(r) \/ Took(r) \/ Synthesized(r)
      PROVE  NoNewDone(host, host')
  BY <1>3, SameDone DEF Begun, Unwound, Finished, Queued, Took, Synthesized
<1>4. CASE CalledBack
  <2>1. NoNewDone(host, host')
    BY <1>4, SameDone DEF CalledBack
  <2>. QED
    BY <1>2, <2>1
<1>5. CASE Quieted \/ Silencing(host.requests)
  <2>1. NoNewDone(host, host')
    BY <1>5 DEF Quieted, QuietMove, Silencing, CutMove, Cleared
  <2>. QED
    BY <1>2, <2>1
<1>. QED
  BY <1>2, <1>3, <1>4, <1>5, OverKnown DEF Moves

\* Python takes a sentence for done only when it was told so.
LEMMA PyStepKnown ==
    ASSUME Ready, CompleteKnown, PyStep
    PROVE  CompleteKnown'
<1>1. /\ host'.task = host.task /\ NoNewDone(host, host')
      /\ heard' = heard /\ device' = device /\ Amounts
  BY DEF PyStep, QuietMove, Elsewhere, Amounts
<1>2. Settles
  BY <1>1, SameSettles
<1>3. \A i \in DOMAIN host'.sent : host'.sent[i].kind = "done" => Remains(host'.sent[i].request)
  BY <1>1, <1>2 DEF NoNewDone, CompleteKnown, Settles
<1>4. ASSUME py'.result = "done"
      PROVE  Remains(py'.stream)
  <2>1. CASE Keeps
    <3>1. py'.stream = py.stream
      BY <2>1 DEF Keeps
    <3>2. py.result = "done" \/ \E i \in DOMAIN host.sent : host.sent[i].kind = "done" /\ host.sent[i].request = py.stream
      BY <1>4, <2>1 DEF Keeps
    <3>. QED
      BY <1>2, <3>1, <3>2 DEF CompleteKnown, Settles
  <2>2. CASE Requested
    <3>1. py.result = "done" /\ py.stream = 0
      BY <1>4, <2>2 DEF Requested
    <3>. QED
      BY <3>1 DEF Ready, StreamKnown
  <2>3. CASE Drops \/ Acknowledges
    BY <1>4, <2>3 DEF Drops, Acknowledges
  <2>. QED
    BY <2>1, <2>2, <2>3 DEF PyStep
<1>5. \A r \in py'.acknowledged : Remains(r)
  <2>1. CASE Keeps \/ Drops \/ Requested
    <3>1. py'.acknowledged = py.acknowledged
      BY <2>1 DEF Keeps, Drops, Requested
    <3>. QED
      BY <1>2, <3>1 DEF CompleteKnown, Settles
  <2>2. CASE Acknowledges
    BY <1>2, <2>2 DEF Acknowledges, CompleteKnown, Settles
  <2>. QED
    BY <2>1, <2>2 DEF PyStep
<1>. QED
  BY <1>3, <1>4, <1>5 DEF CompleteKnown, Complete, Remains

LEMMA NextKnown == Ready /\ Heard /\ CompleteKnown /\ [Next]_vars => CompleteKnown'
<1>. SUFFICES ASSUME Ready, Heard, CompleteKnown, [Next]_vars
              PROVE  CompleteKnown'
  OBVIOUS
<1>1. CASE Next
  <2>1. TypeOK' /\ (Moves \/ Played \/ (\E m \in Events : Handled(m)) \/ PyStep)
    BY <1>1, Steps
  <2>2. CASE Played
    <3>1. Settles
      BY <2>2, PlayedSettles
    <3>2. NoNewDone(host, host') /\ UNCHANGED py
      BY <2>2, SameDone DEF Played
    <3>. QED
      BY <3>1, <3>2, KnownKept
  <2>3. ASSUME NEW m \in Events, Handled(m)
        PROVE  CompleteKnown'
    <3>1. Settles /\ NoNewDone(host, host')
      BY <2>3, HandledSettles
    <3>2. UNCHANGED py
      BY <2>3 DEF Handled
    <3>. QED
      BY <3>1, <3>2, KnownKept
  <2>. QED
    BY <2>1, <2>2, <2>3, MovesKnown, PyStepKnown
<1>2. CASE UNCHANGED vars
  BY <1>2 DEF vars, CompleteKnown, Complete
<1>. QED
  BY <1>1, <1>2

-----------------------------------------------------------------------------
(* The theorems.                                                             *)

\* PCMPlayer throws away buffers only of a request that was cancelled or had failed: an
\* old cancellation, however late its handler runs, leaves the new reply's alone.
THEOREM OldCancellationSpares == Spec => []CancelSparesNewReply
<1>1. Init => CancelSparesNewReply
  BY DEF Init, CancelSparesNewReply
<1>2. Ready /\ CancelSparesNewReply /\ [Next]_vars => CancelSparesNewReply'
  <2>1. UNCHANGED vars /\ CancelSparesNewReply => CancelSparesNewReply'
    BY DEF vars, CancelSparesNewReply
  <2>. QED
    BY <2>1, CutKept
<1>. QED
  BY <1>1, <1>2, AlwaysReady, PTL DEF Spec

\* PocketTTSSynthesizer runs one inference at a time, cancelled ones included: each waits
\* for the one before it, and a new conversation for the unloading of the old.
THEOREM OneInference == Spec => []SoleInference
BY AlwaysReady, InitLine, NextInLine, LineIsSole, PTL DEF Spec

\* A sentence that AppleTTSService acknowledges was synthesized to its end and every
\* buffer of it left the loudspeaker.
THEOREM AcknowledgedIsHeard == Spec => []AcknowledgedMeansHeard
<1>1. Init => Heard /\ CompleteKnown
  <2>. SUFFICES ASSUME Init
                PROVE  Heard /\ CompleteKnown
    OBVIOUS
  <2>1. host = Host0 /\ device.scheduled = <<>> /\ py.acknowledged = {} /\ py.result = "none"
    BY DEF Init
  <2>2. host.requests = {} /\ host.sent = <<>>
    BY <2>1 DEF Host0
  <2>3. \A r \in Requests : heard[r] = 0 /\ synth[r].taken = 0 /\ synth[r].made = 0
    BY DEF Init
  <2>. QED
    BY <2>1, <2>2, <2>3 DEF Heard, CompleteKnown
<1>2. CompleteKnown => AcknowledgedMeansHeard
  BY DEF CompleteKnown, Complete, AcknowledgedMeansHeard
<1>. QED
  BY <1>1, <1>2, AlwaysReady, NextHeard, NextKnown, PTL DEF Spec
=============================================================================
