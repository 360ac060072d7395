---------------------------- MODULE SpeechContexts ----------------------------
(***************************************************************************)
(* TTSService as the app uses it (AppleNativeTTSService): how the sentences *)
(* of a response become native requests, and how everything the service     *)
(* emits is brought back into order.                                        *)
(*                                                                         *)
(* The process task handles frames and waits for the native speech of a     *)
(* sentence.  What a response has to say downstream goes into its audio     *)
(* context; contexts, and the frames between them, stand in one             *)
(* serialization queue, which a task of its own drains.  The input task     *)
(* handles an interruption: it cancels the process task and the audio task, *)
(* waits for each, and starts both anew.                                    *)
(*                                                                         *)
(* The LLM gives one response to a turn, and the response's audio context   *)
(* is known by that turn.  The handler of a service method is a function    *)
(* from the service's state to its next one.                                *)
(***************************************************************************)
EXTENDS Naturals, Sequences, FiniteSets

CONSTANTS
    MaxTurns,     \* bound: user turns
    MaxTexts,     \* bound: text frames of a response
    MaxFlushes,   \* bound: flush probes of the worker
    MaxErrors,    \* bound: native requests that fail
    Endings       \* whether the worker may end the pipeline, a subset of BOOLEAN

ASSUME ContextsAssumption ==
    /\ {MaxTurns, MaxTexts} \subseteq Nat \ {0}
    /\ {MaxFlushes, MaxErrors} \subseteq Nat
    /\ Endings \subseteq BOOLEAN /\ Endings # {}

VARIABLES
    turn, turns,  \* the bridge's turn, and the turns drawn
    breaking,     \* an interruption is on its way to the LLM
    llm,          \* the response the LLM gives: turn, stage, text frames sent
    urgent,       \* InterruptionFrames in the service's input queue
    inq, procq,   \* other frames there, and in the process queue
    intask,       \* the input task: "idle", or the task whose end it awaits
    proc,         \* the process task: what it handles and waits for
    tts,          \* the service's fields
    audio,        \* the audio context task and the context it plays
    out,          \* emitted downstream since the last InterruptionFrame
    silent,       \* _consecutive_zero_audio_contexts
    flushes,      \* flush probes sent, and those that went on downstream
    failures,     \* native requests that failed
    ending        \* the EndFrame: "never", "due", "sent", "emitted"

given == <<turn, turns, breaking>>
queues == <<urgent, inq, procq>>
service == <<intask, proc, tts, audio>>
counts == <<flushes, failures, ending>>
vars == <<given, llm, queues, service, out, silent, counts>>

None == 0
Turns == 1 .. MaxTurns

Frame(kind, t, n) == [kind |-> kind, turn |-> t, n |-> n]
NoFrame == Frame("none", None, 0)
Uninterruptible == {"call", "flush", "finish"}

Idle == [pc |-> "idle", frame |-> NoFrame]
\* A task that has just been created; a cancelled one is gone.
Draining == [alive |-> TRUE, context |-> None, stopped |-> FALSE, received |-> FALSE, failed |-> FALSE]
Gone == [Draining EXCEPT !.alive = FALSE]

NewService(serial) ==
    [response |-> None,      \* _response_turn
     context |-> None,       \* _turn_context_id
     remainder |-> FALSE,    \* the aggregator holds text of an unfinished sentence
     serial |-> serial,      \* _serialization_queue
     open |-> {},            \* _audio_contexts, and the queue of each
     queue |-> [t \in Turns |-> <<>>],
     owned |-> {}]           \* _context_turns

Init ==
    /\ turn = None /\ turns = 0 /\ breaking = FALSE
    /\ llm = [turn |-> None, stage |-> "none", texts |-> 0, called |-> FALSE]
    /\ urgent = 0 /\ inq = <<>> /\ procq = <<>>
    /\ intask = "idle" /\ proc = Idle /\ tts = NewService(<<>>) /\ audio = Draining
    /\ out = <<>> /\ silent = 0
    /\ flushes = [sent |-> 0, passed |-> 0] /\ failures = 0
    /\ \E e \in Endings : ending = IF e THEN "due" ELSE "never"

-----------------------------------------------------------------------------
(* Audio contexts *)

Put(s, item) == [s EXCEPT !.serial = Append(@, item)]

\* create_audio_context.
Create(s, c) ==
    [Put(s, Frame("context", c, 0)) EXCEPT !.open = @ \cup {c}, !.queue[c] = <<>>]

\* append_to_audio_context: the context of the turn is created again if need be.
AppendTo(s, c, item) ==
    IF c \in s.open THEN [s EXCEPT !.queue[c] = Append(@, item)]
    ELSE IF c = s.context THEN [Create(s, c) EXCEPT !.queue[c] = <<item>>]
    ELSE s

\* _push_tts_frames up to the request: the sentence is announced in front of its
\* context, or in it, and the context begins with a TTSStartedFrame.
Announce(s, n) ==
    LET c == s.context
    IN  IF c \in s.open THEN AppendTo(s, c, Frame("agg", c, n))
        ELSE AppendTo(Put(s, Frame("agg", c, n)), c, Frame("started", c, 0))

\* on_turn_context_completed.
Complete(s) ==
    LET c == s.context
        closed == AppendTo(AppendTo(s, c, Frame("stopped", c, 0)), c, Frame("close", c, 0))
    IN  [IF c \in s.open THEN closed ELSE s EXCEPT !.context = None]

\* The end of a response stands behind its context; a response without one is
\* forgotten at once.
EndResponse(s) ==
    LET c == s.context
        ended == [Complete(Put(s, Frame("end", s.response, 0))) EXCEPT !.response = None]
    IN  IF c \in ended.open THEN ended ELSE [ended EXCEPT !.owned = @ \ {c}]

-----------------------------------------------------------------------------
(* The process task *)

\* AppleNativeTTSService.process_frame rejects what is stale.
Wanted(f) == f.turn = turn /\ f.turn = tts.response

\* What is spoken carries the turn the service knows for its context.
SpokenKinds == {"agg", "started", "played", "words", "stopped"}
Tagged(item) ==
    IF item.kind \in SpokenKinds /\ item.turn \notin tts.owned
    THEN [item EXCEPT !.turn = None] ELSE item

\* A frame goes on downstream; the LLM waits for a function call that does.
PassOn(f) ==
    /\ out' = IF f.kind \in {"flush", "call"} THEN out ELSE Append(out, f)
    /\ flushes' = IF f.kind = "flush" THEN [flushes EXCEPT !.passed = @ + 1] ELSE flushes
    /\ llm' = IF f.kind = "call" /\ llm.turn = f.turn /\ llm.stage = "calling"
              THEN [llm EXCEPT !.stage = "open"] ELSE llm

Begin(f) ==
    /\ f.kind = "start" /\ proc' = Idle
    /\ tts' = IF f.turn # turn THEN tts
              ELSE [Put(tts, f) EXCEPT !.response = f.turn, !.context = f.turn,
                                       !.owned = @ \cup {f.turn}]
    /\ UNCHANGED <<llm, out, counts>>

\* run_tts refuses a context whose turn is over by cancelling itself, and with it
\* the process task.
Speak(f, n) ==
    /\ tts' = [Announce(tts, n) EXCEPT !.remainder = FALSE]
    /\ proc' = [pc |-> IF tts.context = turn /\ turn \in tts.owned THEN "speaking" ELSE "dead",
                frame |-> [f EXCEPT !.turn = tts.context, !.n = n]]

\* Text completes a sentence, is held back by the aggregator, or has nothing to speak.
Text(f) ==
    /\ f.kind = "text"
    /\ \/ Wanted(f) /\ Speak(f, f.n)
       \/ Wanted(f) /\ tts' = [tts EXCEPT !.remainder = TRUE] /\ proc' = Idle
       \/ UNCHANGED tts /\ proc' = Idle
    /\ UNCHANGED <<llm, out, counts>>

\* Mutant: the end of a response does not wait for its context.
EndAtOnce(f) ==
    /\ f.kind = "end" /\ proc' = Idle
    /\ IF Wanted(f) THEN out' = Append(out, f) /\ tts' = [Complete(tts) EXCEPT !.response = None]
       ELSE UNCHANGED <<out, tts>>
    /\ UNCHANGED <<llm, counts>>

End(f) ==
    /\ f.kind = "end"
    /\ IF Wanted(f) /\ tts.remainder THEN Speak(f, f.n)
       ELSE tts' = (IF Wanted(f) THEN EndResponse(tts) ELSE tts) /\ proc' = Idle
    /\ UNCHANGED <<llm, out, counts>>

\* Mutant: a function call waits for the context of its own response.
CallInOrder(f) ==
    /\ f.kind = "call" /\ proc' = Idle
    /\ tts' = Put(tts, f)
    /\ UNCHANGED <<llm, out, counts>>

\* Frames of function calls bypass the queue: the response waits for the result.
Call(f) ==
    /\ f.kind = "call" /\ proc' = Idle
    /\ PassOn(f)
    /\ UNCHANGED <<tts, failures, ending>>

\* Other frames are emitted behind the contexts that came before them.
Flush(f) ==
    /\ f.kind = "flush" /\ proc' = Idle /\ tts' = Put(tts, f)
    /\ UNCHANGED <<llm, out, counts>>

\* stop(): the audio task is to end behind all that is queued, and is awaited.
Finish(f) ==
    /\ f.kind = "finish" /\ tts' = Put(tts, NoFrame) /\ proc' = [pc |-> "draining", frame |-> f]
    /\ UNCHANGED <<llm, out, counts>>

Take ==
    /\ proc.pc = "idle" /\ procq # <<>>
    /\ procq' = Tail(procq)
    /\ LET f == Head(procq)
       IN  Begin(f) \/ Text(f) \/ End(f) \/ Call(f) \/ Flush(f) \/ Finish(f)
    /\ UNCHANGED <<given, urgent, inq, intask, audio, silent>>

\* The EndFrame goes on behind everything.
FinishEnd(s) ==
    /\ out' = Append(out, Frame("finish", None, 0)) /\ ending' = "emitted"
    /\ tts' = [Complete(s) EXCEPT !.response = None, !.owned = {}]
    /\ proc' = Idle /\ UNCHANGED flushes

\* The handler goes on behind a sentence.
GoOn(s) ==
    IF proc.frame.kind = "finish" THEN FinishEnd(s)
    ELSE /\ tts' = (IF proc.frame.kind = "end" THEN EndResponse(s) ELSE s) /\ proc' = Idle
         /\ UNCHANGED <<out, flushes, ending>>

\* The native request ended: the acknowledgment and then the words, or the error.
Spoken(c, n, ok) ==
    IF ok THEN AppendTo(AppendTo(tts, c, Frame("played", c, n)), c, Frame("words", c, n))
    ELSE AppendTo(tts, c, Frame("error", c, n))

\* A request whose turn is over raises CancelledError.
SpeechEnds ==
    /\ proc.pc = "speaking"
    /\ \E ok \in BOOLEAN :
           /\ ok \/ failures < MaxErrors
           /\ IF proc.frame.turn = turn
              THEN GoOn(Spoken(proc.frame.turn, proc.frame.n, ok))
              ELSE proc' = [proc EXCEPT !.pc = "dead"] /\ UNCHANGED <<tts, out, flushes, ending>>
           /\ failures' = IF ok THEN failures ELSE failures + 1
    /\ UNCHANGED <<given, llm, queues, intask, audio, silent>>

\* Behind stop(): what the aggregator still holds is spoken.
Drained ==
    /\ proc.pc = "drained"
    /\ IF tts.remainder THEN Speak(proc.frame, MaxTexts) /\ UNCHANGED <<out, flushes, ending>>
       ELSE FinishEnd(tts)
    /\ UNCHANGED <<failures, given, llm, queues, intask, audio, silent>>

-----------------------------------------------------------------------------
(* The audio context task *)

Serve ==
    /\ audio.alive /\ audio.context = None /\ tts.serial # <<>>
    /\ tts' = [tts EXCEPT !.serial = Tail(@)]
    /\ LET item == Head(tts.serial)
       IN  \/ /\ item.kind = "context" /\ item.turn \in tts.open
              /\ audio' = [Draining EXCEPT !.context = item.turn]
              /\ UNCHANGED <<proc, llm, out, flushes>>
           \/ /\ item.kind = "none" /\ audio' = Gone
              /\ proc' = [proc EXCEPT !.pc = "drained"]
              /\ UNCHANGED <<llm, out, flushes>>
           \/ /\ item.kind \notin {"context", "none"}
              /\ PassOn(Tagged(item)) /\ UNCHANGED <<audio, proc>>
    /\ UNCHANGED <<given, queues, intask, silent, failures, ending>>

\* Mutant: an error counts as silence.
BlamedAnyway(a) == ~a.received
\* _record_context_audio_outcome: a context with neither audio nor an error.
Blamed(a) == ~a.received /\ ~a.failed

\* _handle_audio_context, one item; `close` is its end marker.
Play ==
    /\ audio.context # None /\ tts.queue[audio.context] # <<>>
    /\ LET c == audio.context
           item == Head(tts.queue[c])
           rest == [tts EXCEPT !.queue[c] = Tail(@)]
           stop == Tagged(Frame("stopped", c, 0))
       IN  IF item.kind = "close"
           THEN /\ tts' = [rest EXCEPT !.open = @ \ {c}, !.owned = @ \ {c}]
                /\ audio' = Draining
                /\ out' = IF audio.stopped THEN out ELSE Append(out, stop)
                /\ silent' = CASE Blamed(audio) -> silent + 1
                               [] audio.received /\ ~audio.failed -> 0
                               [] OTHER -> silent
           ELSE /\ tts' = rest
                /\ audio' = [audio EXCEPT !.stopped = @ \/ item.kind = "stopped",
                                          !.received = @ \/ item.kind = "played",
                                          !.failed = @ \/ item.kind = "error"]
                /\ out' = IF item.kind = "error" THEN out ELSE Append(out, Tagged(item))
                /\ UNCHANGED silent
    /\ UNCHANGED <<given, llm, queues, intask, proc, counts>>

-----------------------------------------------------------------------------
(* The input task *)

Move ==
    /\ intask = "idle" /\ urgent = 0 /\ inq # <<>>
    /\ procq' = Append(procq, Head(inq)) /\ inq' = Tail(inq)
    /\ UNCHANGED <<given, llm, urgent, service, out, silent, counts>>

\* FrameQueue.reset takes the frames out one by one and puts these kinds back.
\* (A function rather than SelectSeq, which the proof system cannot look into.)
Keep(q, kinds) ==
    LET kept[i \in 0 .. Len(q)] ==
            IF i = 0 THEN <<>>
            ELSE IF q[i].kind \in kinds THEN Append(kept[i - 1], q[i]) ELSE kept[i - 1]
    IN  kept[Len(q)]
Kept(q) == Keep(q, Uninterruptible)

\* _handle_interruption up to the end of the audio task, which it cancels.
CancelAudio ==
    /\ tts' = [tts EXCEPT !.remainder = FALSE]
    /\ audio' = Gone /\ intask' = "audio" /\ procq' = Kept(procq)

\* _start_interruption cancels the process task and waits for it, unless what it
\* handles is uninterruptible.
Interrupt ==
    /\ intask = "idle" /\ urgent > 0 /\ urgent' = urgent - 1
    /\ IF proc.frame.kind \in Uninterruptible
       THEN CancelAudio /\ UNCHANGED proc
       ELSE /\ proc' = [pc |-> "cancelled", frame |-> NoFrame] /\ intask' = "process"
            /\ UNCHANGED <<tts, audio, procq>>
    /\ UNCHANGED <<given, llm, inq, out, silent, counts>>

ProcessCancelled ==
    /\ intask = "process" /\ proc' = Idle /\ CancelAudio
    /\ UNCHANGED <<given, llm, urgent, inq, out, silent, counts>>

\* Mutant: the frames in the queue go with the contexts.
EmptiedOfAll(serial) == <<>>
\* Mutant: the identities of the contexts stay in the queue.
EmptiedOfFrames(serial) == Keep(serial, Uninterruptible \cup {"context"})
\* FrameQueue.reset: identities of contexts and the sentinel are no frames.
Emptied(serial) == Kept(serial)

\* The audio task has ended.  Whoever awaits it in stop() is cancelled with it.
AudioCancelled ==
    /\ intask = "audio" /\ intask' = "idle"
    /\ tts' = NewService(Emptied(tts.serial))
    /\ audio' = Draining /\ out' = <<>>
    /\ proc' = IF proc.pc = "draining" THEN [proc EXCEPT !.pc = "dead"] ELSE proc
    /\ UNCHANGED <<given, llm, queues, silent, counts>>

-----------------------------------------------------------------------------
(* The bridge, the LLM and the worker *)

\* A turn is confirmed, or a conversation stopped or interrupted; an interruption
\* follows through the pipeline.
TurnOver ==
    /\ ~breaking /\ breaking' = TRUE
    /\ \/ turns < MaxTurns /\ turns' = turns + 1 /\ turn' = turns + 1
       \/ turn # None /\ turn' = None /\ UNCHANGED turns
    /\ UNCHANGED <<llm, queues, service, out, silent, counts>>

\* The LLM is interrupted and passes the interruption on.
Break ==
    /\ breaking /\ breaking' = FALSE
    /\ llm' = [llm EXCEPT !.stage = "none"] /\ urgent' = urgent + 1
    /\ UNCHANGED <<turn, turns, inq, procq, service, out, silent, counts>>

Send(f) == inq' = Append(inq, f) /\ UNCHANGED <<given, urgent, procq, service, out, silent>>

Respond ==
    /\ llm.stage = "none" /\ turn # None /\ llm.turn # turn /\ ~breaking /\ ending \notin {"sent", "emitted"}
    /\ llm' = [turn |-> turn, stage |-> "open", texts |-> 0, called |-> FALSE]
    /\ Send(Frame("start", turn, 0)) /\ UNCHANGED counts

Generate ==
    /\ llm.stage = "open" /\ llm.turn = turn
    /\ \/ /\ llm.texts < MaxTexts
          /\ llm' = [llm EXCEPT !.texts = @ + 1]
          /\ Send(Frame("text", turn, llm.texts + 1))
       \/ /\ ~llm.called /\ llm' = [llm EXCEPT !.stage = "calling", !.called = TRUE]
          /\ Send(Frame("call", turn, 0))
       \/ /\ llm.texts > 0
          /\ llm' = [llm EXCEPT !.stage = "none"] /\ Send(Frame("end", turn, llm.texts))
    /\ UNCHANGED counts

\* An error, or a turn that is over: the response has no end.
Abandon ==
    /\ llm.stage = "open" /\ llm' = [llm EXCEPT !.stage = "none"]
    /\ UNCHANGED <<given, queues, service, out, silent, counts>>

\* The worker's frames pass the LLM between two responses.
Worker ==
    /\ llm.stage = "none" /\ ending \notin {"sent", "emitted"} /\ UNCHANGED <<llm, failures>>
    /\ \/ /\ flushes.sent < MaxFlushes
          /\ flushes' = [flushes EXCEPT !.sent = @ + 1]
          /\ Send(Frame("flush", llm.turn, 0)) /\ UNCHANGED ending
       \/ /\ ending = "due" /\ ending' = "sent"
          /\ Send(Frame("finish", None, 0)) /\ UNCHANGED flushes

Proceed ==
    \/ Take \/ SpeechEnds \/ Drained \/ Serve \/ Play
    \/ Move \/ Interrupt \/ ProcessCancelled \/ AudioCancelled \/ Break
Surroundings == TurnOver \/ Respond \/ Generate \/ Abandon \/ Worker

Next == Proceed \/ Surroundings
Spec == Init /\ [][Next]_vars

\* Tasks run, and a native request ends.
FairSpec == Spec /\ WF_vars(Proceed)

-----------------------------------------------------------------------------
(* Properties *)

Where(kind, t) == {i \in DOMAIN out : out[i].kind = kind /\ out[i].turn = t}
Of(i) == Where("start", out[i].turn)
Before(S, i) == \E j \in S : j < i

\* Downstream of the service one response follows another: since the last
\* interruption there is one, it opens with its start, and what is spoken stands
\* between that and its end, a sentence's words behind its playback and that
\* behind its announcement.
OutputInOrder ==
    \A i \in DOMAIN out :
        /\ out[i].kind \in SpokenKinds \cup {"end"} => Before(Of(i), i)
        /\ out[i].kind \in SpokenKinds => ~Before(Where("end", out[i].turn), i)
        /\ out[i].kind = "words" => Before({j \in Where("played", out[i].turn) : out[j].n = out[i].n}, i)
        /\ out[i].kind = "played" => Before({j \in Where("agg", out[i].turn) : out[j].n = out[i].n}, i)
        /\ out[i].kind = "start" => \A j \in DOMAIN out : out[j].kind = "start" => j = i

\* A flush probe is never lost, whatever is interrupted while it waits.
Holds(q, kind) == Cardinality({i \in DOMAIN q : q[i].kind = kind})
FlushSurvives ==
    flushes.sent = flushes.passed + Holds(inq, "flush") + Holds(procq, "flush") + Holds(tts.serial, "flush")

\* No context is counted as silent because the user cut it off or because its
\* playback failed: the service is never given up as unusable for it.
NeverBlamed == silent = 0

\* The audio task finds every context the queue names, and finds it once: a lookup
\* that fails would end the task and with it all output.
Named == {i \in DOMAIN tts.serial : tts.serial[i].kind = "context"}
ContextsExist ==
    /\ \A i \in Named : tts.serial[i].turn \in tts.open \ {audio.context}
    /\ \A i, j \in Named : tts.serial[i].turn = tts.serial[j].turn => i = j
    /\ audio.context # None => audio.context \in tts.open

\* Nobody waits for ever: the end of a response that is not cut off is emitted, and
\* a function call is passed on although the response it belongs to still waits.
Ended(t) == \E i \in DOMAIN (procq \o inq) : (procq \o inq)[i] = Frame("end", t, llm.texts)
EverythingDrains ==
    /\ \A t \in Turns : (llm.turn = t /\ Ended(t)) ~> (turn # t \/ Where("end", t) # {})
    /\ llm.stage = "calling" ~> llm.stage # "calling"
=============================================================================
