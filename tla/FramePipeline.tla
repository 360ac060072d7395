---------------------------- MODULE FramePipeline ----------------------------
(***************************************************************************)
(* A pipeline worker and its chain of frame processors: how frames are     *)
(* queued, handled, interrupted, held back, drained and cancelled          *)
(* (frame_processor.py, frame_queue.py, pipeline.py, worker.py).           *)
(*                                                                         *)
(* Each processor runs two tasks.  Its input task takes the frames that    *)
(* arrive, system frames first, handles those itself and moves all others  *)
(* to the process queue.  Its process task handles that queue.  A handler  *)
(* awaits its service, so it is two steps: the frame is taken, which is    *)
(* where the base class acts on it, and later the handler pushes what it   *)
(* has to push.  The source and the sink run in direct mode: what they do  *)
(* is part of the step that pushes a frame to them.                        *)
(*                                                                         *)
(* Four processors have a role of their own in a voice pipeline: one turns *)
(* speech into interruptions (STT), one answers contexts (LLM), one holds  *)
(* frames back while its audio plays (TTS with pause_frame_processing) and *)
(* one sends the context of a function result back up (the aggregator).    *)
(***************************************************************************)
EXTENDS Naturals, Sequences

CONSTANTS
    N,                                    \* processors between source and sink
    Breaker, Model, Speaker, Aggregator,  \* which of them has which role
    Scripts,      \* what the application queues, as sequences of kinds
    MaxSpeech     \* bound: utterances that interrupt

Procs == 1 .. N

System == {"start", "cancel", "interrupt", "speech", "stopped"}
Terminal == {"end", "stop"}
Uninterruptible == {"result", "endworker", "flush"} \cup Terminal
Interruptible == {"text", "turnend", "context", "reply"}
Kinds == System \cup Uninterruptible \cup Interruptible

ASSUME PipelineAssumption ==
    /\ N \in Nat \ {0}
    /\ {Breaker, Model, Speaker, Aggregator} \subseteq Procs
    /\ Breaker # Speaker
    /\ Scripts \subseteq Seq(Uninterruptible \cup {"text", "turnend"})
    /\ MaxSpeech \in Nat

VARIABLES
    urgent,      \* input queues: the StartFrame and the system frames
    waiting,     \* input queues: data and control frames, the lower tier
    listening,   \* processors whose input task runs
    intask,      \* the system frame each input task is handling
    procq,       \* process queues
    working,     \* processors whose process task runs
    current,     \* the frame each process task took last, while it handles it
                 \* and after the task is cancelled
    gate,        \* the speaker's pause: flag, event, and whether its task waits
    audio,       \* whether the speaker has audio open: "none", "open", "reported"
    cancelling,  \* processors, source and sink that have handled a CancelFrame
    pushq,       \* the worker's push queue
    pushing,     \* the push task: "new", "starting", "running", "finished", or
                 \* the kind of the terminal frame it waits for
    started, ended,  \* the worker's start and end events
    cancelled,   \* the worker has been cancelled
    arrived,     \* queued frames that have completed their trip
    script,      \* what the application queued, by identity
    speech       \* utterances left

input == <<urgent, waiting, listening, intask>>
process == <<procq, working, current>>
voice == <<gate, audio>>
worker == <<pushq, pushing, started, ended, cancelled>>
given == <<script, speech>>
vars == <<input, process, voice, cancelling, worker, arrived, given>>

-----------------------------------------------------------------------------
(* Frames.  A frame keeps the identity of the queued frame it stems from.   *)

Frame(kind, id, dir) == [kind |-> kind, id |-> id, dir |-> dir, back |-> FALSE]
Down(kind, id) == Frame(kind, id, "down")
Up(kind, id) == Frame(kind, id, "up")
Frames == [kind: Kinds, id: Nat, dir: {"down", "up"}, back: BOOLEAN]
NoFrame == Down("none", 0)

Source == 0
Sink == N + 1

Queued(kinds) == [i \in 1 .. Len(kinds) |-> Down(kinds[i], i)]

Init ==
    /\ urgent = [p \in Procs |-> <<>>] /\ waiting = [p \in Procs |-> <<>>]
    /\ listening = {} /\ working = {} /\ cancelling = {}
    /\ intask = [p \in Procs |-> NoFrame] /\ current = [p \in Procs |-> NoFrame]
    /\ procq = [p \in Procs |-> <<>>]
    /\ gate = [block |-> FALSE, set |-> FALSE, asleep |-> FALSE] /\ audio = "none"
    /\ script \in Scripts /\ pushq = Queued(script)
    /\ pushing = "new" /\ started = FALSE /\ ended = FALSE /\ cancelled = FALSE
    /\ arrived = {} /\ speech = MaxSpeech

-----------------------------------------------------------------------------
(* Pushing *)

Hop(p, f) == IF f.dir = "down" THEN p + 1 ELSE p - 1

\* Mutant: the probe is done when it reaches the source.
LandingOneTrip(p, f) ==
    IF Hop(p, f) = Sink /\ f.kind \in {"flush", "endworker"}
    THEN [at |-> N, frame |-> [f EXCEPT !.dir = "up"]]
    ELSE [at |-> Hop(p, f), frame |-> f]

\* The flush probe bounces at both ends; so does a frame that asks the worker to end.
Landing(p, f) ==
    LET q == Hop(p, f)
    IN  CASE q = Sink /\ (f.kind = "endworker" \/ (f.kind = "flush" /\ ~f.back)) ->
                 [at |-> N, frame |-> [f EXCEPT !.dir = "up"]]
          [] q = Source /\ f.kind = "flush" ->
                 [at |-> 1, frame |-> [f EXCEPT !.dir = "down", !.back = TRUE]]
          [] OTHER -> [at |-> q, frame |-> f]

\* What q holds at the places in I, in order.  (A function along q rather than
\* SelectSeq, which the proof system cannot look into.)
Only(q, I) ==
    LET kept[i \in 0 .. Len(q)] ==
            IF i = 0 THEN <<>> ELSE IF i \in I THEN Append(kept[i - 1], q[i]) ELSE kept[i - 1]
    IN  kept[Len(q)]

\* queue_frame: what is cancelling takes nothing more.
Landings(p, fs) ==
    LET landed == [i \in DOMAIN fs |-> Landing(p, fs[i])]
    IN  Only(landed, {i \in DOMAIN fs : {Hop(p, fs[i]), landed[i].at} \cap cancelling = {}})

Arriving(q, ls, tier) ==
    LET here == Only(ls, {i \in DOMAIN ls : ls[i].at = q /\ (ls[i].frame.kind \in System) = tier})
    IN  [i \in DOMAIN here |-> here[i].frame]

\* FrameProcessorQueue: the StartFrame goes first, system frames before all others.
PutUrgent(q, fs) ==
    LET starts == {i \in DOMAIN fs : fs[i].kind = "start"}
    IN  Only(fs, starts) \o q \o Only(fs, DOMAIN fs \ starts)

\* The processors and the worker receive ls; q is the push queue before.
Reaches(ls, kind, end) == \E i \in DOMAIN ls : ls[i].frame.kind = kind /\ ls[i].at = end
Deliver(ls, q) ==
    LET done == {i \in DOMAIN ls : ls[i].at \in {Source, Sink} /\ ls[i].frame.id > 0
                                   /\ ls[i].frame.kind # "reply"}
    IN  /\ urgent' = [p \in Procs |-> PutUrgent(urgent[p], Arriving(p, ls, TRUE))]
        /\ waiting' = [p \in Procs |-> waiting[p] \o Arriving(p, ls, FALSE)]
        /\ listening' = listening \cup {p \in Procs : Reaches(ls, "start", p)}
        /\ cancelling' = cancelling \cup (IF Reaches(ls, "cancel", 1) THEN {Source} ELSE {})
                                     \cup (IF Reaches(ls, "cancel", Sink) THEN {Sink} ELSE {})
        /\ started' = (started \/ Reaches(ls, "start", Sink))
        /\ ended' = (ended \/ \E kind \in Terminal \cup {"cancel"} : Reaches(ls, kind, Sink))
        /\ pushq' = IF Reaches(ls, "endworker", Source) THEN Append(q, Down("end", 0)) ELSE q
        /\ arrived' = arrived \cup {ls[i].frame.id : i \in done}

\* What p pushes, as it arrives.  (The quantifier gives ls one value.)
Receive(p, fs, q) == \E ls \in {Landings(p, fs)} : Deliver(ls, q)

-----------------------------------------------------------------------------
(* Interruptions and the process task *)

\* FrameQueue.reset.
Kept(q) == Only(q, {i \in DOMAIN q : q[i].kind \in Uninterruptible})

\* A new process task starts with its event unset and nothing blocked.
Ungated(p) == IF p = Speaker THEN [block |-> FALSE, set |-> FALSE, asleep |-> FALSE] ELSE gate

StartTask(p) ==
    /\ working' = working \cup {p}
    /\ current' = [current EXCEPT ![p] = NoFrame]
    /\ procq' = [procq EXCEPT ![p] = Kept(@)]
    /\ gate' = Ungated(p)

\* Mutant: the process task is cancelled whatever it handles.
InterruptAlways(p) == StartTask(p)

\* _start_interruption: an uninterruptible frame is left to finish.
Interrupt(p) ==
    IF current[p].kind \in Uninterruptible
    THEN procq' = [procq EXCEPT ![p] = Kept(@)] /\ UNCHANGED <<working, current, gate>>
    ELSE StartTask(p)

CancelTask(p) ==
    /\ working' = working \ {p}
    /\ gate' = IF p = Speaker THEN [gate EXCEPT !.asleep = FALSE] ELSE gate
    /\ UNCHANGED <<procq, current>>

-----------------------------------------------------------------------------
(* The input task *)

Idle(p) == p \in listening /\ intask[p] = NoFrame

\* The base class acts on a system frame before the processor's own handler.
TakeSystem(p) ==
    /\ Idle(p) /\ urgent[p] # <<>>
    /\ LET f == Head(urgent[p])
       IN  /\ intask' = [intask EXCEPT ![p] = f]
           /\ CASE f.kind = "start" -> StartTask(p)
                [] f.kind = "interrupt" -> Interrupt(p)
                [] f.kind = "cancel" -> CancelTask(p)
                [] OTHER -> UNCHANGED <<process, gate>>
           /\ cancelling' = IF f.kind = "cancel" THEN cancelling \cup {p} ELSE cancelling
    /\ urgent' = [urgent EXCEPT ![p] = Tail(@)]
    /\ UNCHANGED <<waiting, listening, audio, worker, arrived, given>>

TakeOther(p) ==
    /\ Idle(p) /\ urgent[p] = <<>> /\ waiting[p] # <<>>
    /\ procq' = [procq EXCEPT ![p] = Append(@, Head(waiting[p]))]
    /\ waiting' = [waiting EXCEPT ![p] = Tail(@)]
    /\ UNCHANGED <<urgent, listening, intask, working, current, voice, cancelling, worker,
                   arrived, given>>

\* Speech at the breaker is broadcast as an interruption, which resets the
\* breaker's own queue but does not cancel its task.
Breaks(p, f) == p = Breaker /\ f.kind = "speech"

\* Mutant: an interruption does not lift the speaker's pause.
ReleasesOnStopped(p, f) == p = Speaker /\ f.kind = "stopped"
\* The speaker lifts its pause when playback ends, and when it drops its audio.
Releases(p, f) == p = Speaker /\ f.kind \in {"interrupt", "stopped"}

FinishSystem(p) ==
    /\ intask[p] # NoFrame
    /\ LET f == intask[p]
           fs == IF Breaks(p, f) THEN <<Down("interrupt", 0), Up("interrupt", 0), f>> ELSE <<f>>
       IN  /\ Receive(p, fs, pushq)
           /\ procq' = IF Breaks(p, f) THEN [procq EXCEPT ![p] = Kept(@)] ELSE procq
           /\ gate' = IF Releases(p, f) THEN [gate EXCEPT !.set = TRUE] ELSE gate
           /\ audio' = IF p = Speaker /\ (f.kind = "interrupt"
                                         \/ (f.kind = "stopped" /\ audio = "reported"))
                       THEN "none" ELSE audio
    /\ intask' = [intask EXCEPT ![p] = NoFrame]
    /\ UNCHANGED <<working, current, pushing, cancelled, given>>

-----------------------------------------------------------------------------
(* The process task *)

Take(p) ==
    /\ p \in working /\ current[p] = NoFrame /\ procq[p] # <<>>
    /\ current' = [current EXCEPT ![p] = Head(procq[p])]
    /\ procq' = [procq EXCEPT ![p] = Tail(@)]
    /\ gate' = IF p = Speaker THEN [gate EXCEPT !.asleep = gate.block] ELSE gate
    /\ UNCHANGED <<input, working, audio, cancelling, worker, arrived, given>>

Wake ==
    /\ gate.asleep /\ gate.set
    /\ gate' = [block |-> FALSE, set |-> FALSE, asleep |-> FALSE]
    /\ UNCHANGED <<input, process, audio, cancelling, worker, arrived, given>>

Handling(p) == p \in working /\ current[p] # NoFrame /\ ~(p = Speaker /\ gate.asleep)

\* The context of a function result goes up before the result goes on down.
Pushed(p, f) ==
    CASE f.kind = "result" /\ p = Aggregator -> <<Up("context", f.id), f>>
      [] f.kind = "context" /\ p = Model -> <<Down("reply", f.id)>>
      [] OTHER -> <<f>>

\* The speaker pauses after a response only while its audio is still to be played.
Pauses(p, f) == p = Speaker /\ f.kind = "turnend" /\ audio # "none"

Finish(p) ==
    /\ Handling(p)
    /\ LET f == current[p]
       IN  /\ Receive(p, Pushed(p, f), pushq)
           /\ audio' = IF p = Speaker /\ f.kind \in {"text", "reply"} THEN "open" ELSE audio
           /\ gate' = IF Pauses(p, f) THEN [gate EXCEPT !.block = TRUE, !.set = FALSE]
                      ELSE gate
    /\ current' = [current EXCEPT ![p] = NoFrame]
    /\ UNCHANGED <<intask, procq, working, pushing, cancelled, given>>

-----------------------------------------------------------------------------
(* The worker *)

\* Pipeline.queue_frame: through the source to the first processor.
Feed(f, q) == Receive(Source, <<f>>, q)

Run ==
    /\ pushing = "new" /\ pushing' = "starting"
    /\ Feed(Down("start", 0), pushq)
    /\ UNCHANGED <<intask, process, voice, cancelled, given>>

Starts ==
    /\ pushing = "starting" /\ started
    /\ pushing' = "running" /\ started' = FALSE
    /\ UNCHANGED <<input, process, voice, cancelling, pushq, ended, cancelled, arrived, given>>

Push ==
    /\ pushing = "running" /\ pushq # <<>>
    /\ LET f == Head(pushq)
       IN  /\ Feed(f, Tail(pushq))
           /\ pushing' = IF f.kind \in Terminal \cup {"cancel"} THEN f.kind ELSE "running"
    /\ UNCHANGED <<intask, process, voice, cancelled, given>>

\* Cleaning up ends every task; a StopFrame leaves the processors running.
CleanUp(terminal) ==
    /\ pushing' = "finished"
    /\ IF terminal = "stop"
       THEN UNCHANGED <<listening, intask, working>>
       ELSE listening' = {} /\ working' = {} /\ intask' = [p \in Procs |-> NoFrame]
    /\ UNCHANGED <<urgent, waiting, procq, current, voice, cancelling, pushq, started, cancelled,
                   arrived, given>>

Ends ==
    /\ pushing \in Terminal \cup {"cancel"} /\ ended
    /\ ended' = FALSE
    /\ CleanUp(pushing)

\* Only starting and cancelling have a timeout.
StartTimeout == pushing = "starting" /\ ~started /\ CleanUp("start") /\ UNCHANGED ended
\* Mutant: the CancelFrame is awaited without a limit.
CancelUntimed == pushing = "cancel" /\ ended /\ CleanUp("cancel") /\ UNCHANGED ended
CancelTimeout == pushing = "cancel" /\ ~ended /\ CleanUp("cancel") /\ UNCHANGED ended

\* The CancelFrame waits its turn in the push queue.
Cancel ==
    /\ pushing \notin {"new", "finished"} /\ ~cancelled
    /\ cancelled' = TRUE /\ started' = TRUE
    /\ pushq' = Append(pushq, Down("cancel", 0))
    /\ UNCHANGED <<input, process, voice, cancelling, pushing, ended, arrived, given>>

-----------------------------------------------------------------------------
(* The surroundings *)

Send(p, f) == urgent' = [urgent EXCEPT ![p] = IF p \in cancelling THEN @ ELSE Append(@, f)]

Hear ==
    /\ speech > 0 /\ speech' = speech - 1 /\ UNCHANGED script
    /\ Send(Breaker, Down("speech", 0))
    /\ UNCHANGED <<waiting, listening, intask, process, voice, cancelling, worker, arrived>>

\* The output transport reports that playback has ended.
Played ==
    /\ audio = "open" /\ audio' = "reported"
    /\ Send(Speaker, Up("stopped", 0))
    /\ UNCHANGED <<waiting, listening, intask, process, gate, cancelling, worker, arrived, given>>

-----------------------------------------------------------------------------
(* Specification *)

\* What the event loop runs as soon as it can, and the timers.
Proceed ==
    \/ Run \/ Starts \/ Push \/ Ends \/ StartTimeout \/ CancelTimeout
    \/ Wake \/ Played
    \/ \E p \in Procs : TakeSystem(p) \/ TakeOther(p) \/ Take(p)

Return == \E p \in Procs : FinishSystem(p) \/ Finish(p)

Next == Proceed \/ Return \/ Cancel \/ Hear

Spec == Init /\ [][Next]_vars

\* A handler may await its service for ever; everything else is scheduled.
FairSpec == Spec /\ WF_vars(Proceed)

-----------------------------------------------------------------------------
(* Properties *)

Elements(q) == {q[i] : i \in DOMAIN q}

\* The frames p holds that are not system frames.
Held(p) == Elements(waiting[p]) \cup Elements(procq[p]) \cup {current[p]}
InTransit == UNION {Held(p) : p \in Procs}

\* UninterruptibleFrame: "preserved during interruptions", "always delivered and
\* processed to completion".  A frame of this kind is on the push queue, in one
\* processor, or has arrived, until the worker cancels or gives up.
UninterruptibleSurvives ==
    pushing \notin {"cancel", "finished"} =>
        \A i \in 1 .. Len(script) :
            script[i] \in Uninterruptible =>
                \/ i \in arrived
                \/ \E j \in DOMAIN pushq : pushq[j].id = i
                \/ \E f \in InTransit : f.id = i /\ f.kind = script[i]

\* PipelineFlushFrame: "every frame queued ahead of the probe has been processed,
\* along with anything a processor started by pushing upstream".
DrainedMeansDrained ==
    \A i \in arrived : script[i] = "flush" =>
        \A f \in InTransit : f = NoFrame \/ f.id >= i \/ f.id = 0

\* An EndFrame that is on its way ends the pipeline, whatever is interrupted or
\* paused before it, if every handler returns.
HandlersReturn ==
    \A p \in Procs : []<>(intask[p] = NoFrame) /\ []<>~Handling(p)
EndCompletes == HandlersReturn => (pushing \in Terminal ~> pushing = "finished")

\* A cancelled worker finishes although no handler ever returns, unless a frame
\* that ends the pipeline is ahead of the CancelFrame.
EndAhead == pushing \in Terminal \/ \E i \in DOMAIN pushq : pushq[i].kind \in Terminal
CancelCompletes == cancelled /\ ~EndAhead ~> pushing = "finished"

=============================================================================
