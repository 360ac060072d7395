----------------------------- MODULE AsrRotation -----------------------------
(* AppleSpeechRecognizer: capture goes on while the recognition session behind it
   is replaced, once per finished utterance.  Microphone buffers are numbered
   within a capture.  Everything here runs on the main actor, one action per
   stretch between two awaits, but for the microphone tap (Consume), the capture's
   serial queue (Serve) and Apple's analyzer (Analyze, AnalysisFinishes, Breaks).  *)
EXTENDS Naturals, Sequences, SequencesExt

CONSTANTS
    Budgets,        \* bounds: records of starts, stops, buffers and failures
    MaxCallers,     \* bound: calls of finalize
    Slots,          \* the 12 slots of the serial queue
    StreamSize,     \* the 192 buffers an input stream holds
    Retained        \* the buffers of four seconds

ASSUME AsrAssumption ==
    /\ Budgets \subseteq [starts : Nat, stops : Nat, buffers : Nat, failures : Nat]
    /\ MaxCallers \in Nat /\ {Slots, StreamSize, Retained} \subseteq Nat \ {0}

VARIABLES
    epoch,          \* fresh for every start and stop
    session,        \* the current recognition session, 0 for nil
    sessions,       \* every session made, by number
    capture,        \* the SpeechAudioInput, or NoCapture
    rotating,       \* finalizationTask, 0 for nil
    rotations,      \* the rotation of each call that began one
    callers,        \* the calls of finalize
    starter,        \* the call of start under way
    doomed,         \* sessions whose cancel() start or stop awaits
    published,      \* buffers whose words the host was given, in this epoch
    errors,         \* epochs of errors on their way to the host
    reported,       \* epochs of errors the host was told
    left            \* the budget that is left of starts, stops, buffers and failures

vars == <<epoch, session, sessions, capture, rotating, rotations, callers, starter,
          doomed, published, errors, reported, left>>

Callers == 1 .. MaxCallers
Made == DOMAIN sessions

\* state: analyzing, draining (finalizeAndFinishThroughEndOfInput awaited), finished,
\* broken (its analysis failed) or closed (cancelled).
NewSession == [state |-> "open", epoch |-> epoch, input |-> <<>>, heard |-> <<>>]
Close(s) == [sessions EXCEPT ![s].state = "closed", ![s].input = <<>>, ![s].heard = <<>>]

NoCapture == [epoch |-> 0, active |-> FALSE, input |-> 0, retained |-> <<>>, queue |-> <<>>,
              captured |-> 0]
Buffer(n) == [kind |-> "buffer", number |-> n]
Pause(c) == [kind |-> "pause", number |-> c]
Resume(c) == [kind |-> "resume", number |-> c]

NoRotation == [state |-> "none", epoch |-> 0, previous |-> 0, replacement |-> 0]
Over(c) == rotations[c].state \in {"done", "failed"}
Rotating(c) == rotations[c].state \notin {"none", "done", "failed"}
\* await: this call's rotation; captured: buffers taken before the call.
NoCall == [state |-> "none", epoch |-> 0, await |-> 0, captured |-> 0, cancelled |-> FALSE]
NoStarter == [state |-> "none", epoch |-> 0]

Init ==
    /\ epoch = 0 /\ session = 0 /\ sessions = <<>> /\ capture = NoCapture
    /\ rotating = 0 /\ rotations = [c \in Callers |-> NoRotation]
    /\ callers = [c \in Callers |-> NoCall] /\ starter = NoStarter /\ doomed = {}
    /\ published = <<>> /\ errors = {} /\ reported = {}
    /\ left \in Budgets

Spend(what) == left[what] > 0 /\ left' = [left EXCEPT ![what] = @ - 1]
Fails == Spend("failures")

-----------------------------------------------------------------------------
(* start, stop.                                                              *)

\* resetCapture(generation:); what the old capture's queue holds is ignored.
Reset ==
    /\ epoch' = epoch + 1 /\ session' = 0 /\ rotating' = 0 /\ published' = <<>>
    /\ capture' = NoCapture
    /\ doomed' = IF session = 0 THEN doomed ELSE doomed \cup {session}

\* RecognitionSession.cancel() of the session a reset removed.
CancelSession(s) ==
    /\ sessions' = Close(s) /\ doomed' = doomed \ {s}
    /\ UNCHANGED <<epoch, session, capture, rotating, rotations, callers, starter,
                   published, errors, reported, left>>

\* The host awaits the stop and the start before this one.
StartBegins ==
    /\ Spend("starts") /\ starter = NoStarter /\ doomed = {}
    /\ Reset /\ starter' = [state |-> "clearing", epoch |-> epoch']
    /\ UNCHANGED <<sessions, rotations, callers, errors, reported>>

\* The previous session is cancelled; the first guard.
StartPrepares ==
    /\ starter.state = "clearing" /\ doomed = {}
    /\ starter' = IF epoch = starter.epoch THEN [starter EXCEPT !.state = "making"]
                  ELSE NoStarter
    /\ UNCHANGED <<epoch, session, sessions, capture, rotating, rotations, callers, doomed,
                   published, errors, reported, left>>

\* Permission, locale, assets, format or makeSession fail, or the second guard does.
StartThrows ==
    /\ starter.state = "making" /\ starter' = NoStarter
    /\ IF epoch = starter.epoch THEN Fails ELSE UNCHANGED left
    /\ UNCHANGED <<epoch, session, sessions, capture, rotating, rotations, callers, doomed,
                   published, errors, reported>>

\* Mutant: start does not look at the epoch after makeSession.
StartFinishesUnguarded ==
    /\ starter.state = "making" /\ starter' = NoStarter
    /\ sessions' = Append(sessions, [NewSession EXCEPT !.epoch = starter.epoch])
    /\ session' = Len(sessions')
    /\ capture' = [NoCapture EXCEPT !.epoch = starter.epoch, !.active = TRUE, !.input = session']
    /\ UNCHANGED <<epoch, rotating, rotations, callers, doomed, published, errors, reported,
                   left>>

\* makeSession returns; a start that was overtaken cancels what it made.
StartFinishes ==
    /\ starter.state = "making" /\ starter' = NoStarter
    /\ sessions' = Append(sessions, [NewSession EXCEPT !.epoch = starter.epoch])
    /\ IF epoch = starter.epoch
       THEN /\ session' = Len(sessions') /\ UNCHANGED doomed
            /\ capture' = [NoCapture EXCEPT !.epoch = epoch, !.active = TRUE, !.input = session']
       ELSE doomed' = doomed \cup {Len(sessions')} /\ UNCHANGED <<session, capture>>
    /\ UNCHANGED <<epoch, rotating, rotations, callers, published, errors, reported,
                   left>>

\* The converter, the classifier or the engine fails: start stops and throws.
CaptureFails ==
    /\ starter.state = "making" /\ epoch = starter.epoch /\ Fails
    /\ starter' = NoStarter /\ sessions' = Append(sessions, NewSession)
    /\ epoch' = epoch + 1 /\ doomed' = doomed \cup {Len(sessions')}
    /\ UNCHANGED <<session, capture, rotating, rotations, callers, published, errors,
                   reported>>

\* The host stops or mutes.
Stop ==
    /\ Spend("stops") /\ epoch > 0 /\ Reset
    /\ UNCHANGED <<sessions, rotations, callers, starter, errors, reported>>

-----------------------------------------------------------------------------
(* The microphone, the capture's serial queue, Apple's analyzer.             *)


\* SpeechAudioInput.fail: reported once, and nothing is processed afterwards.
Fail(c) == capture' = [c EXCEPT !.active = FALSE] /\ errors' = errors \cup {epoch}

\* A session that neither analyzes nor can be drained: its audio goes nowhere.
Dead(s) == sessions[s].state \in {"broken", "closed"}
Stranded == session # 0 /\ Dead(session)

\* consume, on the tap's thread: the number of buffers is bounded while they are heard.
Consume ==
    /\ capture.active /\ IF Stranded THEN UNCHANGED left ELSE Spend("buffers")
    /\ IF Len(SelectSeq(capture.queue, LAMBDA e : e.kind = "buffer")) < Slots
       THEN LET n == capture.captured + 1
            IN capture' = [capture EXCEPT !.captured = n, !.queue = Append(@, Buffer(n))]
               /\ UNCHANGED errors
       ELSE Fail(capture)
    /\ UNCHANGED <<epoch, session, sessions, rotating, rotations, callers, starter, doomed,
                   published, reported>>

Serve(kind) == capture.queue # <<>> /\ Head(capture.queue).kind = kind
Served == [capture EXCEPT !.queue = Tail(@)]

\* process: to the current input stream, or retained while there is none.
Process ==
    /\ Serve("buffer")
    /\ LET n == Head(capture.queue).number
           into == capture.input
       IN IF ~capture.active THEN capture' = Served /\ UNCHANGED <<sessions, errors>>
          ELSE IF into = 0
          THEN IF Len(capture.retained) < Retained
               THEN /\ capture' = [Served EXCEPT !.retained = Append(@, n)]
                    /\ UNCHANGED <<sessions, errors>>
               ELSE Fail(Served) /\ UNCHANGED sessions
          ELSE IF Len(sessions[into].input) < StreamSize
               THEN /\ sessions' = [sessions EXCEPT ![into].input = Append(@, n)]
                    /\ capture' = Served /\ UNCHANGED errors
               ELSE Fail(Served) /\ UNCHANGED sessions
    /\ UNCHANGED <<epoch, session, rotating, rotations, callers, starter, doomed, published,
                   reported, left>>

\* The error's task on the main actor.
ErrorArrives(e) ==
    /\ errors' = errors \ {e}
    /\ reported' = IF e = epoch THEN reported \cup {e} ELSE reported
    /\ UNCHANGED <<epoch, session, sessions, capture, rotating, rotations, callers, starter,
                   doomed, published, left>>

Analyze(s) ==
    /\ sessions[s].state \in {"open", "draining"} /\ sessions[s].input # <<>>
    /\ sessions' = [sessions EXCEPT ![s].input = Tail(@),
                                    ![s].heard = Append(@, Head(sessions[s].input))]
    /\ UNCHANGED <<epoch, session, capture, rotating, rotations, callers, starter, doomed,
                   published, errors, reported, left>>

AnalysisFinishes(s) ==
    /\ sessions[s].state = "draining" /\ sessions[s].input = <<>>
    /\ sessions' = [sessions EXCEPT ![s].state = "finished"]
    /\ UNCHANGED <<epoch, session, capture, rotating, rotations, callers, starter, doomed,
                   published, errors, reported, left>>

\* The analysis fails; whether its results say so is not known to the code.
Breaks(s) ==
    /\ sessions[s].state \in {"open", "draining"} /\ Fails
    /\ sessions' = [sessions EXCEPT ![s].state = "broken"]
    /\ errors' \in {errors, errors \cup {sessions[s].epoch}}
    /\ UNCHANGED <<epoch, session, capture, rotating, rotations, callers, starter, doomed,
                   published, reported>>

\* The results task: onTranscript, unless the generation is over.
Publish(s) ==
    /\ sessions[s].state \in {"open", "draining", "finished"} /\ sessions[s].heard # <<>>
    /\ IF sessions[s].epoch = epoch
       THEN /\ published' = Append(published, Head(sessions[s].heard))
            /\ sessions' = [sessions EXCEPT ![s].heard = Tail(@)]
       ELSE sessions' = [sessions EXCEPT ![s].heard = <<>>] /\ UNCHANGED published
    /\ UNCHANGED <<epoch, session, capture, rotating, rotations, callers, starter, doomed,
                   errors, reported, left>>

-----------------------------------------------------------------------------
(* finalize, and the rotation it starts.                                     *)

\* finalize up to its own task: wait for a rotation under way, or begin one.
Proceeds(c, call) ==
    IF rotating # 0
    THEN /\ callers' = [callers EXCEPT ![c] = [call EXCEPT !.state = "waiting", !.await = rotating]]
         /\ UNCHANGED <<rotations, rotating>>
    ELSE IF session = 0
    THEN callers' = [callers EXCEPT ![c] = [call EXCEPT !.state = "cancelled"]]
         /\ UNCHANGED <<rotations, rotating>>
    ELSE /\ callers' = [callers EXCEPT ![c] = [call EXCEPT !.state = "rotating"]]
         /\ rotations' = [rotations EXCEPT ![c] =
                [state |-> "making", epoch |-> epoch, previous |-> session, replacement |-> 0]]
         /\ rotating' = c

Finalize(c) ==
    /\ callers[c].state = "none" /\ \A d \in 1 .. c - 1 : callers[d].state # "none"
    /\ Proceeds(c, [NoCall EXCEPT !.epoch = epoch, !.captured = capture.captured])
    /\ UNCHANGED <<epoch, session, sessions, capture, starter, doomed, published, errors,
                   reported, left>>

\* The request behind the call is cancelled; only a waiting call notices.
CancelCaller(c) ==
    /\ callers[c].state = "waiting" /\ ~callers[c].cancelled
    /\ callers' = [callers EXCEPT ![c].cancelled = TRUE]
    /\ UNCHANGED <<epoch, session, sessions, capture, rotating, rotations, starter, doomed,
                   published, errors, reported, left>>

\* Mutant: the end of the rotation under way is taken for the end of this one.
ResumesJoined(c) ==
    /\ callers[c].state = "waiting" /\ Over(callers[c].await)
    /\ callers' = [callers EXCEPT ![c].state =
                      IF rotations[callers[c].await].state = "failed" THEN "failed"
                      ELSE IF callers[c].cancelled \/ callers[c].epoch # epoch THEN "cancelled"
                      ELSE "returned"]
    /\ UNCHANGED <<epoch, session, sessions, capture, rotating, rotations, starter, doomed,
                   published, errors, reported, left>>

\* The awaited rotation ended: its error is the call's, else the loop goes on.
Resumes(c) ==
    /\ callers[c].state = "waiting" /\ Over(callers[c].await)
    /\ IF rotations[callers[c].await].state = "failed"
       THEN /\ callers' = [callers EXCEPT ![c].state = "failed"]
            /\ UNCHANGED <<rotations, rotating>>
       ELSE IF callers[c].cancelled \/ callers[c].epoch # epoch
       THEN /\ callers' = [callers EXCEPT ![c].state = "cancelled"]
            /\ UNCHANGED <<rotations, rotating>>
       ELSE Proceeds(c, callers[c])
    /\ UNCHANGED <<epoch, session, sessions, capture, starter, doomed, published, errors,
                   reported, left>>

Returns(c) ==
    /\ callers[c].state = "rotating" /\ Over(c)
    /\ callers' = [callers EXCEPT ![c].state =
                      IF rotations[c].state = "done" THEN "returned" ELSE "failed"]
    /\ UNCHANGED <<epoch, session, sessions, capture, rotating, rotations, starter, doomed,
                   published, errors, reported, left>>

\* The next step of a rotation.
Goes(c, state) == rotations' = [rotations EXCEPT ![c].state = state]

\* Mutant: the deferred block clears whatever rotation is the current one.
EndsClearing(c, how) == Goes(c, how) /\ rotating' = 0

\* The rotation's deferred block, before any caller resumes.
Ends(c, how) ==
    Goes(c, how) /\ rotating' = IF epoch = rotations[c].epoch THEN 0 ELSE rotating

\* makeSession for the replacement, then the first guard and pauseASR.
MakesReplacement(c) ==
    /\ rotations[c].state = "making"
    /\ sessions' = Append(sessions, [NewSession EXCEPT !.epoch = rotations[c].epoch])
    /\ rotations' = [rotations EXCEPT
           ![c].state = IF epoch = rotations[c].epoch THEN "pausing" ELSE "cleaning",
           ![c].replacement = Len(sessions')]
    /\ capture' = IF epoch = rotations[c].epoch
                  THEN [capture EXCEPT !.queue = Append(@, Pause(c))] ELSE capture
    /\ UNCHANGED <<epoch, session, rotating, callers, starter, doomed, published, errors,
                   reported, left>>

ReplacementFails(c) ==
    /\ rotations[c].state = "making" /\ Fails /\ Ends(c, "failed")
    /\ UNCHANGED <<epoch, session, sessions, capture, callers, starter, doomed, published,
                   errors, reported>>

\* pauseASR on the queue: the cut, behind every buffer taken before it.
ServePause ==
    /\ Serve("pause")
    /\ IF capture.active
       THEN Goes(Head(capture.queue).number, "paused") /\ capture' = [Served EXCEPT !.input = 0]
       ELSE Goes(Head(capture.queue).number, "cleaning") /\ capture' = Served
    /\ UNCHANGED <<epoch, session, sessions, rotating, callers, starter, doomed, published,
                   errors, reported, left>>

\* finalizeAndFinishThroughEndOfInput() is called.
Drains(c) ==
    /\ rotations[c].state = "paused" /\ Goes(c, "draining")
    /\ LET p == rotations[c].previous
       IN sessions' = IF sessions[p].state = "open"
                      THEN [sessions EXCEPT ![p].state = "draining"] ELSE sessions
    /\ UNCHANGED <<epoch, session, capture, rotating, callers, starter, doomed, published,
                   errors, reported, left>>

\* All results were consumed: the second guard, the new session, resumeASR.
Switches(c) ==
    /\ rotations[c].state = "draining"
    /\ LET p == sessions[rotations[c].previous] IN p.state = "finished" /\ p.heard = <<>>
    /\ IF epoch = rotations[c].epoch
       THEN /\ Goes(c, "resuming") /\ session' = rotations[c].replacement
            /\ capture' = [capture EXCEPT !.queue = Append(@, Resume(c))]
       ELSE Goes(c, "cleaning") /\ UNCHANGED <<session, capture>>
    /\ UNCHANGED <<epoch, sessions, rotating, callers, starter, doomed, published, errors,
                   reported, left>>

\* Draining throws, or the results do.
DrainThrows(c) ==
    /\ rotations[c].state = "draining" /\ Dead(rotations[c].previous) /\ Goes(c, "cleaning")
    /\ UNCHANGED <<epoch, session, sessions, capture, rotating, callers, starter, doomed,
                   published, errors, reported, left>>

\* Mutant: what was replayed stays retained.
ServeResumeKeeps ==
    /\ Serve("resume")
    /\ LET c == Head(capture.queue).number
           into == rotations[c].replacement
       IN IF capture.active /\ Len(capture.retained) <= StreamSize
          THEN /\ Goes(c, "resumed")
               /\ sessions' = [sessions EXCEPT ![into].input = capture.retained]
               /\ capture' = [Served EXCEPT !.input = into]
          ELSE Goes(c, "cleaning") /\ capture' = Served /\ UNCHANGED sessions
    /\ UNCHANGED <<epoch, session, rotating, callers, starter, doomed, published, errors,
                   reported, left>>

\* resumeASR on the queue: what was retained, then what comes.
ServeResume ==
    /\ Serve("resume")
    /\ LET c == Head(capture.queue).number
           into == rotations[c].replacement
       IN IF capture.active /\ Len(capture.retained) <= StreamSize
          THEN /\ Goes(c, "resumed")
               /\ sessions' = [sessions EXCEPT ![into].input = capture.retained]
               /\ capture' = [Served EXCEPT !.retained = <<>>, !.input = into]
          ELSE Goes(c, "cleaning") /\ capture' = Served /\ UNCHANGED sessions
    /\ UNCHANGED <<epoch, session, rotating, callers, starter, doomed, published, errors,
                   reported, left>>

\* Mutant: a cancelled capture never answers a resumeASR that is queued.
AbandonsPause(c) ==
    /\ rotations[c].state = "pausing" /\ epoch # rotations[c].epoch /\ Goes(c, "cleaning")
    /\ UNCHANGED <<epoch, session, sessions, capture, rotating, callers, starter, doomed,
                   published, errors, reported, left>>

\* The queue of a cancelled capture answers with CancellationError.
Abandons(c) ==
    /\ rotations[c].state \in {"pausing", "resuming"} /\ epoch # rotations[c].epoch
    /\ Goes(c, "cleaning")
    /\ UNCHANGED <<epoch, session, sessions, capture, rotating, callers, starter, doomed,
                   published, errors, reported, left>>

Succeeds(c) ==
    /\ rotations[c].state = "resumed" /\ Ends(c, "done")
    /\ UNCHANGED <<epoch, session, sessions, capture, callers, starter, doomed, published,
                   errors, reported, left>>

\* The catch block: the replacement is cancelled and the error thrown again.
CleansUp(c) ==
    /\ rotations[c].state = "cleaning" /\ Ends(c, "failed")
    /\ sessions' = Close(rotations[c].replacement)
    /\ UNCHANGED <<epoch, session, capture, callers, starter, doomed, published, errors,
                   reported, left>>

-----------------------------------------------------------------------------
Lifecycle ==
    \/ StartBegins \/ StartPrepares \/ StartThrows \/ StartFinishes \/ CaptureFails \/ Stop
    \/ \E s \in doomed : CancelSession(s)
    \/ \E e \in errors : ErrorArrives(e)

Audio ==
    \/ Consume \/ Process \/ ServePause \/ ServeResume
    \/ \E s \in Made : Analyze(s) \/ AnalysisFinishes(s) \/ Breaks(s) \/ Publish(s)

Finalization ==
    \E c \in Callers :
        \/ Finalize(c) \/ CancelCaller(c) \/ Resumes(c) \/ Returns(c)
        \/ MakesReplacement(c) \/ ReplacementFails(c) \/ Drains(c) \/ Switches(c)
        \/ DrainThrows(c) \/ Abandons(c) \/ Succeeds(c) \/ CleansUp(c)

Next == Lifecycle \/ Audio \/ Finalization

Spec == Init /\ [][Next]_vars

\* What the program, the microphone and Apple's services do by themselves.
Proceed ==
    \/ StartPrepares \/ StartFinishes \/ \E s \in doomed : CancelSession(s)
    \/ \E e \in errors : ErrorArrives(e)
    \/ Consume \/ Process \/ ServePause \/ ServeResume
    \/ \E s \in Made : Analyze(s) \/ AnalysisFinishes(s) \/ Publish(s)
    \/ \E c \in Callers :
          \/ Resumes(c) \/ Returns(c) \/ MakesReplacement(c) \/ Drains(c) \/ Switches(c)
          \/ DrainThrows(c) \/ Abandons(c) \/ Succeeds(c) \/ CleansUp(c)

\* The program does not stop while something is left to do.  Nobody has to start,
\* stop or finalize, and nothing has to fail.
FairSpec == Spec /\ WF_vars(Proceed)

-----------------------------------------------------------------------------
(* Properties.                                                               *)

\* The numbers of the buffers in a queue, in order.
Numbers(queue) ==
    LET upto[i \in 0 .. Len(queue)] ==
            IF i = 0 THEN <<>>
            ELSE IF queue[i].kind = "buffer" THEN Append(upto[i - 1], queue[i].number) ELSE upto[i - 1]
    IN  upto[Len(queue)]

\* What the sessions of this epoch have and have not published, oldest first.
Unpublished ==
    FlattenSeq([s \in Made |-> IF sessions[s].epoch = epoch
                               THEN sessions[s].heard \o sessions[s].input ELSE <<>>])

\* Capture goes on while sessions are replaced: unless an error was raised, every
\* buffer the microphone gave is published, in a session, retained or queued, once
\* and in order (architecture.md:124-126).
AudioAccountedFor ==
    capture.active =>
        published \o Unpublished \o capture.retained \o Numbers(capture.queue)
            = [n \in 1 .. capture.captured |-> n]

\* finalize is a barrier: when it returns, the host was given the words of all the
\* audio taken before the call, whatever rotation was under way.
FinalizeBarrier ==
    \A c \in Callers : callers[c].state = "returned" /\ callers[c].epoch = epoch =>
        Len(published) >= callers[c].captured

\* finalizationTask is the one rotation of this epoch that is not over.
SoleRotation ==
    \A c \in Callers : rotating = c <=> Rotating(c) /\ rotations[c].epoch = epoch

Quiet == starter = NoStarter /\ doomed = {} /\ \A c \in Callers : ~Rotating(c)

\* When starts, stops and rotations are through, in whatever order they overlapped,
\* no session is left open but the current one, and capture feeds it.
NothingLeaks ==
    Quiet =>
        /\ \A s \in Made : sessions[s].state \in {"open", "draining"} => s = session
        /\ capture # NoCapture <=> session # 0
        /\ capture # NoCapture => capture.epoch = epoch
        /\ capture.active /\ ~Stranded => capture.input = session

\* Every call of finalize ends.
EveryFinalizeEnds ==
    \A c \in Callers : callers[c].state = "waiting" \/ callers[c].state = "rotating"
        ~> callers[c].state \in {"returned", "failed", "cancelled"}

=============================================================================
