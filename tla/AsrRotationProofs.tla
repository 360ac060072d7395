-------------------------- MODULE AsrRotationProofs --------------------------
(* Theorems about AsrRotation, for every number of starts, stops, buffers, failures
   and calls of finalize, and every capacity: one rotation at a time, no session is
   left behind, every buffer of audio is published once and in order or still on its
   way, and finalize is a barrier. *)
EXTENDS AsrRotation, WellFoundedInduction, TLAPS

-----------------------------------------------------------------------------
(* The inductive invariant.                                                  *)

SessionStates == {"open", "draining", "finished", "broken", "closed"}
RotationStates == {"none", "making", "pausing", "paused", "draining", "resuming", "resumed",
                   "cleaning", "done", "failed"}
SessionRecord == [state : SessionStates, epoch : Nat, input : Seq(Nat), heard : Seq(Nat)]
RotationRecord == [state : RotationStates, epoch : Nat, previous : Nat, replacement : Nat]
Entry == [kind : {"buffer", "pause", "resume"}, number : Nat]
CaptureRecord == [epoch : Nat, active : BOOLEAN, input : Nat, retained : Seq(Nat),
                  queue : Seq(Entry), captured : Nat]

\* The type of what the code keeps of sessions and rotations.
TypeOK ==
    /\ epoch \in Nat /\ session \in Nat /\ rotating \in Callers \cup {0}
    /\ sessions \in Seq(SessionRecord) /\ rotations \in [Callers -> RotationRecord]
    /\ capture \in CaptureRecord /\ doomed \subseteq Nat
    /\ starter \in [state : {"none", "clearing", "making"}, epoch : Nat]

\* Nothing is of an epoch to come.
EpochsPast ==
    /\ \A c \in Callers : rotations[c].epoch <= epoch
    /\ starter.state # "none" => 0 < starter.epoch /\ starter.epoch <= epoch

\* A start that was not overtaken finds nothing there.
StartAlone ==
    starter.state # "none" /\ starter.epoch = epoch =>
        session = 0 /\ rotating = 0 /\ capture = NoCapture

\* The queue holds a request of the current rotation only, and that waits for it.
QueueKnown ==
    /\ \A i \in DOMAIN capture.queue :
          LET e == capture.queue[i]
          IN  e.kind # "buffer" =>
                 /\ e.number \in Callers /\ rotations[e.number].epoch = epoch
                 /\ rotations[e.number].state = IF e.kind = "pause" THEN "pausing" ELSE "resuming"
    /\ \A i, j \in DOMAIN capture.queue :
          capture.queue[i].kind # "buffer" /\ capture.queue[j].kind # "buffer" => i = j

\* Whoever names a session names one that was made.
SessionsMade ==
    /\ session \in Made \cup {0} /\ doomed \subseteq Made /\ capture.input \in Made \cup {0}
    /\ \A c \in Callers : Rotating(c) =>
          /\ rotations[c].previous \in Made
          /\ rotations[c].state # "making" => rotations[c].replacement \in Made

\* There is a capture while there is a session.
CaptureKnown ==
    /\ session = 0 => capture = NoCapture
    /\ session # 0 => capture.epoch = epoch /\ epoch > 0

\* A rotation that was not overtaken replaces the current session.
RotationKnown ==
    \A c \in Callers : Rotating(c) /\ rotations[c].epoch = epoch =>
        /\ session \in {rotations[c].previous, rotations[c].replacement} /\ session # 0
        /\ rotations[c].state \in {"making", "pausing", "paused", "draining"} =>
               session = rotations[c].previous
        /\ rotations[c].state \in {"resuming", "resumed"} => session = rotations[c].replacement

\* Every open session is the current one, is being cancelled, or will be by its rotation.
Owned ==
    \A s \in Made : sessions[s].state \in {"open", "draining"} =>
        \/ s = session \/ s \in doomed
        \/ \E c \in Callers :
               /\ rotations[c].state \in {"pausing", "paused", "draining", "cleaning"}
               /\ rotations[c].replacement = s

\* Capture feeds the current session, unless that is dead or being replaced.
InputKnown ==
    capture.active =>
        \/ capture.input = session \/ Stranded
        \/ /\ rotating # 0
           /\ \/ rotations[rotating].state \in {"paused", "draining", "resuming"}
              \/ rotations[rotating].state = "cleaning" /\ session = rotations[rotating].replacement

IInv ==
    /\ TypeOK /\ SoleRotation /\ EpochsPast /\ StartAlone /\ QueueKnown /\ SessionsMade
    /\ CaptureKnown /\ RotationKnown /\ Owned /\ InputKnown

-----------------------------------------------------------------------------
(* Steps of one part.                                                        *)

kept == <<epoch, session, rotating, sessions, rotations, capture, doomed>>

\* What most actions leave alone decides all but what a start found.
LEMMA NothingMoves ==
    ASSUME IInv, UNCHANGED kept,
           \/ UNCHANGED starter
           \/ starter' = NoStarter
           \/ starter.state # "none" /\ starter' = [starter EXCEPT !.state = "making"]
    PROVE  IInv'
<1>1. /\ UNCHANGED <<epoch, session, rotating>>
      /\ UNCHANGED <<sessions, rotations, capture, doomed>>
  BY DEF kept
<1>2. TypeOK'
  BY <1>1 DEF IInv, TypeOK, NoStarter
<1>3. EpochsPast' /\ StartAlone'
  BY <1>1 DEF IInv, TypeOK, EpochsPast, StartAlone, NoStarter
<1>4. SoleRotation' /\ QueueKnown' /\ SessionsMade' /\ CaptureKnown' /\ RotationKnown'
  BY <1>1 DEF IInv, SoleRotation, QueueKnown, SessionsMade, CaptureKnown, RotationKnown, Rotating,
     Made
<1>5. Owned' /\ InputKnown'
  BY <1>1 DEF IInv, Owned, InputKnown, Made, Stranded, Dead
<1>. QED
  BY <1>2, <1>3, <1>4, <1>5 DEF IInv

\* Sessions go on: none is made, opened again or brought back to life.
GoOn ==
    /\ sessions' \in Seq(SessionRecord) /\ Made' = Made
    /\ \A s \in Made : (Dead(s) => Dead(s)')
    /\ \A s \in Made : sessions'[s].state \in {"open", "draining"} =>
                         sessions[s].state \in {"open", "draining"}

LEMMA OneGoesOn ==
    ASSUME TypeOK, NEW s \in Made, NEW r \in SessionRecord,
           sessions' = [sessions EXCEPT ![s] = r],
           Dead(s) => r.state \in {"broken", "closed"},
           r.state \in {"open", "draining"} => sessions[s].state \in {"open", "draining"}
    PROVE  GoOn /\ sessions'[s] = r /\ \A q \in Made : q # s => sessions'[q] = sessions[q]
<1>1. sessions \in Seq(SessionRecord)
  BY DEF TypeOK
<1>2. sessions' \in Seq(SessionRecord) /\ Made' = Made
  BY <1>1 DEF Made
<1>3. sessions'[s] = r /\ \A q \in Made : q # s => sessions'[q] = sessions[q]
  BY <1>1 DEF Made
<1>. QED
  BY <1>2, <1>3 DEF GoOn, Dead

LEMMA SameGoOn == ASSUME TypeOK, UNCHANGED sessions PROVE GoOn
  BY DEF TypeOK, GoOn, Made, Dead

\* Sessions go on while capture takes, moves or refuses buffers.
LEMMA AudioMoves ==
    ASSUME IInv, GoOn, UNCHANGED <<epoch, session, rotating, rotations, doomed, starter>>,
           capture' \in CaptureRecord,
           \/ capture' = capture
           \/ /\ capture # NoCapture /\ QueueKnown'
              /\ capture'.epoch = capture.epoch /\ capture'.input = capture.input
              /\ capture'.active => capture.active
    PROVE  IInv'
<1>1. TypeOK'
  BY DEF IInv, TypeOK, GoOn
<1>2. SoleRotation' /\ EpochsPast' /\ RotationKnown'
  BY DEF IInv, SoleRotation, EpochsPast, RotationKnown, Rotating
<1>3. StartAlone'
  BY DEF IInv, StartAlone
<1>4. QueueKnown'
  BY DEF IInv, QueueKnown
<1>5. SessionsMade'
  BY DEF IInv, SessionsMade, GoOn, Rotating
<1>6. CaptureKnown'
  BY DEF IInv, CaptureKnown
<1>7. Owned'
  BY DEF IInv, Owned, GoOn
<1>8. InputKnown'
  <2>1. Stranded => Stranded'
    BY DEF IInv, Stranded, GoOn, SessionsMade
  <2>. QED
    BY <2>1 DEF IInv, InputKnown
<1>. QED
  BY <1>1, <1>2, <1>3, <1>4, <1>5, <1>6, <1>7, <1>8 DEF IInv

\* Queues: what is put behind and what is taken in front.
LEMMA PutBehind ==
    ASSUME NEW q \in Seq(Entry), NEW e \in Entry
    PROVE  /\ Append(q, e) \in Seq(Entry)
           /\ \A i \in DOMAIN Append(q, e) :
                 \/ i \in DOMAIN q /\ Append(q, e)[i] = q[i]
                 \/ i = Len(q) + 1 /\ Append(q, e)[i] = e
<1>1. DOMAIN Append(q, e) = 1 .. Len(q) + 1 /\ DOMAIN q = 1 .. Len(q) /\ Len(q) \in Nat
  OBVIOUS
<1>. QED
  BY <1>1

LEMMA TakenInFront ==
    ASSUME NEW q \in Seq(Entry), q # <<>>
    PROVE  /\ Tail(q) \in Seq(Entry) /\ Head(q) = q[1] /\ 1 \in DOMAIN q /\ Head(q) \in Entry
           /\ \A i \in DOMAIN Tail(q) :
                 i \in Nat /\ i > 0 /\ i + 1 \in DOMAIN q /\ Tail(q)[i] = q[i + 1]
<1>1. Len(q) \in Nat /\ Len(q) > 0 /\ DOMAIN q = 1 .. Len(q)
  OBVIOUS
<1>2. Len(Tail(q)) = Len(q) - 1 /\ Tail(q) \in Seq(Entry) /\ DOMAIN Tail(q) = 1 .. Len(q) - 1
  BY <1>1
<1>. QED
  BY <1>1, <1>2

-----------------------------------------------------------------------------
(* start, stop.                                                              *)

LEMMA ResetKeeps ==
    ASSUME IInv, Reset, UNCHANGED <<sessions, rotations>>,
           starter' = starter \/ starter' = [state |-> "clearing", epoch |-> epoch']
    PROVE  IInv'
<1>1. /\ epoch' = epoch + 1 /\ session' = 0 /\ rotating' = 0 /\ capture' = NoCapture
      /\ doomed' = IF session = 0 THEN doomed ELSE doomed \cup {session}
  BY DEF Reset
<1>2. epoch \in Nat /\ 0 \notin Callers
  BY DEF IInv, TypeOK, Callers
<1>3. TypeOK'
  <2>1. NoCapture \in CaptureRecord
    BY DEF NoCapture, CaptureRecord
  <2>. QED
    BY <1>1, <1>2, <2>1 DEF IInv, TypeOK
<1>4. \A c \in Callers : rotations[c].epoch \in Nat /\ rotations[c].epoch <= epoch
  BY DEF IInv, TypeOK, EpochsPast, RotationRecord
<1>5. SoleRotation' /\ RotationKnown'
  BY <1>1, <1>2, <1>4 DEF SoleRotation, RotationKnown
<1>6. EpochsPast' /\ StartAlone'
  BY <1>1, <1>2, <1>4 DEF IInv, TypeOK, EpochsPast, StartAlone
<1>7. QueueKnown' /\ CaptureKnown' /\ InputKnown'
  BY <1>1 DEF QueueKnown, CaptureKnown, InputKnown, NoCapture
<1>8. SessionsMade'
  BY <1>1 DEF IInv, SessionsMade, Made, NoCapture, Rotating
<1>9. Owned'
  BY <1>1 DEF IInv, Owned, Made
<1>. QED
  BY <1>3, <1>5, <1>6, <1>7, <1>8, <1>9 DEF IInv

LEMMA Closes ==
    ASSUME TypeOK, NEW s \in Made, sessions' = Close(s)
    PROVE  GoOn /\ sessions'[s].state = "closed" /\ \A q \in Made : q # s => sessions'[q] = sessions[q]
<1>. DEFINE r == [sessions[s] EXCEPT !.state = "closed", !.input = <<>>, !.heard = <<>>]
<1>1. sessions[s] \in SessionRecord
  BY DEF TypeOK, Made
<1>2. r \in SessionRecord /\ r.state = "closed"
  <2>1. <<>> \in Seq(Nat)
    OBVIOUS
  <2>. QED
    BY <1>1, <2>1 DEF SessionRecord, SessionStates
<1>3. sessions' = [sessions EXCEPT ![s] = r]
  BY DEF Close
<1>. HIDE DEF r
<1>. QED
  BY <1>2, <1>3, OneGoesOn

LEMMA CancelKeeps == ASSUME IInv, NEW s \in doomed, CancelSession(s) PROVE IInv'
<1>1. /\ sessions' = Close(s) /\ doomed' = doomed \ {s}
      /\ UNCHANGED <<epoch, session, capture, rotating, rotations, starter>>
  BY DEF CancelSession
<1>2. s \in Made
  BY DEF IInv, SessionsMade
<1>3. GoOn /\ sessions'[s].state = "closed" /\ \A q \in Made : q # s => sessions'[q] = sessions[q]
  BY <1>1, <1>2, Closes DEF IInv
<1>4. TypeOK'
  BY <1>1, <1>3 DEF IInv, TypeOK, GoOn
<1>5. SoleRotation' /\ EpochsPast' /\ StartAlone' /\ QueueKnown' /\ CaptureKnown' /\ RotationKnown'
  BY <1>1 DEF IInv, SoleRotation, EpochsPast, StartAlone, QueueKnown, CaptureKnown, RotationKnown,
     Rotating
<1>6. SessionsMade'
  BY <1>1, <1>3 DEF IInv, SessionsMade, GoOn, Rotating
<1>7. Owned'
  BY <1>1, <1>3 DEF IInv, Owned, GoOn
<1>8. InputKnown'
  <2>1. Stranded => Stranded'
    BY <1>1, <1>3 DEF IInv, Stranded, GoOn, SessionsMade
  <2>. QED
    BY <1>1, <2>1 DEF IInv, InputKnown
<1>. QED
  BY <1>4, <1>5, <1>6, <1>7, <1>8 DEF IInv

\* One session more.
LEMMA OneMore ==
    ASSUME TypeOK, NEW e \in Nat, sessions' = Append(sessions, [NewSession EXCEPT !.epoch = e])
    PROVE  /\ sessions' \in Seq(SessionRecord) /\ Len(sessions') = Len(sessions) + 1
           /\ Len(sessions) \in Nat /\ Made = 1 .. Len(sessions)
           /\ Made' = Made \cup {Len(sessions')} /\ Len(sessions') \notin Made
           /\ Len(sessions') \in Made' /\ Len(sessions') # 0
           /\ \A s \in Made : sessions'[s] = sessions[s]
<1>. DEFINE r == [NewSession EXCEPT !.epoch = e]
<1>1. r \in SessionRecord
  <2>1. r = [state |-> "open", epoch |-> e, input |-> <<>>, heard |-> <<>>]
    BY DEF NewSession
  <2>2. <<>> \in Seq(Nat)
    OBVIOUS
  <2>. QED
    BY <2>1, <2>2 DEF SessionRecord, SessionStates
<1>2. sessions \in Seq(SessionRecord) /\ sessions' = Append(sessions, r)
  BY DEF TypeOK
<1>. HIDE DEF r
<1>. QED
  BY <1>1, <1>2 DEF Made

LEMMA FinishKeeps == ASSUME IInv, StartFinishes PROVE IInv'
<1>. DEFINE new == Len(sessions')
<1>1. /\ starter.state = "making" /\ starter' = NoStarter
      /\ sessions' = Append(sessions, [NewSession EXCEPT !.epoch = starter.epoch])
      /\ UNCHANGED <<epoch, rotating, rotations>>
  BY DEF StartFinishes
<1>2. starter.epoch \in Nat /\ epoch \in Nat /\ starter.epoch > 0 /\ 0 \notin Callers
  BY <1>1 DEF IInv, TypeOK, EpochsPast, Callers
<1>3. /\ sessions' \in Seq(SessionRecord) /\ new \in Nat /\ 0 \notin Made
      /\ Made' = Made \cup {new} /\ new \notin Made /\ new # 0
      /\ \A s \in Made : sessions'[s] = sessions[s]
  BY <1>1, <1>2, OneMore DEF IInv
<1>. HIDE DEF new
<1>4. CASE epoch = starter.epoch
  <2>1. /\ session' = new /\ UNCHANGED doomed
        /\ capture' = [NoCapture EXCEPT !.epoch = epoch, !.active = TRUE, !.input = session']
    BY <1>4 DEF StartFinishes, new
  <2>2. session = 0 /\ rotating = 0 /\ capture = NoCapture
    BY <1>1, <1>4 DEF IInv, StartAlone
  <2>3. \A c \in Callers : ~(Rotating(c) /\ rotations[c].epoch = epoch)
    BY <1>2, <2>2 DEF IInv, SoleRotation
  <2>4. /\ capture' \in CaptureRecord /\ capture'.epoch = epoch /\ capture'.input = new
        /\ capture'.queue = <<>> /\ capture'.active
    <3>1. capture' = [epoch |-> epoch, active |-> TRUE, input |-> new, retained |-> <<>>,
                      queue |-> <<>>, captured |-> 0]
      BY <2>1 DEF NoCapture
    <3>2. <<>> \in Seq(Nat) /\ <<>> \in Seq(Entry)
      OBVIOUS
    <3>. QED
      BY <1>2, <1>3, <3>1, <3>2 DEF CaptureRecord
  <2>5. TypeOK'
    BY <1>1, <1>3, <2>1, <2>4 DEF IInv, TypeOK, NoStarter
  <2>6. SoleRotation' /\ EpochsPast' /\ StartAlone' /\ RotationKnown'
    BY <1>1, <2>3 DEF IInv, SoleRotation, EpochsPast, StartAlone, RotationKnown, Rotating, NoStarter
  <2>7. QueueKnown' /\ CaptureKnown' /\ InputKnown'
    BY <1>1, <1>2, <1>3, <1>4, <2>1, <2>4 DEF QueueKnown, CaptureKnown, InputKnown
  <2>8. SessionsMade'
    BY <1>1, <1>3, <2>1, <2>4 DEF IInv, SessionsMade, Rotating
  <2>9. Owned'
    <3>1. \A s \in Made : s # session
      BY <1>3, <2>2
    <3>. QED
      BY <1>1, <1>3, <2>1, <3>1 DEF IInv, Owned
  <2>. QED
    BY <2>5, <2>6, <2>7, <2>8, <2>9 DEF IInv
<1>5. CASE epoch # starter.epoch
  <2>1. doomed' = doomed \cup {new} /\ UNCHANGED <<session, capture>>
    BY <1>5 DEF StartFinishes, new
  <2>2. TypeOK'
    BY <1>1, <1>3, <2>1 DEF IInv, TypeOK, NoStarter
  <2>3. SoleRotation' /\ EpochsPast' /\ StartAlone' /\ QueueKnown' /\ CaptureKnown' /\ RotationKnown'
    BY <1>1, <2>1 DEF IInv, SoleRotation, EpochsPast, StartAlone, QueueKnown, CaptureKnown,
       RotationKnown, Rotating, NoStarter
  <2>4. SessionsMade'
    BY <1>1, <1>3, <2>1 DEF IInv, SessionsMade, Rotating
  <2>5. Owned'
    BY <1>1, <1>3, <2>1 DEF IInv, Owned
  <2>6. InputKnown'
    <3>1. Stranded => Stranded'
      BY <1>3, <2>1 DEF IInv, Stranded, Dead, SessionsMade
    <3>. QED
      BY <1>1, <2>1, <3>1 DEF IInv, InputKnown
  <2>. QED
    BY <2>2, <2>3, <2>4, <2>5, <2>6 DEF IInv
<1>. QED
  BY <1>4, <1>5

LEMMA CaptureFailsKeeps == ASSUME IInv, CaptureFails PROVE IInv'
<1>. DEFINE new == Len(sessions')
<1>1. /\ starter.state = "making" /\ starter' = NoStarter /\ epoch = starter.epoch
      /\ sessions' = Append(sessions, NewSession) /\ epoch' = epoch + 1
      /\ doomed' = doomed \cup {new} /\ UNCHANGED <<session, capture, rotating, rotations>>
  BY DEF CaptureFails
<1>2. epoch \in Nat /\ 0 \notin Callers
  BY DEF IInv, TypeOK, Callers
<1>3. /\ sessions' \in Seq(SessionRecord) /\ new \in Nat /\ 0 \notin Made
      /\ Made' = Made \cup {new} /\ new \notin Made /\ new # 0
      /\ \A s \in Made : sessions'[s] = sessions[s]
  <2>1. NewSession = [NewSession EXCEPT !.epoch = epoch]
    BY DEF NewSession
  <2>. QED
    BY <1>1, <1>2, <2>1, OneMore DEF IInv
<1>. HIDE DEF new
<1>4. session = 0 /\ rotating = 0 /\ capture = NoCapture
  BY <1>1 DEF IInv, StartAlone
<1>5. \A c \in Callers : rotations[c].epoch \in Nat /\ rotations[c].epoch <= epoch
  BY DEF IInv, TypeOK, EpochsPast, RotationRecord
<1>6. TypeOK'
  BY <1>1, <1>2, <1>3 DEF IInv, TypeOK, NoStarter
<1>7. SoleRotation' /\ RotationKnown' /\ EpochsPast' /\ StartAlone'
  BY <1>1, <1>2, <1>4, <1>5
     DEF SoleRotation, RotationKnown, EpochsPast, StartAlone, NoStarter
<1>8. QueueKnown' /\ CaptureKnown' /\ InputKnown'
  BY <1>1, <1>4 DEF QueueKnown, CaptureKnown, InputKnown, NoCapture
<1>9. SessionsMade'
  BY <1>1, <1>3, <1>4 DEF IInv, SessionsMade, Rotating, NoCapture
<1>10. Owned'
  BY <1>1, <1>3, <1>4 DEF IInv, Owned
<1>. QED
  BY <1>6, <1>7, <1>8, <1>9, <1>10 DEF IInv

LEMMA LifecycleKeeps == IInv /\ Lifecycle => IInv'
<1>. SUFFICES ASSUME IInv, Lifecycle PROVE IInv'
  OBVIOUS
<1>1. CASE StartBegins \/ Stop
  BY <1>1, ResetKeeps DEF StartBegins, Stop
<1>2. CASE StartPrepares
  BY <1>2, NothingMoves DEF StartPrepares, kept
<1>3. CASE StartThrows
  BY <1>3, NothingMoves DEF StartThrows, kept
<1>4. CASE \E e \in errors : ErrorArrives(e)
  BY <1>4, NothingMoves DEF ErrorArrives, kept
<1>. QED
  BY <1>1, <1>2, <1>3, <1>4, FinishKeeps, CaptureFailsKeeps, CancelKeeps DEF Lifecycle

-----------------------------------------------------------------------------
(* The microphone, the capture's serial queue, Apple's analyzer.             *)

LEMMA BufferQueued ==
    ASSUME IInv, NEW n \in Nat, capture'.queue = Append(capture.queue, Buffer(n)),
           UNCHANGED <<epoch, rotations>>
    PROVE  QueueKnown' /\ capture'.queue \in Seq(Entry)
<1>. DEFINE q == capture.queue
<1>1. q \in Seq(Entry) /\ Buffer(n) \in Entry /\ Buffer(n).kind = "buffer"
  BY DEF IInv, TypeOK, CaptureRecord, Entry, Buffer
<1>2. /\ capture'.queue \in Seq(Entry)
      /\ \A i \in DOMAIN capture'.queue :
            \/ i \in DOMAIN q /\ capture'.queue[i] = q[i]
            \/ capture'.queue[i].kind = "buffer"
  BY <1>1, PutBehind
<1>. HIDE DEF q
<1>3. QueueKnown'
  BY <1>2 DEF IInv, QueueKnown, q
<1>. QED
  BY <1>2, <1>3

LEMMA Dequeued ==
    ASSUME IInv, capture.queue # <<>>, capture'.queue = Tail(capture.queue)
    PROVE  /\ capture'.queue \in Seq(Entry)
           /\ UNCHANGED <<epoch, rotations>> => QueueKnown'
           /\ Head(capture.queue).kind # "buffer" => QueueKnown'
           /\ Head(capture.queue) \in Entry
           /\ LET e == Head(capture.queue)
              IN  e.kind # "buffer" =>
                    /\ e.number \in Callers /\ rotations[e.number].epoch = epoch
                    /\ rotations[e.number].state = IF e.kind = "pause" THEN "pausing" ELSE "resuming"
<1>. DEFINE q == capture.queue
<1>1. q \in Seq(Entry) /\ q # <<>>
  BY DEF IInv, TypeOK, CaptureRecord
<1>2. /\ capture'.queue \in Seq(Entry) /\ Head(q) = q[1] /\ 1 \in DOMAIN q /\ Head(q) \in Entry
      /\ \A i \in DOMAIN capture'.queue :
            i \in Nat /\ i > 0 /\ i + 1 \in DOMAIN q /\ capture'.queue[i] = q[i + 1]
  BY <1>1, TakenInFront
<1>. HIDE DEF q
<1>3. UNCHANGED <<epoch, rotations>> => QueueKnown'
  <2>. SUFFICES ASSUME UNCHANGED <<epoch, rotations>> PROVE QueueKnown'
    OBVIOUS
  <2>1. \A i \in DOMAIN capture'.queue :
           LET e == capture'.queue[i]
           IN  e.kind # "buffer" =>
                 /\ e.number \in Callers /\ rotations[e.number].epoch = epoch
                 /\ rotations[e.number].state = IF e.kind = "pause" THEN "pausing" ELSE "resuming"
    BY <1>2 DEF IInv, QueueKnown, q
  <2>2. ASSUME NEW i \in DOMAIN capture'.queue, NEW j \in DOMAIN capture'.queue,
               capture'.queue[i].kind # "buffer", capture'.queue[j].kind # "buffer"
        PROVE  i = j
    <3>1. i + 1 = j + 1
      BY <1>2, <2>2 DEF IInv, QueueKnown, q
    <3>. QED
      BY <1>2, <3>1
  <2>. QED
    BY <2>1, <2>2 DEF QueueKnown
<1>4. Head(q).kind # "buffer" => QueueKnown'
  <2>. SUFFICES ASSUME Head(q).kind # "buffer" PROVE QueueKnown'
    OBVIOUS
  <2>1. ASSUME NEW i \in DOMAIN capture'.queue PROVE capture'.queue[i].kind = "buffer"
    <3>1. i + 1 # 1
      BY <1>2
    <3>. QED
      BY <1>2, <3>1 DEF IInv, QueueKnown, q
  <2>. QED
    BY <2>1 DEF QueueKnown
<1>5. LET e == Head(q)
      IN  e.kind # "buffer" =>
            /\ e.number \in Callers /\ rotations[e.number].epoch = epoch
            /\ rotations[e.number].state = IF e.kind = "pause" THEN "pausing" ELSE "resuming"
  BY <1>2 DEF IInv, QueueKnown, q
<1>. QED
  BY <1>2, <1>3, <1>4, <1>5 DEF q

\* Buffers are appended to the input of a session.
LEMMA Fed ==
    ASSUME IInv, NEW s \in Made, NEW q \in Seq(Nat),
           sessions' = [sessions EXCEPT ![s].input = q]
    PROVE  GoOn /\ sessions'[s].state = sessions[s].state
<1>. DEFINE r == [sessions[s] EXCEPT !.input = q]
<1>1. sessions[s] \in SessionRecord
  BY DEF IInv, TypeOK, Made
<1>2. r \in SessionRecord /\ r.state = sessions[s].state /\ sessions' = [sessions EXCEPT ![s] = r]
  BY <1>1 DEF SessionRecord
<1>. HIDE DEF r
<1>. QED
  BY <1>2, OneGoesOn DEF IInv, Dead

LEMMA ConsumeKeeps == ASSUME IInv, Consume PROVE IInv'
<1>1. capture \in CaptureRecord /\ capture # NoCapture /\ capture.active
  BY DEF Consume, NoCapture, IInv, TypeOK
<1>2. UNCHANGED <<epoch, session, sessions, rotating, rotations, starter, doomed>>
  BY DEF Consume
<1>3. GoOn
  BY <1>2, SameGoOn DEF IInv
<1>. DEFINE n == capture.captured + 1
<1>4. n \in Nat
  BY <1>1 DEF CaptureRecord
<1>5. CASE capture' = [capture EXCEPT !.captured = n, !.queue = Append(@, Buffer(n))]
  <2>1. capture'.queue = Append(capture.queue, Buffer(n))
    BY <1>1, <1>5 DEF CaptureRecord
  <2>2. QueueKnown' /\ capture'.queue \in Seq(Entry)
    BY <1>2, <1>4, <2>1, BufferQueued
  <2>3. /\ capture' \in CaptureRecord /\ capture'.epoch = capture.epoch
        /\ capture'.input = capture.input /\ capture'.active = capture.active
    BY <1>1, <1>4, <1>5, <2>1, <2>2 DEF CaptureRecord
  <2>. QED
    BY <1>1, <1>2, <1>3, <2>2, <2>3, AudioMoves
<1>6. CASE capture' = [capture EXCEPT !.active = FALSE]
  <2>1. /\ capture' \in CaptureRecord /\ capture'.epoch = capture.epoch
        /\ capture'.input = capture.input /\ ~capture'.active /\ capture'.queue = capture.queue
    BY <1>1, <1>6 DEF CaptureRecord
  <2>2. QueueKnown'
    BY <1>2, <2>1 DEF IInv, QueueKnown
  <2>. QED
    BY <1>1, <1>2, <1>3, <2>1, <2>2, AudioMoves
<1>. QED
  BY <1>5, <1>6 DEF Consume, Fail

LEMMA ProcessKeeps == ASSUME IInv, Process PROVE IInv'
<1>. DEFINE n == Head(capture.queue).number
            into == capture.input
<1>1. /\ capture.queue # <<>>
      /\ UNCHANGED <<epoch, session, rotating, rotations, starter, doomed>>
  BY DEF Process, Serve
<1>2. capture \in CaptureRecord
  BY DEF IInv, TypeOK
<1>3. capture # NoCapture
  BY <1>1 DEF NoCapture
<1>4. Served \in CaptureRecord /\ Served.queue = Tail(capture.queue) /\ Served.epoch = capture.epoch
      /\ Served.input = into /\ Served.active = capture.active /\ Served.retained = capture.retained
  <2>1. Tail(capture.queue) \in Seq(Entry)
    BY <1>1, <1>2 DEF CaptureRecord
  <2>. QED
    BY <1>2, <2>1 DEF Served, CaptureRecord
<1>5. n \in Nat
  <2>1. Head(capture.queue) \in Entry
    BY <1>1, <1>2 DEF CaptureRecord
  <2>. QED
    BY <2>1 DEF Entry
<1>6. /\ \/ UNCHANGED sessions
         \/ into # 0 /\ sessions' = [sessions EXCEPT ![into].input = Append(@, n)]
      /\ \/ capture' = Served
         \/ capture' = [Served EXCEPT !.retained = Append(@, n)]
         \/ capture' = [Served EXCEPT !.active = FALSE]
  BY DEF Process, Fail
<1>7. GoOn
  <2>1. CASE UNCHANGED sessions
    BY <2>1, SameGoOn DEF IInv
  <2>2. CASE into # 0 /\ sessions' = [sessions EXCEPT ![into].input = Append(@, n)]
    <3>1. into \in Made /\ sessions[into] \in SessionRecord
      BY <2>2 DEF IInv, SessionsMade, TypeOK, Made
    <3>2. Append(sessions[into].input, n) \in Seq(Nat)
      BY <1>5, <3>1 DEF SessionRecord
    <3>3. sessions' = [sessions EXCEPT ![into].input = Append(sessions[into].input, n)]
      BY <2>2
    <3>. HIDE DEF into, n
    <3>. QED
      BY <3>1, <3>2, <3>3, Fed
  <2>. QED
    BY <1>6, <2>1, <2>2
<1>8. /\ capture' \in CaptureRecord /\ capture'.epoch = capture.epoch
      /\ capture'.input = capture.input /\ (capture'.active => capture.active)
      /\ capture'.queue = Tail(capture.queue)
  <2>1. Append(Served.retained, n) \in Seq(Nat)
    BY <1>4, <1>5 DEF CaptureRecord
  <2>. QED
    BY <1>4, <1>6, <2>1 DEF CaptureRecord
<1>9. QueueKnown'
  BY <1>1, <1>8, Dequeued
<1>. QED
  BY <1>1, <1>3, <1>7, <1>8, <1>9, AudioMoves

LEMMA AnalyzerKeeps ==
    ASSUME IInv, NEW s \in Made, Analyze(s) \/ AnalysisFinishes(s) \/ Breaks(s) \/ Publish(s)
    PROVE  IInv'
<1>1. UNCHANGED <<epoch, session, capture, rotating, rotations, starter, doomed>>
  BY DEF Analyze, AnalysisFinishes, Breaks, Publish
<1>2. sessions[s] \in SessionRecord /\ TypeOK /\ capture \in CaptureRecord
  BY DEF IInv, TypeOK, Made
<1>3. <<>> \in Seq(Nat)
  OBVIOUS
<1>4. PICK r \in SessionRecord :
          /\ sessions' = [sessions EXCEPT ![s] = r]
          /\ Dead(s) => r.state \in {"broken", "closed"}
          /\ r.state \in {"open", "draining"} => sessions[s].state \in {"open", "draining"}
  <2>1. CASE Analyze(s)
    <3>. DEFINE r == [sessions[s] EXCEPT !.input = Tail(@), !.heard = Append(@, Head(sessions[s].input))]
    <3>1. /\ sessions[s].state \in {"open", "draining"} /\ sessions[s].input # <<>>
          /\ sessions' = [sessions EXCEPT ![s] = r]
      BY <2>1 DEF Analyze
    <3>2. /\ Tail(sessions[s].input) \in Seq(Nat)
          /\ Append(sessions[s].heard, Head(sessions[s].input)) \in Seq(Nat)
      BY <1>2, <3>1 DEF SessionRecord
    <3>3. r \in SessionRecord /\ r.state = sessions[s].state
      BY <1>2, <3>2 DEF SessionRecord
    <3>. HIDE DEF r
    <3>. QED
      BY <3>1, <3>3 DEF Dead
  <2>2. CASE AnalysisFinishes(s)
    <3>. DEFINE r == [sessions[s] EXCEPT !.state = "finished"]
    <3>1. sessions[s].state = "draining" /\ sessions' = [sessions EXCEPT ![s] = r]
      BY <2>2 DEF AnalysisFinishes
    <3>2. r \in SessionRecord /\ r.state = "finished"
      BY <1>2 DEF SessionRecord, SessionStates
    <3>. HIDE DEF r
    <3>. QED
      BY <3>1, <3>2 DEF Dead
  <2>3. CASE Breaks(s)
    <3>. DEFINE r == [sessions[s] EXCEPT !.state = "broken"]
    <3>1. sessions[s].state \in {"open", "draining"} /\ sessions' = [sessions EXCEPT ![s] = r]
      BY <2>3 DEF Breaks
    <3>2. r \in SessionRecord /\ r.state = "broken"
      BY <1>2 DEF SessionRecord, SessionStates
    <3>. HIDE DEF r
    <3>. QED
      BY <3>1, <3>2 DEF Dead
  <2>4. CASE Publish(s)
    <3>. DEFINE r(q) == [sessions[s] EXCEPT !.heard = q]
    <3>1. \E q \in Seq(Nat) : sessions' = [sessions EXCEPT ![s] = r(q)]
      <4>1. sessions[s].heard # <<>> /\ Tail(sessions[s].heard) \in Seq(Nat)
        BY <1>2, <2>4 DEF Publish, SessionRecord
      <4>2. \/ sessions' = [sessions EXCEPT ![s] = r(Tail(sessions[s].heard))]
            \/ sessions' = [sessions EXCEPT ![s] = r(<<>>)]
        BY <2>4 DEF Publish
      <4>. QED
        BY <1>3, <4>1, <4>2
    <3>2. \A q \in Seq(Nat) : r(q) \in SessionRecord /\ r(q).state = sessions[s].state
      BY <1>2 DEF SessionRecord
    <3>. HIDE DEF r
    <3>. QED
      BY <3>1, <3>2 DEF Dead
  <2>. QED
    BY <2>1, <2>2, <2>3, <2>4
<1>5. GoOn
  BY <1>2, <1>4, OneGoesOn
<1>. QED
  BY <1>1, <1>2, <1>5, AudioMoves

-----------------------------------------------------------------------------
(* finalize, and the rotation it starts.                                     *)

Unfinished == RotationStates \ {"none", "done", "failed"}

LEMMA Gone ==
    ASSUME IInv, NEW c \in Callers, NEW x \in RotationStates, Goes(c, x)
    PROVE  /\ rotations' \in [Callers -> RotationRecord]
           /\ rotations'[c].state = x /\ rotations'[c].epoch = rotations[c].epoch
           /\ rotations'[c].previous = rotations[c].previous
           /\ rotations'[c].replacement = rotations[c].replacement
           /\ \A d \in Callers : d # c => rotations'[d] = rotations[d]
BY DEF IInv, TypeOK, Goes, RotationRecord

\* A rotation of this epoch is the current one, and no other is.
LEMMA Current ==
    ASSUME IInv, NEW c \in Callers, Rotating(c)
    PROVE  /\ rotations[c].epoch = epoch <=> rotating = c
           /\ \A d \in Callers : d # c /\ rotations[c].epoch = epoch =>
                 ~(Rotating(d) /\ rotations[d].epoch = epoch)
           /\ rotating = c => c # 0
BY DEF IInv, SoleRotation, Callers

\* The next step of a rotation that goes on, with what it does to the session and
\* the capture if it was not overtaken.
LEMMA RotationGoesOn ==
    ASSUME IInv, NEW c \in Callers, NEW x \in Unfinished, x # "making",
           Rotating(c), rotations[c].state # "making", Goes(c, x), GoOn,
           UNCHANGED <<epoch, rotating, doomed, starter>>,
           capture' \in CaptureRecord, QueueKnown', capture'.input \in Made \cup {0},
           rotations[c].epoch # epoch => UNCHANGED <<session, capture>>,
           rotations[c].epoch = epoch =>
               /\ session' \in {rotations[c].previous, rotations[c].replacement}
               /\ session' # 0 /\ capture'.epoch = epoch
               /\ x \in {"pausing", "paused", "draining"} => session' = rotations[c].previous
               /\ x \in {"resuming", "resumed"} => session' = rotations[c].replacement,
           InputKnown', Owned'
    PROVE  IInv'
<1>1. /\ rotations' \in [Callers -> RotationRecord]
      /\ rotations'[c].state = x /\ rotations'[c].epoch = rotations[c].epoch
      /\ rotations'[c].previous = rotations[c].previous
      /\ rotations'[c].replacement = rotations[c].replacement
      /\ \A d \in Callers : d # c => rotations'[d] = rotations[d]
  BY Gone DEF Unfinished
<1>2. \A d \in Callers : Rotating(d)' <=> Rotating(d)
  BY <1>1 DEF Rotating, Unfinished
<1>3. /\ rotations[c].epoch = epoch <=> rotating = c
      /\ \A d \in Callers : d # c /\ rotations[c].epoch = epoch =>
            ~(Rotating(d) /\ rotations[d].epoch = epoch)
      /\ rotating = c => c # 0
  BY Current
<1>4. rotations[c].previous \in Made /\ rotations[c].replacement \in Made
      /\ session \in Made \cup {0} /\ Made \subseteq Nat
  BY DEF IInv, SessionsMade, Made, TypeOK
<1>5. session' \in Made \cup {0} /\ session' \in Nat
  <2>1. CASE rotations[c].epoch = epoch
    BY <1>4, <2>1
  <2>2. CASE rotations[c].epoch # epoch
    <3>1. session' = session
      BY <2>2
    <3>. QED
      BY <1>4, <3>1 DEF IInv, TypeOK
  <2>. QED
    BY <2>1, <2>2
<1>6. TypeOK'
  BY <1>1, <1>5 DEF IInv, TypeOK, GoOn
<1>7. SoleRotation'
  BY <1>1, <1>2 DEF IInv, SoleRotation
<1>8. EpochsPast' /\ StartAlone'
  BY <1>1, <1>3 DEF IInv, EpochsPast, StartAlone
<1>9. SessionsMade'
  BY <1>1, <1>2, <1>4, <1>5 DEF IInv, SessionsMade, GoOn
<1>10. CaptureKnown'
  <2>1. CASE rotations[c].epoch = epoch
    <3>1. epoch > 0
      BY <2>1 DEF IInv, CaptureKnown, RotationKnown
    <3>. QED
      BY <2>1, <3>1 DEF CaptureKnown
  <2>2. CASE rotations[c].epoch # epoch
    BY <2>2 DEF IInv, CaptureKnown
  <2>. QED
    BY <2>1, <2>2
<1>11. RotationKnown'
  <2>1. CASE rotations[c].epoch = epoch
    BY <1>1, <1>2, <1>3, <2>1 DEF RotationKnown
  <2>2. CASE rotations[c].epoch # epoch
    BY <1>1, <1>2, <2>2 DEF IInv, RotationKnown
  <2>. QED
    BY <2>1, <2>2
<1>. QED
  BY <1>6, <1>7, <1>8, <1>9, <1>10, <1>11 DEF IInv

\* A step of a rotation before its replacement took over, which moves neither the
\* session nor the capture.
LEMMA RotationCarriesOn ==
    ASSUME IInv, NEW c \in Callers, NEW x \in {"draining", "cleaning"},
           rotations[c].state \in {"pausing", "paused", "draining", "resuming"},
           Goes(c, x), GoOn, UNCHANGED <<epoch, session, rotating, doomed, starter, capture>>,
           x = "draining" => rotations[c].state = "paused",
           x = "cleaning" => rotations[c].epoch # epoch \/ Stranded,
           rotations[c].state \in {"pausing", "resuming"} => rotations[c].epoch # epoch
    PROVE  IInv'
<1>1. /\ rotations'[c].state = x /\ rotations'[c].epoch = rotations[c].epoch
      /\ rotations'[c].replacement = rotations[c].replacement
      /\ \A d \in Callers : d # c => rotations'[d] = rotations[d]
  BY Gone DEF RotationStates
<1>2. Rotating(c) /\ rotations[c].state # "making" /\ x \in Unfinished /\ x # "making"
  BY DEF Rotating, Unfinished, RotationStates
<1>3. rotations[c].epoch = epoch <=> rotating = c
  BY <1>2, Current
<1>4. QueueKnown'
  <2>1. \A i \in DOMAIN capture.queue : capture.queue[i].kind # "buffer" =>
            capture.queue[i].number # c
    BY DEF IInv, QueueKnown
  <2>. QED
    BY <1>1, <2>1 DEF IInv, QueueKnown
<1>5. Owned'
  BY <1>1 DEF IInv, Owned, GoOn
<1>6. InputKnown'
  <2>1. Stranded => Stranded'
    BY DEF IInv, Stranded, GoOn, SessionsMade
  <2>2. CASE rotating = c
    BY <1>1, <1>3, <2>1, <2>2 DEF IInv, InputKnown
  <2>3. CASE rotating # c
    <3>1. rotating # 0 => rotations'[rotating] = rotations[rotating]
      BY <1>1, <2>3 DEF IInv, TypeOK
    <3>. QED
      BY <1>1, <2>1, <2>3, <3>1 DEF IInv, InputKnown
  <2>. QED
    BY <2>2, <2>3
<1>7. /\ capture' \in CaptureRecord /\ capture'.input \in Made \cup {0}
      /\ rotations[c].epoch = epoch => capture'.epoch = epoch /\ session' # 0
             /\ session' \in {rotations[c].previous, rotations[c].replacement}
             /\ (x = "draining" => session' = rotations[c].previous)
  BY <1>2 DEF IInv, TypeOK, SessionsMade, CaptureKnown, RotationKnown
<1>8. rotations[c].epoch # epoch => UNCHANGED <<session, capture>>
  OBVIOUS
<1>9. rotations[c].epoch = epoch =>
        /\ session' \in {rotations[c].previous, rotations[c].replacement}
        /\ session' # 0 /\ capture'.epoch = epoch
        /\ x \in {"pausing", "paused", "draining"} => session' = rotations[c].previous
        /\ x \in {"resuming", "resumed"} => session' = rotations[c].replacement
  BY <1>7
<1>. QED
  BY <1>2, <1>4, <1>5, <1>6, <1>7, <1>8, <1>9, RotationGoesOn

LEMMA DrainsKeeps == ASSUME IInv, NEW c \in Callers, Drains(c) PROVE IInv'
<1>. DEFINE p == rotations[c].previous
<1>1. /\ rotations[c].state = "paused" /\ Goes(c, "draining")
      /\ sessions' = IF sessions[p].state = "open"
                     THEN [sessions EXCEPT ![p].state = "draining"] ELSE sessions
      /\ UNCHANGED <<epoch, session, capture, rotating, starter, doomed>>
  BY DEF Drains
<1>2. p \in Made /\ sessions[p] \in SessionRecord
  BY <1>1 DEF IInv, SessionsMade, TypeOK, Rotating, Made
<1>3. GoOn
  <2>1. CASE sessions[p].state = "open"
    <3>. DEFINE r == [sessions[p] EXCEPT !.state = "draining"]
    <3>1. r \in SessionRecord /\ r.state = "draining"
      BY <1>2 DEF SessionRecord, SessionStates
    <3>2. sessions' = [sessions EXCEPT ![p] = r]
      BY <1>1, <2>1
    <3>. HIDE DEF r, p
    <3>. QED
      BY <1>2, <2>1, <3>1, <3>2, OneGoesOn DEF IInv, Dead
  <2>2. CASE sessions[p].state # "open"
    BY <1>1, <2>2, SameGoOn DEF IInv
  <2>. QED
    BY <2>1, <2>2
<1>. QED
  BY <1>1, <1>3, RotationCarriesOn

LEMMA DrainThrowsKeeps == ASSUME IInv, NEW c \in Callers, DrainThrows(c) PROVE IInv'
<1>1. /\ rotations[c].state = "draining" /\ Dead(rotations[c].previous) /\ Goes(c, "cleaning")
      /\ UNCHANGED <<epoch, session, sessions, capture, rotating, starter, doomed>>
  BY DEF DrainThrows
<1>2. rotations[c].epoch = epoch => Stranded
  BY <1>1 DEF IInv, RotationKnown, Rotating, Stranded
<1>. QED
  BY <1>1, <1>2, SameGoOn, RotationCarriesOn DEF IInv

LEMMA AbandonsKeeps == ASSUME IInv, NEW c \in Callers, Abandons(c) PROVE IInv'
<1>1. /\ rotations[c].state \in {"pausing", "resuming"} /\ rotations[c].epoch # epoch
      /\ Goes(c, "cleaning")
      /\ UNCHANGED <<epoch, session, sessions, capture, rotating, starter, doomed>>
  BY DEF Abandons
<1>. QED
  BY <1>1, SameGoOn, RotationCarriesOn DEF IInv

LEMMA SwitchesKeeps == ASSUME IInv, NEW c \in Callers, Switches(c) PROVE IInv'
<1>1. /\ rotations[c].state = "draining"
      /\ sessions[rotations[c].previous].state = "finished"
      /\ UNCHANGED <<epoch, sessions, rotating, starter, doomed>>
  BY DEF Switches
<1>2. GoOn
  BY <1>1, SameGoOn DEF IInv
<1>3. Rotating(c) /\ rotations[c].replacement \in Made /\ rotations[c].replacement # 0
  <2>1. Made = 1 .. Len(sessions)
    BY DEF IInv, TypeOK, Made
  <2>. QED
    BY <1>1, <2>1 DEF IInv, Rotating, SessionsMade
<1>4. CASE epoch = rotations[c].epoch
  <2>1. /\ Goes(c, "resuming") /\ session' = rotations[c].replacement
        /\ capture' = [capture EXCEPT !.queue = Append(@, Resume(c))]
    BY <1>4 DEF Switches
  <2>2. /\ rotations'[c].state = "resuming" /\ rotations'[c].epoch = rotations[c].epoch
        /\ rotations'[c].replacement = rotations[c].replacement
        /\ \A d \in Callers : d # c => rotations'[d] = rotations[d]
    BY <2>1, Gone DEF RotationStates
  <2>3. session = rotations[c].previous /\ session # 0 /\ rotating = c /\ c # 0
    BY <1>1, <1>3, <1>4, Current DEF IInv, RotationKnown
  <2>4. capture.epoch = epoch /\ capture \in CaptureRecord /\ c \in Nat
    BY <2>3 DEF IInv, CaptureKnown, TypeOK, Callers
  <2>5. Resume(c) \in Entry /\ Resume(c).kind = "resume" /\ Resume(c).number = c
    BY <2>4 DEF Resume, Entry
  <2>6. /\ Append(capture.queue, Resume(c)) \in Seq(Entry)
        /\ \A i \in DOMAIN Append(capture.queue, Resume(c)) :
              \/ i \in DOMAIN capture.queue /\ Append(capture.queue, Resume(c))[i] = capture.queue[i]
              \/ i = Len(capture.queue) + 1 /\ Append(capture.queue, Resume(c))[i] = Resume(c)
    BY <2>4, <2>5, PutBehind DEF CaptureRecord
  <2>7. /\ capture' \in CaptureRecord /\ capture'.epoch = epoch /\ capture'.input = capture.input
        /\ capture'.active = capture.active /\ capture'.queue = Append(capture.queue, Resume(c))
    BY <2>1, <2>4, <2>6 DEF CaptureRecord
  <2>8. \A i \in DOMAIN capture.queue : capture.queue[i].kind = "buffer"
    <3>. SUFFICES ASSUME NEW i \in DOMAIN capture.queue, capture.queue[i].kind # "buffer"
         PROVE  FALSE
      OBVIOUS
    <3>. DEFINE d == capture.queue[i].number
    <3>1. d \in Callers /\ rotations[d].epoch = epoch /\ Rotating(d)
          /\ rotations[d].state # "draining"
      BY DEF IInv, QueueKnown, Rotating
    <3>. QED
      BY <1>1, <1>3, <1>4, <3>1, Current
  <2>9. QueueKnown'
    BY <1>1, <1>4, <2>2, <2>5, <2>6, <2>7, <2>8 DEF QueueKnown
  <2>10. Owned'
    BY <1>1, <1>2, <2>1, <2>2, <2>3 DEF IInv, Owned, GoOn
  <2>11. InputKnown'
    BY <1>1, <2>2, <2>3 DEF InputKnown
  <2>12. capture'.input \in Made \cup {0}
    BY <2>7 DEF IInv, SessionsMade
  <2>13. "resuming" \in Unfinished
    BY DEF Unfinished, RotationStates
  <2>. QED
    BY <1>1, <1>2, <1>3, <1>4, <2>1, <2>7, <2>9, <2>10, <2>11, <2>12, <2>13, RotationGoesOn
<1>5. CASE epoch # rotations[c].epoch
  <2>1. Goes(c, "cleaning") /\ UNCHANGED <<session, capture>>
    BY <1>5 DEF Switches
  <2>. QED
    BY <1>1, <1>2, <1>5, <2>1, RotationCarriesOn
<1>. QED
  BY <1>4, <1>5

LEMMA PauseServed == ASSUME IInv, ServePause PROVE IInv'
<1>0. PICK c : c = Head(capture.queue).number
  OBVIOUS
<1>1. /\ capture.queue # <<>> /\ Head(capture.queue).kind = "pause"
      /\ UNCHANGED <<epoch, session, sessions, rotating, starter, doomed>>
  BY DEF ServePause, Serve
<1>2. capture \in CaptureRecord /\ Tail(capture.queue) \in Seq(Entry)
  <2>1. capture \in CaptureRecord
    BY DEF IInv, TypeOK
  <2>. QED
    BY <1>1, <2>1, TakenInFront DEF CaptureRecord
<1>3. /\ Served \in CaptureRecord /\ Served.queue = Tail(capture.queue)
      /\ Served.epoch = capture.epoch /\ Served.active = capture.active
      /\ Served.input = capture.input
  BY <1>2 DEF Served, CaptureRecord
<1>4. PICK x \in {"paused", "cleaning"} :
         /\ Goes(c, x) /\ (x = "cleaning" => ~capture.active /\ capture' = Served)
         /\ x = "paused" => capture' = [Served EXCEPT !.input = 0]
  BY <1>0 DEF ServePause
<1>5. /\ capture' \in CaptureRecord /\ capture'.queue = Tail(capture.queue)
      /\ capture'.epoch = capture.epoch /\ capture'.active = capture.active
      /\ capture'.input \in {0, capture.input}
  <2>1. CASE x = "paused"
    BY <1>3, <1>4, <2>1 DEF CaptureRecord
  <2>2. CASE x = "cleaning"
    BY <1>3, <1>4, <2>2
  <2>. QED
    BY <2>1, <2>2
<1>6. QueueKnown' /\ c \in Callers /\ rotations[c].epoch = epoch /\ rotations[c].state = "pausing"
  BY <1>0, <1>1, <1>5, Dequeued
<1>7. GoOn
  BY <1>1, SameGoOn DEF IInv
<1>8. Rotating(c) /\ x \in Unfinished /\ x # "making" /\ x \in RotationStates
  BY <1>6 DEF Rotating, Unfinished, RotationStates
<1>9. rotating = c /\ c # 0
  BY <1>6, <1>8, Current
<1>10. session = rotations[c].previous /\ session # 0 /\ capture.epoch = epoch
  BY <1>6, <1>8 DEF IInv, RotationKnown, CaptureKnown
<1>11. /\ rotations'[c].state = x /\ rotations'[c].replacement = rotations[c].replacement
       /\ \A d \in Callers : d # c => rotations'[d] = rotations[d]
  BY <1>4, <1>6, <1>8, Gone
<1>12. InputKnown'
  BY <1>1, <1>4, <1>5, <1>9, <1>11 DEF InputKnown
<1>13. Owned'
  BY <1>1, <1>6, <1>7, <1>11 DEF IInv, Owned, GoOn
<1>14. capture'.input \in Made \cup {0}
  BY <1>5 DEF IInv, SessionsMade
<1>15. /\ session' \in {rotations[c].previous, rotations[c].replacement}
       /\ session' # 0 /\ capture'.epoch = epoch
       /\ x \in {"pausing", "paused", "draining"} => session' = rotations[c].previous
       /\ x \in {"resuming", "resumed"} => session' = rotations[c].replacement
  BY <1>1, <1>5, <1>10
<1>. QED
  BY <1>1, <1>4, <1>5, <1>6, <1>7, <1>8, <1>12, <1>13, <1>14, <1>15, RotationGoesOn

LEMMA ResumeServed == ASSUME IInv, ServeResume PROVE IInv'
<1>0. PICK c : c = Head(capture.queue).number
  OBVIOUS
<1>. DEFINE into == rotations[c].replacement
<1>1. /\ capture.queue # <<>> /\ Head(capture.queue).kind = "resume"
      /\ UNCHANGED <<epoch, session, rotating, starter, doomed>>
  BY DEF ServeResume, Serve
<1>2. capture \in CaptureRecord /\ Tail(capture.queue) \in Seq(Entry)
  <2>1. capture \in CaptureRecord
    BY DEF IInv, TypeOK
  <2>. QED
    BY <1>1, <2>1, TakenInFront DEF CaptureRecord
<1>3. /\ Served \in CaptureRecord /\ Served.queue = Tail(capture.queue)
      /\ Served.epoch = capture.epoch /\ Served.active = capture.active
      /\ Served.input = capture.input
  BY <1>2 DEF Served, CaptureRecord
<1>4. PICK x \in {"resumed", "cleaning"} :
         /\ Goes(c, x) /\ (x = "cleaning" => capture' = Served /\ UNCHANGED sessions)
         /\ x = "resumed" =>
               /\ capture' = [Served EXCEPT !.retained = <<>>, !.input = into]
               /\ sessions' = [sessions EXCEPT ![into].input = capture.retained]
  BY <1>0 DEF ServeResume
<1>5. capture'.queue = Tail(capture.queue)
  BY <1>3, <1>4 DEF CaptureRecord
<1>6. QueueKnown' /\ c \in Callers /\ rotations[c].epoch = epoch /\ rotations[c].state = "resuming"
  BY <1>0, <1>1, <1>5, Dequeued
<1>7. Rotating(c) /\ x \in Unfinished /\ x # "making" /\ x \in RotationStates
  BY <1>6 DEF Rotating, Unfinished, RotationStates
<1>8. into \in Made /\ into \in Nat /\ session = into /\ session # 0 /\ capture.epoch = epoch
  <2>1. into \in Made /\ session = into /\ session # 0
    BY <1>6, <1>7 DEF IInv, RotationKnown, SessionsMade
  <2>. QED
    BY <2>1 DEF IInv, CaptureKnown, TypeOK
<1>9. rotating = c /\ c # 0
  BY <1>6, <1>7, Current
<1>10. capture' \in CaptureRecord /\ capture'.epoch = epoch /\ capture'.input \in {into, capture.input}
       /\ (x = "resumed" => capture'.input = into)
  <2>1. <<>> \in Seq(Nat)
    OBVIOUS
  <2>. QED
    BY <1>3, <1>4, <1>8, <2>1 DEF CaptureRecord
<1>11. GoOn
  <2>1. CASE x = "cleaning"
    BY <1>4, <2>1, SameGoOn DEF IInv
  <2>2. CASE x = "resumed"
    <3>1. capture.retained \in Seq(Nat)
      BY <1>2 DEF CaptureRecord
    <3>. HIDE DEF into
    <3>. QED
      BY <1>4, <1>8, <2>2, <3>1, Fed
  <2>. QED
    BY <2>1, <2>2
<1>12. /\ rotations'[c].state = x /\ rotations'[c].replacement = into
       /\ \A d \in Callers : d # c => rotations'[d] = rotations[d]
  BY <1>4, <1>6, <1>7, Gone
<1>13. InputKnown'
  BY <1>1, <1>4, <1>8, <1>9, <1>10, <1>12 DEF InputKnown
<1>14. Owned'
  BY <1>1, <1>6, <1>11, <1>12 DEF IInv, Owned, GoOn
<1>15. capture'.input \in Made \cup {0}
  BY <1>8, <1>10 DEF IInv, SessionsMade
<1>16. /\ session' \in {rotations[c].previous, rotations[c].replacement}
       /\ session' # 0 /\ capture'.epoch = epoch
       /\ x \in {"pausing", "paused", "draining"} => session' = rotations[c].previous
       /\ x \in {"resuming", "resumed"} => session' = rotations[c].replacement
  BY <1>1, <1>4, <1>8, <1>10
<1>. QED
  BY <1>1, <1>4, <1>6, <1>7, <1>10, <1>11, <1>13, <1>14, <1>15, <1>16, RotationGoesOn

LEMMA MakesKeeps == ASSUME IInv, NEW c \in Callers, MakesReplacement(c) PROVE IInv'
<1>. DEFINE new == Len(sessions')
            x == IF epoch = rotations[c].epoch THEN "pausing" ELSE "cleaning"
<1>1. /\ rotations[c].state = "making"
      /\ sessions' = Append(sessions, [NewSession EXCEPT !.epoch = rotations[c].epoch])
      /\ rotations' = [rotations EXCEPT ![c].state = x, ![c].replacement = new]
      /\ capture' = IF epoch = rotations[c].epoch
                    THEN [capture EXCEPT !.queue = Append(@, Pause(c))] ELSE capture
      /\ UNCHANGED <<epoch, session, rotating, starter, doomed>>
  BY DEF MakesReplacement
<1>2. /\ rotations[c] \in RotationRecord /\ rotations[c].epoch \in Nat /\ epoch \in Nat /\ c \in Nat
      /\ capture \in CaptureRecord /\ Rotating(c)
  BY <1>1 DEF IInv, TypeOK, RotationRecord, Callers, Rotating
<1>3. /\ sessions' \in Seq(SessionRecord) /\ new \in Nat /\ new # 0
      /\ Made' = Made \cup {new} /\ new \notin Made
      /\ \A s \in Made : sessions'[s] = sessions[s]
  BY <1>1, <1>2, OneMore DEF IInv
<1>4. x \in {"pausing", "cleaning"} /\ x \in RotationStates
      /\ (rotations[c].epoch = epoch <=> x = "pausing")
  BY DEF RotationStates
<1>. HIDE DEF new, x
<1>5. /\ rotations' \in [Callers -> RotationRecord]
      /\ rotations'[c].state = x /\ rotations'[c].epoch = rotations[c].epoch
      /\ rotations'[c].previous = rotations[c].previous /\ rotations'[c].replacement = new
      /\ \A d \in Callers : d # c => rotations'[d] = rotations[d]
  <2>. DEFINE r == [rotations[c] EXCEPT !.state = x, !.replacement = new]
  <2>1. r \in RotationRecord /\ r.state = x /\ r.replacement = new
        /\ r.epoch = rotations[c].epoch /\ r.previous = rotations[c].previous
    BY <1>2, <1>3, <1>4 DEF RotationRecord
  <2>2. rotations' = [rotations EXCEPT ![c] = r] /\ rotations \in [Callers -> RotationRecord]
    BY <1>1 DEF IInv, TypeOK
  <2>. HIDE DEF r
  <2>. QED
    BY <2>1, <2>2
<1>6. \A d \in Callers : Rotating(d)' <=> Rotating(d)
  BY <1>2, <1>4, <1>5 DEF Rotating
<1>7. /\ rotations[c].epoch = epoch <=> rotating = c
      /\ \A d \in Callers : d # c /\ rotations[c].epoch = epoch =>
            ~(Rotating(d) /\ rotations[d].epoch = epoch)
  BY <1>2, Current
<1>8. \A i \in DOMAIN capture.queue : capture.queue[i].kind # "buffer" =>
          capture.queue[i].number # c /\ rotations[c].epoch # epoch
  <2>. SUFFICES ASSUME NEW i \in DOMAIN capture.queue, capture.queue[i].kind # "buffer"
       PROVE  capture.queue[i].number # c /\ rotations[c].epoch # epoch
    OBVIOUS
  <2>. DEFINE d == capture.queue[i].number
  <2>1. d \in Callers /\ rotations[d].epoch = epoch /\ Rotating(d) /\ rotations[d].state # "making"
    BY DEF IInv, QueueKnown, Rotating
  <2>. QED
    BY <1>1, <1>7, <2>1
<1>9. /\ capture' \in CaptureRecord /\ capture'.epoch = capture.epoch
      /\ capture'.input = capture.input /\ capture'.active = capture.active /\ QueueKnown'
      /\ rotations[c].epoch # epoch => capture' = capture
  <2>1. CASE rotations[c].epoch = epoch
    <3>1. Pause(c) \in Entry /\ Pause(c).kind = "pause" /\ Pause(c).number = c
      BY <1>2 DEF Pause, Entry
    <3>2. /\ Append(capture.queue, Pause(c)) \in Seq(Entry)
          /\ \A i \in DOMAIN Append(capture.queue, Pause(c)) :
                \/ i \in DOMAIN capture.queue /\ Append(capture.queue, Pause(c))[i] = capture.queue[i]
                \/ i = Len(capture.queue) + 1 /\ Append(capture.queue, Pause(c))[i] = Pause(c)
      BY <1>2, <3>1, PutBehind DEF CaptureRecord
    <3>3. /\ capture' \in CaptureRecord /\ capture'.epoch = capture.epoch
          /\ capture'.input = capture.input /\ capture'.active = capture.active
          /\ capture'.queue = Append(capture.queue, Pause(c))
      BY <1>1, <1>2, <2>1, <3>2 DEF CaptureRecord
    <3>4. QueueKnown'
      BY <1>1, <1>4, <1>5, <1>8, <2>1, <3>1, <3>2, <3>3 DEF QueueKnown
    <3>. QED
      BY <2>1, <3>3, <3>4
  <2>2. CASE rotations[c].epoch # epoch
    <3>1. capture' = capture
      BY <1>1, <2>2
    <3>2. ASSUME NEW i \in DOMAIN capture.queue, capture.queue[i].kind # "buffer"
          PROVE  rotations'[capture.queue[i].number] = rotations[capture.queue[i].number]
      <4>1. capture.queue[i].number \in Callers /\ capture.queue[i].number # c
        BY <1>8, <3>2 DEF IInv, QueueKnown
      <4>. QED
        BY <1>5, <4>1
    <3>3. QueueKnown /\ epoch' = epoch
      BY <1>1 DEF IInv
    <3>4. QueueKnown'
      BY <3>1, <3>2, <3>3 DEF QueueKnown
    <3>. QED
      BY <1>2, <3>1, <3>4
  <2>. QED
    BY <2>1, <2>2
<1>10. TypeOK'
  BY <1>1, <1>3, <1>5, <1>9 DEF IInv, TypeOK
<1>11. SoleRotation' /\ EpochsPast'
  BY <1>1, <1>5, <1>6 DEF IInv, SoleRotation, EpochsPast
<1>12. StartAlone'
  <2>1. starter.state # "none" /\ starter.epoch = epoch => rotations[c].epoch # epoch
    BY <1>2, <1>7 DEF IInv, StartAlone, Callers
  <2>. QED
    BY <1>1, <1>9, <2>1 DEF IInv, StartAlone
<1>13. SessionsMade'
  BY <1>1, <1>3, <1>5, <1>6, <1>9 DEF IInv, SessionsMade
<1>14. CaptureKnown'
  <2>1. rotations[c].epoch = epoch => session # 0
    BY <1>2 DEF IInv, RotationKnown
  <2>. QED
    BY <1>1, <1>9, <2>1 DEF IInv, CaptureKnown
<1>15. RotationKnown'
  BY <1>1, <1>2, <1>4, <1>5, <1>6 DEF IInv, RotationKnown
<1>16. Owned'
  <2>1. ASSUME NEW s \in Made, sessions'[s].state \in {"open", "draining"}
        PROVE  \/ s = session' \/ s \in doomed'
               \/ \E d \in Callers :
                      /\ rotations'[d].state \in {"pausing", "paused", "draining", "cleaning"}
                      /\ rotations'[d].replacement = s
    BY <1>1, <1>3, <1>5, <2>1 DEF IInv, Owned
  <2>. QED
    BY <1>3, <1>4, <1>5, <2>1 DEF Owned
<1>17. InputKnown'
  <2>1. Stranded => Stranded'
    BY <1>1, <1>3 DEF IInv, Stranded, Dead, SessionsMade
  <2>2. CASE rotating = c
    BY <1>1, <1>9, <2>1, <2>2 DEF IInv, InputKnown
  <2>3. CASE rotating # c
    <3>1. rotating # 0 => rotations'[rotating] = rotations[rotating]
      BY <1>5, <2>3 DEF IInv, TypeOK
    <3>. QED
      BY <1>1, <1>9, <2>1, <3>1 DEF IInv, InputKnown
  <2>. QED
    BY <2>2, <2>3
<1>. QED
  BY <1>9, <1>10, <1>11, <1>12, <1>13, <1>14, <1>15, <1>16, <1>17 DEF IInv

\* A rotation ends: its replacement is the session, was cancelled or was never made.
LEMMA EndKeeps ==
    ASSUME IInv, NEW c \in Callers, NEW how \in {"done", "failed"}, Ends(c, how),
           rotations[c].state \in {"making", "resumed", "cleaning"},
           GoOn, UNCHANGED <<epoch, session, starter, doomed, capture>>,
           rotations[c].state = "cleaning" => sessions'[rotations[c].replacement].state = "closed",
           rotations[c].epoch = epoch /\ capture.active => capture.input = session \/ Stranded'
    PROVE  IInv'
<1>1. /\ rotations' \in [Callers -> RotationRecord]
      /\ rotations'[c].state = how /\ rotations'[c].epoch = rotations[c].epoch
      /\ \A d \in Callers : d # c => rotations'[d] = rotations[d]
      /\ rotating' = IF epoch = rotations[c].epoch THEN 0 ELSE rotating
  BY Gone DEF Ends, RotationStates
<1>2. Rotating(c) /\ ~Rotating(c)' /\ \A d \in Callers : d # c => (Rotating(d)' <=> Rotating(d))
  BY <1>1 DEF Rotating
<1>3. /\ rotations[c].epoch = epoch <=> rotating = c
      /\ \A d \in Callers : d # c /\ rotations[c].epoch = epoch =>
            ~(Rotating(d) /\ rotations[d].epoch = epoch)
      /\ c # 0 /\ 0 \notin Callers
  BY <1>2, Current DEF Callers
<1>4. TypeOK'
  BY <1>1 DEF IInv, TypeOK, GoOn
<1>5. SoleRotation'
  BY <1>1, <1>2, <1>3 DEF IInv, SoleRotation
<1>6. EpochsPast' /\ StartAlone' /\ CaptureKnown'
  BY <1>1, <1>3 DEF IInv, EpochsPast, StartAlone, CaptureKnown
<1>7. QueueKnown'
  <2>1. \A i \in DOMAIN capture.queue :
           capture.queue[i].kind # "buffer" => capture.queue[i].number # c
    BY DEF IInv, QueueKnown
  <2>. QED
    BY <1>1, <2>1 DEF IInv, QueueKnown
<1>8. SessionsMade'
  BY <1>1, <1>2 DEF IInv, SessionsMade, GoOn
<1>9. RotationKnown'
  BY <1>1, <1>2 DEF IInv, RotationKnown
<1>10. Owned'
  BY <1>1 DEF IInv, Owned, GoOn
<1>11. InputKnown'
  <2>1. CASE rotations[c].epoch = epoch
    BY <2>1 DEF InputKnown
  <2>2. CASE rotations[c].epoch # epoch
    <3>1. rotating' = rotating /\ (rotating # 0 => rotations'[rotating] = rotations[rotating])
      BY <1>1, <1>3, <2>2 DEF IInv, TypeOK
    <3>2. Stranded => Stranded'
      BY DEF IInv, Stranded, GoOn, SessionsMade
    <3>. QED
      BY <3>1, <3>2 DEF IInv, InputKnown
  <2>. QED
    BY <2>1, <2>2
<1>. QED
  BY <1>4, <1>5, <1>6, <1>7, <1>8, <1>9, <1>10, <1>11 DEF IInv

LEMMA EndsKeep ==
    ASSUME IInv, NEW c \in Callers, ReplacementFails(c) \/ Succeeds(c) \/ CleansUp(c)
    PROVE  IInv'
<1>1. UNCHANGED <<epoch, session, starter, doomed, capture>>
  BY DEF ReplacementFails, Succeeds, CleansUp
<1>2. Rotating(c) /\ rotations[c].epoch = epoch => rotating = c
  BY Current
<1>3. CASE ReplacementFails(c)
  <2>1. rotations[c].state = "making" /\ Ends(c, "failed") /\ UNCHANGED sessions
    BY <1>3 DEF ReplacementFails
  <2>2. GoOn
    BY <2>1, SameGoOn DEF IInv
  <2>3. rotations[c].epoch = epoch /\ capture.active => capture.input = session \/ Stranded
    BY <1>2, <2>1 DEF IInv, InputKnown, Rotating
  <2>4. Stranded => Stranded'
    BY <1>1, <2>2 DEF IInv, Stranded, GoOn, SessionsMade
  <2>. QED
    BY <1>1, <2>1, <2>2, <2>3, <2>4, EndKeeps
<1>4. CASE Succeeds(c)
  <2>1. rotations[c].state = "resumed" /\ Ends(c, "done") /\ UNCHANGED sessions
    BY <1>4 DEF Succeeds
  <2>2. GoOn
    BY <2>1, SameGoOn DEF IInv
  <2>3. rotations[c].epoch = epoch /\ capture.active => capture.input = session \/ Stranded
    BY <1>2, <2>1 DEF IInv, InputKnown, Rotating
  <2>4. Stranded => Stranded'
    BY <1>1, <2>2 DEF IInv, Stranded, GoOn, SessionsMade
  <2>. QED
    BY <1>1, <2>1, <2>2, <2>3, <2>4, EndKeeps
<1>5. CASE CleansUp(c)
  <2>. DEFINE r == rotations[c].replacement
  <2>1. rotations[c].state = "cleaning" /\ Ends(c, "failed") /\ sessions' = Close(r)
    BY <1>5 DEF CleansUp
  <2>2. r \in Made /\ Rotating(c)
    BY <2>1 DEF IInv, SessionsMade, Rotating
  <2>3. GoOn /\ sessions'[r].state = "closed"
    BY <2>1, <2>2, Closes DEF IInv
  <2>4. Stranded => Stranded'
    BY <1>1, <2>3 DEF IInv, Stranded, GoOn, SessionsMade
  <2>5. session = r /\ session # 0 => Stranded'
    BY <1>1, <2>3 DEF Stranded, Dead
  <2>6. rotations[c].epoch = epoch => session # 0
    BY <2>2 DEF IInv, RotationKnown
  <2>7. rotations[c].epoch = epoch /\ capture.active => capture.input = session \/ Stranded'
    BY <1>2, <2>1, <2>2, <2>4, <2>5, <2>6 DEF IInv, InputKnown
  <2>. QED
    BY <1>1, <2>1, <2>3, <2>7, EndKeeps
<1>. QED
  BY <1>3, <1>4, <1>5

\* A call begins a rotation.
LEMMA BeginKeeps ==
    ASSUME IInv, NEW c \in Callers, rotating = 0, session # 0, rotating' = c,
           rotations' = [rotations EXCEPT ![c] =
               [state |-> "making", epoch |-> epoch, previous |-> session, replacement |-> 0]],
           rotations[c].state = "none",
           UNCHANGED <<epoch, session, sessions, capture, starter, doomed>>
    PROVE  IInv'
<1>1. /\ epoch \in Nat /\ session \in Nat /\ session \in Made /\ 0 \notin Callers /\ c # 0
  BY DEF IInv, TypeOK, SessionsMade, Callers
<1>2. /\ rotations' \in [Callers -> RotationRecord]
      /\ rotations'[c] = [state |-> "making", epoch |-> epoch, previous |-> session, replacement |-> 0]
      /\ \A d \in Callers : d # c => rotations'[d] = rotations[d]
  BY <1>1 DEF IInv, TypeOK, RotationRecord, RotationStates
<1>3. \A d \in Callers : ~(Rotating(d) /\ rotations[d].epoch = epoch)
  BY <1>1 DEF IInv, SoleRotation
<1>4. Rotating(c)' /\ \A d \in Callers : d # c => (Rotating(d)' <=> Rotating(d))
  BY <1>2 DEF Rotating
<1>5. TypeOK'
  BY <1>2 DEF IInv, TypeOK
<1>6. SoleRotation'
  BY <1>2, <1>3, <1>4 DEF SoleRotation
<1>7. EpochsPast' /\ StartAlone' /\ CaptureKnown'
  BY <1>1, <1>2 DEF IInv, EpochsPast, StartAlone, CaptureKnown
<1>8. QueueKnown'
  <2>1. \A i \in DOMAIN capture.queue : capture.queue[i].kind = "buffer"
    BY <1>3 DEF IInv, QueueKnown, Rotating
  <2>. QED
    BY <2>1 DEF QueueKnown
<1>9. SessionsMade' /\ RotationKnown'
  BY <1>1, <1>2, <1>3, <1>4 DEF IInv, SessionsMade, RotationKnown, Made
<1>10. Owned'
  BY <1>2 DEF IInv, Owned, Made
<1>11. InputKnown'
  BY DEF IInv, InputKnown, Stranded, Dead
<1>. QED
  BY <1>5, <1>6, <1>7, <1>8, <1>9, <1>10, <1>11 DEF IInv

-----------------------------------------------------------------------------
(* The calls of finalize.                                                    *)

CallRecord == [state : {"none", "waiting", "rotating", "cancelled", "returned", "failed"},
               epoch : Nat, await : Nat, captured : Nat, cancelled : BOOLEAN]

\* A call that has not begun a rotation has none.
CallersKnown ==
    /\ callers \in [Callers -> CallRecord]
    /\ \A c \in Callers : callers[c].state \in {"none", "waiting"} => rotations[c].state = "none"

\* A call moves on without a rotation.
LEMMA CallKeeps ==
    ASSUME IInv, CallersKnown, NEW c \in Callers, NEW r \in CallRecord,
           r.state \in {"none", "waiting"} => rotations[c].state = "none",
           callers' = [callers EXCEPT ![c] = r], UNCHANGED kept, UNCHANGED starter
    PROVE  IInv' /\ CallersKnown'
<1>1. IInv'
  BY NothingMoves
<1>2. UNCHANGED rotations
  BY DEF kept
<1>3. CallersKnown'
  BY <1>2 DEF CallersKnown
<1>. QED
  BY <1>1, <1>3

LEMMA ProceedsKeeps ==
    ASSUME IInv, CallersKnown, NEW c \in Callers, NEW call \in CallRecord,
           callers[c].state \in {"none", "waiting"}, Proceeds(c, call),
           UNCHANGED <<epoch, session, sessions, capture, starter, doomed>>
    PROVE  IInv' /\ CallersKnown'
<1>1. rotations[c].state = "none"
  BY DEF CallersKnown
<1>2. rotating \in Nat /\ 0 \notin Callers
  BY DEF IInv, TypeOK, Callers
<1>3. CASE rotating # 0
  <2>. DEFINE r == [call EXCEPT !.state = "waiting", !.await = rotating]
  <2>1. r \in CallRecord
    BY <1>2 DEF CallRecord
  <2>2. callers' = [callers EXCEPT ![c] = r] /\ UNCHANGED kept
    BY <1>3 DEF Proceeds, kept
  <2>. QED
    BY <1>1, <2>1, <2>2, CallKeeps
<1>4. CASE rotating = 0 /\ session = 0
  <2>. DEFINE r == [call EXCEPT !.state = "cancelled"]
  <2>1. r \in CallRecord
    BY DEF CallRecord
  <2>2. callers' = [callers EXCEPT ![c] = r] /\ UNCHANGED kept
    BY <1>4 DEF Proceeds, kept
  <2>. QED
    BY <1>1, <2>1, <2>2, CallKeeps
<1>5. CASE rotating = 0 /\ session # 0
  <2>. DEFINE r == [call EXCEPT !.state = "rotating"]
  <2>1. r \in CallRecord /\ r.state = "rotating"
    BY DEF CallRecord
  <2>2. /\ callers' = [callers EXCEPT ![c] = r] /\ rotating' = c
        /\ rotations' = [rotations EXCEPT ![c] =
               [state |-> "making", epoch |-> epoch, previous |-> session, replacement |-> 0]]
    BY <1>5 DEF Proceeds
  <2>3. IInv'
    BY <1>1, <1>5, <2>2, BeginKeeps
  <2>4. CallersKnown'
    <3>1. \A d \in Callers : d # c => rotations'[d] = rotations[d]
      BY <2>2 DEF IInv, TypeOK
    <3>. HIDE DEF r
    <3>. QED
      BY <2>1, <2>2, <3>1 DEF CallersKnown
  <2>. QED
    BY <2>3, <2>4
<1>. QED
  BY <1>3, <1>4, <1>5

LEMMA CallsKeep ==
    ASSUME IInv, CallersKnown, NEW c \in Callers,
           Finalize(c) \/ CancelCaller(c) \/ Resumes(c) \/ Returns(c)
    PROVE  IInv' /\ CallersKnown'
<1>1. callers[c] \in CallRecord
  BY DEF CallersKnown
<1>2. CASE Finalize(c)
  <2>. DEFINE r == [NoCall EXCEPT !.epoch = epoch, !.captured = capture.captured]
  <2>1. r \in CallRecord
    BY DEF CallRecord, NoCall, IInv, TypeOK, CaptureRecord
  <2>2. /\ callers[c].state = "none" /\ Proceeds(c, r)
        /\ UNCHANGED <<epoch, session, sessions, capture, starter, doomed>>
    BY <1>2 DEF Finalize
  <2>. HIDE DEF r
  <2>. QED
    BY <2>1, <2>2, ProceedsKeeps
<1>3. CASE CancelCaller(c)
  <2>. DEFINE r == [callers[c] EXCEPT !.cancelled = TRUE]
  <2>1. r \in CallRecord /\ r.state = callers[c].state
    BY <1>1 DEF CallRecord
  <2>2. callers' = [callers EXCEPT ![c] = r] /\ UNCHANGED kept /\ UNCHANGED starter
    BY <1>3 DEF CancelCaller, kept
  <2>3. r.state \in {"none", "waiting"} => rotations[c].state = "none"
    BY <2>1 DEF CallersKnown
  <2>. HIDE DEF r
  <2>. QED
    BY <2>1, <2>2, <2>3, CallKeeps
<1>4. CASE Resumes(c)
  <2>1. callers[c].state = "waiting"
    BY <1>4 DEF Resumes
  <2>2. CASE Proceeds(c, callers[c]) /\ UNCHANGED <<epoch, session, sessions, capture, starter, doomed>>
    BY <1>1, <2>1, <2>2, ProceedsKeeps
  <2>3. ASSUME NEW how \in {"failed", "cancelled"},
               callers' = [callers EXCEPT ![c].state = how], UNCHANGED kept, UNCHANGED starter
        PROVE  IInv' /\ CallersKnown'
    <3>. DEFINE r == [callers[c] EXCEPT !.state = how]
    <3>1. r \in CallRecord /\ r.state = how
      BY <1>1 DEF CallRecord
    <3>2. callers' = [callers EXCEPT ![c] = r]
      BY <2>3
    <3>. HIDE DEF r
    <3>. QED
      BY <2>3, <3>1, <3>2, CallKeeps
  <2>. QED
    BY <1>4, <2>2, <2>3 DEF Resumes, kept
<1>5. CASE Returns(c)
  <2>. DEFINE how == IF rotations[c].state = "done" THEN "returned" ELSE "failed"
              r == [callers[c] EXCEPT !.state = how]
  <2>1. r \in CallRecord /\ r.state \in {"returned", "failed"}
    BY <1>1 DEF CallRecord
  <2>2. callers' = [callers EXCEPT ![c] = r] /\ UNCHANGED kept /\ UNCHANGED starter
    BY <1>5 DEF Returns, kept
  <2>. HIDE DEF r
  <2>. QED
    BY <2>1, <2>2, CallKeeps
<1>. QED
  BY <1>2, <1>3, <1>4, <1>5

-----------------------------------------------------------------------------
(* The steps together.                                                       *)

\* What the rotations and the audio do begins no rotation and answers no call.
LEMMA CallsWait ==
    ASSUME IInv, CallersKnown, UNCHANGED callers,
           \A c \in Callers : rotations[c].state = "none" => rotations'[c].state = "none"
    PROVE  CallersKnown'
  BY DEF CallersKnown

LEMMA LifecycleWaits == ASSUME IInv, CallersKnown, Lifecycle PROVE CallersKnown'
<1>1. UNCHANGED <<callers, rotations>>
  BY DEF Lifecycle, StartBegins, StartPrepares, StartThrows, StartFinishes, CaptureFails, Stop,
     CancelSession, ErrorArrives
<1>. QED
  BY <1>1, CallsWait

LEMMA AudioKeeps == ASSUME IInv, CallersKnown, Audio PROVE IInv' /\ CallersKnown'
<1>1. CASE Consume \/ Process \/ \E s \in Made : Analyze(s) \/ AnalysisFinishes(s) \/ Breaks(s) \/ Publish(s)
  <2>1. IInv'
    BY <1>1, ConsumeKeeps, ProcessKeeps, AnalyzerKeeps
  <2>2. UNCHANGED <<callers, rotations>>
    BY <1>1 DEF Consume, Process, Analyze, AnalysisFinishes, Breaks, Publish
  <2>. QED
    BY <2>1, <2>2, CallsWait
<1>2. CASE ServePause \/ ServeResume
  <2>. DEFINE c == Head(capture.queue).number
  <2>1. IInv'
    BY <1>2, PauseServed, ResumeServed
  <2>2. /\ UNCHANGED callers /\ capture.queue # <<>> /\ Head(capture.queue).kind \in {"pause", "resume"}
        /\ \E x \in RotationStates : Goes(c, x)
    BY <1>2 DEF ServePause, ServeResume, Serve, RotationStates
  <2>3. capture.queue \in Seq(Entry)
    BY DEF IInv, TypeOK, CaptureRecord
  <2>4. Head(capture.queue) = capture.queue[1] /\ 1 \in DOMAIN capture.queue
    BY <2>2, <2>3, TakenInFront
  <2>5. c \in Callers /\ rotations[c].state \in {"pausing", "resuming"}
    BY <2>2, <2>4 DEF IInv, QueueKnown
  <2>. HIDE DEF c
  <2>6. \A d \in Callers : d # c => rotations'[d] = rotations[d]
    BY <2>2, <2>5, Gone
  <2>. QED
    BY <2>1, <2>2, <2>5, <2>6, CallsWait
<1>. QED
  BY <1>1, <1>2 DEF Audio

LEMMA RotatesKeeps ==
    ASSUME IInv, CallersKnown, NEW c \in Callers,
           \/ MakesReplacement(c) \/ ReplacementFails(c) \/ Drains(c) \/ Switches(c)
           \/ DrainThrows(c) \/ Abandons(c) \/ Succeeds(c) \/ CleansUp(c)
    PROVE  IInv' /\ CallersKnown'
<1>1. IInv'
  BY MakesKeeps, DrainsKeeps, SwitchesKeeps, DrainThrowsKeeps, AbandonsKeeps, EndsKeep
<1>2. UNCHANGED callers /\ rotations[c].state # "none"
  BY DEF MakesReplacement, ReplacementFails, Drains, Switches, DrainThrows, Abandons, Succeeds,
     CleansUp
<1>3. \A d \in Callers : d # c => rotations'[d] = rotations[d]
  BY DEF IInv, TypeOK, MakesReplacement, ReplacementFails, Drains, Switches, DrainThrows, Abandons,
     Succeeds, CleansUp, Ends, Goes
<1>. QED
  BY <1>1, <1>2, <1>3, CallsWait

LEMMA InitHolds == Init => IInv /\ CallersKnown
<1>. SUFFICES ASSUME Init PROVE IInv /\ CallersKnown
  OBVIOUS
<1>1. /\ epoch = 0 /\ session = 0 /\ sessions = <<>> /\ capture = NoCapture /\ rotating = 0
      /\ rotations = [c \in Callers |-> NoRotation] /\ callers = [c \in Callers |-> NoCall]
      /\ starter = NoStarter /\ doomed = {}
  BY DEF Init
<1>2. TypeOK
  <2>1. <<>> \in Seq(SessionRecord) /\ <<>> \in Seq(Nat) /\ <<>> \in Seq(Entry)
    OBVIOUS
  <2>2. NoCapture \in CaptureRecord
    BY <2>1 DEF NoCapture, CaptureRecord
  <2>3. NoRotation \in RotationRecord
    BY DEF NoRotation, RotationRecord, RotationStates
  <2>. QED
    BY <1>1, <2>1, <2>2, <2>3 DEF TypeOK, NoStarter
<1>3. Made = {}
  BY <1>1 DEF Made
<1>4. \A c \in Callers : ~Rotating(c) /\ rotations[c].epoch = 0 /\ c # 0
  BY <1>1 DEF Rotating, NoRotation, Callers
<1>5. SoleRotation /\ EpochsPast /\ StartAlone /\ RotationKnown /\ CaptureKnown
  BY <1>1, <1>4 DEF SoleRotation, EpochsPast, StartAlone, RotationKnown, CaptureKnown, NoStarter
<1>6. QueueKnown /\ SessionsMade /\ Owned /\ InputKnown
  BY <1>1, <1>3, <1>4 DEF QueueKnown, SessionsMade, Owned, InputKnown, NoCapture
<1>7. CallersKnown
  <2>1. NoCall \in CallRecord
    BY DEF NoCall, CallRecord
  <2>. QED
    BY <1>1, <2>1 DEF CallersKnown, NoRotation
<1>. QED
  BY <1>2, <1>5, <1>6, <1>7 DEF IInv

\* Every step of the recognizer keeps the invariant.
THEOREM AsrInvariant == Spec => [](IInv /\ CallersKnown)
<1>1. IInv /\ CallersKnown /\ [Next]_vars => (IInv /\ CallersKnown)'
  <2>. SUFFICES ASSUME IInv, CallersKnown, [Next]_vars PROVE IInv' /\ CallersKnown'
    OBVIOUS
  <2>1. CASE Lifecycle
    BY <2>1, LifecycleKeeps, LifecycleWaits
  <2>2. CASE Audio
    BY <2>2, AudioKeeps
  <2>3. CASE Finalization
    BY <2>3, CallsKeep, RotatesKeeps DEF Finalization
  <2>4. CASE UNCHANGED vars
    <3>1. UNCHANGED kept /\ UNCHANGED starter /\ UNCHANGED callers /\ UNCHANGED rotations
      BY <2>4 DEF vars, kept
    <3>. QED
      BY <3>1, NothingMoves, CallsWait
  <2>. QED
    BY <2>1, <2>2, <2>3, <2>4 DEF Next
<1>. QED
  BY <1>1, InitHolds, PTL DEF Spec

\* At most one rotation of an epoch is under way, and finalizationTask is it: calls of
\* finalize that find one wait for it instead of replacing the session twice.
THEOREM OneRotation == Spec => []SoleRotation
<1>1. IInv => SoleRotation
  BY DEF IInv
<1>. QED
  BY <1>1, AsrInvariant, PTL

\* When starts, stops and rotations are through, in whatever order they overlapped, the
\* current session is the only open one and capture feeds it.
THEOREM NothingLeft == Spec => []NothingLeaks
<1>1. IInv => NothingLeaks
  <2>. SUFFICES ASSUME IInv, Quiet PROVE
         /\ \A s \in Made : sessions[s].state \in {"open", "draining"} => s = session
         /\ capture # NoCapture <=> session # 0
         /\ capture # NoCapture => capture.epoch = epoch
         /\ capture.active /\ ~Stranded => capture.input = session
    BY DEF NothingLeaks
  <2>1. doomed = {} /\ \A c \in Callers : ~Rotating(c)
    BY DEF Quiet
  <2>2. \A s \in Made : sessions[s].state \in {"open", "draining"} => s = session
    BY <2>1 DEF IInv, Owned, Rotating
  <2>3. capture # NoCapture <=> session # 0
    BY DEF IInv, CaptureKnown, NoCapture
  <2>4. capture # NoCapture => capture.epoch = epoch
    BY <2>3 DEF IInv, CaptureKnown
  <2>5. capture.active /\ ~Stranded => capture.input = session
    BY <2>1 DEF IInv, TypeOK, InputKnown, Rotating
  <2>. QED
    BY <2>2, <2>3, <2>4, <2>5
<1>. QED
  BY <1>1, AsrInvariant, PTL

-----------------------------------------------------------------------------
(* Where the buffers are.                                                    *)

\* The buffers after the a-th up to the b-th.
Run(a, b) == [k \in 1 .. b - a |-> a + k]

\* Who is given what is a matter of four boundaries that only move on.
InOrder(given, heard, input, retained, queued, n) ==
    \E a, b, c, d \in Nat :
        /\ a <= b /\ b <= c /\ c <= d /\ d <= n
        /\ given = Run(0, a) /\ heard = Run(a, b) /\ input = Run(b, c)
        /\ retained = Run(c, d) /\ queued = Run(d, n)

Empty(s) == sessions[s].heard = <<>> /\ sessions[s].input = <<>>

\* The sessions of an epoch are told from those of others.
SessionsAge ==
    /\ published \in Seq(Nat) /\ (session = 0 => published = <<>>)
    /\ \A s \in Made : sessions[s].epoch <= epoch
    /\ session # 0 => sessions[session].epoch = epoch
    /\ \A s \in doomed : sessions[s].epoch # epoch
    /\ \A c \in Callers : Rotating(c) =>
          /\ sessions[rotations[c].previous].epoch = rotations[c].epoch
          /\ rotations[c].state # "making" =>
                /\ sessions[rotations[c].replacement].epoch = rotations[c].epoch
                /\ rotations[c].replacement # rotations[c].previous

\* No session but the current one holds audio of this epoch.
OneHolder == \A s \in Made : sessions[s].epoch = epoch /\ s # session => Empty(s)

\* Buffers are retained, or capture feeds the current session, which is then not being drained.
FedOrRetained ==
    /\ capture.input \in {0, session}
    /\ capture.input # 0 => capture.retained = <<>>
    /\ session # 0 /\ sessions[session].state \in {"draining", "finished"} =>
          /\ capture.input = 0
          /\ \E c \in Callers : /\ rotations[c].state = "draining" /\ rotations[c].epoch = epoch
                                /\ rotations[c].previous = session
    /\ session # 0 /\ sessions[session].state = "finished" => sessions[session].input = <<>>

\* While a session is replaced nothing is fed, and the replacement has nothing yet.
CutAt(c) ==
    Rotating(c) /\ rotations[c].epoch = epoch =>
        /\ \/ rotations[c].state \in {"paused", "draining", "resuming"}
           \/ rotations[c].state = "cleaning" /\ session = rotations[c].replacement
           => capture.input = 0
        /\ rotations[c].state \notin {"making", "resumed"} =>
              /\ Empty(rotations[c].replacement)
              /\ sessions[rotations[c].replacement].state \notin {"draining", "finished"}

CutKnown == \A c \in Callers : CutAt(c)

Accounted ==
    capture.active =>
        InOrder(published, sessions[session].heard, sessions[session].input, capture.retained,
                Numbers(capture.queue), capture.captured)

AudioInv == SessionsAge /\ OneHolder /\ FedOrRetained /\ CutKnown /\ Accounted

-----------------------------------------------------------------------------
(* What a call of finalize has behind it.                                    *)

CallsAge ==
    \A c \in Callers :
        /\ callers[c].epoch <= epoch
        /\ callers[c].epoch = epoch => callers[c].captured <= capture.captured
        /\ rotations[c].state # "none" => rotations[c].epoch = callers[c].epoch

\* Behind the cut of a rotation are the buffers taken after the call.
PauseBehind ==
    \A i, j \in DOMAIN capture.queue :
        i < j /\ capture.queue[i].kind = "pause" /\ capture.queue[j].kind = "buffer" =>
            capture.queue[j].number > callers[capture.queue[i].number].captured

\* What the current session or those before it were given.
Passed == Len(published) + Len(sessions[session].heard) + Len(sessions[session].input)

\* After the cut the session, and after the change the host, has what was taken before the call.
BarrierAt(c) ==
    rotations[c].epoch = epoch =>
        /\ rotations[c].state \in {"paused", "draining"} => Stranded \/ callers[c].captured <= Passed
        /\ rotations[c].state \in {"resuming", "resumed", "done"} =>
              callers[c].captured <= Len(published)

BarrierKnown == \A c \in Callers : BarrierAt(c)

BarrierInv == CallsAge /\ PauseBehind /\ BarrierKnown /\ FinalizeBarrier

-----------------------------------------------------------------------------
(* Runs of buffers.                                                          *)

LEMMA RunIs ==
    ASSUME NEW a \in Nat, NEW b \in Nat, a <= b
    PROVE  Run(a, b) \in Seq(Nat) /\ Len(Run(a, b)) = b - a
<1>1. b - a \in Nat
  OBVIOUS
<1>. QED
  BY <1>1 DEF Run

LEMMA RunNothing ==
    ASSUME NEW a \in Nat, NEW b \in Nat, a <= b
    PROVE  Run(a, b) = <<>> <=> a = b
<1>1. Run(a, b) \in Seq(Nat) /\ Len(Run(a, b)) = b - a
  BY RunIs
<1>. DEFINE q == Run(a, b)
<1>2. q \in Seq(Nat) /\ Len(q) = b - a
  BY <1>1
<1>. HIDE DEF q
<1>3. q = <<>> <=> Len(q) = 0
  BY <1>2
<1>4. q = <<>> <=> a = b
  BY <1>2, <1>3
<1>. QED
  BY <1>4 DEF q

LEMMA RunAppended ==
    ASSUME NEW a \in Nat, NEW b \in Nat, a <= b
    PROVE  Append(Run(a, b), b + 1) = Run(a, b + 1)
<1>1. b - a \in Nat /\ b + 1 - a = b - a + 1 /\ b + 1 \in Nat
  OBVIOUS
<1>. DEFINE q == Run(a, b)
            more == Append(q, b + 1)
<1>2. q \in Seq(Nat) /\ Len(q) = b - a
  BY RunIs
<1>3. \A k \in 1 .. b - a : q[k] = a + k
  BY DEF Run
<1>. HIDE DEF q
<1>4. /\ more \in Seq(Nat) /\ Len(more) = b - a + 1 /\ more[b - a + 1] = b + 1
      /\ \A k \in 1 .. b - a : more[k] = q[k]
  BY <1>1, <1>2
<1>. HIDE DEF more
<1>5. ASSUME NEW k \in 1 .. b - a + 1 PROVE more[k] = a + k
  <2>1. CASE k \in 1 .. b - a
    BY <1>3, <1>4, <2>1
  <2>2. CASE k \notin 1 .. b - a
    <3>1. k = b - a + 1 /\ a + k = b + 1
      BY <1>1, <2>2
    <3>. QED
      BY <1>4, <3>1
  <2>. QED
    BY <2>1, <2>2
<1>6. more = [k \in 1 .. b - a + 1 |-> a + k]
  BY <1>1, <1>4, <1>5
<1>. QED
  BY <1>1, <1>6 DEF more, q, Run

LEMMA RunTaken ==
    ASSUME NEW a \in Nat, NEW b \in Nat, a <= b, Run(a, b) # <<>>
    PROVE  a + 1 <= b /\ Head(Run(a, b)) = a + 1 /\ Tail(Run(a, b)) = Run(a + 1, b)
<1>1. a + 1 <= b
  BY RunNothing
<1>2. Run(a, b) \in Seq(Nat) /\ Len(Run(a, b)) = b - a /\ b - a \in Nat /\ b - a > 0
  BY <1>1, RunIs
<1>3. Head(Run(a, b)) = a + 1
  <2>1. Head(Run(a, b)) = Run(a, b)[1]
    BY <1>2
  <2>. QED
    BY <1>2, <2>1 DEF Run
<1>. DEFINE q == Run(a, b)
            rest == Tail(q)
<1>4. q \in Seq(Nat) /\ Len(q) = b - a
  BY <1>2
<1>5. \A k \in 1 .. b - a : q[k] = a + k
  BY DEF Run
<1>6. b - (a + 1) \in Nat /\ b - a - 1 = b - (a + 1) /\ \A k \in 1 .. b - (a + 1) : k + 1 \in 1 .. b - a /\ a + (k + 1) = (a + 1) + k
  BY <1>1
<1>. HIDE DEF q
<1>7. rest \in Seq(Nat) /\ Len(rest) = b - (a + 1) /\ \A k \in 1 .. b - (a + 1) : rest[k] = q[k + 1]
  BY <1>2, <1>4, <1>6
<1>8. \A k \in 1 .. b - (a + 1) : rest[k] = (a + 1) + k
  BY <1>5, <1>6, <1>7
<1>. HIDE DEF rest
<1>9. rest = [k \in 1 .. b - (a + 1) |-> (a + 1) + k]
  BY <1>7, <1>8
<1>. QED
  BY <1>1, <1>3, <1>9 DEF Run, rest, q

LEMMA JoinedAt ==
    ASSUME NEW p \in Seq(Nat), NEW q \in Seq(Nat)
    PROVE  /\ p \o q \in Seq(Nat) /\ Len(p \o q) = Len(p) + Len(q)
           /\ \A k \in 1 .. Len(p) : (p \o q)[k] = p[k]
           /\ \A k \in 1 .. Len(q) : (p \o q)[Len(p) + k] = q[k]
  OBVIOUS

LEMMA RunsJoined ==
    ASSUME NEW a \in Nat, NEW b \in Nat, NEW c \in Nat, a <= b, b <= c
    PROVE  Run(a, b) \o Run(b, c) = Run(a, c)
<1>1. /\ Run(a, b) \in Seq(Nat) /\ Len(Run(a, b)) = b - a /\ b - a \in Nat
      /\ Run(b, c) \in Seq(Nat) /\ Len(Run(b, c)) = c - b /\ c - b \in Nat
  <2>1. Run(a, b) \in Seq(Nat) /\ Len(Run(a, b)) = b - a
    BY RunIs
  <2>2. Run(b, c) \in Seq(Nat) /\ Len(Run(b, c)) = c - b
    BY RunIs
  <2>. QED
    BY <2>1, <2>2
<1>. DEFINE p == Run(a, b)
            q == Run(b, c)
            both == p \o q
<1>. HIDE DEF p, q
<1>2. /\ both \in Seq(Nat) /\ Len(both) = (b - a) + (c - b)
      /\ \A k \in 1 .. b - a : both[k] = p[k]
      /\ \A k \in 1 .. c - b : both[(b - a) + k] = q[k]
  <2>1. p \in Seq(Nat) /\ q \in Seq(Nat) /\ Len(p) = b - a /\ Len(q) = c - b
    BY <1>1 DEF p, q
  <2>2. /\ p \o q \in Seq(Nat) /\ Len(p \o q) = Len(p) + Len(q)
        /\ \A k \in 1 .. Len(p) : (p \o q)[k] = p[k]
        /\ \A k \in 1 .. Len(q) : (p \o q)[Len(p) + k] = q[k]
    BY <2>1, JoinedAt
  <2>. QED
    BY <2>1, <2>2
<1>. HIDE DEF both
<1>3. (b - a) + (c - b) = c - a
  OBVIOUS
<1>4. \A k \in 1 .. b - a : both[k] = a + k
  BY <1>2 DEF Run, p
<1>5. \A k \in 1 .. c - b : both[(b - a) + k] = b + k
  BY <1>2 DEF Run, q
<1>6. ASSUME NEW k \in 1 .. c - a PROVE both[k] = a + k
  <2>1. CASE k \in 1 .. b - a
    BY <1>4, <2>1
  <2>2. CASE k \notin 1 .. b - a
    <3>1. k - (b - a) \in 1 .. c - b /\ (b - a) + (k - (b - a)) = k /\ b + (k - (b - a)) = a + k
      BY <2>2
    <3>. QED
      BY <1>5, <3>1
  <2>. QED
    BY <2>1, <2>2
<1>7. both = [k \in 1 .. c - a |-> a + k]
  BY <1>2, <1>3, <1>6
<1>. QED
  BY <1>7 DEF Run, both, p, q

-----------------------------------------------------------------------------
(* What moves a boundary.                                                    *)

LEMMA InOrderAnalyzed ==
    ASSUME NEW g, NEW h, NEW i, NEW r, NEW q, NEW n \in Nat, InOrder(g, h, i, r, q, n), i # <<>>
    PROVE  InOrder(g, Append(h, Head(i)), Tail(i), r, q, n)
<1>1. PICK a, b, c, d \in Nat :
        /\ a <= b /\ b <= c /\ c <= d /\ d <= n
        /\ g = Run(0, a) /\ h = Run(a, b) /\ i = Run(b, c) /\ r = Run(c, d) /\ q = Run(d, n)
  BY DEF InOrder
<1>2. b + 1 <= c /\ Head(i) = b + 1 /\ Tail(i) = Run(b + 1, c)
  BY <1>1, RunTaken
<1>3. Append(h, Head(i)) = Run(a, b + 1)
  BY <1>1, <1>2, RunAppended
<1>4. b + 1 \in Nat /\ a <= b + 1
  BY <1>1
<1>. QED
  BY <1>1, <1>2, <1>3, <1>4 DEF InOrder

LEMMA InOrderPublished ==
    ASSUME NEW g, NEW h, NEW i, NEW r, NEW q, NEW n \in Nat, InOrder(g, h, i, r, q, n), h # <<>>
    PROVE  InOrder(Append(g, Head(h)), Tail(h), i, r, q, n)
<1>1. PICK a, b, c, d \in Nat :
        /\ a <= b /\ b <= c /\ c <= d /\ d <= n
        /\ g = Run(0, a) /\ h = Run(a, b) /\ i = Run(b, c) /\ r = Run(c, d) /\ q = Run(d, n)
  BY DEF InOrder
<1>2. a + 1 <= b /\ Head(h) = a + 1 /\ Tail(h) = Run(a + 1, b)
  BY <1>1, RunTaken
<1>3. Append(g, Head(h)) = Run(0, a + 1)
  <2>1. 0 \in Nat /\ 0 <= a
    BY <1>1
  <2>. QED
    BY <1>1, <1>2, <2>1, RunAppended
<1>4. a + 1 \in Nat
  BY <1>1
<1>. QED
  BY <1>1, <1>2, <1>3, <1>4 DEF InOrder

LEMMA InOrderServed ==
    ASSUME NEW g, NEW h, NEW i, NEW r, NEW q, NEW n \in Nat, InOrder(g, h, i, r, q, n), q # <<>>
    PROVE  /\ InOrder(g, h, i, Append(r, Head(q)), Tail(q), n)
           /\ r = <<>> => InOrder(g, h, Append(i, Head(q)), r, Tail(q), n)
<1>1. PICK a, b, c, d \in Nat :
        /\ a <= b /\ b <= c /\ c <= d /\ d <= n
        /\ g = Run(0, a) /\ h = Run(a, b) /\ i = Run(b, c) /\ r = Run(c, d) /\ q = Run(d, n)
  BY DEF InOrder
<1>. DEFINE e == d + 1
            rest == Tail(q)
            more == Append(r, Head(q))
            fed == Append(i, Head(q))
<1>2. e <= n /\ Head(q) = e /\ rest = Run(e, n) /\ e \in Nat /\ c <= e /\ d <= e
  <2>1. d + 1 <= n /\ Head(q) = d + 1 /\ Tail(q) = Run(d + 1, n)
    BY <1>1, RunTaken
  <2>. QED
    BY <1>1, <2>1
<1>3. more = Run(c, e)
  <2>1. Append(Run(c, d), d + 1) = Run(c, d + 1)
    BY <1>1, RunAppended
  <2>. QED
    BY <1>1, <1>2, <2>1
<1>4. ASSUME r = <<>> PROVE fed = Run(b, e) /\ b <= e /\ r = Run(e, e) /\ e <= e
  <2>1. c = d /\ b <= d
    <3>1. Run(c, d) = <<>> <=> c = d
      BY <1>1, RunNothing
    <3>. QED
      BY <1>1, <1>4, <3>1
  <2>2. Append(Run(b, d), d + 1) = Run(b, d + 1)
    BY <1>1, <2>1, RunAppended
  <2>3. Run(e, e) = <<>> <=> e = e
    <3>1. e \in Nat /\ e <= e
      BY <1>2
    <3>. HIDE DEF e
    <3>. QED
      BY <3>1, RunNothing
  <2>. QED
    BY <1>1, <1>2, <1>4, <2>1, <2>2, <2>3
<1>. HIDE DEF e, rest, more, fed
<1>5. InOrder(g, h, i, more, rest, n)
  BY <1>1, <1>2, <1>3 DEF InOrder
<1>6. r = <<>> => InOrder(g, h, fed, r, rest, n)
  BY <1>1, <1>2, <1>4 DEF InOrder
<1>. QED
  BY <1>5, <1>6 DEF more, rest, fed

LEMMA InOrderReplayed ==
    ASSUME NEW g, NEW r, NEW q, NEW n \in Nat, InOrder(g, <<>>, <<>>, r, q, n)
    PROVE  InOrder(g, <<>>, r, <<>>, q, n)
<1>1. PICK a, b, c, d \in Nat :
        /\ a <= b /\ b <= c /\ c <= d /\ d <= n
        /\ g = Run(0, a) /\ <<>> = Run(a, b) /\ <<>> = Run(b, c) /\ r = Run(c, d) /\ q = Run(d, n)
  BY DEF InOrder
<1>2. a = b /\ b = c
  BY <1>1, RunNothing
<1>3. <<>> = Run(d, d) /\ d <= d
  BY <1>1, RunNothing
<1>. QED
  BY <1>1, <1>2, <1>3 DEF InOrder

LEMMA InOrderTaken ==
    ASSUME NEW g, NEW h, NEW i, NEW r, NEW q, NEW n \in Nat, InOrder(g, h, i, r, q, n)
    PROVE  InOrder(g, h, i, r, Append(q, n + 1), n + 1)
<1>1. PICK a, b, c, d \in Nat :
        /\ a <= b /\ b <= c /\ c <= d /\ d <= n
        /\ g = Run(0, a) /\ h = Run(a, b) /\ i = Run(b, c) /\ r = Run(c, d) /\ q = Run(d, n)
  BY DEF InOrder
<1>. DEFINE m == n + 1
            more == Append(q, m)
<1>2. more = Run(d, m) /\ d <= m
  <2>1. Append(Run(d, n), n + 1) = Run(d, n + 1)
    BY <1>1, RunAppended
  <2>. QED
    BY <1>1, <2>1
<1>. HIDE DEF m, more
<1>3. InOrder(g, h, i, r, more, m)
  BY <1>1, <1>2 DEF InOrder
<1>. QED
  BY <1>3 DEF m, more

LEMMA InOrderJoined ==
    ASSUME NEW g, NEW h, NEW i, NEW r, NEW q, NEW n \in Nat, InOrder(g, h, i, r, q, n)
    PROVE  g \o (h \o i) \o r \o q = [k \in 1 .. n |-> k]
<1>1. PICK a, b, c, d \in Nat :
        /\ a <= b /\ b <= c /\ c <= d /\ d <= n
        /\ g = Run(0, a) /\ h = Run(a, b) /\ i = Run(b, c) /\ r = Run(c, d) /\ q = Run(d, n)
  BY DEF InOrder
<1>2. a <= c /\ 0 <= a /\ 0 <= c /\ 0 <= d /\ 0 \in Nat
  BY <1>1
<1>3. h \o i = Run(a, c)
  BY <1>1, RunsJoined
<1>4. g \o Run(a, c) = Run(0, c)
  BY <1>1, <1>2, RunsJoined
<1>5. Run(0, c) \o r = Run(0, d)
  BY <1>1, <1>2, RunsJoined
<1>6. Run(0, d) \o q = Run(0, n)
  BY <1>1, <1>2, RunsJoined
<1>7. Run(0, n) = [k \in 1 .. n |-> k]
  BY DEF Run
<1>. QED
  BY <1>3, <1>4, <1>5, <1>6, <1>7

-----------------------------------------------------------------------------
(* The numbers in a queue.                                                   *)

LEMMA LeastNumber == ASSUME NEW B \in SUBSET Nat, B # {} PROVE \E n \in B : \A m \in B : n <= m
<1>. DEFINE R == OpToRel(<, Nat)
<1>1. \A m, n \in Nat : m < n <=> <<m, n>> \in R
  BY DEF OpToRel
<1>2. IsWellFoundedOn(R, Nat)
  BY NatLessThanWellFounded
<1>. HIDE DEF R
<1>3. \E n \in B : \A m \in B : <<m, n>> \notin R
  BY <1>2, WFMin
<1>4. \A m, n \in Nat : ~(m < n) => n <= m
  OBVIOUS
<1>. QED
  BY <1>1, <1>3, <1>4

\* What holds of 0 and goes from each number to the next holds of all.
LEMMA AllUpTo ==
    ASSUME NEW n \in Nat, NEW G, 0 \in G, \A k \in 1 .. n : k - 1 \in G => k \in G
    PROVE  \A k \in 0 .. n : k \in G
<1>. DEFINE B == {k \in 0 .. n : k \notin G}
<1>. SUFFICES ASSUME B # {} PROVE FALSE
  OBVIOUS
<1>1. B \in SUBSET Nat
  OBVIOUS
<1>2. PICK m \in B : \A k \in B : m <= k
  BY <1>1, LeastNumber
<1>3. m \in 1 .. n /\ m - 1 \in 0 .. n /\ m - 1 \notin B
  BY <1>2
<1>. QED
  BY <1>2, <1>3

\* What Numbers counts up to the n-th entry.
Counts(q, n, upto) ==
    upto = [i \in 0 .. n |->
               IF i = 0 THEN <<>>
               ELSE IF q[i].kind = "buffer" THEN Append(upto[i - 1], q[i].number) ELSE upto[i - 1]]

LEMMA CountsExists == ASSUME NEW q, NEW n \in Nat PROVE \E upto : Counts(q, n, upto)
<1>. DEFINE G == {m \in Nat : \E upto : Counts(q, m, upto)}
<1>1. 0 \in G
  <2>1. Counts(q, 0, [i \in 0 .. 0 |-> <<>>])
    BY DEF Counts
  <2>. QED
    BY <2>1
<1>2. ASSUME NEW m \in 1 .. n, m - 1 \in G PROVE m \in G
  <2>1. m \in Nat /\ m - 1 \in Nat /\ m # 0
    OBVIOUS
  <2>2. PICK before : Counts(q, m - 1, before)
    BY <1>2
  <2>. DEFINE all == [i \in 0 .. m |-> IF i # m THEN before[i]
                         ELSE IF q[m].kind = "buffer" THEN Append(before[m - 1], q[m].number) ELSE before[m - 1]]
  <2>3. \A i \in 0 .. m - 1 :
            before[i] = IF i = 0 THEN <<>>
                        ELSE IF q[i].kind = "buffer" THEN Append(before[i - 1], q[i].number) ELSE before[i - 1]
    BY <2>1, <2>2 DEF Counts
  <2>4. \A i \in 0 .. m :
            all[i] = IF i = 0 THEN <<>>
                     ELSE IF q[i].kind = "buffer" THEN Append(all[i - 1], q[i].number) ELSE all[i - 1]
    BY <2>1, <2>3
  <2>5. Counts(q, m, all)
    BY <2>4 DEF Counts
  <2>. QED
    BY <2>1, <2>5
<1>. HIDE DEF G
<1>3. \A k \in 0 .. n : k \in G
  BY <1>1, <1>2, AllUpTo
<1>4. n \in G
  BY <1>3
<1>. QED
  BY <1>4 DEF G

LEMMA NumbersCount ==
    ASSUME NEW q \in Seq(Entry)
    PROVE  \E upto : Counts(q, Len(q), upto) /\ Numbers(q) = upto[Len(q)]
<1>. DEFINE upto == CHOOSE u : Counts(q, Len(q), u)
<1>1. Counts(q, Len(q), upto)
  BY CountsExists
<1>2. Numbers(q) = upto[Len(q)]
  BY DEF Numbers, Counts
<1>. QED
  BY <1>1, <1>2

LEMMA CountsStep ==
    ASSUME NEW q, NEW n \in Nat, NEW upto, Counts(q, n, upto)
    PROVE  /\ upto[0] = <<>>
           /\ \A k \in 1 .. n :
                 upto[k] = IF q[k].kind = "buffer" THEN Append(upto[k - 1], q[k].number) ELSE upto[k - 1]
<1>1. \A k \in 0 .. n :
          upto[k] = IF k = 0 THEN <<>>
                    ELSE IF q[k].kind = "buffer" THEN Append(upto[k - 1], q[k].number) ELSE upto[k - 1]
  BY DEF Counts
<1>2. 0 \in 0 .. n /\ \A k \in 1 .. n : k \in 0 .. n /\ k # 0
  OBVIOUS
<1>. QED
  BY <1>1, <1>2

\* They are numbers of buffers.
LEMMA NumbersIn ==
    ASSUME NEW q \in Seq(Entry)
    PROVE  /\ Numbers(q) \in Seq(Nat)
           /\ \A i \in DOMAIN Numbers(q) :
                 \E j \in DOMAIN q : q[j].kind = "buffer" /\ q[j].number = Numbers(q)[i]
<1>1. PICK u : Counts(q, Len(q), u) /\ Numbers(q) = u[Len(q)]
  BY NumbersCount
<1>. DEFINE N == {x \in Nat : \E j \in DOMAIN q : q[j].kind = "buffer" /\ q[j].number = x}
            G == {k \in Nat : u[k] \in Seq(N)}
<1>2. DOMAIN q = 1 .. Len(q) /\ Len(q) \in Nat /\ \A k \in 1 .. Len(q) : q[k] \in Entry
  OBVIOUS
<1>3. \A k \in 1 .. Len(q) : q[k].number \in Nat /\ (q[k].kind = "buffer" => q[k].number \in N)
  BY <1>2 DEF Entry
<1>. HIDE DEF N
<1>4. 0 \in G
  <2>1. <<>> \in Seq(N)
    OBVIOUS
  <2>. QED
    BY <1>1, <1>2, <2>1, CountsStep
<1>5. ASSUME NEW k \in 1 .. Len(q), k - 1 \in G PROVE k \in G
  <2>1. u[k] = IF q[k].kind = "buffer" THEN Append(u[k - 1], q[k].number) ELSE u[k - 1]
    BY <1>1, <1>2, CountsStep
  <2>2. u[k - 1] \in Seq(N) /\ k \in Nat
    BY <1>5
  <2>3. q[k].kind = "buffer" => Append(u[k - 1], q[k].number) \in Seq(N)
    BY <1>3, <2>2
  <2>. QED
    BY <2>1, <2>2, <2>3
<1>. HIDE DEF G
<1>6. \A k \in 0 .. Len(q) : k \in G
  BY <1>2, <1>4, <1>5, AllUpTo
<1>7. Numbers(q) \in Seq(N)
  <2>1. Len(q) \in 0 .. Len(q)
    BY <1>2
  <2>. QED
    BY <1>1, <1>6, <2>1 DEF G
<1>8. N \subseteq Nat
  BY DEF N
<1>. DEFINE x == Numbers(q)
<1>. HIDE DEF x
<1>9. x \in Seq(Nat) /\ \A i \in DOMAIN x : x[i] \in N
  <2>1. x \in Seq(N)
    BY <1>7 DEF x
  <2>2. Len(x) \in Nat /\ DOMAIN x = 1 .. Len(x) /\ \A i \in DOMAIN x : x[i] \in N
    BY <2>1
  <2>3. x = [i \in 1 .. Len(x) |-> x[i]]
    BY <2>1
  <2>4. [i \in 1 .. Len(x) |-> x[i]] \in Seq(Nat)
    <3>1. Len(x) \in Nat /\ \A i \in 1 .. Len(x) : x[i] \in Nat
      BY <1>8, <2>2
    <3>. QED
      BY <3>1
  <2>. QED
    BY <2>2, <2>3, <2>4
<1>. QED
  BY <1>9 DEF N, x

LEMMA NumbersAppended ==
    ASSUME NEW q \in Seq(Entry), NEW e \in Entry
    PROVE  Numbers(Append(q, e)) = IF e.kind = "buffer" THEN Append(Numbers(q), e.number) ELSE Numbers(q)
<1>. DEFINE r == Append(q, e)
            n == Len(q)
<1>1. r \in Seq(Entry) /\ Len(r) = n + 1 /\ n \in Nat /\ r[n + 1] = e /\ \A k \in 1 .. n : r[k] = q[k]
  OBVIOUS
<1>2. PICK u : Counts(q, n, u) /\ Numbers(q) = u[n]
  BY NumbersCount
<1>. HIDE DEF r
<1>3. PICK v : Counts(r, n + 1, v) /\ Numbers(r) = v[n + 1]
  BY <1>1, NumbersCount
<1>. HIDE DEF n
<1>4. /\ u[0] = <<>>
      /\ \A k \in 1 .. n : u[k] = IF q[k].kind = "buffer" THEN Append(u[k - 1], q[k].number) ELSE u[k - 1]
  BY <1>1, <1>2, CountsStep
<1>5. /\ v[0] = <<>>
      /\ \A k \in 1 .. n + 1 : v[k] = IF r[k].kind = "buffer" THEN Append(v[k - 1], r[k].number) ELSE v[k - 1]
  <2>1. n + 1 \in Nat
    BY <1>1
  <2>. QED
    BY <1>3, <2>1, CountsStep
<1>. DEFINE G == {k \in Nat : u[k] = v[k]}
<1>6. ASSUME NEW k \in 1 .. n, k - 1 \in G PROVE k \in G
  <2>1. k \in 1 .. n + 1 /\ r[k] = q[k] /\ k \in Nat
    BY <1>1
  <2>2. u[k - 1] = v[k - 1]
    BY <1>6
  <2>. QED
    BY <1>4, <1>5, <2>1, <2>2
<1>7. 0 \in G
  BY <1>4, <1>5
<1>. HIDE DEF G
<1>8. n \in G
  <2>1. \A k \in 0 .. n : k \in G
    BY <1>1, <1>6, <1>7, AllUpTo
  <2>. QED
    BY <1>1, <2>1
<1>9. u[n] = v[n]
  BY <1>8 DEF G
<1>10. v[n + 1] = IF e.kind = "buffer" THEN Append(v[n], e.number) ELSE v[n]
  <2>1. n + 1 \in 1 .. n + 1 /\ n + 1 - 1 = n
    BY <1>1
  <2>. QED
    BY <1>1, <1>5, <2>1
<1>. QED
  BY <1>2, <1>3, <1>9, <1>10 DEF r

LEMMA NumbersTaken ==
    ASSUME NEW q \in Seq(Entry), q # <<>>
    PROVE  /\ Head(q).kind = "buffer" =>
                  /\ Numbers(q) # <<>> /\ Head(Numbers(q)) = Head(q).number
                  /\ Tail(Numbers(q)) = Numbers(Tail(q))
           /\ Head(q).kind # "buffer" => Numbers(q) = Numbers(Tail(q))
<1>. DEFINE r == Tail(q)
            h == Head(q)
            n == Len(r)
            Pre(x) == IF h.kind = "buffer" THEN <<h.number>> \o x ELSE x
<1>1. /\ r \in Seq(Entry) /\ n \in Nat /\ Len(q) = n + 1 /\ q[1] = h /\ \A k \in 1 .. n : q[k + 1] = r[k]
      /\ h \in Entry
  BY TakenInFront
<1>. HIDE DEF r, h
<1>2. PICK v : Counts(r, n, v) /\ Numbers(r) = v[n]
  BY <1>1, NumbersCount
<1>. HIDE DEF n
<1>3. PICK u : Counts(q, n + 1, u) /\ Numbers(q) = u[n + 1]
  BY <1>1, NumbersCount
<1>4. /\ v[0] = <<>>
      /\ \A k \in 1 .. n : v[k] = IF r[k].kind = "buffer" THEN Append(v[k - 1], r[k].number) ELSE v[k - 1]
  BY <1>1, <1>2, CountsStep
<1>5. /\ u[0] = <<>>
      /\ \A k \in 1 .. n + 1 : u[k] = IF q[k].kind = "buffer" THEN Append(u[k - 1], q[k].number) ELSE u[k - 1]
  <2>1. n + 1 \in Nat
    BY <1>1
  <2>. QED
    BY <1>3, <2>1, CountsStep
<1>6. h.number \in Nat
  BY <1>1 DEF Entry
<1>7. ASSUME NEW x \in Seq(Nat), NEW y \in Nat PROVE Append(Pre(x), y) = Pre(Append(x, y))
  <2>1. Append(<<h.number>> \o x, y) = <<h.number>> \o Append(x, y)
    BY <1>6
  <2>. QED
    BY <2>1
<1>8. u[1] = Pre(<<>>)
  <2>1. 1 \in 1 .. n + 1 /\ 1 - 1 = 0
    BY <1>1
  <2>2. u[1] = IF h.kind = "buffer" THEN Append(<<>>, h.number) ELSE <<>>
    BY <1>1, <1>5, <2>1
  <2>3. Append(<<>>, h.number) = <<h.number>> \o <<>>
    BY <1>6
  <2>. QED
    BY <2>2, <2>3
<1>. HIDE DEF Pre
<1>. DEFINE G == {k \in Nat : v[k] \in Seq(Nat) /\ u[k + 1] = Pre(v[k])}
<1>9. 0 \in G
  <2>1. <<>> \in Seq(Nat) /\ 0 + 1 = 1
    OBVIOUS
  <2>. QED
    BY <1>4, <1>8, <2>1
<1>10. ASSUME NEW k \in 1 .. n, k - 1 \in G PROVE k \in G
  <2>1. k + 1 \in 1 .. n + 1 /\ (k + 1) - 1 = k /\ (k - 1) + 1 = k /\ k \in Nat /\ n \in Nat
    BY <1>1
  <2>2. v[k - 1] \in Seq(Nat) /\ u[k] = Pre(v[k - 1])
    BY <1>10, <2>1
  <2>3. u[k + 1] = IF r[k].kind = "buffer" THEN Append(u[k], r[k].number) ELSE u[k]
    BY <1>1, <1>5, <2>1
  <2>4. r[k].number \in Nat
    <3>1. r[k] \in Entry
      <4>1. DOMAIN r = 1 .. Len(r)
        BY <1>1
      <4>. QED
        BY <1>1, <4>1 DEF n
    <3>. QED
      BY <3>1 DEF Entry
  <2>5. Append(u[k], r[k].number) = Pre(Append(v[k - 1], r[k].number)) /\ Append(v[k - 1], r[k].number) \in Seq(Nat)
    BY <1>7, <2>2, <2>4
  <2>6. v[k] = IF r[k].kind = "buffer" THEN Append(v[k - 1], r[k].number) ELSE v[k - 1]
    BY <1>4
  <2>. QED
    BY <2>1, <2>2, <2>3, <2>5, <2>6
<1>. HIDE DEF G
<1>11. n \in G
  <2>1. \A k \in 0 .. n : k \in G
    BY <1>1, <1>9, <1>10, AllUpTo
  <2>. QED
    BY <1>1, <2>1
<1>12. v[n] \in Seq(Nat) /\ Numbers(q) = Pre(Numbers(r))
  BY <1>2, <1>3, <1>11 DEF G
<1>13. CASE h.kind = "buffer"
  <2>. DEFINE x == Numbers(r)
  <2>1. x \in Seq(Nat) /\ Numbers(q) = <<h.number>> \o x
    BY <1>2, <1>12, <1>13 DEF Pre
  <2>. HIDE DEF x
  <2>2. <<h.number>> \o x # <<>> /\ Head(<<h.number>> \o x) = h.number /\ Tail(<<h.number>> \o x) = x
    BY <1>6, <2>1
  <2>. QED
    BY <1>13, <2>1, <2>2 DEF r, h, x
<1>14. CASE h.kind # "buffer"
  BY <1>12, <1>14 DEF Pre, r, h
<1>. QED
  BY <1>13, <1>14

-----------------------------------------------------------------------------
(* What the sessions hold.                                                   *)

\* The recursion of FlattenSeq.
Flattens(q, f) == f = [i \in 1 .. Len(q) |-> IF i = 1 THEN q[i] ELSE f[i - 1] \o q[i]]

\* Where one sequence alone has elements, flattening gives that one.
LEMMA FlatOne ==
    ASSUME NEW q \in Seq(Seq(Nat)), NEW x \in Seq(Nat), NEW o \in 0 .. Len(q),
           o = 0 => x = <<>>, \A i \in 1 .. Len(q) : q[i] = IF i = o THEN x ELSE <<>>
    PROVE  FlattenSeq(q) = x
<1>. DEFINE n == Len(q)
<1>1. n \in Nat /\ o \in Nat /\ <<>> \in Seq(Nat)
  OBVIOUS
<1>2. <<>> \o x = x /\ x \o <<>> = x /\ <<>> \o <<>> = <<>>
  OBVIOUS
<1>3. CASE n = 0
  BY <1>3 DEF FlattenSeq
<1>4. CASE n # 0
  <2>. DEFINE g == [i \in 1 .. n |-> IF i < o THEN <<>> ELSE x]
  <2>1. \A i \in 1 .. n : g[i] = IF i = 1 THEN q[i] ELSE g[i - 1] \o q[i]
    <3>. SUFFICES ASSUME NEW i \in 1 .. n PROVE g[i] = IF i = 1 THEN q[i] ELSE g[i - 1] \o q[i]
      OBVIOUS
    <3>1. g[i] = (IF i < o THEN <<>> ELSE x) /\ q[i] = (IF i = o THEN x ELSE <<>>)
      OBVIOUS
    <3>2. CASE i = 1
      BY <1>1, <3>1, <3>2
    <3>3. CASE i # 1
      <4>1. i - 1 \in 1 .. n
        BY <1>1, <3>3
      <4>2. g[i - 1] = IF i - 1 < o THEN <<>> ELSE x
        BY <4>1
      <4>3. \/ i < o /\ i - 1 < o /\ i # o
            \/ i = o /\ i - 1 < o
            \/ ~(i < o) /\ ~(i - 1 < o) /\ i # o
        BY <1>1
      <4>4. g[i - 1] \o q[i] = IF i < o THEN <<>> ELSE x
        <5>. HIDE DEF g
        <5>1. CASE i < o
          BY <1>2, <3>1, <4>2, <4>3, <5>1
        <5>2. CASE i = o
          BY <1>2, <3>1, <4>2, <4>3, <5>2
        <5>3. CASE ~(i < o) /\ i # o
          BY <1>2, <3>1, <4>2, <4>3, <5>3
        <5>. QED
          BY <5>1, <5>2, <5>3
      <4>. QED
        BY <3>1, <3>3, <4>4
    <3>. QED
      BY <3>2, <3>3
  <2>2. Flattens(q, g)
    BY <2>1 DEF Flattens
  <2>. DEFINE f == CHOOSE h : Flattens(q, h)
  <2>3. Flattens(q, f)
    BY <2>2
  <2>4. FlattenSeq(q) = f[n]
    BY <1>4 DEF FlattenSeq, Flattens
  <2>. HIDE DEF f
  <2>5. \A i \in 1 .. n : f[i] = IF i = 1 THEN q[i] ELSE f[i - 1] \o q[i]
    BY <2>3 DEF Flattens
  <2>. HIDE DEF g
  <2>. DEFINE G == {i \in Nat : i # 0 => f[i] = g[i]}
  <2>6. 0 \in G
    OBVIOUS
  <2>7. ASSUME NEW i \in 1 .. n, i - 1 \in G PROVE i \in G
    BY <2>1, <2>5, <2>7
  <2>. HIDE DEF G
  <2>8. \A i \in 0 .. n : i \in G
    BY <1>1, <2>6, <2>7, AllUpTo
  <2>9. n \in G
    BY <1>1, <2>8
  <2>10. f[n] = g[n]
    BY <1>1, <1>4, <2>9 DEF G
  <2>11. g[n] = x
    BY <1>1, <1>4 DEF g
  <2>. QED
    BY <2>4, <2>10, <2>11
<1>. QED
  BY <1>3, <1>4

\* The current session holds whatever the sessions of this epoch hold.
LEMMA UnpublishedIs ==
    ASSUME IInv, SessionsAge, OneHolder, session # 0
    PROVE  Unpublished = sessions[session].heard \o sessions[session].input
<1>. DEFINE q == [s \in Made |-> IF sessions[s].epoch = epoch
                                THEN sessions[s].heard \o sessions[s].input ELSE <<>>]
            x == sessions[session].heard \o sessions[session].input
<1>1. Made = 1 .. Len(sessions) /\ Len(sessions) \in Nat /\ session \in Made
  BY DEF IInv, TypeOK, SessionsMade, Made
<1>2. \A s \in Made : sessions[s].heard \in Seq(Nat) /\ sessions[s].input \in Seq(Nat)
  <2>1. \A s \in Made : sessions[s] \in SessionRecord
    BY DEF IInv, TypeOK, Made
  <2>. QED
    BY <2>1 DEF SessionRecord
<1>3. x \in Seq(Nat)
  BY <1>1, <1>2
<1>4. \A s \in Made : q[s] = IF s = session THEN x ELSE <<>>
  <2>1. <<>> \o <<>> = <<>>
    OBVIOUS
  <2>. QED
    BY <2>1 DEF SessionsAge, OneHolder, Empty
<1>5. q \in Seq(Seq(Nat)) /\ Len(q) = Len(sessions)
  <2>1. <<>> \in Seq(Nat)
    OBVIOUS
  <2>. HIDE DEF x
  <2>2. \A s \in Made : q[s] \in Seq(Nat)
    BY <1>3, <1>4, <2>1
  <2>3. q = [s \in 1 .. Len(sessions) |-> q[s]]
    BY <1>1
  <2>. HIDE DEF q
  <2>4. [s \in 1 .. Len(sessions) |-> q[s]] \in Seq(Seq(Nat))
    BY <1>1, <2>2
  <2>5. Len([s \in 1 .. Len(sessions) |-> q[s]]) = Len(sessions)
    BY <1>1
  <2>. QED
    BY <2>3, <2>4, <2>5
<1>6. Unpublished = FlattenSeq(q)
  BY DEF Unpublished
<1>. HIDE DEF q, x
<1>7. session \in 0 .. Len(q) /\ \A s \in 1 .. Len(q) : q[s] = IF s = session THEN x ELSE <<>>
  BY <1>1, <1>4, <1>5
<1>8. FlattenSeq(q) = x
  BY <1>3, <1>5, <1>7, FlatOne
<1>. QED
  BY <1>6, <1>8 DEF x

\* What the inductive invariant is for.
LEMMA AudioInOrder == ASSUME IInv, AudioInv PROVE AudioAccountedFor
<1>. SUFFICES ASSUME capture.active
              PROVE  published \o Unpublished \o capture.retained \o Numbers(capture.queue)
                         = [n \in 1 .. capture.captured |-> n]
  BY DEF AudioAccountedFor
<1>1. session # 0
  BY DEF IInv, CaptureKnown, NoCapture
<1>2. Unpublished = sessions[session].heard \o sessions[session].input
  BY <1>1, UnpublishedIs DEF AudioInv
<1>3. capture.captured \in Nat
  BY DEF IInv, TypeOK, CaptureRecord
<1>4. InOrder(published, sessions[session].heard, sessions[session].input, capture.retained,
              Numbers(capture.queue), capture.captured)
  BY DEF AudioInv, Accounted
<1>. QED
  BY <1>2, <1>3, <1>4, InOrderJoined

-----------------------------------------------------------------------------
(* Every step keeps the audio in order.                                      *)

\* A state predicate of one session stays what it is when the session does.
LEMMA HeldOn ==
    ASSUME IInv, AudioInv, UNCHANGED <<epoch, session, rotations>>, doomed' \subseteq doomed,
           Made' = Made, published' \in Seq(Nat), session = 0 => published' = published,
           \A q \in Made : sessions'[q].epoch = sessions[q].epoch,
           \A q \in Made : sessions[q].epoch = epoch =>
               /\ Empty(q) /\ (q # session \/ capture.input = 0) => Empty(q)'
               /\ sessions'[q].state \in {"draining", "finished"} =>
                      sessions[q].state \in {"draining", "finished"},
           session # 0 /\ sessions'[session].state = "finished" => sessions'[session].input = <<>>,
           capture'.input = capture.input, capture.input # 0 => capture'.retained = capture.retained,
           Accounted'
    PROVE  AudioInv'
<1>1. SessionsAge'
  <2>1. doomed \subseteq Made /\ session \in Made \cup {0}
    BY DEF IInv, SessionsMade
  <2>2. \A c \in Callers : Rotating(c) =>
           rotations[c].previous \in Made /\ (rotations[c].state # "making" => rotations[c].replacement \in Made)
    BY DEF IInv, SessionsMade
  <2>3. \A s \in Made' : sessions'[s].epoch <= epoch'
    BY DEF AudioInv, SessionsAge
  <2>4. (session' # 0 => sessions'[session'].epoch = epoch') /\ \A s \in doomed' : sessions'[s].epoch # epoch'
    BY <2>1 DEF AudioInv, SessionsAge
  <2>5. \A c \in Callers : Rotating(c)' =>
          /\ sessions'[rotations'[c].previous].epoch = rotations'[c].epoch
          /\ rotations'[c].state # "making" =>
                /\ sessions'[rotations'[c].replacement].epoch = rotations'[c].epoch
                /\ rotations'[c].replacement # rotations'[c].previous
    BY <2>2 DEF AudioInv, SessionsAge, Rotating
  <2>6. published' \in Seq(Nat) /\ (session' = 0 => published' = <<>>)
    BY DEF AudioInv, SessionsAge
  <2>. QED
    BY <2>3, <2>4, <2>5, <2>6 DEF SessionsAge
<1>2. OneHolder'
  BY DEF AudioInv, OneHolder
<1>3. FedOrRetained'
  <2>1. session # 0 => session \in Made /\ sessions[session].epoch = epoch
    BY DEF IInv, SessionsMade, AudioInv, SessionsAge
  <2>. QED
    BY <2>1 DEF AudioInv, FedOrRetained
<1>4. CutKnown'
  <2>. SUFFICES ASSUME NEW c \in Callers, Rotating(c), rotations[c].epoch = epoch
                PROVE
        /\ \/ rotations[c].state \in {"paused", "draining", "resuming"}
           \/ rotations[c].state = "cleaning" /\ session = rotations[c].replacement
           => capture.input = 0
        /\ rotations[c].state \notin {"making", "resumed"} =>
              /\ Empty(rotations[c].replacement)'
              /\ sessions'[rotations[c].replacement].state \notin {"draining", "finished"}
    BY DEF CutKnown, CutAt, Rotating, Empty
  <2>1. \/ rotations[c].state \in {"paused", "draining", "resuming"}
        \/ rotations[c].state = "cleaning" /\ session = rotations[c].replacement
        => capture.input = 0
    BY DEF AudioInv, CutKnown, CutAt
  <2>2. ASSUME rotations[c].state \notin {"making", "resumed"}
        PROVE  /\ Empty(rotations[c].replacement)'
               /\ sessions'[rotations[c].replacement].state \notin {"draining", "finished"}
    <3>1. PICK q \in Made : /\ q = rotations[c].replacement /\ sessions[q].epoch = epoch
                            /\ q # rotations[c].previous
      BY <2>2 DEF IInv, SessionsMade, AudioInv, SessionsAge
    <3>2. Empty(q) /\ sessions[q].state \notin {"draining", "finished"}
      BY <2>2, <3>1 DEF AudioInv, CutKnown, CutAt
    <3>3. q # session \/ capture.input = 0
      <4>1. rotations[c].state = "pausing" => session = rotations[c].previous
        BY DEF IInv, RotationKnown
      <4>2. rotations[c].state \in RotationStates
        BY DEF IInv, TypeOK, RotationRecord
      <4>. QED
        BY <2>1, <2>2, <3>1, <4>1, <4>2 DEF Rotating, RotationStates
    <3>4. Empty(q)' /\ sessions'[q].state \notin {"draining", "finished"}
      BY <3>1, <3>2, <3>3
    <3>. QED
      BY <3>1, <3>4 DEF Empty
  <2>. QED
    BY <2>1, <2>2
<1>. QED
  BY <1>1, <1>2, <1>3, <1>4 DEF AudioInv

\* Nothing that matters moves.
LEMMA AudioRests ==
    ASSUME IInv, AudioInv,
           UNCHANGED <<epoch, session, sessions, rotations, published, capture, doomed>>
    PROVE  AudioInv'
<1>1. /\ UNCHANGED <<epoch, session, rotations>> /\ Made' = Made
      /\ UNCHANGED <<sessions, published, capture, doomed>>
  BY DEF Made
<1>2. Accounted'
  BY <1>1 DEF AudioInv, Accounted
<1>3. \A q \in Made : Empty(q) => Empty(q)'
  BY <1>1 DEF Empty
<1>4. session # 0 /\ sessions'[session].state = "finished" => sessions'[session].input = <<>>
  BY <1>1 DEF AudioInv, FedOrRetained
<1>5. published \in Seq(Nat)
  BY DEF AudioInv, SessionsAge
<1>. QED
  BY <1>1, <1>2, <1>3, <1>4, <1>5, HeldOn

\* A session of another epoch is closed, analyzed or forgotten.
LEMMA OthersMove ==
    ASSUME IInv, AudioInv, NEW s \in Made, NEW r \in SessionRecord,
           sessions' = [sessions EXCEPT ![s] = r], r.epoch = sessions[s].epoch, r.epoch # epoch,
           UNCHANGED <<epoch, session, rotations, published, capture>>, doomed' \subseteq doomed
    PROVE  AudioInv'
<1>1. /\ Made' = Made /\ sessions'[s] = r /\ \A q \in Made : q # s => sessions'[q] = sessions[q]
  BY DEF Made, IInv, TypeOK
<1>2. \A q \in Made : sessions[q].epoch = epoch => sessions'[q] = sessions[q]
  BY <1>1
<1>3. \A q \in Made : sessions[q].epoch = epoch => (Empty(q) => Empty(q)')
  BY <1>2 DEF Empty
<1>4. session # 0 => session \in Made /\ sessions[session].epoch = epoch
  BY DEF IInv, SessionsMade, AudioInv, SessionsAge
<1>5. Accounted'
  <2>1. capture.active => session # 0
    BY DEF IInv, CaptureKnown, NoCapture
  <2>. QED
    BY <1>2, <1>4, <2>1 DEF AudioInv, Accounted
<1>6. session # 0 /\ sessions'[session].state = "finished" => sessions'[session].input = <<>>
  BY <1>2, <1>4 DEF AudioInv, FedOrRetained
<1>7. published' \in Seq(Nat) /\ \A q \in Made : sessions'[q].epoch = sessions[q].epoch
  BY <1>1 DEF AudioInv, SessionsAge
<1>. QED
  BY <1>1, <1>2, <1>3, <1>5, <1>6, <1>7, HeldOn

LEMMA NoNumbers == Numbers(<<>>) = <<>> /\ InOrder(<<>>, <<>>, <<>>, <<>>, <<>>, 0)
<1>1. <<>> \in Seq(Entry) /\ Len(<<>>) = 0
  OBVIOUS
<1>2. PICK u : Counts(<<>>, 0, u) /\ Numbers(<<>>) = u[0]
  BY <1>1, NumbersCount
<1>3. u[0] = <<>>
  BY <1>2, CountsStep
<1>4. Run(0, 0) = <<>>
  BY RunNothing
<1>5. InOrder(<<>>, <<>>, <<>>, <<>>, <<>>, 0)
  BY <1>4 DEF InOrder
<1>. QED
  BY <1>2, <1>3, <1>5

LEMMA ResetAudio ==
    ASSUME IInv, AudioInv, Reset, UNCHANGED <<sessions, rotations>>
    PROVE  AudioInv'
<1>1. /\ epoch' = epoch + 1 /\ session' = 0 /\ published' = <<>> /\ capture' = NoCapture
      /\ doomed' = IF session = 0 THEN doomed ELSE doomed \cup {session}
  BY DEF Reset
<1>2. epoch \in Nat /\ <<>> \in Seq(Nat)
  BY DEF IInv, TypeOK
<1>3. \A s \in Made : sessions[s].epoch \in Nat /\ sessions[s].epoch <= epoch /\ sessions[s].epoch # epoch'
  <2>1. \A s \in Made : sessions[s] \in SessionRecord
    BY DEF IInv, TypeOK, Made
  <2>. QED
    BY <1>1, <1>2, <2>1 DEF SessionRecord, AudioInv, SessionsAge
<1>4. \A c \in Callers : rotations[c].epoch # epoch'
  BY <1>1, <1>2 DEF IInv, TypeOK, EpochsPast, RotationRecord
<1>5. SessionsAge'
  <2>1. \A s \in doomed' : s \in Made
    BY <1>1 DEF IInv, SessionsMade
  <2>2. \A s \in doomed' : sessions'[s].epoch # epoch'
    BY <1>3, <2>1
  <2>3. \A s \in Made' : sessions'[s].epoch <= epoch'
    BY <1>1, <1>2, <1>3 DEF Made
  <2>4. \A c \in Callers : Rotating(c)' =>
          /\ sessions'[rotations'[c].previous].epoch = rotations'[c].epoch
          /\ rotations'[c].state # "making" =>
                /\ sessions'[rotations'[c].replacement].epoch = rotations'[c].epoch
                /\ rotations'[c].replacement # rotations'[c].previous
    BY DEF AudioInv, SessionsAge, Rotating
  <2>. QED
    BY <1>1, <1>2, <2>2, <2>3, <2>4 DEF SessionsAge
<1>6. OneHolder'
  BY <1>3 DEF OneHolder, Made
<1>7. FedOrRetained'
  BY <1>1 DEF FedOrRetained, NoCapture
<1>8. CutKnown'
  BY <1>4 DEF CutKnown, CutAt
<1>9. Accounted'
  BY <1>1 DEF Accounted, NoCapture
<1>. QED
  BY <1>5, <1>6, <1>7, <1>8, <1>9 DEF AudioInv

LEMMA CancelAudio == ASSUME IInv, AudioInv, NEW s \in doomed, CancelSession(s) PROVE AudioInv'
<1>1. s \in Made /\ sessions[s].epoch # epoch /\ sessions[s] \in SessionRecord
  <2>1. s \in Made
    BY DEF IInv, SessionsMade
  <2>. QED
    BY <2>1 DEF AudioInv, SessionsAge, IInv, TypeOK, Made
<1>. DEFINE r == [sessions[s] EXCEPT !.state = "closed", !.input = <<>>, !.heard = <<>>]
<1>2. r \in SessionRecord /\ r.epoch = sessions[s].epoch
  <2>1. <<>> \in Seq(Nat)
    OBVIOUS
  <2>. QED
    BY <1>1, <2>1 DEF SessionRecord, SessionStates
<1>3. /\ sessions' = [sessions EXCEPT ![s] = r] /\ doomed' \subseteq doomed
      /\ UNCHANGED <<epoch, session, rotations, published, capture>>
  BY DEF CancelSession, Close
<1>. HIDE DEF r
<1>. QED
  BY <1>1, <1>2, <1>3, OthersMove

LEMMA FinishAudio == ASSUME IInv, AudioInv, StartFinishes PROVE AudioInv'
<1>. DEFINE new == Len(sessions')
<1>1. /\ starter.state = "making" /\ sessions' = Append(sessions, [NewSession EXCEPT !.epoch = starter.epoch])
      /\ UNCHANGED <<epoch, rotating, rotations, published>>
  BY DEF StartFinishes
<1>2. starter.epoch \in Nat /\ epoch \in Nat /\ starter.epoch <= epoch /\ 0 \notin Callers
  BY <1>1 DEF IInv, TypeOK, EpochsPast, Callers
<1>3. /\ Made' = Made \cup {new} /\ new \notin Made /\ new # 0 /\ 0 \notin Made
      /\ \A s \in Made : sessions'[s] = sessions[s]
  BY <1>1, <1>2, OneMore DEF IInv
<1>4. /\ sessions'[new].epoch = starter.epoch /\ sessions'[new].state = "open"
      /\ sessions'[new].heard = <<>> /\ sessions'[new].input = <<>>
  <2>1. sessions'[new] = [NewSession EXCEPT !.epoch = starter.epoch]
    BY <1>1 DEF IInv, TypeOK
  <2>. QED
    BY <2>1 DEF NewSession
<1>. HIDE DEF new
<1>5. \A c \in Callers : Rotating(c) =>
         rotations[c].previous \in Made /\ (rotations[c].state # "making" => rotations[c].replacement \in Made)
  BY DEF IInv, SessionsMade
<1>6. \A c \in Callers : Rotating(c)' =>
          /\ sessions'[rotations'[c].previous].epoch = rotations'[c].epoch
          /\ rotations'[c].state # "making" =>
                /\ sessions'[rotations'[c].replacement].epoch = rotations'[c].epoch
                /\ rotations'[c].replacement # rotations'[c].previous
  BY <1>1, <1>3, <1>5 DEF AudioInv, SessionsAge, Rotating
<1>7. \A s \in Made' : sessions'[s].epoch <= epoch'
  BY <1>1, <1>2, <1>3, <1>4 DEF AudioInv, SessionsAge
<1>8. published' \in Seq(Nat)
  BY <1>1 DEF AudioInv, SessionsAge
<1>9. doomed \subseteq Made /\ session \in Made \cup {0}
  BY DEF IInv, SessionsMade
<1>10. CASE epoch = starter.epoch
  <2>1. /\ session' = new /\ UNCHANGED doomed
        /\ capture' = [NoCapture EXCEPT !.epoch = epoch, !.active = TRUE, !.input = session']
    BY <1>10 DEF StartFinishes, new
  <2>2. session = 0 /\ rotating = 0 /\ capture = NoCapture /\ published = <<>>
    BY <1>1, <1>10 DEF IInv, StartAlone, AudioInv, SessionsAge
  <2>3. \A c \in Callers : ~(Rotating(c) /\ rotations[c].epoch = epoch)
    BY <1>2, <2>2 DEF IInv, SoleRotation
  <2>4. /\ capture'.input = new /\ capture'.retained = <<>> /\ capture'.queue = <<>>
        /\ capture'.captured = 0
    BY <2>1 DEF NoCapture
  <2>5. SessionsAge'
    <3>1. \A s \in doomed' : sessions'[s].epoch # epoch'
      BY <1>1, <1>3, <1>9, <2>1 DEF AudioInv, SessionsAge
    <3>2. session' # 0 /\ sessions'[session'].epoch = epoch'
      BY <1>1, <1>3, <1>4, <1>10, <2>1
    <3>. QED
      BY <1>6, <1>7, <1>8, <3>1, <3>2 DEF SessionsAge
  <2>6. OneHolder'
    <3>1. ASSUME NEW s \in Made', sessions'[s].epoch = epoch', s # session' PROVE Empty(s)'
      <4>1. s \in Made /\ s # session /\ sessions[s].epoch = epoch
        BY <1>1, <1>3, <2>1, <2>2, <3>1
      <4>2. Empty(s)
        BY <4>1 DEF AudioInv, OneHolder
      <4>. QED
        BY <1>3, <4>1, <4>2 DEF Empty
    <3>. QED
      BY <3>1 DEF OneHolder
  <2>7. FedOrRetained'
    BY <1>4, <2>1, <2>4 DEF FedOrRetained
  <2>8. CutKnown'
    BY <1>1, <2>3 DEF CutKnown, CutAt, Rotating
  <2>9. Accounted'
    BY <1>1, <1>4, <2>1, <2>2, <2>4, NoNumbers DEF Accounted
  <2>. QED
    BY <2>5, <2>6, <2>7, <2>8, <2>9 DEF AudioInv
<1>11. CASE epoch # starter.epoch
  <2>1. doomed' = doomed \cup {new} /\ UNCHANGED <<session, capture>>
    BY <1>11 DEF StartFinishes, new
  <2>2. session # 0 => sessions'[session] = sessions[session]
    BY <1>3, <1>9
  <2>3. SessionsAge'
    <3>1. \A s \in doomed' : sessions'[s].epoch # epoch'
      BY <1>1, <1>3, <1>4, <1>9, <1>11, <2>1 DEF AudioInv, SessionsAge
    <3>2. /\ session' # 0 => sessions'[session'].epoch = epoch'
          /\ session' = 0 => published' = <<>>
      BY <1>1, <2>1, <2>2 DEF AudioInv, SessionsAge
    <3>. QED
      BY <1>6, <1>7, <1>8, <3>1, <3>2 DEF SessionsAge
  <2>4. OneHolder'
    <3>1. ASSUME NEW s \in Made', sessions'[s].epoch = epoch', s # session' PROVE Empty(s)'
      <4>1. s \in Made /\ s # session /\ sessions[s].epoch = epoch
        BY <1>1, <1>3, <1>4, <1>11, <2>1, <3>1
      <4>2. Empty(s)
        BY <4>1 DEF AudioInv, OneHolder
      <4>. QED
        BY <1>3, <4>1, <4>2 DEF Empty
    <3>. QED
      BY <3>1 DEF OneHolder
  <2>5. FedOrRetained'
    BY <1>1, <2>1, <2>2 DEF AudioInv, FedOrRetained
  <2>6. CutKnown'
    BY <1>1, <1>3, <1>5, <2>1 DEF AudioInv, CutKnown, CutAt, Rotating, Empty
  <2>7. Accounted'
    <3>1. capture.active => session # 0
      BY DEF IInv, CaptureKnown, NoCapture
    <3>. QED
      BY <1>1, <2>1, <2>2, <3>1 DEF AudioInv, Accounted
  <2>. QED
    BY <2>3, <2>4, <2>5, <2>6, <2>7 DEF AudioInv
<1>. QED
  BY <1>10, <1>11

LEMMA CaptureFailsAudio == ASSUME IInv, AudioInv, CaptureFails PROVE AudioInv'
<1>. DEFINE new == Len(sessions')
<1>1. /\ starter.state = "making" /\ epoch = starter.epoch
      /\ sessions' = Append(sessions, NewSession) /\ epoch' = epoch + 1
      /\ doomed' = doomed \cup {new} /\ UNCHANGED <<session, capture, rotating, rotations, published>>
  BY DEF CaptureFails
<1>2. epoch \in Nat
  BY DEF IInv, TypeOK
<1>3. /\ Made' = Made \cup {new} /\ \A s \in Made : sessions'[s] = sessions[s]
  <2>1. NewSession = [NewSession EXCEPT !.epoch = epoch]
    BY DEF NewSession
  <2>. QED
    BY <1>1, <1>2, <2>1, OneMore DEF IInv
<1>4. sessions'[new].epoch = epoch
  BY <1>1 DEF IInv, TypeOK, NewSession
<1>. HIDE DEF new
<1>5. session = 0 /\ capture = NoCapture
  BY <1>1 DEF IInv, StartAlone
<1>6. \A s \in Made' : sessions'[s].epoch <= epoch' /\ sessions'[s].epoch # epoch'
  <2>1. \A s \in Made : sessions[s].epoch \in Nat
    <3>1. \A s \in Made : sessions[s] \in SessionRecord
      BY DEF IInv, TypeOK, Made
    <3>. QED
      BY <3>1 DEF SessionRecord
  <2>2. ASSUME NEW s \in Made PROVE sessions'[s].epoch <= epoch' /\ sessions'[s].epoch # epoch'
    <3>1. sessions'[s].epoch = sessions[s].epoch /\ sessions[s].epoch <= epoch
      BY <1>3 DEF AudioInv, SessionsAge
    <3>. QED
      BY <1>1, <1>2, <2>1, <3>1
  <2>3. sessions'[new].epoch <= epoch' /\ sessions'[new].epoch # epoch'
    BY <1>1, <1>2, <1>4
  <2>. QED
    BY <1>3, <2>2, <2>3
<1>7. \A c \in Callers : rotations[c].epoch # epoch'
  BY <1>1, <1>2 DEF IInv, TypeOK, EpochsPast, RotationRecord
<1>8. SessionsAge'
  <2>1. \A c \in Callers : Rotating(c) =>
         rotations[c].previous \in Made /\ (rotations[c].state # "making" => rotations[c].replacement \in Made)
    BY DEF IInv, SessionsMade
  <2>2. \A c \in Callers : Rotating(c)' =>
          /\ sessions'[rotations'[c].previous].epoch = rotations'[c].epoch
          /\ rotations'[c].state # "making" =>
                /\ sessions'[rotations'[c].replacement].epoch = rotations'[c].epoch
                /\ rotations'[c].replacement # rotations'[c].previous
    BY <1>1, <1>3, <2>1 DEF AudioInv, SessionsAge, Rotating
  <2>3. doomed' \subseteq Made'
    BY <1>1, <1>3 DEF IInv, SessionsMade
  <2>. QED
    BY <1>1, <1>5, <1>6, <2>2, <2>3 DEF AudioInv, SessionsAge
<1>9. OneHolder'
  BY <1>6 DEF OneHolder
<1>10. FedOrRetained' /\ Accounted'
  BY <1>1, <1>5 DEF FedOrRetained, Accounted, NoCapture
<1>11. CutKnown'
  BY <1>1, <1>7 DEF CutKnown, CutAt
<1>. QED
  BY <1>8, <1>9, <1>10, <1>11 DEF AudioInv

LEMMA LifecycleAudio == ASSUME IInv, AudioInv, Lifecycle PROVE AudioInv'
<1>1. CASE StartBegins \/ Stop
  BY <1>1, ResetAudio DEF StartBegins, Stop
<1>2. CASE StartPrepares \/ StartThrows \/ \E e \in errors : ErrorArrives(e)
  BY <1>2, AudioRests DEF StartPrepares, StartThrows, ErrorArrives
<1>. QED
  BY <1>1, <1>2, FinishAudio, CaptureFailsAudio, CancelAudio DEF Lifecycle

\* Apple's analyzer and the results task touch a session of this epoch.
LEMMA CurrentMoves ==
    ASSUME IInv, AudioInv, NEW s \in Made, NEW r \in SessionRecord,
           sessions' = [sessions EXCEPT ![s] = r], r.epoch = sessions[s].epoch,
           UNCHANGED <<epoch, session, rotations, doomed>>,
           Empty(s) /\ (s # session \/ capture.input = 0) => r.heard = <<>> /\ r.input = <<>>,
           r.state \in {"draining", "finished"} => sessions[s].state \in {"draining", "finished"},
           s = session /\ r.state = "finished" => r.input = <<>>,
           published' \in Seq(Nat), session = 0 => published' = published,
           capture'.input = capture.input, capture.input # 0 => capture'.retained = capture.retained,
           Accounted'
    PROVE  AudioInv'
<1>1. /\ Made' = Made /\ sessions'[s] = r /\ \A q \in Made : q # s => sessions'[q] = sessions[q]
  BY DEF Made, IInv, TypeOK
<1>2. \A q \in Made : sessions'[q].epoch = sessions[q].epoch
  BY <1>1
<1>3. ASSUME NEW q \in Made
      PROVE  /\ Empty(q) /\ (q # session \/ capture.input = 0) => Empty(q)'
             /\ sessions'[q].state \in {"draining", "finished"} =>
                      sessions[q].state \in {"draining", "finished"}
  <2>1. CASE q = s
    BY <1>1, <2>1 DEF Empty
  <2>2. CASE q # s
    BY <1>1, <2>2 DEF Empty
  <2>. QED
    BY <2>1, <2>2
<1>4. session # 0 /\ sessions'[session].state = "finished" => sessions'[session].input = <<>>
  <2>1. session \in Made \cup {0}
    BY DEF IInv, SessionsMade
  <2>. QED
    BY <1>1, <2>1 DEF AudioInv, FedOrRetained
<1>. QED
  BY <1>1, <1>2, <1>3, <1>4, HeldOn

LEMMA AnalyzerAudio ==
    ASSUME IInv, AudioInv, NEW s \in Made, Analyze(s) \/ AnalysisFinishes(s) \/ Breaks(s) \/ Publish(s)
    PROVE  AudioInv'
<1>1. UNCHANGED <<epoch, session, capture, rotations, doomed>>
  BY DEF Analyze, AnalysisFinishes, Breaks, Publish
<1>2. sessions \in Seq(SessionRecord) /\ sessions[s] \in SessionRecord /\ DOMAIN sessions = Made
  BY DEF IInv, TypeOK, Made
<1>3. <<>> \in Seq(Nat) /\ published \in Seq(Nat)
  BY DEF AudioInv, SessionsAge
<1>4. capture.active => session \in Made /\ capture.captured \in Nat
  BY DEF IInv, CaptureKnown, NoCapture, SessionsMade, TypeOK, CaptureRecord
<1>5. session # 0 => sessions[session].epoch = epoch
  BY DEF AudioInv, SessionsAge
<1>6. CASE sessions[s].epoch # epoch
  <2>1. PICK r \in SessionRecord : sessions' = [sessions EXCEPT ![s] = r] /\ r.epoch = sessions[s].epoch
    <3>1. CASE Analyze(s)
      <4>. DEFINE r == [sessions[s] EXCEPT !.input = Tail(@), !.heard = Append(@, Head(sessions[s].input))]
      <4>1. sessions[s].input # <<>> /\ sessions' = [sessions EXCEPT ![s] = r]
        BY <3>1 DEF Analyze
      <4>2. /\ Tail(sessions[s].input) \in Seq(Nat)
            /\ Append(sessions[s].heard, Head(sessions[s].input)) \in Seq(Nat)
        BY <1>2, <4>1 DEF SessionRecord
      <4>3. r \in SessionRecord /\ r.epoch = sessions[s].epoch
        BY <1>2, <4>2 DEF SessionRecord
      <4>. QED
        BY <4>1, <4>3
    <3>2. CASE AnalysisFinishes(s)
      <4>. DEFINE r == [sessions[s] EXCEPT !.state = "finished"]
      <4>1. sessions' = [sessions EXCEPT ![s] = r] /\ r \in SessionRecord /\ r.epoch = sessions[s].epoch
        BY <1>2, <3>2 DEF AnalysisFinishes, SessionRecord, SessionStates
      <4>. QED
        BY <4>1
    <3>3. CASE Breaks(s)
      <4>. DEFINE r == [sessions[s] EXCEPT !.state = "broken"]
      <4>1. sessions' = [sessions EXCEPT ![s] = r] /\ r \in SessionRecord /\ r.epoch = sessions[s].epoch
        BY <1>2, <3>3 DEF Breaks, SessionRecord, SessionStates
      <4>. QED
        BY <4>1
    <3>4. CASE Publish(s)
      <4>. DEFINE r == [sessions[s] EXCEPT !.heard = <<>>]
      <4>1. sessions' = [sessions EXCEPT ![s] = r] /\ r \in SessionRecord /\ r.epoch = sessions[s].epoch
        BY <1>2, <1>3, <1>6, <3>4 DEF Publish, SessionRecord
      <4>. QED
        BY <4>1
    <3>. QED
      BY <3>1, <3>2, <3>3, <3>4
  <2>2. UNCHANGED published
    BY <1>6 DEF Analyze, AnalysisFinishes, Breaks, Publish
  <2>. QED
    BY <1>1, <1>6, <2>1, <2>2, OthersMove
<1>7. CASE sessions[s].epoch = epoch
  <2>1. CASE Analyze(s)
    <3>. DEFINE h == Append(sessions[s].heard, Head(sessions[s].input))
                i == Tail(sessions[s].input)
                r == [sessions[s] EXCEPT !.input = i, !.heard = h]
    <3>1. sessions[s].input # <<>> /\ sessions' = [sessions EXCEPT ![s] = r] /\ UNCHANGED published
      BY <2>1 DEF Analyze
    <3>2. i \in Seq(Nat) /\ h \in Seq(Nat)
      BY <1>2, <3>1 DEF SessionRecord
    <3>3. ~Empty(s) /\ s = session
      BY <1>7, <3>1 DEF AudioInv, OneHolder, Empty
    <3>4. /\ capture.active =>
               InOrder(published, sessions[s].heard, sessions[s].input, capture.retained,
                       Numbers(capture.queue), capture.captured)
      BY <3>3 DEF AudioInv, Accounted
    <3>5. capture.active => InOrder(published, h, i, capture.retained, Numbers(capture.queue), capture.captured)
      BY <1>4, <3>1, <3>4, InOrderAnalyzed
    <3>. HIDE DEF h, i
    <3>6. /\ r \in SessionRecord /\ r.epoch = sessions[s].epoch /\ r.state = sessions[s].state
          /\ r.heard = h /\ r.input = i
      BY <1>2, <3>2 DEF SessionRecord
    <3>7. sessions'[s] = r
      BY <1>2, <3>1
    <3>8. Accounted'
      BY <1>1, <3>1, <3>3, <3>5, <3>6, <3>7 DEF Accounted
    <3>9. r.state # "finished"
      BY <2>1, <3>6 DEF Analyze
    <3>. HIDE DEF r
    <3>. QED
      BY <1>1, <1>3, <3>1, <3>3, <3>6, <3>8, <3>9, CurrentMoves
  <2>2. CASE AnalysisFinishes(s) \/ Breaks(s)
    <3>1. PICK to \in {"finished", "broken"} :
             /\ sessions' = [sessions EXCEPT ![s] = [sessions[s] EXCEPT !.state = to]]
             /\ to = "finished" => sessions[s].state = "draining" /\ sessions[s].input = <<>>
      BY <1>2, <2>2 DEF AnalysisFinishes, Breaks
    <3>. DEFINE r == [sessions[s] EXCEPT !.state = to]
    <3>2. UNCHANGED published
      BY <2>2 DEF AnalysisFinishes, Breaks
    <3>3. /\ r \in SessionRecord /\ r.epoch = sessions[s].epoch /\ r.state = to
          /\ r.heard = sessions[s].heard /\ r.input = sessions[s].input
      BY <1>2 DEF SessionRecord, SessionStates
    <3>4. sessions' = [sessions EXCEPT ![s] = r]
      BY <3>1
    <3>. HIDE DEF r
    <3>5. sessions'[s] = r /\ \A q \in Made : q # s => sessions'[q] = sessions[q]
      BY <1>2, <3>4
    <3>6. Accounted'
      <4>1. capture.active => sessions'[session].heard = sessions[session].heard
                              /\ sessions'[session].input = sessions[session].input
        BY <1>4, <3>3, <3>5
      <4>. QED
        BY <1>1, <3>2, <4>1 DEF AudioInv, Accounted
    <3>7. /\ Empty(s) => r.heard = <<>> /\ r.input = <<>>
          /\ r.state = "finished" => r.input = <<>>
          /\ r.state \in {"draining", "finished"} => sessions[s].state \in {"draining", "finished"}
      BY <3>1, <3>3 DEF Empty
    <3>. QED
      BY <1>1, <1>3, <3>2, <3>3, <3>4, <3>6, <3>7, CurrentMoves
  <2>3. CASE Publish(s)
    <3>. DEFINE g == Append(published, Head(sessions[s].heard))
                h == Tail(sessions[s].heard)
                r == [sessions[s] EXCEPT !.heard = h]
    <3>1. /\ sessions[s].heard # <<>> /\ sessions' = [sessions EXCEPT ![s] = r]
          /\ published' = g
      BY <1>7, <2>3 DEF Publish
    <3>2. h \in Seq(Nat) /\ g \in Seq(Nat)
      BY <1>2, <1>3, <3>1 DEF SessionRecord
    <3>3. ~Empty(s) /\ s = session
      BY <1>7, <3>1 DEF AudioInv, OneHolder, Empty
    <3>4. /\ capture.active =>
               InOrder(published, sessions[s].heard, sessions[s].input, capture.retained,
                       Numbers(capture.queue), capture.captured)
      BY <3>3 DEF AudioInv, Accounted
    <3>5. capture.active => InOrder(g, h, sessions[s].input, capture.retained,
                                    Numbers(capture.queue), capture.captured)
      BY <1>4, <3>1, <3>4, InOrderPublished
    <3>. HIDE DEF g, h
    <3>6. /\ r \in SessionRecord /\ r.epoch = sessions[s].epoch /\ r.state = sessions[s].state
          /\ r.heard = h /\ r.input = sessions[s].input
      BY <1>2, <3>2 DEF SessionRecord
    <3>7. sessions'[s] = r
      BY <1>2, <3>1
    <3>8. Accounted'
      BY <1>1, <3>1, <3>3, <3>5, <3>6, <3>7 DEF Accounted
    <3>10. session # 0
      BY <3>3 DEF Made, IInv, TypeOK
    <3>9. s = session /\ r.state = "finished" => r.input = <<>>
      BY <3>3, <3>6, <3>10 DEF AudioInv, FedOrRetained
    <3>. HIDE DEF r
    <3>. QED
      BY <1>1, <3>1, <3>2, <3>3, <3>6, <3>8, <3>9, <3>10, CurrentMoves
  <2>. QED
    BY <2>1, <2>2, <2>3
<1>. QED
  BY <1>6, <1>7

\* Capture alone moves, and feeds what it fed.
LEMMA CaptureMoves ==
    ASSUME IInv, AudioInv, UNCHANGED <<epoch, session, sessions, rotations, published, doomed>>,
           capture'.input = capture.input, capture.input # 0 => capture'.retained = capture.retained,
           Accounted'
    PROVE  AudioInv'
<1>1. /\ UNCHANGED <<epoch, session, rotations>> /\ Made' = Made
      /\ UNCHANGED <<sessions, published, doomed>>
  BY DEF Made
<1>2. \A q \in Made : Empty(q) => Empty(q)'
  BY <1>1 DEF Empty
<1>3. session # 0 /\ sessions'[session].state = "finished" => sessions'[session].input = <<>>
  BY <1>1 DEF AudioInv, FedOrRetained
<1>4. published \in Seq(Nat)
  BY DEF AudioInv, SessionsAge
<1>. QED
  BY <1>1, <1>2, <1>3, <1>4, HeldOn

LEMMA ConsumeAudio == ASSUME IInv, AudioInv, Consume PROVE AudioInv'
<1>1. capture \in CaptureRecord /\ capture.active
  BY DEF Consume, IInv, TypeOK
<1>2. UNCHANGED <<epoch, session, sessions, rotations, doomed, published>>
  BY DEF Consume
<1>. DEFINE n == capture.captured + 1
<1>3. n \in Nat /\ capture.captured \in Nat
  BY <1>1 DEF CaptureRecord
<1>4. CASE capture' = [capture EXCEPT !.captured = n, !.queue = Append(@, Buffer(n))]
  <2>1. /\ capture'.queue = Append(capture.queue, Buffer(n)) /\ capture'.captured = n
        /\ capture'.input = capture.input /\ capture'.retained = capture.retained
        /\ capture.queue \in Seq(Entry)
    BY <1>1, <1>4 DEF CaptureRecord
  <2>2. Buffer(n) \in Entry /\ Buffer(n).kind = "buffer" /\ Buffer(n).number = n
    BY <1>3 DEF Buffer, Entry
  <2>3. Numbers(capture'.queue) = Append(Numbers(capture.queue), n)
    BY <2>1, <2>2, NumbersAppended
  <2>4. InOrder(published, sessions[session].heard, sessions[session].input, capture.retained,
                Append(Numbers(capture.queue), n), n)
    BY <1>1, <1>3, InOrderTaken DEF AudioInv, Accounted
  <2>5. Accounted'
    BY <1>2, <2>1, <2>3, <2>4 DEF Accounted
  <2>. QED
    BY <1>2, <2>1, <2>5, CaptureMoves
<1>5. CASE capture' = [capture EXCEPT !.active = FALSE]
  <2>1. capture'.input = capture.input /\ capture'.retained = capture.retained /\ ~capture'.active
    BY <1>1, <1>5 DEF CaptureRecord
  <2>2. Accounted'
    BY <2>1 DEF Accounted
  <2>. QED
    BY <1>2, <2>1, <2>2, CaptureMoves
<1>. QED
  BY <1>4, <1>5 DEF Consume, Fail

LEMMA ServedIs ==
    ASSUME IInv, capture.queue # <<>>
    PROVE  /\ Served \in CaptureRecord /\ Served.queue = Tail(capture.queue)
           /\ Served.input = capture.input /\ Served.active = capture.active
           /\ Served.retained = capture.retained /\ Served.captured = capture.captured
           /\ Head(capture.queue) \in Entry /\ capture.queue \in Seq(Entry)
<1>1. capture \in CaptureRecord
  BY DEF IInv, TypeOK
<1>2. capture.queue \in Seq(Entry)
  BY <1>1 DEF CaptureRecord
<1>3. Tail(capture.queue) \in Seq(Entry) /\ Head(capture.queue) \in Entry
  BY <1>2
<1>. QED
  BY <1>1, <1>2, <1>3 DEF Served, CaptureRecord

LEMMA ProcessAudio == ASSUME IInv, AudioInv, Process PROVE AudioInv'
<1>. DEFINE n == Head(capture.queue).number
            into == capture.input
<1>1. /\ capture.queue # <<>> /\ Head(capture.queue).kind = "buffer"
      /\ UNCHANGED <<epoch, session, rotations, doomed, published>>
  BY DEF Process, Serve
<1>2. /\ Served \in CaptureRecord /\ Served.queue = Tail(capture.queue)
      /\ Served.input = into /\ Served.active = capture.active
      /\ Served.retained = capture.retained /\ Served.captured = capture.captured
      /\ Head(capture.queue) \in Entry /\ capture.queue \in Seq(Entry)
  BY <1>1, ServedIs
<1>3. n \in Nat
  BY <1>2 DEF Entry
<1>4. /\ Numbers(capture.queue) # <<>> /\ Head(Numbers(capture.queue)) = n
      /\ Tail(Numbers(capture.queue)) = Numbers(Tail(capture.queue))
  BY <1>1, <1>2, NumbersTaken
<1>5. capture.active =>
         /\ InOrder(published, sessions[session].heard, sessions[session].input,
                    Append(capture.retained, n), Numbers(Tail(capture.queue)), capture.captured)
         /\ capture.retained = <<>> =>
               InOrder(published, sessions[session].heard, Append(sessions[session].input, n),
                       capture.retained, Numbers(Tail(capture.queue)), capture.captured)
  <2>1. capture.captured \in Nat
    BY DEF IInv, TypeOK, CaptureRecord
  <2>. SUFFICES ASSUME capture.active
                PROVE
         /\ InOrder(published, sessions[session].heard, sessions[session].input,
                    Append(capture.retained, n), Numbers(Tail(capture.queue)), capture.captured)
         /\ capture.retained = <<>> =>
               InOrder(published, sessions[session].heard, Append(sessions[session].input, n),
                       capture.retained, Numbers(Tail(capture.queue)), capture.captured)
    OBVIOUS
  <2>2. InOrder(published, sessions[session].heard, sessions[session].input, capture.retained,
                Numbers(capture.queue), capture.captured)
    BY DEF AudioInv, Accounted
  <2>. HIDE DEF n
  <2>. QED
    BY <1>4, <2>1, <2>2, InOrderServed
<1>. HIDE DEF n
<1>6. CASE capture' = Served /\ UNCHANGED sessions /\ ~capture.active
  <2>1. Accounted'
    BY <1>2, <1>6 DEF Accounted
  <2>. QED
    BY <1>1, <1>2, <1>6, <2>1, CaptureMoves
<1>7. CASE capture' = [Served EXCEPT !.active = FALSE] /\ UNCHANGED sessions
  <2>1. ~capture'.active /\ capture'.input = into /\ capture'.retained = capture.retained
    BY <1>2, <1>7 DEF CaptureRecord
  <2>2. Accounted'
    BY <2>1 DEF Accounted
  <2>. QED
    BY <1>1, <1>7, <2>1, <2>2, CaptureMoves
<1>8. CASE capture' = [Served EXCEPT !.retained = Append(@, n)] /\ UNCHANGED sessions /\ into = 0 /\ capture.active
  <2>1. /\ capture'.input = into /\ capture'.retained = Append(capture.retained, n)
        /\ capture'.queue = Tail(capture.queue) /\ capture'.captured = capture.captured
    BY <1>2, <1>8 DEF CaptureRecord
  <2>2. Accounted'
    BY <1>1, <1>5, <1>8, <2>1 DEF Accounted
  <2>. QED
    BY <1>1, <1>8, <2>1, <2>2, CaptureMoves
<1>9. CASE capture' = Served /\ sessions' = [sessions EXCEPT ![into].input = Append(@, n)] /\ into # 0 /\ capture.active
  <2>. DEFINE i == Append(sessions[session].input, n)
              r == [sessions[session] EXCEPT !.input = i]
  <2>1. into = session /\ session \in Made /\ session # 0 /\ capture.retained = <<>>
        /\ sessions[session].state \notin {"draining", "finished"}
    BY <1>9 DEF AudioInv, FedOrRetained, IInv, SessionsMade
  <2>2. sessions[session] \in SessionRecord
    BY <2>1 DEF IInv, TypeOK, Made
  <2>3. i \in Seq(Nat)
    BY <1>3, <2>2 DEF SessionRecord
  <2>. HIDE DEF i
  <2>4. /\ r \in SessionRecord /\ r.epoch = sessions[session].epoch /\ r.state = sessions[session].state
        /\ r.heard = sessions[session].heard /\ r.input = i
    BY <2>2, <2>3 DEF SessionRecord
  <2>5. sessions' = [sessions EXCEPT ![session] = r]
    BY <1>9, <2>1 DEF i
  <2>. HIDE DEF r
  <2>6. sessions'[session] = r
    BY <2>1, <2>5 DEF IInv, TypeOK, Made
  <2>7. Accounted'
    <3>1. InOrder(published, sessions[session].heard, i, capture.retained,
                  Numbers(Tail(capture.queue)), capture.captured)
      BY <1>5, <1>9, <2>1 DEF i
    <3>. QED
      BY <1>1, <1>2, <1>9, <2>4, <2>6, <3>1 DEF Accounted
  <2>8. published \in Seq(Nat) /\ capture'.input = capture.input /\ capture'.retained = capture.retained
    BY <1>2, <1>9 DEF AudioInv, SessionsAge
  <2>9. capture.input # 0
    BY <1>9
  <2>. QED
    BY <1>1, <2>1, <2>4, <2>5, <2>7, <2>8, <2>9, CurrentMoves
<1>10. \/ capture' = Served /\ UNCHANGED sessions /\ ~capture.active
       \/ capture' = [Served EXCEPT !.active = FALSE] /\ UNCHANGED sessions
       \/ capture' = [Served EXCEPT !.retained = Append(@, n)] /\ UNCHANGED sessions /\ into = 0 /\ capture.active
       \/ capture' = Served /\ sessions' = [sessions EXCEPT ![into].input = Append(@, n)] /\ into # 0 /\ capture.active
  BY DEF Process, Fail, n
<1>. QED
  BY <1>6, <1>7, <1>8, <1>9, <1>10

\* What a session of a rotation that goes on is known for.
AgesKnown(c) ==
    Rotating(c) =>
        /\ sessions[rotations[c].previous].epoch = rotations[c].epoch
        /\ rotations[c].state # "making" =>
              /\ sessions[rotations[c].replacement].epoch = rotations[c].epoch
              /\ rotations[c].replacement # rotations[c].previous

\* Sessions keep their epochs, and a new one is of the epoch of its rotation.
EpochsStay(c) ==
    /\ Made \subseteq Made' /\ \A q \in Made : sessions'[q].epoch = sessions[q].epoch
    /\ \A q \in Made' \ Made : sessions'[q].epoch = rotations[c].epoch

LEMMA AgesStay ==
    ASSUME IInv, AudioInv, NEW c \in Callers, UNCHANGED <<epoch, doomed, published>>,
           rotations[c].epoch <= epoch, EpochsStay(c), \A d \in Callers : d # c => rotations'[d] = rotations[d],
           AgesKnown(c)', session' # 0 => sessions'[session'].epoch = epoch, session' = 0 => session = 0
    PROVE  SessionsAge'
<1>1. \A d \in Callers : Rotating(d) =>
         rotations[d].previous \in Made /\ (rotations[d].state # "making" => rotations[d].replacement \in Made)
  BY DEF IInv, SessionsMade
<1>2. \A d \in Callers : AgesKnown(d)'
  <2>1. ASSUME NEW d \in Callers, d # c PROVE AgesKnown(d)'
    BY <1>1, <2>1 DEF AgesKnown, EpochsStay, AudioInv, SessionsAge, Rotating
  <2>. QED
    BY <2>1
<1>3. \A s \in Made' : sessions'[s].epoch <= epoch'
  BY DEF EpochsStay, AudioInv, SessionsAge
<1>4. \A s \in doomed' : sessions'[s].epoch # epoch'
  BY DEF EpochsStay, AudioInv, SessionsAge, IInv, SessionsMade
<1>5. published' \in Seq(Nat) /\ (session' = 0 => published' = <<>>)
  BY DEF AudioInv, SessionsAge
<1>. QED
  BY <1>2, <1>3, <1>4, <1>5 DEF SessionsAge, AgesKnown

\* A rotation that was overtaken touches nothing of this epoch.
LEMMA OldRotation ==
    ASSUME IInv, AudioInv, NEW c \in Callers, rotations[c].epoch # epoch,
           UNCHANGED <<epoch, doomed, published, session, capture>>, EpochsStay(c),
           rotations'[c].epoch = rotations[c].epoch,
           \A d \in Callers : d # c => rotations'[d] = rotations[d],
           AgesKnown(c)', \A q \in Made : sessions[q].epoch = epoch => sessions'[q] = sessions[q]
    PROVE  AudioInv'
<1>1. /\ \A d \in Callers : Rotating(d) /\ rotations[d].state # "making" => rotations[d].replacement \in Made
      /\ session # 0 => session \in Made
  BY DEF IInv, SessionsMade
<1>2. session # 0 => sessions[session].epoch = epoch /\ sessions'[session] = sessions[session]
  BY <1>1 DEF AudioInv, SessionsAge
<1>3. SessionsAge'
  BY <1>2, AgesStay DEF IInv, EpochsPast
<1>4. OneHolder'
  <2>1. ASSUME NEW q \in Made', sessions'[q].epoch = epoch', q # session' PROVE Empty(q)'
    <3>1. q \in Made /\ sessions[q].epoch = epoch
      BY <2>1 DEF EpochsStay
    <3>2. Empty(q)
      BY <2>1, <3>1 DEF AudioInv, OneHolder
    <3>. QED
      BY <3>1, <3>2 DEF Empty
  <2>. QED
    BY <2>1 DEF OneHolder
<1>5. FedOrRetained'
  <2>1. \A d \in Callers : rotations[d].epoch = epoch => d # c /\ rotations'[d] = rotations[d]
    OBVIOUS
  <2>2. UNCHANGED <<session, capture, epoch>>
    OBVIOUS
  <2>. QED
    BY <1>2, <2>1, <2>2 DEF AudioInv, FedOrRetained
<1>6. CutKnown'
  <2>1. ASSUME NEW d \in Callers, Rotating(d)', rotations'[d].epoch = epoch' PROVE CutAt(d)'
    <3>1. d # c /\ rotations'[d] = rotations[d] /\ Rotating(d) /\ rotations[d].epoch = epoch
      BY <2>1 DEF Rotating
    <3>2. CutAt(d)
      BY DEF AudioInv, CutKnown
    <3>3. rotations[d].state # "making" =>
             sessions'[rotations[d].replacement] = sessions[rotations[d].replacement]
      BY <1>1, <3>1 DEF AudioInv, SessionsAge
    <3>. QED
      BY <3>1, <3>2, <3>3 DEF CutAt, Rotating, Empty
  <2>2. ASSUME NEW d \in Callers, ~(Rotating(d)' /\ rotations'[d].epoch = epoch') PROVE CutAt(d)'
    BY <2>2 DEF CutAt
  <2>. QED
    BY <2>1, <2>2 DEF CutKnown
<1>7. Accounted'
  <2>1. capture.active => session # 0
    BY DEF IInv, CaptureKnown, NoCapture
  <2>. QED
    BY <1>2, <2>1 DEF AudioInv, Accounted
<1>. QED
  BY <1>3, <1>4, <1>5, <1>6, <1>7 DEF AudioInv

\* The rotation of this epoch is the only one that has to do with its audio.
LEMMA SoleStep ==
    ASSUME IInv, AudioInv, NEW c \in Callers,
           \A d \in Callers : d # c => ~(Rotating(d) /\ rotations[d].epoch = epoch),
           UNCHANGED <<epoch, doomed, published>>, EpochsStay(c),
           \A d \in Callers : d # c => rotations'[d] = rotations[d],
           AgesKnown(c)', session' # 0 => sessions'[session'].epoch = epoch, session' = 0 => session = 0,
           OneHolder', FedOrRetained', CutAt(c)', Accounted'
    PROVE  AudioInv'
<1>1. SessionsAge'
  BY AgesStay DEF IInv, EpochsPast
<1>2. CutKnown'
  <2>1. ASSUME NEW d \in Callers, d # c PROVE CutAt(d)'
    BY <2>1 DEF CutAt, Rotating
  <2>. QED
    BY <2>1 DEF CutKnown
<1>. QED
  BY <1>1, <1>2 DEF AudioInv

\* While a rotation of this epoch is not draining, the current session is not either.
LEMMA NotDraining ==
    ASSUME IInv, AudioInv, NEW c \in Callers, Rotating(c), rotations[c].epoch = epoch,
           rotations[c].state # "draining" \/ Dead(rotations[c].previous)
    PROVE  /\ session # 0 /\ session \in Made /\ sessions[session].epoch = epoch
           /\ sessions[session].state \notin {"draining", "finished"}
<1>1. session # 0 /\ session \in Made /\ sessions[session].epoch = epoch
  BY DEF IInv, RotationKnown, SessionsMade, AudioInv, SessionsAge
<1>2. ASSUME sessions[session].state \in {"draining", "finished"} PROVE FALSE
  <2>1. PICK d \in Callers : /\ rotations[d].state = "draining" /\ rotations[d].epoch = epoch
                             /\ rotations[d].previous = session
    BY <1>1, <1>2 DEF AudioInv, FedOrRetained
  <2>2. Rotating(d)
    BY <2>1 DEF Rotating
  <2>3. d = c
    BY <2>1, <2>2, Current
  <2>. QED
    BY <1>2, <2>1, <2>3 DEF Dead
<1>. QED
  BY <1>1, <1>2

\* A rotation ends, or gives up draining or waiting.
LEMMA GoesAudio ==
    ASSUME IInv, AudioInv, NEW c \in Callers, NEW x \in {"cleaning", "done", "failed"},
           Rotating(c), Goes(c, x), UNCHANGED <<epoch, doomed, published, session, capture>>,
           x = "cleaning" => rotations[c].state # "making",
           Made' = Made, \A q \in Made : sessions'[q].epoch = sessions[q].epoch,
           rotations[c].epoch # epoch =>
               \A q \in Made : sessions[q].epoch = epoch => sessions'[q] = sessions[q],
           rotations[c].epoch = epoch =>
               /\ rotations[c].state # "draining" \/ Dead(rotations[c].previous)
               /\ x = "cleaning" => rotations[c].state = "draining"
               /\ \A q \in Made :
                     /\ sessions'[q].heard = sessions[q].heard /\ sessions'[q].input = sessions[q].input
                     /\ sessions'[q].state \in {"draining", "finished"} =>
                            sessions[q].state \in {"draining", "finished"}
    PROVE  AudioInv'
<1>1. /\ rotations'[c].state = x /\ rotations'[c].epoch = rotations[c].epoch
      /\ rotations'[c].previous = rotations[c].previous
      /\ rotations'[c].replacement = rotations[c].replacement
      /\ \A d \in Callers : d # c => rotations'[d] = rotations[d]
  BY Gone DEF RotationStates
<1>2. EpochsStay(c)
  BY DEF EpochsStay
<1>3. AgesKnown(c)'
  <2>1. rotations[c].previous \in Made /\ (rotations[c].state # "making" => rotations[c].replacement \in Made)
    BY DEF IInv, SessionsMade
  <2>. QED
    BY <1>1, <2>1 DEF AgesKnown, AudioInv, SessionsAge, Rotating
<1>4. CASE rotations[c].epoch # epoch
  BY <1>1, <1>2, <1>3, <1>4, OldRotation
<1>5. CASE rotations[c].epoch = epoch
  <2>1. \A d \in Callers : d # c => ~(Rotating(d) /\ rotations[d].epoch = epoch)
    BY <1>5, Current
  <2>2. /\ session # 0 /\ session \in Made /\ sessions[session].epoch = epoch
        /\ sessions[session].state \notin {"draining", "finished"}
    BY <1>5, NotDraining
  <2>3. sessions'[session].state \notin {"draining", "finished"} /\ sessions'[session].epoch = epoch
    BY <1>5, <2>2
  <2>4. \A q \in Made : Empty(q) => Empty(q)'
    BY <1>5 DEF Empty
  <2>5. OneHolder'
    BY <2>4 DEF AudioInv, OneHolder
  <2>6. FedOrRetained'
    <3>1. UNCHANGED <<session, capture>>
      OBVIOUS
    <3>. QED
      BY <2>3, <3>1 DEF AudioInv, FedOrRetained
  <2>7. CutAt(c)'
    <3>1. CASE x # "cleaning"
      BY <1>1, <3>1 DEF CutAt, Rotating
    <3>2. CASE x = "cleaning"
      <4>1. rotations[c].state = "draining" /\ rotations[c].replacement \in Made
        BY <1>5, <3>2 DEF IInv, SessionsMade
      <4>2. session = rotations[c].previous /\ rotations[c].replacement # rotations[c].previous
        BY <1>5, <4>1 DEF IInv, RotationKnown, AudioInv, SessionsAge
      <4>3. PICK q \in Made : q = rotations[c].replacement
        BY <4>1
      <4>4. Empty(q) /\ sessions[q].state \notin {"draining", "finished"}
        BY <1>5, <4>1, <4>3 DEF AudioInv, CutKnown, CutAt
      <4>5. Empty(q)' /\ sessions'[q].state \notin {"draining", "finished"}
        BY <1>5, <2>4, <4>4
      <4>. QED
        BY <1>1, <3>2, <4>2, <4>3, <4>5 DEF CutAt, Empty
    <3>. QED
      BY <3>1, <3>2
  <2>8. Accounted'
    BY <1>5, <2>2 DEF AudioInv, Accounted
  <2>. QED
    BY <1>1, <1>2, <1>3, <2>1, <2>2, <2>3, <2>5, <2>6, <2>7, <2>8, SoleStep
<1>. QED
  BY <1>4, <1>5

LEMMA EndsAudio ==
    ASSUME IInv, AudioInv, NEW c \in Callers,
           ReplacementFails(c) \/ Succeeds(c) \/ DrainThrows(c) \/ Abandons(c)
    PROVE  AudioInv'
<1>1. /\ Rotating(c) /\ UNCHANGED <<epoch, doomed, published, session, capture, sessions>>
      /\ rotations[c].epoch = epoch => rotations[c].state # "draining" \/ Dead(rotations[c].previous)
  BY DEF ReplacementFails, Succeeds, DrainThrows, Abandons, Rotating
<1>2. PICK x \in {"cleaning", "done", "failed"} :
         /\ Goes(c, x) /\ (x = "cleaning" => rotations[c].state # "making")
         /\ rotations[c].epoch = epoch => (x = "cleaning" => rotations[c].state = "draining")
  BY DEF ReplacementFails, Succeeds, DrainThrows, Abandons, Ends
<1>3. Made' = Made
  BY <1>1 DEF Made
<1>. QED
  BY <1>1, <1>2, <1>3, GoesAudio

LEMMA CleansAudio == ASSUME IInv, AudioInv, NEW c \in Callers, CleansUp(c) PROVE AudioInv'
<1>1. /\ Rotating(c) /\ UNCHANGED <<epoch, doomed, published, session, capture>>
      /\ rotations[c].state = "cleaning" /\ Goes(c, "failed")
      /\ sessions' = Close(rotations[c].replacement)
  BY DEF CleansUp, Ends, Rotating
<1>2. PICK p \in Made : p = rotations[c].replacement /\ sessions[p].epoch = rotations[c].epoch
  BY <1>1 DEF IInv, SessionsMade, AudioInv, SessionsAge
<1>3. /\ Made' = Made /\ sessions'[p].epoch = sessions[p].epoch /\ sessions'[p].state = "closed"
      /\ sessions'[p].heard = <<>> /\ sessions'[p].input = <<>>
      /\ \A q \in Made : q # p => sessions'[q] = sessions[q]
  <2>1. sessions[p] \in SessionRecord /\ sessions \in Seq(SessionRecord)
    BY DEF IInv, TypeOK, Made
  <2>. QED
    BY <1>1, <1>2, <2>1 DEF Close, SessionRecord, Made
<1>4. \A q \in Made : sessions'[q].epoch = sessions[q].epoch
  BY <1>3
<1>5. rotations[c].epoch # epoch => \A q \in Made : sessions[q].epoch = epoch => sessions'[q] = sessions[q]
  BY <1>2, <1>3
<1>6. rotations[c].epoch = epoch =>
         \A q \in Made :
                     /\ sessions'[q].heard = sessions[q].heard /\ sessions'[q].input = sessions[q].input
                     /\ sessions'[q].state \in {"draining", "finished"} =>
                            sessions[q].state \in {"draining", "finished"}
  <2>1. rotations[c].epoch = epoch => Empty(p)
    BY <1>1, <1>2 DEF AudioInv, CutKnown, CutAt
  <2>. QED
    BY <1>3, <2>1 DEF Empty
<1>. QED
  BY <1>1, <1>3, <1>4, <1>5, <1>6, GoesAudio

LEMMA DrainsAudio == ASSUME IInv, AudioInv, NEW c \in Callers, Drains(c) PROVE AudioInv'
<1>1. /\ rotations[c].state = "paused" /\ Rotating(c) /\ Goes(c, "draining")
      /\ UNCHANGED <<epoch, doomed, published, session, capture>>
  BY DEF Drains, Rotating
<1>2. /\ rotations'[c].state = "draining" /\ rotations'[c].epoch = rotations[c].epoch
      /\ rotations'[c].previous = rotations[c].previous
      /\ rotations'[c].replacement = rotations[c].replacement
      /\ \A d \in Callers : d # c => rotations'[d] = rotations[d]
  BY <1>1, Gone DEF RotationStates
<1>3. PICK p \in Made : p = rotations[c].previous /\ sessions[p].epoch = rotations[c].epoch
  BY <1>1 DEF IInv, SessionsMade, AudioInv, SessionsAge
<1>4. /\ Made' = Made /\ sessions'[p].epoch = sessions[p].epoch
      /\ sessions'[p].heard = sessions[p].heard /\ sessions'[p].input = sessions[p].input
      /\ sessions'[p].state = IF sessions[p].state = "open" THEN "draining" ELSE sessions[p].state
      /\ \A q \in Made : q # p => sessions'[q] = sessions[q]
  <2>1. sessions[p] \in SessionRecord /\ sessions \in Seq(SessionRecord)
    BY DEF IInv, TypeOK, Made
  <2>2. sessions' = IF sessions[p].state = "open"
                    THEN [sessions EXCEPT ![p].state = "draining"] ELSE sessions
    BY <1>3 DEF Drains
  <2>3. CASE sessions[p].state = "open"
    BY <2>1, <2>2, <2>3 DEF SessionRecord, Made
  <2>4. CASE sessions[p].state # "open"
    BY <2>2, <2>4 DEF Made
  <2>. QED
    BY <2>3, <2>4
<1>5. EpochsStay(c)
  BY <1>4 DEF EpochsStay
<1>6. /\ rotations[c].replacement \in Made /\ sessions[rotations[c].replacement].epoch = rotations[c].epoch
      /\ rotations[c].replacement # p
  BY <1>1, <1>3 DEF IInv, SessionsMade, AudioInv, SessionsAge
<1>7. AgesKnown(c)'
  BY <1>2, <1>3, <1>4, <1>6 DEF AgesKnown
<1>8. CASE rotations[c].epoch # epoch
  <2>1. \A q \in Made : sessions[q].epoch = epoch => sessions'[q] = sessions[q]
    BY <1>3, <1>4, <1>8
  <2>. QED
    BY <1>1, <1>2, <1>5, <1>7, <1>8, <2>1, OldRotation
<1>9. CASE rotations[c].epoch = epoch
  <2>1. \A d \in Callers : d # c => ~(Rotating(d) /\ rotations[d].epoch = epoch)
    BY <1>1, <1>9, Current
  <2>2. /\ session # 0 /\ session \in Made /\ sessions[session].epoch = epoch
        /\ sessions[session].state \notin {"draining", "finished"} /\ session = p
    BY <1>1, <1>3, <1>9, NotDraining DEF IInv, RotationKnown
  <2>3. capture.input = 0 /\ Empty(rotations[c].replacement)
        /\ sessions[rotations[c].replacement].state \notin {"draining", "finished"}
    BY <1>1, <1>9 DEF AudioInv, CutKnown, CutAt
  <2>4. OneHolder'
    BY <1>1, <1>4, <2>2 DEF AudioInv, OneHolder, Empty
  <2>5. FedOrRetained'
    <3>1. sessions'[session].state # "finished"
      BY <1>4, <2>2
    <3>. QED
      BY <1>1, <1>2, <1>3, <1>9, <2>2, <2>3, <3>1 DEF FedOrRetained
  <2>6. CutAt(c)'
    BY <1>1, <1>2, <1>4, <1>6, <2>3 DEF CutAt, Empty
  <2>7. Accounted'
    BY <1>1, <1>4, <2>2 DEF AudioInv, Accounted
  <2>8. session' # 0 /\ sessions'[session'].epoch = epoch
    BY <1>1, <1>4, <2>2
  <2>. QED
    BY <1>1, <1>2, <1>5, <1>7, <2>1, <2>4, <2>5, <2>6, <2>7, <2>8, SoleStep
<1>. QED
  BY <1>8, <1>9

\* What is queued but buffers does not count.
LEMMA AskedFor ==
    ASSUME IInv, NEW e \in Entry, e.kind # "buffer",
           capture' = [capture EXCEPT !.queue = Append(@, e)]
    PROVE  /\ Numbers(capture'.queue) = Numbers(capture.queue) /\ capture'.active = capture.active
           /\ capture'.input = capture.input /\ capture'.retained = capture.retained
           /\ capture'.captured = capture.captured
<1>1. capture \in CaptureRecord
  BY DEF IInv, TypeOK
<1>2. capture.queue \in Seq(Entry) /\ capture'.queue = Append(capture.queue, e)
  BY <1>1 DEF CaptureRecord
<1>3. Numbers(capture'.queue) = Numbers(capture.queue)
  BY <1>2, NumbersAppended
<1>. QED
  BY <1>1, <1>3 DEF CaptureRecord

LEMMA SwitchesAudio == ASSUME IInv, AudioInv, NEW c \in Callers, Switches(c) PROVE AudioInv'
<1>1. /\ rotations[c].state = "draining" /\ Rotating(c)
      /\ sessions[rotations[c].previous].state = "finished"
      /\ sessions[rotations[c].previous].heard = <<>>
      /\ UNCHANGED <<epoch, doomed, published, sessions>>
  BY DEF Switches, Rotating
<1>2. Made' = Made
  BY <1>1 DEF Made
<1>3. CASE rotations[c].epoch # epoch
  <2>1. Goes(c, "cleaning") /\ UNCHANGED <<session, capture>>
    BY <1>3 DEF Switches
  <2>. QED
    BY <1>1, <1>2, <1>3, <2>1, GoesAudio
<1>4. CASE rotations[c].epoch = epoch
  <2>1. /\ Goes(c, "resuming") /\ session' = rotations[c].replacement
        /\ capture' = [capture EXCEPT !.queue = Append(@, Resume(c))]
    BY <1>4 DEF Switches
  <2>2. /\ rotations'[c].state = "resuming" /\ rotations'[c].epoch = rotations[c].epoch
        /\ rotations'[c].previous = rotations[c].previous
        /\ rotations'[c].replacement = rotations[c].replacement
        /\ \A d \in Callers : d # c => rotations'[d] = rotations[d]
    BY <2>1, Gone DEF RotationStates
  <2>3. Resume(c) \in Entry /\ Resume(c).kind # "buffer"
    BY DEF Resume, Entry, Callers
  <2>4. /\ Numbers(capture'.queue) = Numbers(capture.queue) /\ capture'.active = capture.active
        /\ capture'.input = capture.input /\ capture'.retained = capture.retained
        /\ capture'.captured = capture.captured
    BY <2>1, <2>3, AskedFor
  <2>5. \A d \in Callers : d # c => ~(Rotating(d) /\ rotations[d].epoch = epoch)
    BY <1>1, <1>4, Current
  <2>6. session = rotations[c].previous /\ session # 0
    BY <1>1, <1>4 DEF IInv, RotationKnown
  <2>7. sessions[session].heard = <<>> /\ sessions[session].input = <<>>
    BY <1>1, <2>6 DEF AudioInv, FedOrRetained
  <2>8. PICK p \in Made : p = rotations[c].replacement /\ sessions[p].epoch = epoch /\ p # 0 /\ p # session
    BY <1>1, <1>4, <2>6 DEF IInv, SessionsMade, AudioInv, SessionsAge, TypeOK, Made
  <2>9. capture.input = 0 /\ Empty(p) /\ sessions[p].state \notin {"draining", "finished"}
    BY <1>1, <1>4, <2>8 DEF AudioInv, CutKnown, CutAt
  <2>10. EpochsStay(c) /\ AgesKnown(c)'
    <3>1. sessions[rotations[c].previous].epoch = rotations[c].epoch
      BY <1>1 DEF AudioInv, SessionsAge
    <3>. QED
      BY <1>1, <1>2, <1>4, <2>2, <2>6, <2>8, <3>1 DEF EpochsStay, AgesKnown
  <2>11. OneHolder'
    <3>1. ASSUME NEW q \in Made, sessions[q].epoch = epoch, q # p PROVE Empty(q)
      BY <2>7, <3>1 DEF AudioInv, OneHolder, Empty
    <3>. QED
      BY <1>1, <1>2, <2>1, <2>8, <3>1 DEF OneHolder, Empty
  <2>12. FedOrRetained'
    BY <1>1, <2>1, <2>4, <2>8, <2>9 DEF FedOrRetained
  <2>13. CutAt(c)'
    BY <1>1, <2>2, <2>4, <2>8, <2>9 DEF CutAt, Empty
  <2>14. Accounted'
    BY <1>1, <2>1, <2>4, <2>7, <2>8, <2>9 DEF AudioInv, Accounted, Empty
  <2>15. session' # 0 /\ sessions'[session'].epoch = epoch
    BY <1>1, <2>1, <2>8
  <2>. QED
    BY <1>1, <2>2, <2>5, <2>10, <2>11, <2>12, <2>13, <2>14, <2>15, SoleStep
<1>. QED
  BY <1>3, <1>4

LEMMA MakesAudio == ASSUME IInv, AudioInv, NEW c \in Callers, MakesReplacement(c) PROVE AudioInv'
<1>. DEFINE new == Len(sessions')
            x == IF epoch = rotations[c].epoch THEN "pausing" ELSE "cleaning"
<1>1. /\ rotations[c].state = "making" /\ Rotating(c)
      /\ sessions' = Append(sessions, [NewSession EXCEPT !.epoch = rotations[c].epoch])
      /\ rotations' = [rotations EXCEPT ![c].state = x, ![c].replacement = new]
      /\ capture' = IF epoch = rotations[c].epoch
                    THEN [capture EXCEPT !.queue = Append(@, Pause(c))] ELSE capture
      /\ UNCHANGED <<epoch, session, doomed, published>>
  BY DEF MakesReplacement, Rotating
<1>2. rotations[c] \in RotationRecord /\ rotations[c].epoch \in Nat /\ rotations \in [Callers -> RotationRecord]
  BY DEF IInv, TypeOK, RotationRecord
<1>3. /\ Made' = Made \cup {new} /\ new \notin Made /\ new # 0
      /\ \A s \in Made : sessions'[s] = sessions[s]
  BY <1>1, <1>2, OneMore DEF IInv
<1>4. /\ sessions'[new].epoch = rotations[c].epoch /\ sessions'[new].state = "open"
      /\ sessions'[new].heard = <<>> /\ sessions'[new].input = <<>>
  <2>1. sessions'[new] = [NewSession EXCEPT !.epoch = rotations[c].epoch]
    BY <1>1 DEF IInv, TypeOK
  <2>. QED
    BY <2>1 DEF NewSession
<1>. HIDE DEF new
<1>5. /\ rotations'[c].state = x /\ rotations'[c].epoch = rotations[c].epoch
      /\ rotations'[c].previous = rotations[c].previous /\ rotations'[c].replacement = new
      /\ \A d \in Callers : d # c => rotations'[d] = rotations[d]
  BY <1>1, <1>2 DEF RotationRecord
<1>6. EpochsStay(c)
  BY <1>3, <1>4 DEF EpochsStay
<1>7. AgesKnown(c)'
  <2>1. rotations[c].previous \in Made /\ sessions[rotations[c].previous].epoch = rotations[c].epoch
    BY <1>1 DEF IInv, SessionsMade, AudioInv, SessionsAge
  <2>. QED
    BY <1>3, <1>4, <1>5, <2>1 DEF AgesKnown
<1>8. CASE rotations[c].epoch # epoch
  <2>1. UNCHANGED capture
    BY <1>1, <1>8
  <2>. QED
    BY <1>1, <1>3, <1>5, <1>6, <1>7, <1>8, <2>1, OldRotation
<1>9. CASE rotations[c].epoch = epoch
  <2>1. \A d \in Callers : d # c => ~(Rotating(d) /\ rotations[d].epoch = epoch)
    BY <1>1, <1>9, Current
  <2>2. /\ session # 0 /\ session \in Made /\ sessions[session].epoch = epoch
        /\ sessions[session].state \notin {"draining", "finished"}
    BY <1>1, <1>9, NotDraining
  <2>3. Pause(c) \in Entry /\ Pause(c).kind # "buffer"
    BY DEF Pause, Entry, Callers
  <2>4. capture' = [capture EXCEPT !.queue = Append(@, Pause(c))]
    BY <1>1, <1>9
  <2>5. /\ Numbers(capture'.queue) = Numbers(capture.queue) /\ capture'.active = capture.active
        /\ capture'.input = capture.input /\ capture'.retained = capture.retained
        /\ capture'.captured = capture.captured
    BY <2>3, <2>4, AskedFor
  <2>6. sessions'[session] = sessions[session]
    BY <1>3, <2>2
  <2>7. OneHolder'
    BY <1>1, <1>3, <1>4 DEF AudioInv, OneHolder, Empty
  <2>8. FedOrRetained'
    BY <1>1, <2>2, <2>5, <2>6 DEF AudioInv, FedOrRetained
  <2>9. CutAt(c)'
    <3>1. rotations'[c].state = "pausing"
      BY <1>5, <1>9
    <3>2. Empty(rotations[c].replacement)' /\ sessions'[rotations'[c].replacement].state = "open"
      BY <1>4, <1>5 DEF Empty
    <3>. QED
      BY <3>1, <3>2 DEF CutAt
  <2>10. Accounted'
    BY <1>1, <2>5, <2>6 DEF AudioInv, Accounted
  <2>11. session' # 0 /\ sessions'[session'].epoch = epoch
    BY <1>1, <2>2, <2>6
  <2>. QED
    BY <1>1, <1>5, <1>6, <1>7, <2>1, <2>7, <2>8, <2>9, <2>10, <2>11, SoleStep
<1>. QED
  BY <1>8, <1>9

LEMMA PauseAudio == ASSUME IInv, AudioInv, ServePause PROVE AudioInv'
<1>0. PICK c : c = Head(capture.queue).number
  OBVIOUS
<1>1. /\ capture.queue # <<>> /\ Head(capture.queue).kind = "pause"
      /\ UNCHANGED <<epoch, session, sessions, doomed, published>>
  BY DEF ServePause, Serve
<1>2. /\ Served \in CaptureRecord /\ Served.queue = Tail(capture.queue)
      /\ Served.input = capture.input /\ Served.active = capture.active
      /\ Served.retained = capture.retained /\ Served.captured = capture.captured
      /\ capture.queue \in Seq(Entry)
  BY <1>1, ServedIs
<1>3. PICK x \in {"paused", "cleaning"} :
         /\ Goes(c, x) /\ (x = "cleaning" => capture' = Served)
         /\ x = "paused" => capture' = [Served EXCEPT !.input = 0]
  BY <1>0 DEF ServePause
<1>4. /\ capture'.queue = Tail(capture.queue) /\ capture'.active = capture.active
      /\ capture'.retained = capture.retained /\ capture'.captured = capture.captured
      /\ capture'.input \in {0, capture.input} /\ (x = "paused" => capture'.input = 0)
  <2>1. CASE x = "paused"
    BY <1>2, <1>3, <2>1 DEF CaptureRecord
  <2>2. CASE x = "cleaning"
    BY <1>2, <1>3, <2>2
  <2>. QED
    BY <2>1, <2>2
<1>5. c \in Callers /\ rotations[c].epoch = epoch /\ rotations[c].state = "pausing" /\ Rotating(c)
  BY <1>0, <1>1, <1>4, Dequeued DEF Rotating
<1>6. /\ rotations'[c].state = x /\ rotations'[c].epoch = rotations[c].epoch
      /\ rotations'[c].previous = rotations[c].previous
      /\ rotations'[c].replacement = rotations[c].replacement
      /\ \A d \in Callers : d # c => rotations'[d] = rotations[d]
  BY <1>3, <1>5, Gone DEF RotationStates
<1>7. \A d \in Callers : d # c => ~(Rotating(d) /\ rotations[d].epoch = epoch)
  BY <1>5, Current
<1>8. /\ session # 0 /\ session \in Made /\ sessions[session].epoch = epoch
      /\ sessions[session].state \notin {"draining", "finished"}
  BY <1>5, NotDraining
<1>9. Made' = Made
  BY <1>1 DEF Made
<1>10. EpochsStay(c) /\ AgesKnown(c)'
  <2>1. AgesKnown(c)
    BY <1>5 DEF AgesKnown, AudioInv, SessionsAge
  <2>. QED
    BY <1>1, <1>5, <1>6, <1>9, <2>1 DEF EpochsStay, AgesKnown
<1>11. OneHolder'
  BY <1>1, <1>9 DEF AudioInv, OneHolder, Empty
<1>12. FedOrRetained'
  BY <1>1, <1>4, <1>8 DEF AudioInv, FedOrRetained
<1>13. CutAt(c)'
  <2>1. session = rotations[c].previous /\ rotations[c].replacement # rotations[c].previous
    BY <1>5 DEF IInv, RotationKnown, AudioInv, SessionsAge
  <2>2. /\ Empty(rotations[c].replacement)
        /\ sessions[rotations[c].replacement].state \notin {"draining", "finished"}
    BY <1>5 DEF AudioInv, CutKnown, CutAt
  <2>. QED
    BY <1>1, <1>4, <1>6, <2>1, <2>2 DEF CutAt, Empty
<1>14. Accounted'
  <2>1. Numbers(Tail(capture.queue)) = Numbers(capture.queue)
    BY <1>1, <1>2, NumbersTaken
  <2>. QED
    BY <1>1, <1>4, <2>1 DEF AudioInv, Accounted
<1>. QED
  BY <1>1, <1>5, <1>6, <1>7, <1>8, <1>10, <1>11, <1>12, <1>13, <1>14, SoleStep

LEMMA ResumeAudio == ASSUME IInv, AudioInv, ServeResume PROVE AudioInv'
<1>0. PICK c : c = Head(capture.queue).number
  OBVIOUS
<1>1. /\ capture.queue # <<>> /\ Head(capture.queue).kind = "resume"
      /\ UNCHANGED <<epoch, session, doomed, published>>
  BY DEF ServeResume, Serve
<1>2. /\ Served \in CaptureRecord /\ Served.queue = Tail(capture.queue)
      /\ Served.input = capture.input /\ Served.active = capture.active
      /\ Served.retained = capture.retained /\ Served.captured = capture.captured
      /\ capture.queue \in Seq(Entry)
  BY <1>1, ServedIs
<1>3. PICK x \in {"resumed", "cleaning"} :
         /\ Goes(c, x) /\ (x = "cleaning" => capture' = Served /\ UNCHANGED sessions)
         /\ x = "resumed" =>
               /\ capture' = [Served EXCEPT !.retained = <<>>, !.input = rotations[c].replacement]
               /\ sessions' = [sessions EXCEPT ![rotations[c].replacement].input = capture.retained]
  BY <1>0 DEF ServeResume
<1>4. capture'.queue = Tail(capture.queue) /\ capture'.active = capture.active
      /\ capture'.captured = capture.captured
  BY <1>2, <1>3 DEF CaptureRecord
<1>5. c \in Callers /\ rotations[c].epoch = epoch /\ rotations[c].state = "resuming" /\ Rotating(c)
  BY <1>0, <1>1, <1>4, Dequeued DEF Rotating
<1>6. /\ rotations'[c].state = x /\ rotations'[c].epoch = rotations[c].epoch
      /\ rotations'[c].previous = rotations[c].previous
      /\ rotations'[c].replacement = rotations[c].replacement
      /\ \A d \in Callers : d # c => rotations'[d] = rotations[d]
  BY <1>3, <1>5, Gone DEF RotationStates
<1>7. \A d \in Callers : d # c => ~(Rotating(d) /\ rotations[d].epoch = epoch)
  BY <1>5, Current
<1>8. /\ session # 0 /\ session \in Made /\ sessions[session].epoch = epoch
      /\ sessions[session].state \notin {"draining", "finished"}
  BY <1>5, NotDraining
<1>9. session = rotations[c].replacement /\ Empty(session) /\ capture.input = 0
  <2>1. session = rotations[c].replacement
    BY <1>5 DEF IInv, RotationKnown
  <2>. QED
    BY <1>5, <2>1 DEF AudioInv, CutKnown, CutAt
<1>10. Numbers(Tail(capture.queue)) = Numbers(capture.queue)
  BY <1>1, <1>2, NumbersTaken
<1>11. AgesKnown(c)
  BY <1>5 DEF AgesKnown, AudioInv, SessionsAge
<1>12. CASE x = "cleaning"
  <2>1. capture' = Served /\ UNCHANGED sessions /\ Made' = Made
    BY <1>3, <1>12 DEF Made
  <2>2. EpochsStay(c) /\ AgesKnown(c)'
    BY <1>1, <1>5, <1>6, <1>11, <2>1 DEF EpochsStay, AgesKnown
  <2>3. OneHolder'
    BY <1>1, <2>1 DEF AudioInv, OneHolder, Empty
  <2>4. FedOrRetained'
    BY <1>1, <1>2, <1>8, <1>9, <2>1 DEF FedOrRetained
  <2>5. CutAt(c)'
    BY <1>1, <1>2, <1>6, <1>8, <1>9, <2>1 DEF CutAt, Empty
  <2>6. Accounted'
    BY <1>1, <1>2, <1>10, <2>1 DEF AudioInv, Accounted
  <2>7. session' # 0 /\ sessions'[session'].epoch = epoch
    BY <1>1, <1>8, <2>1
  <2>. QED
    BY <1>1, <1>5, <1>6, <1>7, <2>2, <2>3, <2>4, <2>5, <2>6, <2>7, SoleStep
<1>13. CASE x = "resumed"
  <2>1. /\ capture'.retained = <<>> /\ capture'.input = session
        /\ sessions' = [sessions EXCEPT ![session].input = capture.retained]
    BY <1>2, <1>3, <1>9, <1>13 DEF CaptureRecord
  <2>2. /\ Made' = Made /\ sessions'[session].epoch = epoch /\ sessions'[session].input = capture.retained
        /\ sessions'[session].heard = <<>> /\ sessions'[session].state = sessions[session].state
        /\ \A q \in Made : q # session => sessions'[q] = sessions[q]
    <3>1. sessions[session] \in SessionRecord /\ sessions \in Seq(SessionRecord)
      BY <1>8 DEF IInv, TypeOK, Made
    <3>. QED
      BY <1>8, <1>9, <2>1, <3>1 DEF SessionRecord, Made, Empty
  <2>3. \A q \in Made : sessions'[q].epoch = sessions[q].epoch
    BY <1>8, <2>2
  <2>4. EpochsStay(c) /\ AgesKnown(c)'
    <3>1. rotations[c].previous \in Made
      BY <1>5 DEF IInv, SessionsMade
    <3>. QED
      BY <1>5, <1>6, <1>8, <1>9, <1>11, <2>2, <2>3, <3>1 DEF EpochsStay, AgesKnown
  <2>5. OneHolder'
    BY <1>1, <2>2 DEF AudioInv, OneHolder, Empty
  <2>6. FedOrRetained'
    BY <1>1, <1>8, <2>1, <2>2 DEF FedOrRetained
  <2>7. CutAt(c)'
    BY <1>6, <1>13 DEF CutAt
  <2>8. Accounted'
    <3>. SUFFICES ASSUME capture.active
                  PROVE  InOrder(published, <<>>, capture.retained, <<>>, Numbers(capture.queue), capture.captured)
      BY <1>1, <1>4, <1>10, <2>1, <2>2 DEF Accounted
    <3>1. InOrder(published, <<>>, <<>>, capture.retained, Numbers(capture.queue), capture.captured)
      BY <1>9 DEF AudioInv, Accounted, Empty
    <3>2. capture.captured \in Nat
      BY DEF IInv, TypeOK, CaptureRecord
    <3>. QED
      BY <3>1, <3>2, InOrderReplayed
  <2>9. session' # 0 /\ sessions'[session'].epoch = epoch
    BY <1>1, <1>8, <2>2
  <2>. QED
    BY <1>1, <1>5, <1>6, <1>7, <2>4, <2>5, <2>6, <2>7, <2>8, <2>9, SoleStep
<1>. QED
  BY <1>12, <1>13

\* A call of finalize that begins a rotation moves no audio, and every other moves nothing.
LEMMA CallAudio ==
    ASSUME IInv, AudioInv, NEW c \in Callers, Finalize(c) \/ Resumes(c)
    PROVE  AudioInv'
<1>1. UNCHANGED <<epoch, session, sessions, capture, doomed, published>>
  BY DEF Finalize, Resumes
<1>2. \/ UNCHANGED rotations
      \/ /\ rotating = 0 /\ session # 0
         /\ rotations' = [rotations EXCEPT ![c] =
                [state |-> "making", epoch |-> epoch, previous |-> session, replacement |-> 0]]
  BY DEF Finalize, Resumes, Proceeds
<1>3. CASE UNCHANGED rotations
  BY <1>1, <1>3, AudioRests
<1>4. CASE /\ rotating = 0 /\ session # 0
           /\ rotations' = [rotations EXCEPT ![c] =
                [state |-> "making", epoch |-> epoch, previous |-> session, replacement |-> 0]]
  <2>1. /\ rotations'[c] = [state |-> "making", epoch |-> epoch, previous |-> session, replacement |-> 0]
        /\ \A d \in Callers : d # c => rotations'[d] = rotations[d]
    BY <1>4 DEF IInv, TypeOK
  <2>2. \A d \in Callers : ~(Rotating(d) /\ rotations[d].epoch = epoch)
    BY <1>4 DEF IInv, SoleRotation, Callers
  <2>3. Made' = Made /\ sessions[session].epoch = epoch
    BY <1>1, <1>4 DEF Made, AudioInv, SessionsAge
  <2>4. sessions[session].state \notin {"draining", "finished"}
    BY <1>4, <2>2 DEF AudioInv, FedOrRetained, Rotating
  <2>5. EpochsStay(c) /\ AgesKnown(c)'
    BY <1>1, <2>1, <2>3 DEF EpochsStay, AgesKnown
  <2>6. OneHolder'
    BY <1>1, <2>3 DEF AudioInv, OneHolder, Empty
  <2>7. FedOrRetained'
    BY <1>1, <2>4 DEF AudioInv, FedOrRetained
  <2>8. CutAt(c)'
    BY <2>1 DEF CutAt
  <2>9. Accounted'
    BY <1>1 DEF AudioInv, Accounted
  <2>. QED
    BY <1>1, <1>4, <2>1, <2>2, <2>3, <2>5, <2>6, <2>7, <2>8, <2>9, SoleStep
<1>. QED
  BY <1>2, <1>3, <1>4

LEMMA InitAudio == Init => AudioInv
<1>. SUFFICES ASSUME Init PROVE AudioInv
  OBVIOUS
<1>1. /\ session = 0 /\ sessions = <<>> /\ capture = NoCapture /\ published = <<>> /\ doomed = {}
      /\ rotations = [c \in Callers |-> NoRotation]
  BY DEF Init
<1>2. <<>> \in Seq(Nat) /\ Made = {}
  BY <1>1 DEF Made
<1>3. \A c \in Callers : ~Rotating(c)
  BY <1>1 DEF Rotating, NoRotation
<1>. QED
  BY <1>1, <1>2, <1>3 DEF AudioInv, SessionsAge, OneHolder, FedOrRetained, CutKnown, CutAt, Accounted, NoCapture

\* Every step of the recognizer keeps the audio in order.
THEOREM AudioInvariant == Spec => []AudioInv
<1>1. IInv /\ AudioInv /\ [Next]_vars => AudioInv'
  <2>. SUFFICES ASSUME IInv, AudioInv, [Next]_vars PROVE AudioInv'
    OBVIOUS
  <2>1. CASE Lifecycle
    BY <2>1, LifecycleAudio
  <2>2. CASE Audio
    BY <2>2, ConsumeAudio, ProcessAudio, PauseAudio, ResumeAudio, AnalyzerAudio DEF Audio
  <2>3. ASSUME NEW c \in Callers, CancelCaller(c) \/ Returns(c) PROVE AudioInv'
    BY <2>3, AudioRests DEF CancelCaller, Returns
  <2>4. CASE Finalization
    BY <2>3, <2>4, CallAudio, MakesAudio, DrainsAudio, SwitchesAudio, EndsAudio, CleansAudio
       DEF Finalization
  <2>5. CASE UNCHANGED vars
    BY <2>5, AudioRests DEF vars
  <2>. QED
    BY <2>1, <2>2, <2>4, <2>5 DEF Next
<1>. QED
  BY <1>1, AsrInvariant, InitAudio, PTL DEF Spec

\* While capture is active, each buffer the microphone gave is published, in a session,
\* retained or queued, once and in the order it was given, however often the session behind
\* the capture was replaced and whatever failed.
THEOREM EveryBufferOnce == Spec => []AudioAccountedFor
<1>1. IInv /\ AudioInv => AudioAccountedFor
  BY AudioInOrder
<1>. QED
  BY <1>1, AsrInvariant, AudioInvariant, PTL

-----------------------------------------------------------------------------
(* finalize is a barrier.                                                    *)

\* What is counted can be.
LEMMA Countable ==
    ASSUME IInv, CallersKnown, AudioInv
    PROVE  /\ epoch \in Nat /\ Len(published) \in Nat /\ capture.captured \in Nat
           /\ \A c \in Callers : callers[c].captured \in Nat /\ callers[c].epoch \in Nat
           /\ \A s \in Made : Len(sessions[s].heard) \in Nat /\ Len(sessions[s].input) \in Nat
           /\ session # 0 => session \in Made /\ Passed \in Nat
<1>1. epoch \in Nat /\ capture.captured \in Nat
  BY DEF IInv, TypeOK, CaptureRecord
<1>2. Len(published) \in Nat
  <2>1. published \in Seq(Nat)
    BY DEF AudioInv, SessionsAge
  <2>. QED
    BY <2>1
<1>3. \A c \in Callers : callers[c].captured \in Nat /\ callers[c].epoch \in Nat
  <2>1. \A c \in Callers : callers[c] \in CallRecord
    BY DEF CallersKnown
  <2>. QED
    BY <2>1 DEF CallRecord
<1>4. \A s \in Made : Len(sessions[s].heard) \in Nat /\ Len(sessions[s].input) \in Nat
  <2>1. \A s \in Made : sessions[s] \in SessionRecord
    BY DEF IInv, TypeOK, Made
  <2>2. \A s \in Made : sessions[s].heard \in Seq(Nat) /\ sessions[s].input \in Seq(Nat)
    BY <2>1 DEF SessionRecord
  <2>. QED
    BY <2>2
<1>5. session # 0 => session \in Made /\ Passed \in Nat
  <2>. SUFFICES ASSUME session # 0 PROVE session \in Made /\ Passed \in Nat
    OBVIOUS
  <2>1. session \in Made
    BY DEF IInv, SessionsMade
  <2>2. Len(sessions[session].heard) \in Nat /\ Len(sessions[session].input) \in Nat
    BY <1>4, <2>1
  <2>3. \A x, y, z \in Nat : x + y + z \in Nat
    OBVIOUS
  <2>4. Passed \in Nat
    BY <1>2, <2>2, <2>3, Zenon DEF Passed
  <2>. QED
    BY <2>1, <2>4
<1>. QED
  BY <1>1, <1>2, <1>3, <1>4, <1>5

LEMMA PauseTaken ==
    ASSUME IInv, PauseBehind, UNCHANGED callers, capture.queue # <<>>,
           capture'.queue = Tail(capture.queue)
    PROVE  PauseBehind'
<1>. DEFINE q == capture.queue
<1>1. q \in Seq(Entry) /\ q # <<>>
  BY DEF IInv, TypeOK, CaptureRecord
<1>2. \A i \in DOMAIN capture'.queue :
          i \in Nat /\ i > 0 /\ i + 1 \in DOMAIN q /\ capture'.queue[i] = q[i + 1]
  BY <1>1, TakenInFront
<1>. HIDE DEF q
<1>3. ASSUME NEW i \in DOMAIN capture'.queue, NEW j \in DOMAIN capture'.queue, i < j,
             capture'.queue[i].kind = "pause", capture'.queue[j].kind = "buffer"
      PROVE  capture'.queue[j].number > callers[capture'.queue[i].number].captured
  <2>1. i + 1 \in DOMAIN q /\ j + 1 \in DOMAIN q /\ i + 1 < j + 1
    BY <1>2, <1>3
  <2>. QED
    BY <1>2, <1>3, <2>1 DEF PauseBehind, q
<1>. QED
  BY <1>3 DEF PauseBehind

LEMMA PausePut ==
    ASSUME IInv, PauseBehind, UNCHANGED callers, NEW e \in Entry,
           capture'.queue = Append(capture.queue, e),
           e.kind = "buffer" =>
               \A i \in DOMAIN capture.queue : capture.queue[i].kind = "pause" =>
                   e.number > callers[capture.queue[i].number].captured
    PROVE  PauseBehind'
<1>. DEFINE q == capture.queue
<1>1. q \in Seq(Entry)
  BY DEF IInv, TypeOK, CaptureRecord
<1>2. /\ \A i \in DOMAIN capture'.queue :
            \/ i \in DOMAIN q /\ capture'.queue[i] = q[i]
            \/ i = Len(q) + 1 /\ capture'.queue[i] = e
      /\ DOMAIN q = 1 .. Len(q) /\ Len(q) \in Nat
  BY <1>1, PutBehind
<1>3. DOMAIN capture'.queue = 1 .. Len(q) + 1
  BY <1>1
<1>. HIDE DEF q
<1>4. ASSUME NEW i \in DOMAIN capture'.queue, NEW j \in DOMAIN capture'.queue, i < j,
             capture'.queue[i].kind = "pause", capture'.queue[j].kind = "buffer"
      PROVE  capture'.queue[j].number > callers[capture'.queue[i].number].captured
  <2>1. i \in DOMAIN q /\ capture'.queue[i] = q[i]
    BY <1>2, <1>3, <1>4
  <2>2. CASE j \in DOMAIN q /\ capture'.queue[j] = q[j]
    BY <1>4, <2>1, <2>2 DEF PauseBehind, q
  <2>3. CASE capture'.queue[j] = e
    BY <1>4, <2>1, <2>3 DEF q
  <2>. QED
    BY <1>2, <2>2, <2>3
<1>. QED
  BY <1>4 DEF PauseBehind

\* No call moves, and what was given only grows.
LEMMA BarrierStays ==
    ASSUME IInv, CallersKnown, AudioInv, BarrierInv, UNCHANGED <<epoch, callers, rotations>>,
           capture'.captured \in Nat, capture.captured <= capture'.captured, PauseBehind',
           Len(published') \in Nat, Len(published) <= Len(published'),
           session # 0 => (Stranded => Stranded') /\ Passed' \in Nat /\ Passed <= Passed'
    PROVE  BarrierInv'
<1>1. /\ epoch \in Nat /\ Len(published) \in Nat /\ capture.captured \in Nat
      /\ \A c \in Callers : callers[c].captured \in Nat /\ callers[c].epoch \in Nat
      /\ session # 0 => Passed \in Nat
  BY Countable
<1>2. CallsAge'
  BY <1>1 DEF BarrierInv, CallsAge
<1>3. ASSUME NEW c \in Callers PROVE BarrierAt(c)'
  <2>1. BarrierAt(c)
    BY DEF BarrierInv, BarrierKnown
  <2>2. rotations[c].epoch = epoch /\ rotations[c].state \in {"paused", "draining"} => session # 0
    BY DEF IInv, RotationKnown, Rotating
  <2>. QED
    BY <1>1, <2>1, <2>2 DEF BarrierAt
<1>4. FinalizeBarrier'
  BY <1>1 DEF BarrierInv, FinalizeBarrier
<1>. QED
  BY <1>2, <1>3, <1>4 DEF BarrierInv, BarrierKnown

\* Nothing that matters moves.
LEMMA BarrierRests ==
    ASSUME IInv, CallersKnown, AudioInv, BarrierInv,
           UNCHANGED <<epoch, session, sessions, rotations, published, capture, callers>>
    PROVE  BarrierInv'
<1>1. PauseBehind'
  BY DEF BarrierInv, PauseBehind
<1>2. /\ UNCHANGED <<epoch, callers, rotations>> /\ UNCHANGED capture /\ UNCHANGED published
      /\ Passed' = Passed /\ (Stranded => Stranded')
  BY DEF Passed, Stranded, Dead
<1>3. /\ Len(published) \in Nat /\ capture.captured \in Nat /\ (session # 0 => Passed \in Nat)
  BY Countable
<1>. QED
  BY <1>1, <1>2, <1>3, BarrierStays

\* A rotation moves.
LEMMA BarrierRotates ==
    ASSUME IInv, CallersKnown, AudioInv, BarrierInv, NEW c \in Callers, Rotating(c),
           UNCHANGED <<epoch, callers, published>>, capture'.captured = capture.captured,
           PauseBehind', rotations'[c].epoch = rotations[c].epoch,
           \A d \in Callers : d # c => rotations'[d] = rotations[d],
           BarrierAt(c)',
           rotations[c].epoch # epoch /\ session # 0 => Passed' = Passed /\ (Stranded => Stranded')
    PROVE  BarrierInv'
<1>1. CallsAge'
  <2>1. rotations[c].epoch = callers[c].epoch
    BY DEF Rotating, BarrierInv, CallsAge
  <2>. QED
    BY <2>1 DEF BarrierInv, CallsAge
<1>2. ASSUME NEW d \in Callers, d # c PROVE BarrierAt(d)'
  <2>1. BarrierAt(d) /\ rotations'[d] = rotations[d]
    BY <1>2 DEF BarrierInv, BarrierKnown
  <2>2. CASE rotations[c].epoch = epoch
    <3>1. ~(Rotating(d) /\ rotations[d].epoch = epoch)
      BY <1>2, <2>2, Current
    <3>. QED
      BY <2>1, <3>1 DEF BarrierAt, Rotating
  <2>3. CASE rotations[c].epoch # epoch
    <3>1. rotations[d].epoch = epoch /\ rotations[d].state \in {"paused", "draining"} => session # 0
      BY DEF IInv, RotationKnown, Rotating
    <3>. QED
      BY <2>1, <2>3, <3>1 DEF BarrierAt
  <2>. QED
    BY <2>2, <2>3
<1>3. FinalizeBarrier'
  BY DEF BarrierInv, FinalizeBarrier
<1>. QED
  BY <1>1, <1>2, <1>3 DEF BarrierInv, BarrierKnown

\* The next epoch knows of no call and no rotation.
LEMMA NewEpoch ==
    ASSUME IInv, CallersKnown, AudioInv, BarrierInv, epoch' = epoch + 1, UNCHANGED <<callers, rotations>>,
           capture' = NoCapture
    PROVE  BarrierInv'
<1>1. epoch \in Nat /\ \A c \in Callers : callers[c].epoch \in Nat
  BY Countable
<1>2. \A c \in Callers : callers[c].epoch <= epoch' /\ callers[c].epoch # epoch'
  BY <1>1 DEF BarrierInv, CallsAge
<1>3. CallsAge'
  BY <1>2 DEF BarrierInv, CallsAge
<1>4. \A c \in Callers : rotations[c].epoch # epoch'
  BY <1>1 DEF IInv, TypeOK, EpochsPast, RotationRecord
<1>5. PauseBehind'
  BY DEF PauseBehind, NoCapture
<1>. QED
  BY <1>2, <1>3, <1>4, <1>5 DEF BarrierInv, BarrierKnown, BarrierAt, FinalizeBarrier

\* The current session is what it was.
LEMMA SessionStays ==
    ASSUME session' = session, sessions'[session] = sessions[session], UNCHANGED published
    PROVE  Passed' = Passed /\ (Stranded => Stranded')
BY DEF Passed, Stranded, Dead

LEMMA OthersPass ==
    ASSUME IInv, CallersKnown, AudioInv, BarrierInv,
           UNCHANGED <<epoch, session, callers, rotations, published, capture>>,
           session # 0 => sessions'[session] = sessions[session]
    PROVE  BarrierInv'
<1>1. PauseBehind'
  BY DEF BarrierInv, PauseBehind
<1>2. session # 0 => Passed' = Passed /\ (Stranded => Stranded')
  BY SessionStays
<1>3. /\ Len(published) \in Nat /\ capture.captured \in Nat /\ (session # 0 => Passed \in Nat)
  BY Countable
<1>4. UNCHANGED <<epoch, callers, rotations>> /\ UNCHANGED capture /\ UNCHANGED published
  OBVIOUS
<1>5. /\ capture'.captured \in Nat /\ capture.captured <= capture'.captured
      /\ Len(published') \in Nat /\ Len(published) <= Len(published')
      /\ session # 0 => (Stranded => Stranded') /\ Passed' \in Nat /\ Passed <= Passed'
  BY <1>2, <1>3, <1>4
<1>. QED
  BY <1>1, <1>4, <1>5, BarrierStays

LEMMA LifecycleBarrier ==
    ASSUME IInv, CallersKnown, AudioInv, BarrierInv, Lifecycle
    PROVE  BarrierInv'
<1>1. CASE StartBegins \/ Stop
  BY <1>1, NewEpoch DEF StartBegins, Stop, Reset
<1>2. CASE StartPrepares \/ StartThrows \/ \E e \in errors : ErrorArrives(e)
  BY <1>2, BarrierRests DEF StartPrepares, StartThrows, ErrorArrives
<1>3. CASE CaptureFails
  <2>1. starter.state = "making" /\ epoch = starter.epoch /\ UNCHANGED capture
    BY <1>3 DEF CaptureFails
  <2>2. capture' = NoCapture
    BY <2>1 DEF IInv, StartAlone
  <2>. QED
    BY <1>3, <2>2, NewEpoch DEF CaptureFails
<1>4. ASSUME NEW s \in doomed, CancelSession(s) PROVE BarrierInv'
  <2>1. /\ sessions' = Close(s)
        /\ UNCHANGED <<epoch, session, callers, rotations, published, capture>>
    BY <1>4 DEF CancelSession
  <2>2. s \in Made /\ sessions[s].epoch # epoch /\ (session # 0 => sessions[session].epoch = epoch)
    BY DEF IInv, SessionsMade, AudioInv, SessionsAge
  <2>3. session # 0 => session \in Made /\ s # session
    BY <2>2 DEF IInv, SessionsMade
  <2>4. session # 0 => sessions'[session] = sessions[session]
    BY <2>1, <2>3 DEF Close, Made, IInv, TypeOK
  <2>. QED
    BY <2>1, <2>4, OthersPass
<1>5. CASE StartFinishes
  <2>1. /\ starter.state = "making" /\ UNCHANGED <<epoch, callers, rotations, published>>
        /\ sessions' = Append(sessions, [NewSession EXCEPT !.epoch = starter.epoch])
    BY <1>5 DEF StartFinishes
  <2>2. starter.epoch \in Nat /\ Len(published) \in Nat /\ capture.captured \in Nat
    BY Countable DEF IInv, TypeOK
  <2>3. CASE epoch = starter.epoch
    <3>1. capture' = [NoCapture EXCEPT !.epoch = epoch, !.active = TRUE, !.input = session']
      BY <1>5, <2>3 DEF StartFinishes
    <3>2. session = 0 /\ capture = NoCapture
      BY <2>1, <2>3 DEF IInv, StartAlone
    <3>3. capture'.captured = 0 /\ capture.captured = 0 /\ capture'.queue = <<>>
      BY <3>1, <3>2 DEF NoCapture
    <3>4. PauseBehind'
      BY <3>3 DEF PauseBehind
    <3>5. published' = published
      BY <2>1
    <3>. QED
      BY <2>1, <2>2, <3>2, <3>3, <3>4, <3>5, BarrierStays
  <2>4. CASE epoch # starter.epoch
    <3>1. UNCHANGED <<session, capture>>
      BY <1>5, <2>4 DEF StartFinishes
    <3>2. \A s \in Made : sessions'[s] = sessions[s]
      BY <2>1, <2>2, OneMore DEF IInv
    <3>3. session # 0 => sessions'[session] = sessions[session]
      BY <3>2 DEF IInv, SessionsMade
    <3>. QED
      BY <2>1, <3>1, <3>3, OthersPass
  <2>. QED
    BY <2>3, <2>4
<1>. QED
  BY <1>1, <1>2, <1>3, <1>4, <1>5 DEF Lifecycle

\* Taking one element from a sequence and giving it to another.
LEMMA OneOver ==
    ASSUME NEW S, NEW q \in Seq(S), q # <<>>, NEW T, NEW p \in Seq(T), NEW x \in T
    PROVE  /\ Len(q) \in Nat /\ Len(p) \in Nat /\ Len(Tail(q)) = Len(q) - 1 /\ Len(Tail(q)) \in Nat
           /\ Len(Append(p, x)) = Len(p) + 1
<1>1. Len(q) \in Nat /\ Len(q) # 0 /\ Len(p) \in Nat
  OBVIOUS
<1>2. Len(Tail(q)) = Len(q) - 1 /\ Len(Append(p, x)) = Len(p) + 1
  BY <1>1
<1>. QED
  BY <1>1, <1>2

\* The current session, or what was published, gets what the other loses.
LEMMA GivenOn ==
    ASSUME IInv, CallersKnown, AudioInv, BarrierInv,
           UNCHANGED <<epoch, session, callers, rotations, capture>>,
           Len(published') \in Nat, Len(published) <= Len(published'),
           session # 0 => Passed' = Passed /\ (Stranded => Stranded')
    PROVE  BarrierInv'
<1>1. PauseBehind'
  BY DEF BarrierInv, PauseBehind
<1>2. /\ Len(published) \in Nat /\ capture.captured \in Nat /\ (session # 0 => Passed \in Nat)
  BY Countable
<1>3. UNCHANGED <<epoch, callers, rotations>> /\ UNCHANGED capture
  OBVIOUS
<1>4. /\ capture'.captured \in Nat /\ capture.captured <= capture'.captured
      /\ session # 0 => (Stranded => Stranded') /\ Passed' \in Nat /\ Passed <= Passed'
  BY <1>2, <1>3
<1>. QED
  BY <1>1, <1>3, <1>4, BarrierStays

LEMMA AnalyzerBarrier ==
    ASSUME IInv, CallersKnown, AudioInv, BarrierInv, NEW s \in Made,
           Analyze(s) \/ AnalysisFinishes(s) \/ Breaks(s) \/ Publish(s)
    PROVE  BarrierInv'
<1>1. UNCHANGED <<epoch, session, capture, rotations, callers>>
  BY DEF Analyze, AnalysisFinishes, Breaks, Publish
<1>2. /\ sessions \in Seq(SessionRecord) /\ sessions[s] \in SessionRecord /\ DOMAIN sessions = Made
      /\ published \in Seq(Nat) /\ Len(published) \in Nat
  BY Countable DEF IInv, TypeOK, Made, AudioInv, SessionsAge
<1>3. \A q \in Made : q # s => sessions'[q] = sessions[q]
  BY <1>2 DEF Analyze, AnalysisFinishes, Breaks, Publish
<1>4. CASE UNCHANGED published /\ s # session
  <2>1. session # 0 => sessions'[session] = sessions[session]
    BY <1>3, <1>4 DEF IInv, SessionsMade
  <2>. QED
    BY <1>1, <1>4, <2>1, OthersPass
<1>5. CASE s = session /\ Analyze(s)
  <2>1. /\ sessions[s].state \in {"open", "draining"} /\ sessions[s].input # <<>> /\ UNCHANGED published
        /\ sessions'[s].heard = Append(sessions[s].heard, Head(sessions[s].input))
        /\ sessions'[s].input = Tail(sessions[s].input)
    BY <1>2, <1>5 DEF Analyze, SessionRecord
  <2>2. sessions[s].heard \in Seq(Nat) /\ sessions[s].input \in Seq(Nat)
    BY <1>2 DEF SessionRecord
  <2>3. Head(sessions[s].input) \in Nat
    BY <2>1, <2>2
  <2>4. /\ Len(sessions[s].input) \in Nat /\ Len(sessions[s].heard) \in Nat
        /\ Len(sessions'[s].input) = Len(sessions[s].input) - 1 /\ Len(sessions'[s].input) \in Nat
        /\ Len(sessions'[s].heard) = Len(sessions[s].heard) + 1
    BY <2>1, <2>2, <2>3, OneOver
  <2>5. \A x, y, z \in Nat : x + (y + 1) + (z - 1) = x + y + z
    OBVIOUS
  <2>6. Passed' = Len(published) + (Len(sessions[s].heard) + 1) + (Len(sessions[s].input) - 1)
    BY <1>1, <1>5, <2>1, <2>4, Zenon DEF Passed
  <2>7. Passed = Len(published) + Len(sessions[s].heard) + Len(sessions[s].input)
    BY <1>5 DEF Passed
  <2>8. Passed' = Passed
    BY <1>2, <2>4, <2>5, <2>6, <2>7, Zenon
  <2>9. ~Stranded
    BY <1>5, <2>1 DEF Stranded, Dead
  <2>10. Len(published') \in Nat /\ Len(published) <= Len(published')
    BY <1>2, <2>1
  <2>. QED
    BY <1>1, <2>8, <2>9, <2>10, GivenOn
<1>6. CASE s = session /\ (AnalysisFinishes(s) \/ Breaks(s))
  <2>1. /\ UNCHANGED published /\ sessions[s].state \in {"open", "draining"}
        /\ sessions'[s].heard = sessions[s].heard /\ sessions'[s].input = sessions[s].input
    BY <1>2, <1>6 DEF AnalysisFinishes, Breaks, SessionRecord
  <2>2. Passed' = Passed
    BY <1>1, <1>6, <2>1 DEF Passed
  <2>3. ~Stranded
    BY <1>6, <2>1 DEF Stranded, Dead
  <2>4. Len(published') \in Nat /\ Len(published) <= Len(published')
    BY <1>2, <2>1
  <2>. QED
    BY <1>1, <2>2, <2>3, <2>4, GivenOn
<1>7. CASE Publish(s) /\ ~UNCHANGED published
  <2>1. /\ sessions[s].state \notin {"broken", "closed"} /\ sessions[s].heard # <<>>
        /\ sessions[s].epoch = epoch /\ published' = Append(published, Head(sessions[s].heard))
        /\ sessions'[s].heard = Tail(sessions[s].heard)
        /\ sessions'[s].input = sessions[s].input
    BY <1>2, <1>7 DEF Publish, SessionRecord
  <2>2. sessions[s].heard \in Seq(Nat) /\ sessions[s].input \in Seq(Nat)
    BY <1>2 DEF SessionRecord
  <2>3. Head(sessions[s].heard) \in Nat
    BY <2>1, <2>2
  <2>4. /\ Len(sessions[s].heard) \in Nat
        /\ Len(sessions'[s].heard) = Len(sessions[s].heard) - 1 /\ Len(sessions'[s].heard) \in Nat
        /\ Len(published') = Len(published) + 1
    BY <1>2, <2>1, <2>2, <2>3, OneOver
  <2>5. Len(sessions[s].input) \in Nat
    BY <2>2
  <2>6. s = session
    BY <2>1 DEF AudioInv, OneHolder, Empty
  <2>7. \A x, y, z \in Nat : (x + 1) + (y - 1) + z = x + y + z
    OBVIOUS
  <2>8. Passed' = (Len(published) + 1) + (Len(sessions[s].heard) - 1) + Len(sessions[s].input)
    BY <1>1, <2>1, <2>4, <2>6, Zenon DEF Passed
  <2>9. Passed = Len(published) + Len(sessions[s].heard) + Len(sessions[s].input)
    BY <2>6 DEF Passed
  <2>10. Passed' = Passed
    BY <1>2, <2>4, <2>5, <2>7, <2>8, <2>9, Zenon
  <2>11. ~Stranded
    BY <2>1, <2>6 DEF Stranded, Dead
  <2>12. Len(published') \in Nat /\ Len(published) <= Len(published')
    BY <1>2, <2>4
  <2>. QED
    BY <1>1, <2>10, <2>11, <2>12, GivenOn
<1>8. CASE Publish(s) /\ UNCHANGED published /\ s = session
  <2>1. session # 0
    BY <1>8 DEF Made, IInv, TypeOK
  <2>2. sessions[s].epoch = epoch
    BY <1>8, <2>1 DEF AudioInv, SessionsAge
  <2>3. published' = Append(published, Head(sessions[s].heard)) /\ sessions[s].heard # <<>>
    BY <1>8, <2>2 DEF Publish
  <2>4. sessions[s].heard \in Seq(Nat)
    BY <1>2 DEF SessionRecord
  <2>5. Head(sessions[s].heard) \in Nat
    BY <2>3, <2>4
  <2>6. Len(published') = Len(published) + 1
    BY <1>2, <2>3, <2>5
  <2>. QED
    BY <1>2, <1>8, <2>6
<1>9. UNCHANGED published \/ Publish(s)
  BY DEF Analyze, AnalysisFinishes, Breaks
<1>. QED
  BY <1>4, <1>5, <1>6, <1>7, <1>8, <1>9

LEMMA ConsumeBarrier ==
    ASSUME IInv, CallersKnown, AudioInv, BarrierInv, Consume
    PROVE  BarrierInv'
<1>1. capture \in CaptureRecord /\ UNCHANGED <<epoch, session, sessions, rotations, callers, published>>
  BY DEF Consume, IInv, TypeOK
<1>. DEFINE n == capture.captured + 1
<1>2. /\ epoch \in Nat /\ capture.captured \in Nat /\ n \in Nat /\ Len(published) \in Nat
      /\ \A c \in Callers : callers[c].captured \in Nat
      /\ session # 0 => Passed \in Nat
  BY Countable
<1>3. session # 0 => Passed' = Passed /\ (Stranded => Stranded')
  BY <1>1 DEF Passed, Stranded, Dead
<1>4. /\ Len(published') \in Nat /\ Len(published) <= Len(published')
      /\ session # 0 => (Stranded => Stranded') /\ Passed' \in Nat /\ Passed <= Passed'
  BY <1>1, <1>2, <1>3
<1>5. CASE capture' = [capture EXCEPT !.captured = n, !.queue = Append(@, Buffer(n))]
  <2>1. capture'.queue = Append(capture.queue, Buffer(n)) /\ capture'.captured = n
    BY <1>1, <1>5 DEF CaptureRecord
  <2>2. Buffer(n) \in Entry /\ Buffer(n).number = n
    BY <1>2 DEF Buffer, Entry
  <2>3. ASSUME NEW i \in DOMAIN capture.queue, capture.queue[i].kind = "pause"
        PROVE  n > callers[capture.queue[i].number].captured
    <3>. DEFINE d == capture.queue[i].number
    <3>1. d \in Callers /\ rotations[d].epoch = epoch /\ rotations[d].state = "pausing"
      BY <2>3 DEF IInv, QueueKnown
    <3>2. callers[d].captured <= capture.captured /\ callers[d].captured \in Nat
      BY <1>2, <3>1 DEF BarrierInv, CallsAge
    <3>. HIDE DEF d
    <3>3. n > callers[d].captured
      BY <1>2, <3>2
    <3>. QED
      BY <3>3 DEF d
  <2>. HIDE DEF n
  <2>4. PauseBehind'
    BY <1>1, <2>1, <2>2, <2>3, PausePut DEF BarrierInv
  <2>5. capture'.captured \in Nat /\ capture.captured <= capture'.captured
    BY <1>2, <2>1 DEF n
  <2>. QED
    BY <1>1, <1>4, <2>4, <2>5, BarrierStays
<1>6. CASE capture' = [capture EXCEPT !.active = FALSE]
  <2>1. capture'.queue = capture.queue /\ capture'.captured = capture.captured
    BY <1>1, <1>6 DEF CaptureRecord
  <2>2. PauseBehind'
    BY <1>1, <2>1 DEF BarrierInv, PauseBehind
  <2>3. capture'.captured \in Nat /\ capture.captured <= capture'.captured
    BY <1>2, <2>1
  <2>. QED
    BY <1>1, <1>4, <2>2, <2>3, BarrierStays
<1>. QED
  BY <1>5, <1>6 DEF Consume, Fail

LEMMA ProcessBarrier ==
    ASSUME IInv, CallersKnown, AudioInv, BarrierInv, Process
    PROVE  BarrierInv'
<1>. DEFINE n == Head(capture.queue).number
            into == capture.input
<1>1. /\ capture.queue # <<>> /\ UNCHANGED <<epoch, session, rotations, callers, published>>
  BY DEF Process, Serve
<1>2. /\ Served \in CaptureRecord /\ Served.queue = Tail(capture.queue)
      /\ Served.captured = capture.captured /\ Head(capture.queue) \in Entry
  BY <1>1, ServedIs
<1>3. n \in Nat
  BY <1>2 DEF Entry
<1>4. /\ \/ UNCHANGED sessions
         \/ into # 0 /\ sessions' = [sessions EXCEPT ![into].input = Append(@, n)]
      /\ \/ capture' = Served
         \/ capture' = [Served EXCEPT !.retained = Append(@, n)]
         \/ capture' = [Served EXCEPT !.active = FALSE]
  BY DEF Process, Fail
<1>5. capture'.queue = Tail(capture.queue) /\ capture'.captured = capture.captured
  BY <1>2, <1>4 DEF CaptureRecord
<1>6. PauseBehind'
  BY <1>1, <1>5, PauseTaken DEF BarrierInv
<1>7. /\ capture.captured \in Nat /\ Len(published) \in Nat
      /\ session # 0 => session \in Made /\ Passed \in Nat
      /\ \A s \in Made : Len(sessions[s].heard) \in Nat /\ Len(sessions[s].input) \in Nat
  BY Countable
<1>8. /\ capture'.captured \in Nat /\ capture.captured <= capture'.captured
      /\ Len(published') \in Nat /\ Len(published) <= Len(published')
  BY <1>1, <1>5, <1>7
<1>. HIDE DEF n
<1>9. session # 0 => (Stranded => Stranded') /\ Passed' \in Nat /\ Passed <= Passed'
  <2>. SUFFICES ASSUME session # 0 PROVE (Stranded => Stranded') /\ Passed' \in Nat /\ Passed <= Passed'
    OBVIOUS
  <2>1. CASE UNCHANGED sessions
    <3>1. Passed' = Passed /\ (Stranded => Stranded')
      BY <1>1, <2>1, SessionStays
    <3>. QED
      BY <1>7, <3>1
  <2>2. CASE into # 0 /\ sessions' = [sessions EXCEPT ![into].input = Append(@, n)]
    <3>1. into = session /\ session \in Made
      BY <1>7, <2>2 DEF AudioInv, FedOrRetained
    <3>2. sessions[session] \in SessionRecord /\ sessions \in Seq(SessionRecord)
      BY <3>1 DEF IInv, TypeOK, Made
    <3>3. /\ sessions'[session].heard = sessions[session].heard
          /\ sessions'[session].state = sessions[session].state
          /\ sessions'[session].input = Append(sessions[session].input, n)
      BY <2>2, <3>1, <3>2 DEF SessionRecord, Made
    <3>4. sessions[session].input \in Seq(Nat)
      BY <3>2 DEF SessionRecord
    <3>5. Len(sessions'[session].input) = Len(sessions[session].input) + 1
      BY <1>3, <3>3, <3>4
    <3>6. \A x, y, z \in Nat : x + y + (z + 1) \in Nat /\ x + y + z <= x + y + (z + 1)
      OBVIOUS
    <3>7. Passed' = Len(published) + Len(sessions[session].heard) + (Len(sessions[session].input) + 1)
      BY <1>1, <3>3, <3>5, Zenon DEF Passed
    <3>8. Passed = Len(published) + Len(sessions[session].heard) + Len(sessions[session].input)
      BY DEF Passed
    <3>9. Len(sessions[session].heard) \in Nat /\ Len(sessions[session].input) \in Nat
      BY <1>7, <3>1
    <3>10. Passed' \in Nat /\ Passed <= Passed'
      BY <1>7, <3>6, <3>7, <3>8, <3>9, Zenon
    <3>11. Stranded => Stranded'
      BY <1>1, <3>3 DEF Stranded, Dead
    <3>. QED
      BY <3>10, <3>11
  <2>. QED
    BY <1>4, <2>1, <2>2
<1>. QED
  BY <1>1, <1>6, <1>8, <1>9, BarrierStays

\* With nothing retained, what is queued begins behind what was given.
LEMMA InOrderCut ==
    ASSUME NEW g, NEW h, NEW i, NEW q, NEW n \in Nat, InOrder(g, h, i, <<>>, q, n)
    PROVE  /\ q = <<>> => Len(g) + Len(h) + Len(i) = n
           /\ q # <<>> => Head(q) = Len(g) + Len(h) + Len(i) + 1
<1>1. PICK a, b, c, d \in Nat :
        /\ a <= b /\ b <= c /\ c <= d /\ d <= n
        /\ g = Run(0, a) /\ h = Run(a, b) /\ i = Run(b, c) /\ <<>> = Run(c, d) /\ q = Run(d, n)
  BY DEF InOrder
<1>2. Len(g) = a
  <2>1. 0 \in Nat /\ 0 <= a /\ a - 0 = a
    OBVIOUS
  <2>2. Len(Run(0, a)) = a - 0
    BY <2>1, RunIs
  <2>. QED
    BY <1>1, <2>1, <2>2
<1>3. Len(h) = b - a
  BY <1>1, RunIs
<1>4. Len(i) = c - b
  BY <1>1, RunIs
<1>5. c = d
  BY <1>1, RunNothing
<1>6. Len(g) + Len(h) + Len(i) = d
  BY <1>1, <1>2, <1>3, <1>4, <1>5
<1>7. q = <<>> => d = n
  BY <1>1, RunNothing
<1>8. q # <<>> => Head(q) = d + 1
  BY <1>1, RunTaken
<1>. QED
  BY <1>6, <1>7, <1>8

\* At the cut everything taken before the call was given to the session, unless it is dead.
LEMMA CutGiven ==
    ASSUME IInv, CallersKnown, AudioInv, BarrierInv, NEW c \in Callers, Serve("pause"),
           c = Head(capture.queue).number, capture.active,
           rotations[c].epoch = epoch, rotations[c].state = "pausing", ~Stranded
    PROVE  callers[c].captured <= Passed
<1>1. Rotating(c) /\ rotating = c
  BY Current DEF Rotating
<1>2. session # 0 /\ capture.input = session
  BY <1>1 DEF IInv, InputKnown, RotationKnown
<1>3. capture.retained = <<>>
  BY <1>2 DEF AudioInv, FedOrRetained
<1>4. InOrder(published, sessions[session].heard, sessions[session].input, <<>>,
              Numbers(capture.queue), capture.captured)
  BY <1>3 DEF AudioInv, Accounted
<1>5. capture.captured \in Nat /\ Passed \in Nat /\ callers[c].captured \in Nat
  BY <1>2, Countable
<1>6. /\ Numbers(capture.queue) = <<>> => Passed = capture.captured
      /\ Numbers(capture.queue) # <<>> => Head(Numbers(capture.queue)) = Passed + 1
  <2>. DEFINE g == published
              h == sessions[session].heard
              i == sessions[session].input
              w == Numbers(capture.queue)
              n == capture.captured
  <2>1. InOrder(g, h, i, <<>>, w, n) /\ n \in Nat
    BY <1>4, <1>5
  <2>2. Passed = Len(g) + Len(h) + Len(i)
    BY DEF Passed
  <2>. HIDE DEF g, h, i, w, n
  <2>3. /\ w = <<>> => Len(g) + Len(h) + Len(i) = n
        /\ w # <<>> => Head(w) = Len(g) + Len(h) + Len(i) + 1
    BY <2>1, InOrderCut
  <2>4. (w = <<>> => Passed = n) /\ (w # <<>> => Head(w) = Passed + 1)
    BY <2>2, <2>3, Zenon
  <2>. QED
    BY <2>4 DEF w, n
<1>7. CASE Numbers(capture.queue) = <<>>
  <2>1. callers[c].epoch = epoch
    BY DEF BarrierInv, CallsAge
  <2>2. callers[c].captured <= capture.captured
    BY <2>1 DEF BarrierInv, CallsAge
  <2>. QED
    BY <1>6, <1>7, <2>2
<1>8. CASE Numbers(capture.queue) # <<>>
  <2>1. capture.queue \in Seq(Entry) /\ capture.queue # <<>>
    BY DEF IInv, TypeOK, CaptureRecord, Serve
  <2>2. /\ Numbers(capture.queue) \in Seq(Nat)
        /\ \A i \in DOMAIN Numbers(capture.queue) :
              \E j \in DOMAIN capture.queue : capture.queue[j].kind = "buffer"
                                              /\ capture.queue[j].number = Numbers(capture.queue)[i]
    BY <2>1, NumbersIn
  <2>. DEFINE w == Numbers(capture.queue)
  <2>3. 1 \in DOMAIN w /\ Head(w) = w[1]
    <3>. HIDE DEF w
    <3>1. w \in Seq(Nat) /\ w # <<>>
      BY <1>8, <2>2 DEF w
    <3>2. Len(w) \in Nat /\ Len(w) # 0 /\ DOMAIN w = 1 .. Len(w)
      BY <3>1
    <3>. QED
      BY <3>1, <3>2
  <2>4. PICK j \in DOMAIN capture.queue :
           capture.queue[j].kind = "buffer" /\ capture.queue[j].number = Passed + 1
    BY <1>6, <1>8, <2>2, <2>3
  <2>5. capture.queue[1].kind = "pause" /\ capture.queue[1].number = c /\ 1 \in DOMAIN capture.queue
    BY <2>1, TakenInFront DEF Serve
  <2>6. 1 < j
    <3>1. j # 1
      BY <2>4, <2>5
    <3>. QED
      BY <2>1, <3>1
  <2>7. Passed + 1 > callers[c].captured
    BY <2>4, <2>5, <2>6 DEF BarrierInv, PauseBehind
  <2>. QED
    BY <1>5, <2>7
<1>. QED
  BY <1>7, <1>8

LEMMA PauseBarrier ==
    ASSUME IInv, CallersKnown, AudioInv, BarrierInv, ServePause
    PROVE  BarrierInv'
<1>0. PICK c : c = Head(capture.queue).number
  OBVIOUS
<1>1. /\ Serve("pause") /\ capture.queue # <<>> /\ Head(capture.queue).kind = "pause"
      /\ UNCHANGED <<epoch, session, sessions, callers, published>>
  BY DEF ServePause, Serve
<1>2. Served \in CaptureRecord /\ Served.queue = Tail(capture.queue) /\ Served.captured = capture.captured
  BY <1>1, ServedIs
<1>3. PICK x \in {"paused", "cleaning"} :
         /\ Goes(c, x) /\ (x = "cleaning" => capture' = Served)
         /\ x = "paused" => capture.active /\ capture' = [Served EXCEPT !.input = 0]
  BY <1>0 DEF ServePause
<1>4. capture'.queue = Tail(capture.queue) /\ capture'.captured = capture.captured
  BY <1>2, <1>3 DEF CaptureRecord
<1>5. c \in Callers /\ rotations[c].epoch = epoch /\ rotations[c].state = "pausing" /\ Rotating(c)
  BY <1>0, <1>1, <1>4, Dequeued DEF Rotating
<1>6. /\ rotations'[c].state = x /\ rotations'[c].epoch = rotations[c].epoch
      /\ \A d \in Callers : d # c => rotations'[d] = rotations[d]
  BY <1>3, <1>5, Gone DEF RotationStates
<1>7. PauseBehind'
  BY <1>1, <1>4, PauseTaken DEF BarrierInv
<1>8. Passed' = Passed /\ (Stranded => Stranded')
  BY <1>1, SessionStays
<1>9. BarrierAt(c)'
  <2>1. CASE x = "cleaning"
    BY <1>6, <2>1 DEF BarrierAt
  <2>2. CASE x = "paused"
    <3>1. Stranded \/ callers[c].captured <= Passed
      BY <1>0, <1>1, <1>3, <1>5, <2>2, CutGiven
    <3>. QED
      BY <1>1, <1>6, <1>8, <2>2, <3>1 DEF BarrierAt
  <2>. QED
    BY <2>1, <2>2
<1>. QED
  BY <1>1, <1>4, <1>5, <1>6, <1>7, <1>9, BarrierRotates

LEMMA ResumeBarrier ==
    ASSUME IInv, CallersKnown, AudioInv, BarrierInv, ServeResume
    PROVE  BarrierInv'
<1>0. PICK c : c = Head(capture.queue).number
  OBVIOUS
<1>1. /\ capture.queue # <<>> /\ Head(capture.queue).kind = "resume"
      /\ UNCHANGED <<epoch, callers, published>>
  BY DEF ServeResume, Serve
<1>2. Served \in CaptureRecord /\ Served.queue = Tail(capture.queue) /\ Served.captured = capture.captured
  BY <1>1, ServedIs
<1>3. PICK x \in {"resumed", "cleaning"} :
         /\ Goes(c, x) /\ (x = "cleaning" => capture' = Served)
         /\ x = "resumed" =>
               capture' = [Served EXCEPT !.retained = <<>>, !.input = rotations[c].replacement]
  BY <1>0 DEF ServeResume
<1>4. capture'.queue = Tail(capture.queue) /\ capture'.captured = capture.captured
  BY <1>2, <1>3 DEF CaptureRecord
<1>5. c \in Callers /\ rotations[c].epoch = epoch /\ rotations[c].state = "resuming" /\ Rotating(c)
  BY <1>0, <1>1, <1>4, Dequeued DEF Rotating
<1>6. /\ rotations'[c].state = x /\ rotations'[c].epoch = rotations[c].epoch
      /\ \A d \in Callers : d # c => rotations'[d] = rotations[d]
  BY <1>3, <1>5, Gone DEF RotationStates
<1>7. PauseBehind'
  BY <1>1, <1>4, PauseTaken DEF BarrierInv
<1>8. callers[c].captured <= Len(published)
  BY <1>5 DEF BarrierInv, BarrierKnown, BarrierAt
<1>9. BarrierAt(c)'
  BY <1>1, <1>6, <1>8 DEF BarrierAt
<1>. QED
  BY <1>1, <1>4, <1>5, <1>6, <1>7, <1>9, BarrierRotates

\* A rotation that was overtaken leaves the current session alone.
LEMMA OldPasses ==
    ASSUME IInv, AudioInv, NEW c \in Callers, rotations[c].epoch # epoch, UNCHANGED <<session, published>>,
           \A q \in Made : sessions[q].epoch = epoch => sessions'[q] = sessions[q]
    PROVE  session # 0 => Passed' = Passed /\ (Stranded => Stranded')
<1>1. session # 0 => session \in Made /\ sessions[session].epoch = epoch
  BY DEF IInv, SessionsMade, AudioInv, SessionsAge
<1>. QED
  BY <1>1, SessionStays

LEMMA RotationBarrier ==
    ASSUME IInv, CallersKnown, AudioInv, BarrierInv, NEW c \in Callers,
           \/ ReplacementFails(c) \/ Drains(c) \/ DrainThrows(c) \/ Abandons(c) \/ Succeeds(c)
           \/ CleansUp(c)
    PROVE  BarrierInv'
<1>1. /\ Rotating(c) /\ UNCHANGED <<epoch, session, capture, callers, published>>
  BY DEF ReplacementFails, Drains, DrainThrows, Abandons, Succeeds, CleansUp, Rotating
<1>2. PICK x \in {"draining", "cleaning", "done", "failed"} :
         /\ Goes(c, x)
         /\ x = "draining" => Drains(c) /\ rotations[c].state = "paused"
         /\ x = "done" => rotations[c].state = "resumed"
  BY DEF ReplacementFails, Drains, DrainThrows, Abandons, Succeeds, CleansUp, Ends
<1>3. /\ rotations'[c].state = x /\ rotations'[c].epoch = rotations[c].epoch
      /\ \A d \in Callers : d # c => rotations'[d] = rotations[d]
  BY <1>2, Gone DEF RotationStates
<1>4. PauseBehind' /\ capture'.captured = capture.captured
  BY <1>1 DEF BarrierInv, PauseBehind
<1>5. BarrierAt(c)
  BY DEF BarrierInv, BarrierKnown
<1>6. BarrierAt(c)'
  <2>1. CASE x \in {"cleaning", "failed"}
    BY <1>3, <2>1 DEF BarrierAt
  <2>2. CASE x = "done"
    BY <1>1, <1>2, <1>3, <1>5, <2>2 DEF BarrierAt
  <2>3. CASE x = "draining"
    <3>. SUFFICES ASSUME rotations[c].epoch = epoch PROVE (Stranded \/ callers[c].captured <= Passed)'
      BY <1>1, <1>3, <2>3 DEF BarrierAt
    <3>1. Stranded \/ callers[c].captured <= Passed
      BY <1>2, <1>5, <2>3 DEF BarrierAt
    <3>2. session \in Made /\ session = rotations[c].previous
      BY <1>1, <1>2, <2>3 DEF IInv, RotationKnown, SessionsMade
    <3>3. /\ sessions'[session].heard = sessions[session].heard
          /\ sessions'[session].input = sessions[session].input
          /\ Dead(session) => sessions'[session].state = sessions[session].state
      <4>1. sessions[session] \in SessionRecord /\ sessions \in Seq(SessionRecord)
        BY <3>2 DEF IInv, TypeOK, Made
      <4>2. sessions' = IF sessions[session].state = "open"
                        THEN [sessions EXCEPT ![session].state = "draining"] ELSE sessions
        BY <1>2, <2>3, <3>2 DEF Drains
      <4>3. CASE sessions[session].state = "open"
        BY <3>2, <4>1, <4>2, <4>3 DEF SessionRecord, Made, Dead
      <4>4. CASE sessions[session].state # "open"
        BY <4>2, <4>4
      <4>. QED
        BY <4>3, <4>4
    <3>4. Passed' = Passed
      BY <1>1, <3>3 DEF Passed
    <3>5. Stranded => Stranded'
      BY <1>1, <3>3 DEF Stranded, Dead
    <3>. QED
      BY <1>1, <3>1, <3>4, <3>5
  <2>. QED
    BY <2>1, <2>2, <2>3
<1>7. rotations[c].epoch # epoch /\ session # 0 => Passed' = Passed /\ (Stranded => Stranded')
  <2>. SUFFICES ASSUME rotations[c].epoch # epoch PROVE session # 0 => Passed' = Passed /\ (Stranded => Stranded')
    OBVIOUS
  <2>1. \A q \in Made : sessions[q].epoch = epoch => sessions'[q] = sessions[q]
    <3>1. CASE ReplacementFails(c) \/ DrainThrows(c) \/ Abandons(c) \/ Succeeds(c)
      BY <3>1 DEF ReplacementFails, DrainThrows, Abandons, Succeeds
    <3>2. CASE Drains(c)
      <4>1. sessions[rotations[c].previous].epoch = rotations[c].epoch
        BY <1>1 DEF AudioInv, SessionsAge
      <4>. QED
        BY <3>2, <4>1 DEF Drains, IInv, TypeOK, Made
    <3>3. CASE CleansUp(c)
      <4>1. sessions[rotations[c].replacement].epoch = rotations[c].epoch
        BY <1>1, <3>3 DEF AudioInv, SessionsAge, CleansUp
      <4>. QED
        BY <3>3, <4>1 DEF CleansUp, Close, IInv, TypeOK, Made
    <3>. QED
      BY <3>1, <3>2, <3>3
  <2>. QED
    BY <1>1, <2>1, OldPasses
<1>. QED
  BY <1>1, <1>3, <1>4, <1>6, <1>7, BarrierRotates

LEMMA SwitchesBarrier ==
    ASSUME IInv, CallersKnown, AudioInv, BarrierInv, NEW c \in Callers, Switches(c)
    PROVE  BarrierInv'
<1>1. /\ rotations[c].state = "draining" /\ Rotating(c)
      /\ sessions[rotations[c].previous].state = "finished"
      /\ sessions[rotations[c].previous].heard = <<>>
      /\ UNCHANGED <<epoch, published, sessions, callers>>
  BY DEF Switches, Rotating
<1>2. PICK x \in {"resuming", "cleaning"} :
         /\ Goes(c, x) /\ (x = "resuming" => rotations[c].epoch = epoch
                                             /\ capture' = [capture EXCEPT !.queue = Append(@, Resume(c))])
         /\ x = "cleaning" => rotations[c].epoch # epoch /\ UNCHANGED <<session, capture>>
  BY DEF Switches
<1>3. /\ rotations'[c].state = x /\ rotations'[c].epoch = rotations[c].epoch
      /\ \A d \in Callers : d # c => rotations'[d] = rotations[d]
  BY <1>2, Gone DEF RotationStates
<1>4. CASE x = "cleaning"
  <2>1. PauseBehind' /\ capture'.captured = capture.captured
    BY <1>1, <1>2, <1>4 DEF BarrierInv, PauseBehind
  <2>2. BarrierAt(c)'
    BY <1>3, <1>4 DEF BarrierAt
  <2>3. Passed' = Passed /\ (Stranded => Stranded')
    BY <1>1, <1>2, <1>4, SessionStays
  <2>. QED
    BY <1>1, <1>3, <2>1, <2>2, <2>3, BarrierRotates
<1>5. CASE x = "resuming"
  <2>1. capture' = [capture EXCEPT !.queue = Append(@, Resume(c))] /\ capture \in CaptureRecord
    BY <1>2, <1>5 DEF IInv, TypeOK
  <2>2. Resume(c) \in Entry /\ Resume(c).kind # "buffer"
    BY DEF Resume, Entry, Callers
  <2>3. capture'.queue = Append(capture.queue, Resume(c)) /\ capture'.captured = capture.captured
    BY <2>1 DEF CaptureRecord
  <2>4. PauseBehind'
    BY <1>1, <2>2, <2>3, PausePut DEF BarrierInv
  <2>5. session = rotations[c].previous /\ session # 0
    BY <1>1, <1>2, <1>5 DEF IInv, RotationKnown
  <2>6. sessions[session].heard = <<>> /\ sessions[session].input = <<>> /\ ~Stranded
    BY <1>1, <2>5 DEF AudioInv, FedOrRetained, Stranded, Dead
  <2>7. callers[c].captured <= Passed
    BY <1>1, <1>2, <1>5, <2>6 DEF BarrierInv, BarrierKnown, BarrierAt
  <2>8. Passed = Len(published)
    <3>1. Passed = Len(published) + Len(<<>>) + Len(<<>>)
      BY <2>6 DEF Passed
    <3>2. Len(published) \in Nat
      BY Countable
    <3>3. Len(<<>>) = 0
      OBVIOUS
    <3>4. \A k \in Nat : k + 0 + 0 = k
      OBVIOUS
    <3>. QED
      BY <3>1, <3>2, <3>3, <3>4, Zenon
  <2>9. BarrierAt(c)'
    BY <1>1, <1>3, <1>5, <2>7, <2>8 DEF BarrierAt
  <2>. QED
    BY <1>1, <1>2, <1>3, <1>5, <2>3, <2>4, <2>9, BarrierRotates
<1>. QED
  BY <1>4, <1>5

LEMMA MakesBarrier ==
    ASSUME IInv, CallersKnown, AudioInv, BarrierInv, NEW c \in Callers, MakesReplacement(c)
    PROVE  BarrierInv'
<1>. DEFINE new == Len(sessions')
            x == IF epoch = rotations[c].epoch THEN "pausing" ELSE "cleaning"
<1>1. /\ Rotating(c) /\ sessions' = Append(sessions, [NewSession EXCEPT !.epoch = rotations[c].epoch])
      /\ rotations' = [rotations EXCEPT ![c].state = x, ![c].replacement = new]
      /\ capture' = IF epoch = rotations[c].epoch
                    THEN [capture EXCEPT !.queue = Append(@, Pause(c))] ELSE capture
      /\ UNCHANGED <<epoch, session, published, callers>>
  BY DEF MakesReplacement, Rotating
<1>2. /\ rotations[c] \in RotationRecord /\ rotations[c].epoch \in Nat
      /\ rotations \in [Callers -> RotationRecord] /\ capture \in CaptureRecord
  BY DEF IInv, TypeOK, RotationRecord
<1>3. \A s \in Made : sessions'[s] = sessions[s]
  BY <1>1, <1>2, OneMore DEF IInv
<1>. HIDE DEF new
<1>4. /\ rotations'[c].state \in {"pausing", "cleaning"} /\ rotations'[c].epoch = rotations[c].epoch
      /\ \A d \in Callers : d # c => rotations'[d] = rotations[d]
  BY <1>1, <1>2 DEF RotationRecord
<1>5. BarrierAt(c)'
  BY <1>4 DEF BarrierAt
<1>6. rotations[c].epoch # epoch /\ session # 0 => Passed' = Passed /\ (Stranded => Stranded')
  BY <1>1, <1>3, OldPasses
<1>7. PauseBehind' /\ capture'.captured = capture.captured
  <2>1. CASE epoch = rotations[c].epoch
    <3>1. Pause(c) \in Entry /\ Pause(c).kind # "buffer"
      BY DEF Pause, Entry, Callers
    <3>2. capture'.queue = Append(capture.queue, Pause(c)) /\ capture'.captured = capture.captured
      BY <1>1, <1>2, <2>1 DEF CaptureRecord
    <3>3. PauseBehind'
      BY <1>1, <3>1, <3>2, PausePut DEF BarrierInv
    <3>. QED
      BY <3>2, <3>3
  <2>2. CASE epoch # rotations[c].epoch
    BY <1>1, <2>2 DEF BarrierInv, PauseBehind
  <2>. QED
    BY <2>1, <2>2
<1>. QED
  BY <1>1, <1>4, <1>5, <1>6, <1>7, BarrierRotates

\* A call of finalize moves, and begins a rotation or none.
LEMMA CallMoves ==
    ASSUME IInv, CallersKnown, AudioInv, BarrierInv, NEW c \in Callers, NEW r \in CallRecord,
           callers' = [callers EXCEPT ![c] = r],
           UNCHANGED <<epoch, session, sessions, capture, published>>,
           \/ /\ UNCHANGED rotations
              /\ \/ rotations[c].state = "none"
                 \/ (r.epoch = callers[c].epoch /\ r.captured = callers[c].captured)
           \/ /\ rotations[c].state = "none" /\ r.epoch = epoch
              /\ rotations' = [rotations EXCEPT ![c] =
                     [state |-> "making", epoch |-> epoch, previous |-> session, replacement |-> 0]],
           r.epoch <= epoch, r.epoch = epoch => r.captured <= capture.captured,
           r.state = "returned" /\ r.epoch = epoch => r.captured <= Len(published)
    PROVE  BarrierInv'
<1>1. callers'[c] = r /\ \A d \in Callers : d # c => callers'[d] = callers[d]
  BY DEF CallersKnown
<1>2. /\ \A d \in Callers : d # c => rotations'[d] = rotations[d]
      /\ \/ rotations'[c] = rotations[c]
         \/ (/\ rotations[c].state = "none" /\ rotations'[c].state = "making"
             /\ rotations'[c].epoch = epoch /\ r.epoch = epoch)
  BY DEF IInv, TypeOK
<1>3. CallsAge'
  <2>1. ASSUME NEW d \in Callers
        PROVE  /\ callers'[d].epoch <= epoch
               /\ callers'[d].epoch = epoch => callers'[d].captured <= capture.captured
               /\ rotations'[d].state # "none" => rotations'[d].epoch = callers'[d].epoch
    <3>1. CASE d # c
      BY <1>1, <1>2, <3>1 DEF BarrierInv, CallsAge
    <3>2. CASE d = c
      <4>1. rotations[c].state # "none" => rotations[c].epoch = callers[c].epoch
        BY DEF BarrierInv, CallsAge
      <4>2. rotations'[c].state # "none" => rotations'[c].epoch = r.epoch
        BY <1>2, <4>1
      <4>. QED
        BY <1>1, <3>2, <4>2
    <3>. QED
      BY <3>1, <3>2
  <2>. QED
    BY <2>1 DEF CallsAge
<1>4. PauseBehind'
  <2>1. ASSUME NEW i \in DOMAIN capture.queue, NEW j \in DOMAIN capture.queue, i < j,
               capture.queue[i].kind = "pause", capture.queue[j].kind = "buffer"
        PROVE  capture.queue[j].number > callers'[capture.queue[i].number].captured
    <3>1. PICK d \in Callers : d = capture.queue[i].number /\ rotations[d].state = "pausing"
      BY <2>1 DEF IInv, QueueKnown
    <3>2. callers'[d].captured = callers[d].captured
      <4>1. CASE d # c
        BY <1>1, <4>1
      <4>2. CASE d = c
        BY <1>1, <3>1, <4>2
      <4>. QED
        BY <4>1, <4>2
    <3>3. capture.queue[j].number > callers[d].captured
      BY <2>1, <3>1 DEF BarrierInv, PauseBehind
    <3>. QED
      BY <3>1, <3>2, <3>3
  <2>2. UNCHANGED capture
    OBVIOUS
  <2>. QED
    BY <2>1, <2>2 DEF PauseBehind
<1>5. Passed' = Passed /\ (Stranded => Stranded')
  BY SessionStays
<1>6. ASSUME NEW d \in Callers PROVE BarrierAt(d)'
  <2>1. BarrierAt(d)
    BY DEF BarrierInv, BarrierKnown
  <2>2. CASE d # c
    BY <1>1, <1>2, <1>5, <2>1, <2>2 DEF BarrierAt
  <2>3. CASE d = c /\ (rotations[c].state = "none" \/ rotations'[c].state = "making")
    <3>1. rotations'[c].state \in {"none", "making"}
      BY <1>2, <2>3
    <3>. QED
      BY <2>3, <3>1 DEF BarrierAt
  <2>4. CASE d = c /\ rotations[c].state # "none" /\ rotations'[c].state # "making"
    <3>1. rotations'[c] = rotations[c] /\ r.captured = callers[c].captured
      BY <1>2, <2>4
    <3>. QED
      BY <1>1, <1>5, <2>1, <2>4, <3>1 DEF BarrierAt
  <2>. QED
    BY <2>2, <2>3, <2>4
<1>7. FinalizeBarrier'
  <2>1. ASSUME NEW d \in Callers, callers'[d].state = "returned", callers'[d].epoch = epoch
        PROVE  Len(published) >= callers'[d].captured
    <3>1. CASE d # c
      BY <1>1, <2>1, <3>1 DEF BarrierInv, FinalizeBarrier
    <3>2. CASE d = c
      <4>1. Len(published) \in Nat /\ r.captured \in Nat
        BY Countable DEF CallRecord
      <4>. QED
        BY <1>1, <2>1, <3>2, <4>1
    <3>. QED
      BY <3>1, <3>2
  <2>2. UNCHANGED epoch /\ UNCHANGED published
    OBVIOUS
  <2>. QED
    BY <2>1, <2>2 DEF FinalizeBarrier
<1>. QED
  BY <1>3, <1>4, <1>6, <1>7 DEF BarrierInv, BarrierKnown

LEMMA ProceedsBarrier ==
    ASSUME IInv, CallersKnown, AudioInv, BarrierInv, NEW c \in Callers, NEW call \in CallRecord,
           callers[c].state \in {"none", "waiting"}, Proceeds(c, call), call.epoch = epoch,
           call.captured <= capture.captured, UNCHANGED <<epoch, session, sessions, capture, published>>
    PROVE  BarrierInv'
<1>1. rotations[c].state = "none" /\ epoch \in Nat
  BY Countable DEF CallersKnown
<1>2. rotating \in Nat
  BY DEF IInv, TypeOK, Callers
<1>3. PICK r \in CallRecord : /\ callers' = [callers EXCEPT ![c] = r] /\ r.state # "returned"
                              /\ r.epoch = call.epoch /\ r.captured = call.captured
  <2>1. CASE rotating # 0
    <3>. DEFINE r == [call EXCEPT !.state = "waiting", !.await = rotating]
    <3>1. r \in CallRecord /\ r.state # "returned" /\ r.epoch = call.epoch /\ r.captured = call.captured
      BY <1>2 DEF CallRecord
    <3>2. callers' = [callers EXCEPT ![c] = r]
      BY <2>1 DEF Proceeds
    <3>. QED
      BY <3>1, <3>2
  <2>2. CASE rotating = 0
    <3>1. PICK x \in {"cancelled", "rotating"} :
             callers' = [callers EXCEPT ![c] = [call EXCEPT !.state = x]]
      BY <2>2 DEF Proceeds
    <3>. DEFINE r == [call EXCEPT !.state = x]
    <3>2. r \in CallRecord /\ r.state # "returned" /\ r.epoch = call.epoch /\ r.captured = call.captured
      BY DEF CallRecord
    <3>. QED
      BY <3>1, <3>2
  <2>. QED
    BY <2>1, <2>2
<1>4. \/ UNCHANGED rotations
      \/ rotations' = [rotations EXCEPT ![c] =
             [state |-> "making", epoch |-> epoch, previous |-> session, replacement |-> 0]]
  BY DEF Proceeds
<1>5. r.epoch = epoch /\ r.epoch <= epoch /\ r.captured <= capture.captured
  BY <1>1, <1>3
<1>6. \/ /\ UNCHANGED rotations
         /\ \/ rotations[c].state = "none"
            \/ (r.epoch = callers[c].epoch /\ r.captured = callers[c].captured)
      \/ /\ rotations[c].state = "none" /\ r.epoch = epoch
         /\ rotations' = [rotations EXCEPT ![c] =
                [state |-> "making", epoch |-> epoch, previous |-> session, replacement |-> 0]]
  BY <1>1, <1>4, <1>5
<1>7. ~(r.state = "returned" /\ r.epoch = epoch)
  BY <1>3
<1>8. callers' = [callers EXCEPT ![c] = r]
  BY <1>3
<1>9. UNCHANGED <<epoch, session, sessions, capture, published>>
  OBVIOUS
<1>. QED
  BY <1>5, <1>6, <1>7, <1>8, <1>9, CallMoves

LEMMA CallsBarrier ==
    ASSUME IInv, CallersKnown, AudioInv, BarrierInv, NEW c \in Callers,
           Finalize(c) \/ CancelCaller(c) \/ Resumes(c) \/ Returns(c)
    PROVE  BarrierInv'
<1>1. callers[c] \in CallRecord
  BY DEF CallersKnown
<1>2. UNCHANGED <<epoch, session, sessions, capture, published>>
  BY DEF Finalize, CancelCaller, Resumes, Returns
<1>3. /\ callers[c].epoch <= epoch
      /\ callers[c].epoch = epoch => callers[c].captured <= capture.captured
      /\ rotations[c].state # "none" => rotations[c].epoch = callers[c].epoch
  BY DEF BarrierInv, CallsAge
<1>4. epoch \in Nat /\ capture.captured \in Nat
  BY Countable
<1>5. CASE Finalize(c)
  <2>. DEFINE call == [NoCall EXCEPT !.epoch = epoch, !.captured = capture.captured]
  <2>3. call.epoch = epoch /\ call.captured = capture.captured
    BY DEF NoCall
  <2>5. call \in CallRecord
    BY <1>4 DEF CallRecord, NoCall
  <2>6. capture.captured <= capture.captured
    BY <1>4
  <2>1. call \in CallRecord /\ call.epoch = epoch /\ call.captured <= capture.captured
    BY <2>3, <2>5, <2>6
  <2>2. callers[c].state = "none" /\ Proceeds(c, call)
    BY <1>5 DEF Finalize
  <2>. HIDE DEF call
  <2>. QED
    BY <1>2, <2>1, <2>2, ProceedsBarrier
<1>6. CASE Resumes(c)
  <2>1. callers[c].state = "waiting"
    BY <1>6 DEF Resumes
  <2>2. CASE Proceeds(c, callers[c]) /\ callers[c].epoch = epoch
    BY <1>1, <1>2, <1>3, <2>1, <2>2, ProceedsBarrier
  <2>3. ASSUME NEW x \in {"failed", "cancelled"}, UNCHANGED rotations,
               callers' = [callers EXCEPT ![c].state = x]
        PROVE  BarrierInv'
    <3>. DEFINE r == [callers[c] EXCEPT !.state = x]
    <3>1. r \in CallRecord /\ r.state = x /\ r.epoch = callers[c].epoch /\ r.captured = callers[c].captured
      BY <1>1 DEF CallRecord
    <3>2. callers' = [callers EXCEPT ![c] = r]
      BY <2>3
    <3>. HIDE DEF r
    <3>. QED
      BY <1>2, <1>3, <2>3, <3>1, <3>2, CallMoves
  <2>. QED
    BY <1>6, <2>2, <2>3 DEF Resumes
<1>7. CASE CancelCaller(c)
  <2>. DEFINE r == [callers[c] EXCEPT !.cancelled = TRUE]
  <2>1. r \in CallRecord /\ r.state = callers[c].state /\ r.epoch = callers[c].epoch
        /\ r.captured = callers[c].captured
    BY <1>1 DEF CallRecord
  <2>2. callers' = [callers EXCEPT ![c] = r] /\ UNCHANGED rotations /\ callers[c].state = "waiting"
    BY <1>7 DEF CancelCaller
  <2>. HIDE DEF r
  <2>. QED
    BY <1>2, <1>3, <2>1, <2>2, CallMoves
<1>8. CASE Returns(c)
  <2>. DEFINE x == IF rotations[c].state = "done" THEN "returned" ELSE "failed"
              r == [callers[c] EXCEPT !.state = x]
  <2>1. r \in CallRecord /\ r.state = x /\ r.epoch = callers[c].epoch /\ r.captured = callers[c].captured
    BY <1>1 DEF CallRecord
  <2>2. callers' = [callers EXCEPT ![c] = r] /\ UNCHANGED rotations /\ Over(c)
    BY <1>8 DEF Returns
  <2>3. r.state = "returned" /\ r.epoch = epoch => r.captured <= Len(published)
    <3>. SUFFICES ASSUME r.state = "returned", r.epoch = epoch PROVE r.captured <= Len(published)
      OBVIOUS
    <3>1. rotations[c].state = "done" /\ rotations[c].epoch = epoch
      BY <1>3, <2>1
    <3>. QED
      BY <2>1, <3>1 DEF BarrierInv, BarrierKnown, BarrierAt
  <2>. HIDE DEF r
  <2>. QED
    BY <1>2, <1>3, <2>1, <2>2, <2>3, CallMoves
<1>. QED
  BY <1>5, <1>6, <1>7, <1>8

LEMMA InitBarrier == Init => BarrierInv
<1>. SUFFICES ASSUME Init PROVE BarrierInv
  OBVIOUS
<1>1. /\ epoch = 0 /\ capture = NoCapture /\ published = <<>>
      /\ rotations = [c \in Callers |-> NoRotation] /\ callers = [c \in Callers |-> NoCall]
  BY DEF Init
<1>2. CallsAge
  BY <1>1 DEF CallsAge, NoCall, NoRotation, NoCapture
<1>3. PauseBehind
  BY <1>1 DEF PauseBehind, NoCapture
<1>4. BarrierKnown
  BY <1>1 DEF BarrierKnown, BarrierAt, NoRotation
<1>5. FinalizeBarrier
  BY <1>1 DEF FinalizeBarrier, NoCall
<1>. QED
  BY <1>2, <1>3, <1>4, <1>5 DEF BarrierInv

\* When finalize returns to a host that did not stop meanwhile, the words of all the audio
\* taken before the call were given to it, whatever rotation the call waited for or began.
THEOREM BarrierHolds == Spec => []FinalizeBarrier
<1>1. IInv /\ CallersKnown /\ AudioInv /\ BarrierInv /\ [Next]_vars => BarrierInv'
  <2>. SUFFICES ASSUME IInv, CallersKnown, AudioInv, BarrierInv, [Next]_vars PROVE BarrierInv'
    OBVIOUS
  <2>1. CASE Lifecycle
    BY <2>1, LifecycleBarrier
  <2>2. CASE Audio
    BY <2>2, ConsumeBarrier, ProcessBarrier, PauseBarrier, ResumeBarrier, AnalyzerBarrier DEF Audio
  <2>3. CASE Finalization
    BY <2>3, CallsBarrier, RotationBarrier, SwitchesBarrier, MakesBarrier DEF Finalization
  <2>4. CASE UNCHANGED vars
    BY <2>4, BarrierRests DEF vars
  <2>. QED
    BY <2>1, <2>2, <2>3, <2>4 DEF Next
<1>2. BarrierInv => FinalizeBarrier
  BY DEF BarrierInv
<1>. QED
  BY <1>1, <1>2, AsrInvariant, AudioInvariant, InitBarrier, PTL DEF Spec
=============================================================================
