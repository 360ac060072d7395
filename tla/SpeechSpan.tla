----------------------------- MODULE SpeechSpan -----------------------------
(* What a debouncer of speech scores promises: it changes its mind only when a
   full run of scores in a row contradicts it.  `run` counts the scores that have
   done so since the last one that agreed. *)
EXTENDS Naturals

CONSTANTS Start, Stop     \* lengths of the run that starts and that stops speech, at least 1

VARIABLES speech, run

Needed == IF speech THEN Stop ELSE Start

Init == speech = FALSE /\ run = 0

Agree == run' = 0 /\ UNCHANGED speech

Contradict ==
    IF run + 1 < Needed THEN run' = run + 1 /\ UNCHANGED speech
    ELSE run' = 0 /\ speech' = ~speech

Restart == speech' = FALSE /\ run' = 0

Next == Agree \/ Contradict \/ Restart

Spec == Init /\ [][Next]_<<speech, run>>
=============================================================================
