---------------------------- MODULE MCSpeechTurn ----------------------------
(* Model-checking instances of SpeechTurn.  One run covers several shapes of a turn:
   InSomeScenario keeps TLC to the states that fit one of them.  What a scenario
   bounds only grows, so every such state is reached within it. *)
EXTENDS SpeechTurn

\* Two words, and speech that resumes, around a lifecycle event; spans of speech that
\* resume and close.
Scenarios == {
    [words |-> 2, scores |-> 2, controls |-> 1],
    [words |-> 1, scores |-> 3, controls |-> 1],
    [words |-> 1, scores |-> 4, controls |-> 0]}

Within(s) == words <= s.words /\ scores <= s.scores /\ controls <= s.controls

InSomeScenario == \E s \in Scenarios : Within(s)
=============================================================================
