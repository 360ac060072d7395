-------------------------- MODULE MCSpeechPlayback --------------------------
(* Model-checking instances of SpeechPlayback.  One run covers several shapes of a
   reply: InSomeScenario keeps TLC to the states that fit one of them.  What a
   scenario bounds only grows, so every such state is reached within it. *)
EXTENDS SpeechPlayback

\* Sentences in chunks; an interruption; failures; stops and new conversations.
Scenarios == {
    [sessions |-> 1, chunks |-> 2, presses |-> 0, failures |-> 0],
    [sessions |-> 1, chunks |-> 1, presses |-> 1, failures |-> 0],
    [sessions |-> 1, chunks |-> 1, presses |-> 0, failures |-> 1],
    [sessions |-> 3, chunks |-> 1, presses |-> 0, failures |-> 0]}

Within(s) ==
    /\ host.drawn <= s.sessions /\ presses <= s.presses /\ failures <= s.failures
    /\ \A r \in Requests : synth[r].made <= s.chunks

InSomeScenario == \E s \in Scenarios : Within(s)
=============================================================================
