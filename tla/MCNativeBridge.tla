--------------------------- MODULE MCNativeBridge ---------------------------
(* Model-checking instances of NativeBridge.  One run covers several shapes of a
   conversation: InSomeScenario keeps TLC to the states that fit one of them.  What
   a scenario bounds only grows, so every such state is reached within it. *)
EXTENDS NativeBridge

ConversationOps == {"speak", "finalize_asr"}
SpeechOps == {"speak"}
GenerateOps == {"generate"}

\* Requests that overlap within one turn; two conversations around one request; a
\* request whose turn was replaced.
Scenarios == {
    [sessions |-> 1, turns |-> 1, requests |-> 2, taps |-> 1,
     ops |-> {"speak", "finalize_asr"}],
    [sessions |-> 2, turns |-> 1, requests |-> 1, taps |-> 2, ops |-> {"speak"}],
    [sessions |-> 1, turns |-> 2, requests |-> 1, taps |-> 1,
     ops |-> {"speak", "finalize_asr"}]}

Within(s) ==
    /\ generations <= s.sessions /\ turns <= s.turns
    /\ requests <= s.requests /\ taps <= s.taps
    /\ \A r \in 1 .. requests : stream[r].op \in s.ops

InSomeScenario == \E s \in Scenarios : Within(s)
=============================================================================
