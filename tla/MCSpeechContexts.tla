-------------------------- MODULE MCSpeechContexts --------------------------
(* Model-checking instance of SpeechContexts: two responses of one sentence each, or
   one response of two before the pipeline ends.  Turns and text frames are bounded
   by what the bridge and the LLM may do, which is never fair.                      *)
EXTENDS SpeechContexts

InSomeScenario ==
    \/ ending = "never" /\ llm.texts <= 1
    \/ ending # "never" /\ turns <= 1
=============================================================================
