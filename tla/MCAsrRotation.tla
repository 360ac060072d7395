---------------------------- MODULE MCAsrRotation ----------------------------
(* Model-checking instance of AsrRotation: a restart while a rotation is under way,
   and a conversation in which one of Apple's services fails.                     *)
EXTENDS AsrRotation

Scenarios == {
    [starts |-> 2, stops |-> 1, buffers |-> 2, failures |-> 0],
    [starts |-> 1, stops |-> 1, buffers |-> 1, failures |-> 1]}
=============================================================================
