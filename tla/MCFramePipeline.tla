--------------------------- MODULE MCFramePipeline ---------------------------
(* Model-checking instance of FramePipeline: an ending behind a response that is being
   played, a flush behind a function result whose answer is still to come, and an ending
   asked for from inside the pipeline.                                              *)
EXTENDS FramePipeline

AllScripts == {
    <<"text", "turnend", "end">>,
    <<"result", "flush", "stop">>,
    <<"endworker">>}
=============================================================================
