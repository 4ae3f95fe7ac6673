---------------------------- MODULE MCFrameCodec -----------------------------
(* FrameCodec for TLC: everything is given in the configurations.          *)
EXTENDS FrameCodec
=============================================================================
