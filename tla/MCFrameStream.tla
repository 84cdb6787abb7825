---------------------------- MODULE MCFrameStream ----------------------------
(* FrameStream for TLC: an empty frame, a frame of one byte, longer ones. *)
EXTENDS FrameStream

Sizes == [f \in Frames |-> CASE f = "empty" -> 0 [] f = "one" -> 1 [] OTHER -> 3]
=============================================================================
