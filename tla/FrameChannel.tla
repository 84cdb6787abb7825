---------------------------- MODULE FrameChannel ----------------------------
(***************************************************************************)
(* What the readers and writers of tcp-common promise the tasks that use   *)
(* them: the frames read are the frames written, in order, each once and   *)
(* whole, up to the point where the stream broke.                          *)
(***************************************************************************)
EXTENDS Integers, Sequences

CONSTANT Frames

VARIABLES
  sent,     \* frames written, or begun
  received  \* frames read

vars == <<sent, received>>

Init == sent = <<>> /\ received = <<>>

Write(f) ==
  /\ sent' = Append(sent, f)
  /\ received' = received

Read ==
  /\ Len(received) < Len(sent)
  /\ received' = Append(received, sent[Len(received) + 1])
  /\ sent' = sent

Next == Read \/ \E f \in Frames : Write(f)

Spec == Init /\ [][Next]_vars
=============================================================================
