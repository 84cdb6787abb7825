----------------------------- MODULE FrameStream -----------------------------
(***************************************************************************)
(* resource-mesh-portal-tcp-common: one direction of a connection.  A      *)
(* writer puts a frame on the stream as its size and then its bytes; a     *)
(* reader takes a size, then that many bytes, and decodes them.  The       *)
(* stream is TCP: bytes in order, in pieces of any length, until it breaks.*)
(*                                                                         *)
(* The four bytes of a size travel as one unit; a break inside them and a  *)
(* break before them are the same to the reader.                           *)
(***************************************************************************)
EXTENDS Integers, Sequences

CONSTANTS
  Frames,   \* frames, or the strings of the handshake
  Size,     \* the bytes each is encoded in
  SizeMod,  \* sizes are u32: 2^32
  MaxSent   \* bound: frames written

\* A frame of 2^32 bytes or more would have its size cut off (as u32).  Two
\* frames are not encoded alike, so at most one is encoded in no byte at all.
ASSUME SizeAssumption ==
  /\ SizeMod \in Nat \ {0}
  /\ Size \in [Frames -> 0..(SizeMod - 1)]
  /\ \A f, g \in Frames : Size[f] = 0 /\ Size[g] = 0 => f = g
  /\ MaxSent \in Nat

VARIABLES
  sent,      \* frames whose write has begun
  left,      \* bytes of the last one still to be written
  writer,    \* "idle", "body", or "broken": it was dropped, or a write failed
  stream,    \* units on their way
  reader,    \* "size", "body", "broken"
  want,      \* bytes of the body still to be read
  buf,       \* bytes of it read so far
  received   \* frames read

writerVars == <<sent, left, writer>>
readerVars == <<reader, want, buf, received>>
vars == <<writerVars, stream, readerVars>>

\* A unit is known by its frame's place and its own place there, which the
\* size has before every byte.
SizeUnit == [type : {"size"}, n : 1..MaxSent, i : {0}, size : 0..(SizeMod - 1)]
ByteUnit == [type : {"byte"}, n : 1..MaxSent, i : 1..(SizeMod - 1)]

TypeOK ==
  /\ sent \in Seq(Frames) /\ Len(sent) <= MaxSent
  /\ left \in 0..(SizeMod - 1)
  /\ writer \in {"idle", "body", "broken"}
  /\ stream \in Seq(SizeUnit \cup ByteUnit)
  /\ reader \in {"size", "body", "broken"}
  /\ want \in 0..(SizeMod - 1)
  /\ buf \in Seq(ByteUnit)
  /\ received \in Seq(Frames)

Init ==
  /\ sent = <<>> /\ left = 0 /\ writer = "idle"
  /\ stream = <<>>
  /\ reader = "size" /\ want = 0 /\ buf = <<>> /\ received = <<>>

-----------------------------------------------------------------------------
\* Fault: the size counts the byte too many.
SizeOfPlusOne(f) == (Size[f] + 1) % SizeMod

\* PrimitiveFrame::size.
SizeOf(f) == Size[f] % SizeMod

WriteSize(f) ==
  /\ writer = "idle" /\ Len(sent) < MaxSent
  /\ sent' = Append(sent, f)
  /\ stream' = Append(stream, [type |-> "size", n |-> Len(sent) + 1, i |-> 0, size |-> SizeOf(f)])
  /\ left' = Size[f]
  /\ writer' = IF Size[f] = 0 THEN "idle" ELSE "body"
  /\ UNCHANGED readerVars

\* write_all, piece by piece.
WriteBytes ==
  /\ writer = "body"
  /\ LET n == Len(sent) IN
       stream' = Append(stream, [type |-> "byte", n |-> n, i |-> Size[sent[n]] - left + 1])
  /\ left' = left - 1
  /\ writer' = IF left = 1 THEN "idle" ELSE "body"
  /\ UNCHANGED <<sent, readerVars>>

\* The connection breaks or the writing task is cancelled: between two frames
\* or in the middle of one.  What is on its way may still arrive, in part.
Break ==
  /\ writer # "broken"
  /\ writer' = "broken"
  /\ \E k \in 0..Len(stream) : stream' = SubSeq(stream, 1, k)
  /\ UNCHANGED <<sent, left, readerVars>>

\* Fault: the buffer is used again with what is in it.
ReadSizeKeepsBuf ==
  /\ reader = "size"
  /\ stream # <<>> /\ Head(stream).type = "size"
  /\ stream' = Tail(stream)
  /\ want' = Head(stream).size
  /\ reader' = "body"
  /\ UNCHANGED <<writerVars, buf, received>>

ReadSize ==
  /\ reader = "size"
  /\ stream # <<>> /\ Head(stream).type = "size"
  /\ stream' = Tail(stream)
  /\ want' = Head(stream).size
  /\ buf' = <<>>
  /\ reader' = "body"
  /\ UNCHANGED <<writerVars, received>>

\* read_exact, piece by piece.
ReadBytes ==
  /\ reader = "body" /\ want > 0
  /\ stream # <<>> /\ Head(stream).type = "byte"
  /\ stream' = Tail(stream)
  /\ buf' = Append(buf, Head(stream))
  /\ want' = want - 1
  /\ UNCHANGED <<writerVars, reader, received>>

\* Decoding gives the frame whose bytes these are, if they are those of one.
Decodes(f) ==
  /\ Len(buf) = Size[f]
  /\ \A i \in 1..Len(buf) : buf[i].n = buf[1].n /\ buf[i].i = i /\ sent[buf[i].n] = f

\* Fault: the frame is delivered and the reader stays where it is.
ReadDoneStays ==
  /\ reader = "body" /\ want = 0
  /\ \E f \in Frames : Decodes(f) /\ received' = Append(received, f)
  /\ UNCHANGED <<writerVars, stream, reader, want, buf>>

ReadDone ==
  /\ reader = "body" /\ want = 0
  /\ reader' = "size"
  /\ \E f \in Frames : Decodes(f) /\ received' = Append(received, f)
  /\ UNCHANGED <<writerVars, stream, want, buf>>

\* The end of the stream, before a frame or inside it, is an error; every task
\* that reads frames stops at the first.
ReadFails ==
  /\ reader # "broken"
  /\ writer = "broken" /\ stream = <<>>
  /\ reader = "body" => want > 0
  /\ reader' = "broken"
  /\ UNCHANGED <<writerVars, stream, want, buf, received>>

-----------------------------------------------------------------------------
Writing == WriteBytes \/ \E f \in Frames : WriteSize(f)
Reading == ReadSize \/ ReadBytes \/ ReadDone \/ ReadFails

Next == Writing \/ Break \/ Reading

Spec == Init /\ [][Next]_vars

\* The writing task finishes the frame it has begun; the reading task reads
\* what there is.
FairSpec == Spec /\ WF_vars(WriteBytes) /\ WF_vars(Reading)

-----------------------------------------------------------------------------
\* Frames come out as they went in, for any break and any pieces the stream
\* is cut into (PrimitiveFrameWriter::write, PrimitiveFrameReader::read).
Channel == INSTANCE FrameChannel
ChannelSpec == Channel!Spec

\* The reader is never behind a unit it does not expect: it takes no byte of a
\* body for a size and no size for a byte.
InStep ==
  stream # <<>> =>
    Head(stream).type = IF reader = "size" \/ (reader = "body" /\ want = 0) THEN "size" ELSE "byte"

\* The state of PrimitiveFrameReader and PrimitiveFrameWriter is well formed
\* and the two are in step.
StreamInv == TypeOK /\ InStep

\* A frame that was written is read, and the end of the stream is noticed,
\* unless the connection breaks first.
AllRead ==
  \A n \in 1..MaxSent : Len(sent) >= n ~> Len(received) >= n \/ reader = "broken"
=============================================================================
