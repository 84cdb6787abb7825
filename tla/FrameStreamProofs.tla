-------------------------- MODULE FrameStreamProofs --------------------------
(***************************************************************************)
(* What TLAPS proves of FrameStream, for any frames, any sizes that fit    *)
(* into a u32 and any number of frames.                                    *)
(***************************************************************************)
EXTENDS FrameStream, SequenceTheorems, TLAPS

Unit == SizeUnit \cup ByteUnit

\* A place in the stream: of a frame, and in it.  The place of a unit, and the
\* one that follows it, when the frames written are s.
PlaceOf(u) == <<u.n, u.i>>
After(s, u) == IF u.i < Size[s[u.n]] THEN <<u.n, u.i + 1>> ELSE <<u.n + 1, 0>>

\* A unit of one of the frames s; a size says how long that frame is.
OfFrame(s, u) == u.n <= Len(s) /\ (u.type = "size" => u.size = Size[s[u.n]])

\* Units of the frames s, each of which follows the one before it.
Chain(s, q) ==
  /\ \A k \in 1..Len(q) : OfFrame(s, q[k])
  /\ \A k \in 1..Len(q) : k + 1 \in 1..Len(q) => PlaceOf(q[k + 1]) = After(s, q[k])

\* Where the writer is, and where the reader is.
NextWritten ==
  IF left > 0 THEN <<Len(sent), Size[sent[Len(sent)]] - left + 1>> ELSE <<Len(sent) + 1, 0>>
NextRead ==
  IF reader = "body"
    THEN IF want > 0 THEN <<Len(received) + 1, Len(buf) + 1>> ELSE <<Len(received) + 2, 0>>
    ELSE <<Len(received) + 1, 0>>

\* The writer is inside its last frame or between frames.
WriterInv ==
  /\ left > 0 => sent # <<>> /\ left <= Size[sent[Len(sent)]]
  /\ writer = "body" => left > 0
  /\ writer = "idle" => left = 0

\* The reader is before the first unit, and the writer after the last, unless
\* the connection has broken.
EndsInv ==
  /\ reader = "broken" => stream = <<>> /\ writer = "broken"
  /\ stream # <<>> => PlaceOf(stream[1]) = NextRead
  /\ writer # "broken" =>
       NextWritten = IF stream = <<>> THEN NextRead ELSE After(sent, stream[Len(stream)])

\* What the reader holds is the beginning of the frame it is at, and it has
\* read the first frames.
ReaderInv ==
  /\ reader = "body" =>
       /\ Len(received) < Len(sent)
       /\ want + Len(buf) = Size[sent[Len(received) + 1]]
       /\ \A i \in 1..Len(buf) : buf[i].n = Len(received) + 1 /\ buf[i].i = i
  /\ Len(received) <= Len(sent)
  /\ \A i \in 1..Len(received) : received[i] = sent[i]

\* The inductive invariant.
FlowInv == TypeOK /\ WriterInv /\ Chain(sent, stream) /\ EndsInv /\ ReaderInv

-----------------------------------------------------------------------------
\* The size of a frame is what the four bytes say of it.
LEMMA SizesFit ==
  /\ SizeMod \in Nat /\ SizeMod > 0 /\ MaxSent \in Nat
  /\ \A f \in Frames : Size[f] \in Nat /\ Size[f] <= SizeMod - 1 /\ SizeOf(f) = Size[f]
  <1>1. SizeMod \in Nat /\ SizeMod > 0 /\ MaxSent \in Nat
    BY SizeAssumption
  <1>2. ASSUME NEW f \in Frames
        PROVE  Size[f] \in Nat /\ Size[f] <= SizeMod - 1 /\ SizeOf(f) = Size[f]
    <2>1. Size[f] \in 0..(SizeMod - 1)
      BY SizeAssumption
    <2>2. Size[f] \in Nat /\ Size[f] <= SizeMod - 1
      BY <1>1, <2>1
    <2>3. Size[f] % SizeMod = Size[f]
      BY <1>1, <2>2
    <2> QED
      BY <2>2, <2>3 DEF SizeOf
  <1> QED
    BY <1>1, <1>2

\* A unit is a size exactly if it is the first of its frame.
LEMMA UnitTypes ==
  ASSUME NEW u \in Unit
  PROVE  /\ u.n \in Nat /\ u.n >= 1 /\ u.i \in Nat
         /\ u.type = "size" \/ u.type = "byte"
         /\ u.type = "size" <=> u.i = 0
         /\ u.type = "size" => u.size \in 0..(SizeMod - 1)
         /\ u.type = "byte" => u \in ByteUnit
  BY SizesFit DEF Unit, SizeUnit, ByteUnit

\* Of a chain without its head, the first follows the head; the last is the
\* same.
LEMMA ChainTail ==
  ASSUME NEW s \in Seq(Frames), NEW q \in Seq(Unit), q # <<>>, Chain(s, q)
  PROVE  /\ Chain(s, Tail(q))
         /\ OfFrame(s, Head(q)) /\ Head(q) = q[1]
         /\ Tail(q) = <<>> => Len(q) = 1
         /\ Tail(q) # <<>> => /\ PlaceOf(Tail(q)[1]) = After(s, Head(q))
                              /\ Tail(q)[Len(Tail(q))] = q[Len(q)]
  <1> DEFINE r == Tail(q)
  <1>1. /\ Len(q) \in Nat /\ Len(r) = Len(q) - 1 /\ Head(q) = q[1] /\ 1 \in 1..Len(q)
        /\ r \in Seq(Unit)
        /\ \A k \in 1..Len(r) : k + 1 \in 1..Len(q) /\ r[k] = q[k + 1]
    BY HeadTailProperties, LenProperties
  <1> HIDE DEF r
  <1>2. r = <<>> => Len(r) = 0
    OBVIOUS
  <1>3. r # <<>> => 1 \in 1..Len(r) /\ Len(r) \in 1..Len(r)
    BY <1>1, HeadTailProperties, LenProperties
  <1>4. \A k \in 1..Len(r) : OfFrame(s, r[k])
    BY <1>1 DEF Chain
  <1>5. ASSUME NEW k \in 1..Len(r), k + 1 \in 1..Len(r)
        PROVE  PlaceOf(r[k + 1]) = After(s, r[k])
    <2>1. k + 1 \in 1..Len(q) /\ r[k] = q[k + 1] /\ (k + 1) + 1 \in 1..Len(q) /\ r[k + 1] = q[(k + 1) + 1]
      BY <1>1, <1>5
    <2> QED
      BY <2>1 DEF Chain
  <1>6. r # <<>> => PlaceOf(r[1]) = After(s, q[1])
    BY <1>1, <1>3 DEF Chain
  <1>7. r # <<>> => r[Len(r)] = q[Len(q)]
    BY <1>1, <1>3
  <1>8. OfFrame(s, q[1])
    BY <1>1 DEF Chain
  <1>9. r = <<>> => Len(q) = 1
    BY <1>1, <1>2
  <1> QED
    BY <1>1, <1>4, <1>5, <1>6, <1>7, <1>8, <1>9 DEF Chain, r

\* A unit that follows the last one goes behind it.
LEMMA ChainAppend ==
  ASSUME NEW s \in Seq(Frames), NEW q \in Seq(Unit), Chain(s, q), NEW u \in Unit, OfFrame(s, u),
         q # <<>> => PlaceOf(u) = After(s, q[Len(q)])
  PROVE  Chain(s, Append(q, u))
  <1> DEFINE r == Append(q, u)
  <1>1. /\ Len(q) \in Nat /\ Len(r) = Len(q) + 1 /\ r[Len(q) + 1] = u
        /\ \A k \in 1..Len(q) : r[k] = q[k]
    BY AppendProperties, LenProperties
  <1>2. Len(q) > 0 => q # <<>>
    OBVIOUS
  <1> HIDE DEF r
  <1>3. ASSUME NEW k \in 1..Len(r)
        PROVE  OfFrame(s, r[k])
    <2>1. CASE k = Len(q) + 1
      BY <1>1, <2>1
    <2>2. CASE k \in 1..Len(q)
      BY <1>1, <2>2 DEF Chain
    <2> QED
      BY <1>1, <2>1, <2>2
  <1>4. ASSUME NEW k \in 1..Len(r), k + 1 \in 1..Len(r)
        PROVE  PlaceOf(r[k + 1]) = After(s, r[k])
    <2>1. k \in 1..Len(q) /\ r[k] = q[k]
      BY <1>1, <1>4
    <2>2. CASE k = Len(q)
      <3>1. r[k + 1] = u /\ q # <<>>
        BY <1>1, <1>2, <2>1, <2>2
      <3> QED
        BY <2>1, <2>2, <3>1
    <2>3. CASE k # Len(q)
      <3>1. k + 1 \in 1..Len(q) /\ r[k + 1] = q[k + 1]
        BY <1>1, <2>1, <2>3
      <3> QED
        BY <2>1, <3>1 DEF Chain
    <2> QED
      BY <2>2, <2>3
  <1> QED
    BY <1>3, <1>4 DEF Chain, r

\* What is left of a chain when its end is lost is a chain with the same head.
LEMMA ChainCut ==
  ASSUME NEW s \in Seq(Frames), NEW q \in Seq(Unit), Chain(s, q), NEW m \in 0..Len(q)
  PROVE  /\ SubSeq(q, 1, m) \in Seq(Unit) /\ Chain(s, SubSeq(q, 1, m))
         /\ SubSeq(q, 1, m) # <<>> => q # <<>> /\ SubSeq(q, 1, m)[1] = q[1]
  <1> DEFINE r == SubSeq(q, 1, m)
  <1>1. /\ Len(q) \in Nat /\ r \in Seq(Unit) /\ Len(r) = m
        /\ \A k \in 1..m : r[k] = q[k]
    OBVIOUS
  <1>2. r # <<>> => 1 \in 1..Len(r)
    BY <1>1, HeadTailProperties, LenProperties
  <1>3. q = <<>> => Len(q) = 0
    OBVIOUS
  <1> HIDE DEF r
  <1>4. \A k \in 1..Len(r) : k \in 1..Len(q) /\ r[k] = q[k]
    BY <1>1
  <1>5. r # <<>> => q # <<>> /\ r[1] = q[1]
    BY <1>1, <1>2, <1>3, <1>4
  <1>6. Chain(s, r)
    BY <1>4 DEF Chain
  <1> QED
    BY <1>1, <1>5, <1>6 DEF r

\* Another frame changes nothing of the units of those before it.
LEMMA ChainGrows ==
  ASSUME NEW s \in Seq(Frames), NEW f \in Frames, NEW q \in Seq(Unit), Chain(s, q)
  PROVE  /\ Chain(Append(s, f), q)
         /\ \A k \in 1..Len(q) : After(Append(s, f), q[k]) = After(s, q[k])
  <1> DEFINE t == Append(s, f)
  <1>1. Len(s) \in Nat /\ Len(t) = Len(s) + 1 /\ \A n \in 1..Len(s) : t[n] = s[n]
    BY AppendProperties, LenProperties
  <1> HIDE DEF t
  <1>2. ASSUME NEW k \in 1..Len(q)
        PROVE  OfFrame(t, q[k]) /\ After(t, q[k]) = After(s, q[k])
    <2>1. q[k] \in Unit
      OBVIOUS
    <2>2. q[k].n \in Nat /\ q[k].n >= 1
      BY <2>1, UnitTypes
    <2>3. q[k].n <= Len(s)
      BY DEF Chain, OfFrame
    <2>4. t[q[k].n] = s[q[k].n] /\ q[k].n <= Len(t)
      BY <1>1, <2>2, <2>3
    <2> QED
      BY <2>4 DEF Chain, OfFrame, After
  <1> QED
    BY <1>2 DEF Chain, t

\* The ends of a queue after one more unit.
LEMMA AppendEnds ==
  ASSUME NEW q \in Seq(Unit), NEW u \in Unit
  PROVE  /\ Append(q, u) # <<>> /\ Append(q, u)[Len(Append(q, u))] = u
         /\ q = <<>> => Append(q, u)[1] = u
         /\ q # <<>> => Append(q, u)[1] = q[1]
  <1>1. /\ Len(q) \in Nat /\ Len(Append(q, u)) = Len(q) + 1
        /\ Append(q, u)[Len(q) + 1] = u
        /\ \A k \in 1..Len(q) : Append(q, u)[k] = q[k]
    BY AppendProperties, LenProperties
  <1>2. q = <<>> => Len(q) = 0
    OBVIOUS
  <1>3. q # <<>> => 1 \in 1..Len(q)
    BY HeadTailProperties, LenProperties
  <1>4. Len(<<>>) = 0
    OBVIOUS
  <1>5. Append(q, u) # <<>>
    BY <1>1, <1>4
  <1> QED
    BY <1>1, <1>2, <1>3, <1>5

\* What the invariant says of the types.
LEMMA FlowTypes ==
  ASSUME FlowInv
  PROVE  /\ sent \in Seq(Frames) /\ Len(sent) \in Nat /\ Len(sent) <= MaxSent
         /\ stream \in Seq(Unit) /\ left \in Nat /\ want \in Nat
         /\ buf \in Seq(ByteUnit) /\ Len(buf) \in Nat
         /\ received \in Seq(Frames) /\ Len(received) \in Nat
  BY SizesFit DEF FlowInv, TypeOK, Unit

-----------------------------------------------------------------------------
\* The invariant holds before anything is written.
LEMMA InitFlowInv == Init => FlowInv
  <1> SUFFICES ASSUME Init PROVE FlowInv
    OBVIOUS
  <1>1. TypeOK
    BY SizesFit DEF Init, TypeOK
  <1>2. WriterInv /\ Chain(sent, stream) /\ ReaderInv
    BY DEF Init, WriterInv, Chain, ReaderInv
  <1>3. EndsInv
    BY DEF Init, EndsInv, NextWritten, NextRead
  <1> QED
    BY <1>1, <1>2, <1>3 DEF FlowInv

\* A unit that goes to the place the writer is at leaves the reader where it is.
LEMMA WriteEnds ==
  ASSUME FlowInv, writer # "broken", NEW u \in Unit, PlaceOf(u) = NextWritten,
         stream' = Append(stream, u), NextRead' = NextRead, reader' = reader,
         NextWritten' = After(sent', u)
  PROVE  EndsInv'
  <1>1. stream \in Seq(Unit)
    BY FlowTypes
  <1>2. /\ stream' # <<>> /\ stream'[Len(stream')] = u
        /\ stream = <<>> => stream'[1] = u
        /\ stream # <<>> => stream'[1] = stream[1]
    BY <1>1, AppendEnds
  <1>3. /\ stream # <<>> => PlaceOf(stream[1]) = NextRead
        /\ stream = <<>> => NextWritten = NextRead
        /\ reader # "broken"
    BY DEF FlowInv, EndsInv
  <1>4. PlaceOf(stream'[1]) = NextRead'
    BY <1>2, <1>3
  <1>5. NextWritten' = After(sent', stream'[Len(stream')])
    BY <1>2
  <1> QED
    BY <1>2, <1>3, <1>4, <1>5 DEF EndsInv, PlaceOf

\* Writing the size of a frame.
LEMMA WriteSizeKeeps ==
  ASSUME FlowInv, NEW f \in Frames, WriteSize(f)
  PROVE  FlowInv'
  <1> DEFINE n == Len(sent) + 1
             u == [type |-> "size", n |-> n, i |-> 0, size |-> SizeOf(f)]
  <1>1. /\ writer = "idle" /\ Len(sent) < MaxSent /\ left = 0
        /\ sent' = Append(sent, f) /\ stream' = Append(stream, u) /\ left' = Size[f]
        /\ writer' = IF Size[f] = 0 THEN "idle" ELSE "body"
        /\ reader' = reader /\ want' = want /\ buf' = buf /\ received' = received
    BY DEF WriteSize, readerVars, FlowInv, WriterInv
  <1>2. /\ sent \in Seq(Frames) /\ Len(sent) \in Nat /\ stream \in Seq(Unit)
        /\ Len(received) \in Nat
    BY FlowTypes
  <1>3. Size[f] \in Nat /\ Size[f] <= SizeMod - 1 /\ SizeOf(f) = Size[f]
        /\ SizeMod \in Nat /\ MaxSent \in Nat
    BY SizesFit
  <1>4. n \in 1..MaxSent /\ SizeOf(f) \in 0..(SizeMod - 1)
    BY <1>1, <1>2, <1>3
  <1>5. u \in SizeUnit /\ u.type = "size" /\ u.n = n /\ u.i = 0 /\ u.size = Size[f]
    BY <1>3, <1>4 DEF SizeUnit
  <1>6. /\ sent' \in Seq(Frames) /\ Len(sent') = n /\ sent'[n] = f
        /\ \A k \in 1..Len(sent) : sent'[k] = sent[k]
    BY <1>1, <1>2, AppendProperties, LenProperties
  <1> HIDE DEF u
  <1>7. u \in Unit
    BY <1>5 DEF Unit
  <1>8. stream' \in Seq(Unit)
    BY <1>1, <1>2, <1>7, AppendProperties, LenProperties
  <1>9. PlaceOf(u) = NextWritten
    BY <1>1, <1>5 DEF PlaceOf, NextWritten
  <1>10. TypeOK'
    <2>1. left' \in 0..(SizeMod - 1) /\ writer' \in {"idle", "body", "broken"}
      BY <1>1, <1>3
    <2>2. Len(sent') <= MaxSent
      BY <1>4, <1>6
    <2> QED
      BY <1>1, <1>6, <1>8, <2>1, <2>2 DEF TypeOK, FlowInv, Unit
  <1>11. WriterInv'
    <2>1. sent' # <<>>
      BY <1>1, <1>2, SMTT(20)
    <2>2. left' <= Size[sent'[Len(sent')]]
      BY <1>1, <1>3, <1>6
    <2> QED
      BY <1>1, <1>3, <2>1, <2>2, SMTT(20) DEF WriterInv
  <1>12. Chain(sent', stream')
    <2>1. /\ Chain(sent', stream)
          /\ \A k \in 1..Len(stream) : After(sent', stream[k]) = After(sent, stream[k])
      BY <1>1, <1>2, ChainGrows DEF FlowInv
    <2>2. OfFrame(sent', u)
      BY <1>2, <1>5, <1>6 DEF OfFrame
    <2>3. stream # <<>> => PlaceOf(u) = After(sent', stream[Len(stream)])
      <3>1. stream # <<>> => Len(stream) \in 1..Len(stream)
        <4>1. stream # <<>> => Len(stream) \in Nat /\ 1 \in 1..Len(stream)
          BY <1>2, HeadTailProperties, LenProperties
        <4> QED
          BY <4>1
      <3>2. stream # <<>> => NextWritten = After(sent, stream[Len(stream)])
        BY <1>1 DEF FlowInv, EndsInv
      <3> QED
        BY <1>9, <2>1, <3>1, <3>2
    <2> QED
      BY <1>1, <1>2, <1>6, <1>7, <2>1, <2>2, <2>3, ChainAppend
  <1>13. EndsInv'
    <2>1. NextRead' = NextRead
      BY <1>1 DEF NextRead
    <2>2. NextWritten' = After(sent', u)
      BY <1>1, <1>2, <1>3, <1>5, <1>6 DEF NextWritten, After
    <2> QED
      BY <1>1, <1>7, <1>9, <2>1, <2>2, WriteEnds
  <1>14. ReaderInv'
    <2>1. /\ Len(received) <= Len(sent)
          /\ \A i \in 1..Len(received) : received[i] = sent[i]
          /\ reader = "body" =>
               /\ Len(received) < Len(sent)
               /\ want + Len(buf) = Size[sent[Len(received) + 1]]
               /\ \A i \in 1..Len(buf) : buf[i].n = Len(received) + 1 /\ buf[i].i = i
      BY DEF FlowInv, ReaderInv
    <2>2. \A i \in 1..Len(received) : received[i] = sent'[i]
      BY <1>2, <1>6, <2>1
    <2>3. reader = "body" => sent'[Len(received) + 1] = sent[Len(received) + 1]
      BY <1>2, <1>6, <2>1
    <2>4. /\ Len(received) <= Len(sent')
          /\ reader = "body" => Len(received) < Len(sent')
      BY <1>2, <1>6, <2>1
    <2> QED
      BY <1>1, <2>1, <2>2, <2>3, <2>4 DEF ReaderInv
  <1>15. Chain(sent, stream)'
    BY <1>12 DEF Chain, OfFrame, PlaceOf, After
  <1> QED
    BY <1>10, <1>11, <1>13, <1>14, <1>15 DEF FlowInv

\* Writing a byte of it.
LEMMA WriteBytesKeeps ==
  ASSUME FlowInv, WriteBytes
  PROVE  FlowInv'
  <1> DEFINE n == Len(sent)
             i == Size[sent[n]] - left + 1
             u == [type |-> "byte", n |-> n, i |-> i]
  <1>1. /\ writer = "body" /\ left > 0 /\ sent # <<>> /\ left <= Size[sent[n]]
        /\ sent' = sent /\ stream' = Append(stream, u) /\ left' = left - 1
        /\ writer' = IF left = 1 THEN "idle" ELSE "body"
        /\ reader' = reader /\ want' = want /\ buf' = buf /\ received' = received
    BY DEF WriteBytes, readerVars, FlowInv, WriterInv
  <1>2. /\ sent \in Seq(Frames) /\ n \in Nat /\ n <= MaxSent /\ stream \in Seq(Unit)
        /\ left \in Nat
    BY FlowTypes
  <1>3. n >= 1 /\ sent[n] \in Frames
    <2>1. 1 \in 1..n
      BY <1>1, <1>2, HeadTailProperties, LenProperties
    <2> QED
      BY <1>2, <2>1
  <1>4. Size[sent[n]] \in Nat /\ Size[sent[n]] <= SizeMod - 1 /\ SizeMod \in Nat /\ MaxSent \in Nat
    BY <1>3, SizesFit
  <1>5. n \in 1..MaxSent /\ i \in 1..(SizeMod - 1) /\ i \in Nat /\ i <= Size[sent[n]]
    <2>1. \A z \in Nat : left <= z => z - left + 1 \in Nat /\ 1 <= z - left + 1 /\ z - left + 1 <= z
      BY <1>1, <1>2
    <2>2. i \in Nat /\ 1 <= i /\ i <= Size[sent[n]]
      BY <1>1, <1>4, <2>1
    <2> HIDE DEF i
    <2>3. i \in 1..(SizeMod - 1)
      BY <1>4, <2>2
    <2>4. n \in 1..MaxSent
      BY <1>2, <1>3, <1>4
    <2> QED
      BY <2>2, <2>3, <2>4
  <1>6. u \in ByteUnit /\ u.type = "byte" /\ u.n = n /\ u.i = i
    BY <1>5 DEF ByteUnit
  <1> HIDE DEF u
  <1>7. u \in Unit
    BY <1>6 DEF Unit
  <1>8. stream' \in Seq(Unit)
    BY <1>1, <1>2, <1>7, AppendProperties, LenProperties
  <1>9. PlaceOf(u) = NextWritten
    BY <1>1, <1>6 DEF PlaceOf, NextWritten
  <1>10. TypeOK'
    <2>1. left' \in 0..(SizeMod - 1) /\ writer' \in {"idle", "body", "broken"}
      BY <1>1, <1>2, <1>4
    <2> QED
      BY <1>1, <1>8, <2>1 DEF TypeOK, FlowInv, Unit
  <1>11. WriterInv'
    <2>1. left' <= Size[sent[n]] /\ (left = 1 => left' = 0) /\ (left # 1 => left' > 0)
      BY <1>1, <1>2, <1>4
    <2> QED
      BY <1>1, <2>1 DEF WriterInv
  <1>12. Chain(sent', stream')
    <2>1. OfFrame(sent, u)
      BY <1>2, <1>6 DEF OfFrame
    <2>2. stream # <<>> => PlaceOf(u) = After(sent, stream[Len(stream)])
      BY <1>1, <1>9 DEF FlowInv, EndsInv
    <2>3. Chain(sent, Append(stream, u))
      BY <1>2, <1>7, <2>1, <2>2, ChainAppend DEF FlowInv
    <2> QED
      BY <1>1, <2>3
  <1>13. EndsInv'
    <2>1. NextRead' = NextRead
      BY <1>1 DEF NextRead
    <2>2. NextWritten' = After(sent', u)
      <3>1. CASE left = 1
        <4>1. left' = 0 /\ ~(u.i < Size[sent'[u.n]])
          BY <1>1, <1>4, <1>6, <3>1
        <4> QED
          BY <1>1, <1>6, <4>1 DEF NextWritten, After
      <3>2. CASE left # 1
        <4>1. left' > 0 /\ u.i < Size[sent'[u.n]]
          BY <1>1, <1>2, <1>4, <1>6, <3>2
        <4>2. Size[sent'[Len(sent')]] - left' + 1 = u.i + 1
          BY <1>1, <1>2, <1>4, <1>6
        <4> QED
          BY <1>1, <1>6, <4>1, <4>2 DEF NextWritten, After
      <3> QED
        BY <3>1, <3>2
    <2> QED
      BY <1>1, <1>7, <1>9, <2>1, <2>2, WriteEnds
  <1>14. ReaderInv'
    BY <1>1 DEF FlowInv, ReaderInv
  <1>15. Chain(sent, stream)'
    BY <1>12 DEF Chain, OfFrame, PlaceOf, After
  <1> QED
    BY <1>10, <1>11, <1>13, <1>14, <1>15 DEF FlowInv

\* The stream breaks and its end is lost.
LEMMA BreakKeeps ==
  ASSUME FlowInv, Break
  PROVE  FlowInv'
  <1>1. PICK m \in 0..Len(stream) : stream' = SubSeq(stream, 1, m)
    BY DEF Break
  <1>2. /\ writer # "broken" /\ writer' = "broken" /\ sent' = sent /\ left' = left
        /\ reader' = reader /\ want' = want /\ buf' = buf /\ received' = received
    BY DEF Break, readerVars
  <1>3. sent \in Seq(Frames) /\ stream \in Seq(Unit)
    BY FlowTypes
  <1>4. /\ stream' \in Seq(Unit) /\ Chain(sent', stream')
        /\ stream' # <<>> => stream # <<>> /\ stream'[1] = stream[1]
    BY <1>1, <1>2, <1>3, ChainCut DEF FlowInv
  <1>5. TypeOK'
    BY <1>2, <1>4 DEF TypeOK, FlowInv, Unit
  <1>6. WriterInv'
    BY <1>2 DEF WriterInv, FlowInv
  <1>7. EndsInv'
    <2>1. NextRead' = NextRead /\ reader # "broken"
      BY <1>2 DEF NextRead, FlowInv, EndsInv
    <2>2. stream' # <<>> => PlaceOf(stream'[1]) = NextRead'
      BY <1>4, <2>1 DEF FlowInv, EndsInv
    <2> QED
      BY <1>2, <2>1, <2>2 DEF EndsInv, PlaceOf
  <1>8. ReaderInv'
    BY <1>2 DEF FlowInv, ReaderInv
  <1>9. Chain(sent, stream)'
    BY <1>4 DEF Chain, OfFrame, PlaceOf, After
  <1> QED
    BY <1>5, <1>6, <1>7, <1>8, <1>9 DEF FlowInv

\* Taking the unit it is before leaves the reader before the next one.
LEMMA ReadEnds ==
  ASSUME FlowInv, stream # <<>>, stream' = Tail(stream), UNCHANGED <<sent, left, writer>>,
         reader' = "body", NextRead' = After(sent, Head(stream))
  PROVE  stream' \in Seq(Unit) /\ WriterInv' /\ EndsInv' /\ Chain(sent, stream)'
  <1>1. sent \in Seq(Frames) /\ stream \in Seq(Unit)
    BY FlowTypes
  <1>2. /\ Chain(sent, stream') /\ Head(stream) = stream[1]
        /\ stream' = <<>> => Len(stream) = 1
        /\ stream' # <<>> => /\ PlaceOf(stream'[1]) = After(sent, Head(stream))
                             /\ stream'[Len(stream')] = stream[Len(stream)]
    BY <1>1, ChainTail DEF FlowInv
  <1>3. Chain(sent, stream)'
    BY <1>2 DEF Chain, OfFrame, PlaceOf, After
  <1>4. NextWritten' = NextWritten
    BY DEF NextWritten
  <1>5. writer # "broken" => NextWritten = After(sent, stream[Len(stream)])
    BY DEF FlowInv, EndsInv
  <1>6. writer # "broken" =>
          NextWritten' = IF stream' = <<>> THEN NextRead' ELSE After(sent, stream'[Len(stream')])
    BY <1>2, <1>4, <1>5
  <1>7. EndsInv'
    BY <1>2, <1>6 DEF EndsInv, PlaceOf, After
  <1>8. stream' \in Seq(Unit)
    BY <1>1, HeadTailProperties, LenProperties
  <1>9. WriterInv'
    BY DEF WriterInv, FlowInv
  <1> QED
    BY <1>3, <1>7, <1>8, <1>9

\* The unit the reader is before: it is a size if the reader expects one, and a
\* byte of the frame it is at if it does not.
LEMMA HeadFits ==
  ASSUME FlowInv, stream # <<>>
  PROVE  /\ Head(stream) \in Unit /\ OfFrame(sent, Head(stream))
         /\ PlaceOf(Head(stream)) = NextRead
         /\ Head(stream).type =
              IF reader = "size" \/ (reader = "body" /\ want = 0) THEN "size" ELSE "byte"
  <1>1. sent \in Seq(Frames) /\ stream \in Seq(Unit) /\ want \in Nat /\ Len(buf) \in Nat
    BY FlowTypes
  <1>2. Head(stream) \in Unit /\ Head(stream) = stream[1] /\ OfFrame(sent, Head(stream))
    BY <1>1, HeadTailProperties, LenProperties, ChainTail DEF FlowInv
  <1>3. PlaceOf(Head(stream)) = NextRead /\ reader \in {"size", "body"}
    BY <1>2 DEF FlowInv, EndsInv, TypeOK
  <1>4. /\ Head(stream).type = "size" \/ Head(stream).type = "byte"
        /\ Head(stream).type = "size" <=> Head(stream).i = 0
    BY <1>2, UnitTypes
  <1>5. CASE reader = "size" \/ (reader = "body" /\ want = 0)
    <2>1. Head(stream).i = 0
      BY <1>3, <1>5 DEF PlaceOf, NextRead
    <2> QED
      BY <1>2, <1>3, <1>4, <1>5, <2>1
  <1>6. CASE reader = "body" /\ want # 0
    <2>1. Head(stream).i = Len(buf) + 1
      BY <1>1, <1>3, <1>6 DEF PlaceOf, NextRead
    <2>2. Head(stream).i # 0
      BY <1>1, <2>1
    <2> QED
      BY <1>2, <1>3, <1>4, <1>6, <2>2
  <1> QED
    BY <1>3, <1>5, <1>6

\* Reading a size.
LEMMA ReadSizeKeeps ==
  ASSUME FlowInv, ReadSize
  PROVE  FlowInv'
  <1> DEFINE u == Head(stream)
             r == Len(received) + 1
  <1>1. /\ reader = "size" /\ stream # <<>> /\ u.type = "size"
        /\ stream' = Tail(stream) /\ want' = u.size /\ buf' = <<>> /\ reader' = "body"
        /\ UNCHANGED <<sent, left, writer>> /\ received' = received
    BY DEF ReadSize, writerVars
  <1>2. Len(sent) \in Nat /\ Len(received) \in Nat
    BY FlowTypes
  <1>3. /\ u \in Unit /\ PlaceOf(u) = <<r, 0>> /\ OfFrame(sent, u)
    BY <1>1, HeadFits DEF NextRead
  <1>4. u.n = r /\ u.i = 0 /\ u.size = Size[sent[r]] /\ r <= Len(sent)
    BY <1>1, <1>3 DEF PlaceOf, OfFrame
  <1>5. want' \in 0..(SizeMod - 1) /\ want' \in Nat
    <2>1. u.size \in 0..(SizeMod - 1)
      BY <1>1, <1>3, UnitTypes
    <2> QED
      BY <1>1, <2>1, SizesFit
  <1>6. Len(buf') = 0 /\ buf' \in Seq(ByteUnit)
    BY <1>1
  <1> HIDE DEF u
  <1>7. NextRead' = After(sent, u)
    <2>1. CASE want' > 0
      <3>1. NextRead' = <<r, 1>>
        BY <1>1, <1>6, <2>1 DEF NextRead
      <3> QED
        BY <1>1, <1>4, <2>1, <3>1 DEF After
    <2>2. CASE want' = 0
      <3>1. NextRead' = <<Len(received) + 2, 0>>
        BY <1>1, <2>2 DEF NextRead
      <3>2. r + 1 = Len(received) + 2
        BY <1>2
      <3> QED
        BY <1>1, <1>4, <2>2, <3>1, <3>2 DEF After
    <2> QED
      BY <1>5, <2>1, <2>2
  <1>8. stream' \in Seq(Unit) /\ WriterInv' /\ EndsInv' /\ Chain(sent, stream)'
    BY <1>1, <1>7, ReadEnds DEF u
  <1>9. TypeOK'
    BY <1>1, <1>5, <1>6, <1>8 DEF TypeOK, FlowInv, Unit
  <1>10. ReaderInv'
    <2>1. /\ Len(received) <= Len(sent)
          /\ \A i \in 1..Len(received) : received[i] = sent[i]
      BY DEF FlowInv, ReaderInv
    <2>2. Len(received) < Len(sent)
      BY <1>2, <1>4
    <2>3. want' + Len(buf') = Size[sent[r]]
      BY <1>1, <1>4, <1>5, <1>6
    <2> QED
      BY <1>1, <1>6, <2>1, <2>2, <2>3 DEF ReaderInv
  <1> QED
    BY <1>8, <1>9, <1>10 DEF FlowInv

\* Reading a byte.
LEMMA ReadBytesKeeps ==
  ASSUME FlowInv, ReadBytes
  PROVE  FlowInv'
  <1> DEFINE u == Head(stream)
             r == Len(received) + 1
  <1>1. /\ reader = "body" /\ want > 0 /\ stream # <<>> /\ u.type = "byte"
        /\ stream' = Tail(stream) /\ want' = want - 1 /\ buf' = Append(buf, u)
        /\ UNCHANGED <<sent, left, writer>> /\ received' = received /\ reader' = "body"
    BY DEF ReadBytes, writerVars
  <1>2. /\ Len(sent) \in Nat /\ Len(received) \in Nat /\ Len(buf) \in Nat /\ want \in Nat
        /\ buf \in Seq(ByteUnit)
    BY FlowTypes
  <1>3. u \in Unit /\ PlaceOf(u) = <<r, Len(buf) + 1>>
    BY <1>1, HeadFits DEF NextRead
  <1>4. u.n = r /\ u.i = Len(buf) + 1 /\ u \in ByteUnit
    BY <1>1, <1>3, UnitTypes DEF PlaceOf
  <1>5. want' \in 0..(SizeMod - 1) /\ want' \in Nat
    <2>1. want \in 0..(SizeMod - 1)
      BY DEF FlowInv, TypeOK
    <2> QED
      BY <1>1, <1>2, <2>1, SizesFit
  <1> HIDE DEF u
  <1>6. /\ buf' \in Seq(ByteUnit) /\ Len(buf') = Len(buf) + 1 /\ buf'[Len(buf) + 1] = u
        /\ \A i \in 1..Len(buf) : buf'[i] = buf[i]
    BY <1>1, <1>2, <1>4, AppendProperties, LenProperties
  <1>7. /\ Len(received) < Len(sent) /\ want + Len(buf) = Size[sent[r]]
        /\ \A i \in 1..Len(buf) : buf[i].n = r /\ buf[i].i = i
        /\ Len(received) <= Len(sent)
        /\ \A i \in 1..Len(received) : received[i] = sent[i]
    BY <1>1 DEF FlowInv, ReaderInv
  <1>8. want' + Len(buf') = Size[sent[r]]
    BY <1>1, <1>2, <1>6, <1>7
  <1>9. NextRead' = After(sent, u)
    <2>1. CASE want' > 0
      <3>1. NextRead' = <<r, Len(buf) + 2>>
        <4>1. Len(buf') + 1 = Len(buf) + 2
          BY <1>2, <1>6
        <4> QED
          BY <1>1, <2>1, <4>1 DEF NextRead
      <3>2. Len(buf) + 1 < Size[sent[r]] /\ (Len(buf) + 1) + 1 = Len(buf) + 2
        BY <1>1, <1>2, <1>6, <1>8, <2>1
      <3> QED
        BY <1>4, <3>1, <3>2 DEF After
    <2>2. CASE want' = 0
      <3>1. NextRead' = <<Len(received) + 2, 0>>
        BY <1>1, <2>2 DEF NextRead
      <3>2. r + 1 = Len(received) + 2 /\ ~(Len(buf) + 1 < Size[sent[r]])
        BY <1>2, <1>6, <1>8, <2>2
      <3> QED
        BY <1>4, <3>1, <3>2 DEF After
    <2> QED
      BY <1>5, <2>1, <2>2
  <1>10. stream' \in Seq(Unit) /\ WriterInv' /\ EndsInv' /\ Chain(sent, stream)'
    BY <1>1, <1>9, ReadEnds DEF u
  <1>11. TypeOK'
    BY <1>1, <1>5, <1>6, <1>10 DEF TypeOK, FlowInv, Unit
  <1>12. ReaderInv'
    <2>1. ASSUME NEW i \in 1..Len(buf') PROVE buf'[i].n = r /\ buf'[i].i = i
      <3>1. CASE i = Len(buf) + 1
        BY <1>4, <1>6, <3>1
      <3>2. CASE i \in 1..Len(buf)
        BY <1>6, <1>7, <3>2
      <3> QED
        BY <1>2, <1>6, <3>1, <3>2
    <2> QED
      BY <1>1, <1>7, <1>8, <2>1 DEF ReaderInv
  <1> QED
    BY <1>10, <1>11, <1>12 DEF FlowInv

\* A body that is complete is decoded as the frame it was written from.
LEMMA DecodesNext ==
  ASSUME FlowInv, reader = "body", want = 0, NEW f \in Frames, Decodes(f)
  PROVE  Len(received) < Len(sent) /\ f = sent[Len(received) + 1]
  <1> DEFINE r == Len(received) + 1
  <1>1. /\ Len(sent) \in Nat /\ Len(received) \in Nat /\ Len(buf) \in Nat
        /\ sent \in Seq(Frames)
    BY FlowTypes
  <1>2. /\ Len(received) < Len(sent) /\ want + Len(buf) = Size[sent[r]]
        /\ \A i \in 1..Len(buf) : buf[i].n = r
    BY DEF FlowInv, ReaderInv
  <1>3. sent[r] \in Frames
    BY <1>1, <1>2
  <1>4. Len(buf) = Size[sent[r]] /\ Len(buf) = Size[f]
    BY <1>1, <1>2, <1>3, SizesFit DEF Decodes
  <1>5. CASE Len(buf) = 0
    BY <1>2, <1>3, <1>4, <1>5, SizeAssumption
  <1>6. CASE Len(buf) > 0
    <2>1. 1 \in 1..Len(buf)
      BY <1>1, <1>6
    <2>2. buf[1].n = r /\ sent[buf[1].n] = f
      BY <1>2, <2>1 DEF Decodes
    <2> QED
      BY <1>2, <2>2
  <1> QED
    BY <1>1, <1>5, <1>6

\* Delivering the frame.
LEMMA ReadDoneKeeps ==
  ASSUME FlowInv, ReadDone
  PROVE  FlowInv'
  <1> DEFINE r == Len(received) + 1
  <1>1. PICK f \in Frames : Decodes(f) /\ received' = Append(received, f)
    BY DEF ReadDone
  <1>2. /\ reader = "body" /\ want = 0 /\ reader' = "size"
        /\ UNCHANGED <<sent, left, writer, stream, want, buf>>
    BY DEF ReadDone, writerVars
  <1>3. /\ Len(sent) \in Nat /\ Len(received) \in Nat /\ received \in Seq(Frames)
    BY FlowTypes
  <1>4. Len(received) < Len(sent) /\ f = sent[r]
    BY <1>1, <1>2, DecodesNext
  <1>5. /\ received' \in Seq(Frames) /\ Len(received') = r /\ received'[r] = f
        /\ \A i \in 1..Len(received) : received'[i] = received[i]
    BY <1>1, <1>3, AppendProperties, LenProperties
  <1>6. TypeOK'
    BY <1>2, <1>5 DEF TypeOK, FlowInv
  <1>7. WriterInv'
    BY <1>2 DEF WriterInv, FlowInv
  <1>8. NextRead' = NextRead
    <2>1. Len(received') + 1 = Len(received) + 2
      BY <1>3, <1>5
    <2> QED
      BY <1>2, <2>1 DEF NextRead
  <1>9. EndsInv'
    <2>1. NextWritten' = NextWritten
      BY <1>2 DEF NextWritten
    <2> QED
      BY <1>2, <1>8, <2>1 DEF EndsInv, PlaceOf, After, FlowInv
  <1>10. ReaderInv'
    <2>1. \A i \in 1..Len(received) : received[i] = sent[i]
      BY DEF FlowInv, ReaderInv
    <2>2. ASSUME NEW i \in 1..Len(received') PROVE received'[i] = sent[i]
      <3>1. CASE i = r
        BY <1>4, <1>5, <3>1
      <3>2. CASE i \in 1..Len(received)
        BY <1>5, <2>1, <3>2
      <3> QED
        BY <1>3, <1>5, <3>1, <3>2
    <2>3. Len(received') <= Len(sent)
      BY <1>3, <1>4, <1>5
    <2> QED
      BY <1>2, <2>2, <2>3 DEF ReaderInv
  <1>11. Chain(sent, stream)'
    BY <1>2 DEF FlowInv, Chain, OfFrame, PlaceOf, After
  <1> QED
    BY <1>6, <1>7, <1>9, <1>10, <1>11 DEF FlowInv

\* The end of the stream.
LEMMA ReadFailsKeeps ==
  ASSUME FlowInv, ReadFails
  PROVE  FlowInv'
  <1>1. /\ writer = "broken" /\ stream = <<>> /\ reader' = "broken"
        /\ UNCHANGED <<sent, left, writer, stream, want, buf, received>>
    BY DEF ReadFails, writerVars
  <1>2. TypeOK' /\ WriterInv' /\ EndsInv' /\ ReaderInv'
    BY <1>1 DEF FlowInv, TypeOK, WriterInv, EndsInv, ReaderInv
  <1>3. Chain(sent, stream)'
    BY <1>1 DEF FlowInv, Chain, OfFrame, PlaceOf, After
  <1> QED
    BY <1>2, <1>3 DEF FlowInv

-----------------------------------------------------------------------------
\* Every state reachable satisfies the invariant, wherever the stream is cut
\* and wherever it breaks.
THEOREM FlowInvariant == Spec => []FlowInv
  <1>1. ASSUME FlowInv, UNCHANGED vars PROVE FlowInv'
    <2>1. UNCHANGED <<sent, left, writer, stream, reader, want, buf, received>>
      BY <1>1 DEF vars, writerVars, readerVars
    <2>2. TypeOK' /\ WriterInv' /\ ReaderInv'
      BY <1>1, <2>1 DEF FlowInv, TypeOK, WriterInv, ReaderInv
    <2>3. EndsInv' /\ Chain(sent, stream)'
      BY <1>1, <2>1 DEF FlowInv, EndsInv, NextRead, NextWritten, Chain, OfFrame, PlaceOf, After
    <2> QED
      BY <2>2, <2>3 DEF FlowInv
  <1>2. FlowInv /\ [Next]_vars => FlowInv'
    BY <1>1, WriteSizeKeeps, WriteBytesKeeps, BreakKeeps, ReadSizeKeeps, ReadBytesKeeps,
       ReadDoneKeeps, ReadFailsKeeps
    DEF Next, Writing, Reading
  <1> QED
    BY InitFlowInv, <1>2, PTL DEF Spec

\* The reader takes no byte of a body for a size and no size for a byte
\* (StreamInv: PrimitiveFrameReader::read, PrimitiveFrameWriter::write).
THEOREM StreamCorrect == Spec => []StreamInv
  <1>1. FlowInv => StreamInv
    BY HeadFits DEF FlowInv, StreamInv, InStep
  <1> QED
    BY FlowInvariant, <1>1, PTL

\* The frames read are the frames written, in order, each once and whole: a
\* stream implements the channel that Connection and the portals rely on.
THEOREM ImplementsChannel == Spec => ChannelSpec
  <1>1. Init => Channel!Init
    BY DEF Init, Channel!Init
  <1>2. FlowInv /\ [Next]_vars => [Channel!Next]_(Channel!vars)
    <2> SUFFICES ASSUME FlowInv, [Next]_vars PROVE [Channel!Next]_(Channel!vars)
      OBVIOUS
    <2> USE DEF Channel!Next, Channel!vars
    <2>1. ASSUME NEW f \in Frames, WriteSize(f) PROVE Channel!Write(f)
      BY <2>1 DEF WriteSize, readerVars, Channel!Write
    <2>2. CASE ReadDone
      <3>1. PICK f \in Frames : Decodes(f) /\ received' = Append(received, f)
        BY <2>2 DEF ReadDone
      <3>2. reader = "body" /\ want = 0 /\ sent' = sent
        BY <2>2 DEF ReadDone, writerVars
      <3>3. Len(received) < Len(sent) /\ f = sent[Len(received) + 1]
        BY <3>1, <3>2, DecodesNext
      <3> QED
        BY <3>1, <3>2, <3>3 DEF Channel!Read
    <2>3. CASE WriteBytes \/ Break \/ ReadSize \/ ReadBytes \/ ReadFails \/ UNCHANGED vars
      BY <2>3 DEF WriteBytes, Break, ReadSize, ReadBytes, ReadFails, vars, writerVars, readerVars
    <2> QED
      BY <2>1, <2>2, <2>3 DEF Next, Writing, Reading
  <1> QED
    BY <1>1, <1>2, FlowInvariant, PTL DEF Spec, ChannelSpec, Channel!Spec
=============================================================================
