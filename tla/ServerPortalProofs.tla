------------------------- MODULE ServerPortalProofs -------------------------
(***************************************************************************)
(* What TLAPS proves of ServerPortal, for any frames of the far end, any   *)
(* exchanges, any capacity of each channel and any bounds.                 *)
(***************************************************************************)
EXTENDS ServerPortal, SequenceTheorems, TLAPS

\* A bounded channel after a send that may have found no room.
LEMMA OfferKeeps ==
  ASSUME NEW S, NEW q \in Seq(S), NEW x \in S, NEW cap \in Nat, Len(q) <= cap,
         NEW r, r = q \/ (r = Append(q, x) /\ Len(q) < cap)
  PROVE  r \in Seq(S) /\ Len(r) <= cap
  <1>1. CASE r = q
    BY <1>1
  <1>2. CASE r = Append(q, x) /\ Len(q) < cap
    BY <1>2, AppendProperties, LenProperties
  <1> QED
    BY <1>1, <1>2

\* A queue of one.
LEMMA OneKeeps ==
  ASSUME NEW S, NEW x \in S
  PROVE  <<x>> \in Seq(S) /\ Len(<<x>>) = 1 /\ <<x>>[1] = x
  OBVIOUS

\* A queue with no room for two that is not empty.
LEMMA OnlyOne ==
  ASSUME NEW S, NEW q \in Seq(S), q # <<>>, Len(q) <= 1
  PROVE  Len(q) = 1 /\ q[1] \in S
  <1>1. q[1] \in S /\ Len(q) \in Nat /\ Len(q) >= 1
    OBVIOUS
  <1>2. \A n \in Nat : n >= 1 /\ n <= 1 => n = 1
    OBVIOUS
  <1>3. Len(q) = 1
    BY <1>1, <1>2, Zenon
  <1> QED
    BY <1>1, <1>3, Zenon

\* Frames the pump has taken from the inlet, and frames it has passed on.
Taken == accepted - Len(inlet)
Passed == Taken - Len(hand)

FrameIn(call) == call.call = "FrameIn"

\* The inlet has accepted every frame read, but for the one that ended the
\* reader; it and the pump hold the last of them, in order.
ReadInv ==
  /\ \/ accepted = Len(wire)
     \/ reader = "ended" /\ accepted + 1 = Len(wire)
  /\ \A k \in 1..Len(inlet) : inlet[k] = Taken + k
  /\ \A k \in 1..Len(hand) : hand[k] = Taken
  /\ seen <= Passed

\* The calls in q hold only frames after the lo-th and up to the hi-th, in
\* order, and all of these.
Between(q, lo, hi) ==
  \A k \in 1..Len(q) : FrameIn(q[k]) => q[k].n \in (lo + 1)..hi
Ascending(q) ==
  \A j, k \in 1..Len(q) : j < k /\ FrameIn(q[j]) /\ FrameIn(q[k]) => q[j].n < q[k].n
Complete(q, lo, hi) ==
  \A n \in (lo + 1)..hi : \E k \in 1..Len(q) : FrameIn(q[k]) /\ q[k].n = n

\* The calls hold the frames between those and the ones the task has received,
\* in order, and all of them while the task runs.
CallInv ==
  /\ Between(calls, seen, Passed)
  /\ Ascending(calls)
  /\ ~TaskOver => Complete(calls, seen, Passed)

Ordered(x, y) == x.n < y.n \/ (x.n = y.n /\ x.i < y.i)
Routed(x) == x.chan = "mux"

\* The sends in q come from the first hi frames; they are in order; those of q
\* come before those of r.
Below(q, hi) == \A k \in 1..Len(q) : Routed(q[k]) => q[k].n <= hi
InTurn(q) ==
  \A j, k \in 1..Len(q) : j < k /\ Routed(q[j]) /\ Routed(q[k]) => Ordered(q[j], q[k])
Before(q, r) ==
  \A j \in 1..Len(q), k \in 1..Len(r) : Routed(q[j]) /\ Routed(r[k]) => Ordered(q[j], r[k])

\* What the task has sent to the muxer, and has still to send, comes from
\* frames it has received, in order.
SentInv ==
  /\ Below(mux, seen) /\ Below(todo, seen)
  /\ InTurn(mux) /\ InTurn(todo)
  /\ Before(mux, todo)

\* A task that is over has dropped what it held; one that has not begun has
\* taken nothing yet.
OverInv ==
  /\ TaskOver => calls = <<>>
  /\ task # "running" => todo = <<>> /\ exchanges = {}

ExchangeOf(e) == [call |-> "Exchange", id |-> e]

\* The sender of exchange e is among the calls in q; it is there at most once.
Queued(q, e) == \E i \in 1..Len(q) : q[i] = ExchangeOf(e)
Once(q, e) == \A j, k \in 1..Len(q) : q[j] = ExchangeOf(e) /\ q[k] = ExchangeOf(e) => j = k

\* The sender of an exchange is in one place, among the calls or in the table,
\* exactly while its caller has no answer: ExchangePending, and that the place
\* is one.
SenderOf(e) ==
  /\ exch[e] = "waiting" => e \in exchanges \/ Queued(calls, e) \/ TaskOver
  /\ exch[e] \in {"idle", "answered", "failed"} => e \notin exchanges /\ ~Queued(calls, e)
  /\ Queued(calls, e) => e \notin exchanges
  /\ Once(calls, e)

SenderInv == \A e \in Exchanges : SenderOf(e)

\* The inductive invariant (reader, pump, portal task and owner).
PortalInv ==
  TypeOK /\ ReadInv /\ CallInv /\ SentInv /\ OverInv /\ SenderInv /\ OnlyOwnerAheadOfInit

-----------------------------------------------------------------------------
\* The invariant holds of a new portal.
LEMMA InitPortalInv == Init => PortalInv
  BY ConstantsAssumption
  DEF Init, PortalInv, TypeOK, ReadInv, Taken, Passed, CallInv, SentInv, OverInv, TaskOver,
      Between, Ascending, Complete,
      Below, InTurn, Before, SenderInv, SenderOf, Queued, Once, OnlyOwnerAheadOfInit

-----------------------------------------------------------------------------
\* The sends that a request asks for: typed, in the order of its recipients,
\* and all of its frame.
LEMMA SendsOfKeeps ==
  ASSUME TypeOK, NEW n \in 1..Len(wire), wire[n].type = "Request"
  PROVE  /\ SendsOf(n) \in Seq(Send)
         /\ \A k \in 1..Len(SendsOf(n)) :
              Routed(SendsOf(n)[k]) => SendsOf(n)[k].n = n /\ SendsOf(n)[k].i = k
  <1> DEFINE f == wire[n]
             toMux == [i \in DOMAIN f.to |-> [chan |-> "mux", n |-> n, i |-> i, to |-> f.to[i]]]
             error == [chan |-> "outlet", frame |-> [type |-> "Error", n |-> n]]
  <1>1. n \in 1..MaxFrames /\ f \in InletFrame
    <2>1. wire \in Seq(Frames) /\ Len(wire) <= MaxFrames
      BY DEF TypeOK
    <2>2. MaxFrames \in Nat /\ Frames \subseteq InletFrame
      BY ConstantsAssumption
    <2>3. f \in Frames
      BY <2>1
    <2> QED
      BY <2>1, <2>2, <2>3
  <1>2. f.to \in Seq(Recipients) /\ f.kind \in ExchangeKind
    BY <1>1 DEF InletFrame
  <1>3. toMux \in [1..Len(f.to) -> Send] /\ Len(f.to) \in Nat
    BY <1>1, <1>2 DEF Send
  <1>4. toMux \in Seq(Send) /\ Len(toMux) = Len(f.to)
    BY <1>3
  <1>5. \A k \in 1..Len(toMux) : toMux[k].n = n /\ toMux[k].i = k
    <2>1. \A k \in 1..Len(toMux) : k \in DOMAIN f.to
      BY <1>2, <1>4
    <2> QED
      BY <2>1
  <1>6. error \in Send
    <2>1. [type |-> "Error", n |-> n] \in OutletFrame
      BY <1>1 DEF OutletFrame
    <2> QED
      BY <2>1 DEF Send
  <1>7. <<error>> \in Seq(Send) /\ Len(<<error>>) = 1 /\ ~Routed(<<error>>[1])
    BY <1>6 DEF Routed
  <1>8. SendsOf(n) \in {<<>>, toMux, <<error>>}
    BY DEF SendsOf
  <1> HIDE DEF toMux, error, f
  <1>9. CASE SendsOf(n) = <<>>
    BY <1>9
  <1>10. CASE SendsOf(n) = toMux
    BY <1>4, <1>5, <1>10
  <1>11. CASE SendsOf(n) = <<error>>
    BY <1>7, <1>11
  <1> QED
    BY <1>8, <1>9, <1>10, <1>11

\* The capacities are numbers, and no channel is without room.
LEMMA Capacities ==
  /\ InletCap \in Nat /\ InletCap > 0 /\ CallCap \in Nat /\ CallCap > 0
  /\ MuxCap \in Nat /\ MuxCap > 0 /\ OutletCap \in Nat /\ OutletCap > 0
  /\ MaxFrames \in Nat /\ MaxOut \in Nat /\ MaxDirect \in Nat
  BY ConstantsAssumption

\* The frame at the head of the calls is the one after those received, the
\* first unseen.
LEMMA HeadIsNext ==
  ASSUME PortalInv, ~TaskOver, calls # <<>>, FrameIn(Head(calls))
  PROVE  /\ Head(calls).n = seen + 1 /\ seen + 1 \in 1..Len(wire)
         /\ seen + 1 <= Passed /\ wire[seen + 1] \in Frames
  <1>1. Head(calls) = calls[1] /\ 1 \in 1..Len(calls)
    BY HeadTailProperties, LenProperties DEF PortalInv, TypeOK
  <1>2. /\ seen \in Nat /\ Len(wire) \in Nat /\ Len(inlet) \in Nat /\ Len(hand) \in Nat
        /\ wire \in Seq(Frames)
    BY DEF PortalInv, TypeOK
  <1>3. calls[1].n \in (seen + 1)..Passed
    BY <1>1 DEF PortalInv, CallInv, Between
  <1>4. Passed \in Int /\ Passed <= Len(wire)
    <2>1. accepted \in Nat /\ accepted <= Len(wire)
      BY <1>2 DEF PortalInv, TypeOK, ReadInv
    <2> QED
      BY <1>2, <2>1 DEF Passed, Taken
  <1>5. PICK k \in 1..Len(calls) : FrameIn(calls[k]) /\ calls[k].n = seen + 1
    BY <1>2, <1>3, <1>4, SMTT(20) DEF PortalInv, CallInv, Complete
  <1>6. 1 < k => calls[1].n < calls[k].n
    BY <1>1, <1>5 DEF PortalInv, CallInv, Ascending
  <1>7. k = 1
    BY <1>2, <1>3, <1>4, <1>5, <1>6, SMTT(20)
  <1> QED
    BY <1>1, <1>2, <1>3, <1>4, <1>5, <1>7

\* What the task makes of a call: it goes on with the next, with new sends or
\* none; or it panics.
LEMMA RecvCases ==
  ASSUME PortalInv, TaskRecv
  PROVE  /\ task = "running" /\ todo = <<>> /\ calls # <<>>
         /\ UNCHANGED <<inVars, pumpVars, mux, outVars, held, made>>
         /\ \/ /\ task' = task /\ calls' = Tail(calls)
               /\ \/ /\ FrameIn(Head(calls)) /\ seen' = seen + 1
                     /\ \/ /\ wire[Head(calls).n].type = "Request"
                           /\ todo' = SendsOf(Head(calls).n)
                        \/ todo' = todo
                  \/ /\ ~FrameIn(Head(calls)) /\ seen' = seen
                     /\ \/ todo' = <<[chan |-> "outlet", frame |-> [type |-> "Out"]]>>
                        \/ todo' = todo
            \/ FrameIn(Head(calls)) /\ Over("panicked") /\ seen' = seen + 1
  BY DEF TaskRecv, Respond, FrameIn, inVars, pumpVars, outVars

-----------------------------------------------------------------------------
\* The reader, the writer and the owner keep the types.
LEMMA EnvType ==
  ASSUME PortalInv,
         \/ \E f \in Frames : ReadFrame(f)
         \/ Disconnect \/ WriteFrame \/ WriterEnds \/ TakeMux \/ MuxFrameOut
         \/ \E type \in {"Out", "Close"} : SendDirect(type)
         \/ \E e \in Exchanges : ExchangeCall(e) \/ ExchangeFails(e) \/ ExchangeDropped(e)
         \/ DropPortal
  PROVE  TypeOK'
  <1> USE Capacities DEF PortalInv, TypeOK, inVars, pumpVars, taskVars, outVars, ownerVars
  <1>1. ASSUME NEW f \in Frames, ReadFrame(f) PROVE TypeOK'
    <2>1. wire' = Append(wire, f) /\ Len(wire) + 1 \in 1..MaxFrames
      BY <1>1, SMTT(20) DEF ReadFrame
    <2>2. wire' \in Seq(Frames) /\ Len(wire') <= MaxFrames
      BY <2>1, AppendProperties, LenProperties, SMTT(30)
    <2>3. CASE Len(inlet) < InletCap /\ reader' = reader
      <3>1. inlet' = Append(inlet, Len(wire) + 1) /\ accepted' = accepted + 1
        BY <1>1, <2>3, SMTT(20) DEF ReadFrame
      <3>2. inlet' \in Seq(1..MaxFrames) /\ Len(inlet') <= InletCap
        BY <2>1, <2>3, <3>1, AppendProperties, LenProperties, SMTT(30)
      <3>3. accepted' \in 0..MaxFrames
        BY <1>1, <2>1, <3>1 DEF ReadFrame, ReadInv
      <3> QED
        BY <1>1, <2>2, <2>3, <3>2, <3>3 DEF ReadFrame
    <2>4. CASE reader' = "ended" /\ UNCHANGED <<accepted, inlet>>
      BY <1>1, <2>2, <2>4 DEF ReadFrame
    <2> QED
      BY <1>1, <2>3, <2>4 DEF ReadFrame
  <1>2. CASE Disconnect
    BY <1>2 DEF Disconnect
  <1>3. CASE WriteFrame
    <2>1. outlet' \in Seq(OutletFrame) /\ Len(outlet') <= OutletCap
      BY <1>3, HeadTailProperties, LenProperties DEF WriteFrame
    <2> QED
      BY <1>3, <2>1 DEF WriteFrame
  <1>4. CASE WriterEnds
    BY <1>4 DEF WriterEnds
  <1>5. CASE TakeMux
    <2>1. mux' \in Seq(Send \cup [chan : {"remove"}]) /\ Len(mux') <= MuxCap
      BY <1>5, HeadTailProperties, LenProperties DEF TakeMux
    <2> QED
      BY <1>5, <2>1 DEF TakeMux
  <1>6. CASE MuxFrameOut
    <2>1. [call |-> "FrameOut"] \in Call
      BY DEF Call
    <2>2. calls' \in Seq(Call) /\ Len(calls') <= CallCap
      BY <1>6, <2>1, AppendProperties, LenProperties DEF MuxFrameOut
    <2>3. made' \in [{"muxer", "direct"} -> Nat]
      BY <1>6, SMTT(30) DEF MuxFrameOut
    <2> QED
      BY <1>6, <2>2, <2>3 DEF MuxFrameOut
  <1>7. ASSUME NEW type \in {"Out", "Close"}, SendDirect(type) PROVE TypeOK'
    <2>1. [type |-> type] \in OutletFrame
      BY DEF OutletFrame
    <2>2. outlet' \in Seq(OutletFrame) /\ Len(outlet') <= OutletCap
      BY <1>7, <2>1, AppendProperties, LenProperties DEF SendDirect
    <2>3. made' \in [{"muxer", "direct"} -> Nat]
      BY <1>7, SMTT(30) DEF SendDirect
    <2> QED
      BY <1>7, <2>2, <2>3 DEF SendDirect
  <1>8. ASSUME NEW e \in Exchanges, ExchangeCall(e) PROVE TypeOK'
    <2>1. ExchangeOf(e) \in Call
      BY DEF Call, ExchangeOf
    <2>2. calls' \in Seq(Call) /\ Len(calls') <= CallCap
      <3>1. calls' = calls \/ (calls' = Append(calls, ExchangeOf(e)) /\ Len(calls) < CallCap)
        BY <1>8 DEF ExchangeCall, ExchangeOf
      <3> QED
        BY <2>1, <3>1, OfferKeeps
    <2>3. exch' \in [Exchanges -> {"idle", "waiting", "answered", "failed", "dropped"}]
      BY <1>8 DEF ExchangeCall
    <2> QED
      BY <1>8, <2>2, <2>3 DEF ExchangeCall
  <1>9. ASSUME NEW e \in Exchanges, ExchangeFails(e) \/ ExchangeDropped(e) PROVE TypeOK'
    <2>1. exch' \in [Exchanges -> {"idle", "waiting", "answered", "failed", "dropped"}]
      BY <1>9 DEF ExchangeFails, ExchangeDropped
    <2> QED
      BY <1>9, <2>1 DEF ExchangeFails, ExchangeDropped
  <1>10. CASE DropPortal
    <2>1. mux' \in Seq(Send \cup [chan : {"remove"}]) /\ Len(mux') <= MuxCap
      BY <1>10 DEF DropPortal
    <2> QED
      BY <1>10, <2>1 DEF DropPortal
  <1> QED
    BY <1>1, <1>2, <1>3, <1>4, <1>5, <1>6, <1>7, <1>8, <1>9, <1>10

\* So do the pump and the portal task.
LEMMA TaskType ==
  ASSUME PortalInv, Pump \/ Task
  PROVE  TypeOK'
  <1> USE Capacities DEF PortalInv, TypeOK, inVars, pumpVars, taskVars, outVars, ownerVars
  <1>1. CASE PumpTake
    <2>1. Head(inlet) \in 1..MaxFrames /\ Tail(inlet) \in Seq(1..MaxFrames) /\ Len(Tail(inlet)) <= InletCap
      BY <1>1, HeadTailProperties, LenProperties, SMTT(30) DEF PumpTake
    <2>2. hand' \in Seq(1..MaxFrames) /\ Len(hand') <= 1
      BY <1>1, <2>1, OneKeeps DEF PumpTake
    <2> QED
      BY <1>1, <2>1, <2>2 DEF PumpTake
  <1>2. CASE PumpSend
    <2>1. hand[1] \in 1..MaxFrames
      BY <1>2, HeadTailProperties, LenProperties, SMTT(30) DEF PumpSend
    <2>2. [call |-> "FrameIn", n |-> hand[1]] \in Call
      BY <2>1 DEF Call
    <2>3. calls' \in Seq(Call) /\ Len(calls') <= CallCap
      <3>1. \/ calls' = calls
            \/ calls' = Append(calls, [call |-> "FrameIn", n |-> hand[1]]) /\ Len(calls) < CallCap
        BY <1>2 DEF PumpSend
      <3> QED
        BY <2>2, <3>1, OfferKeeps
    <2> QED
      BY <1>2, <2>3, SMTT(30) DEF PumpSend
  <1>3. CASE PumpEnds
    BY <1>3 DEF PumpEnds
  <1>4. CASE TaskInit
    <2>1. CASE Over("ended")
      <3>1. mux' \in Seq(Send \cup [chan : {"remove"}]) /\ Len(mux') <= MuxCap
        <4>1. mux' = mux \/ (mux' = Append(mux, [chan |-> "remove"]) /\ Len(mux) < MuxCap)
          BY <1>4 DEF TaskInit
        <4>2. [chan |-> "remove"] \in Send \cup [chan : {"remove"}]
          OBVIOUS
        <4>3. CASE mux' = Append(mux, [chan |-> "remove"]) /\ Len(mux) < MuxCap
          BY <4>2, <4>3, AppendProperties, LenProperties
        <4> QED
          BY <4>1, <4>3
      <3>2. outlet' = outlet
        BY <1>4, <2>1 DEF TaskInit, Over
      <3> QED
        BY <1>4, <2>1, <3>1, <3>2 DEF TaskInit, Over
    <2>2. CASE /\ Len(outlet) < OutletCap
               /\ outlet' = Append(outlet, [type |-> "Init"])
               /\ task' = "running"
               /\ UNCHANGED <<calls, todo, exchanges, mux>>
      <3>1. [type |-> "Init"] \in OutletFrame
        BY DEF OutletFrame
      <3>2. outlet' \in Seq(OutletFrame) /\ Len(outlet') <= OutletCap
        BY <2>2, <3>1, AppendProperties, LenProperties, SMTT(30)
      <3> QED
        BY <1>4, <2>2, <3>2 DEF TaskInit
    <2> QED
      BY <1>4, <2>1, <2>2 DEF TaskInit
  <1>5. CASE TaskRecv
    <2>1. /\ Tail(calls) \in Seq(Call) /\ Len(Tail(calls)) <= CallCap
          /\ Head(calls) \in Call
      BY <1>5, HeadTailProperties, LenProperties DEF TaskRecv
    <2>2. calls' \in Seq(Call) /\ Len(calls') <= CallCap
      <3>1. calls' = Tail(calls) \/ calls' = <<>>
        BY <1>5, RecvCases DEF Over
      <3>2. CASE calls' = <<>>
        BY <3>2
      <3> QED
        BY <2>1, <3>1, <3>2
    <2>3. seen' \in 0..MaxFrames
      <3>1. seen' = seen \/ (FrameIn(Head(calls)) /\ seen' = seen + 1)
        BY <1>5, RecvCases
      <3>2. FrameIn(Head(calls)) => seen + 1 \in 1..Len(wire)
        BY <1>5, RecvCases, HeadIsNext DEF TaskOver
      <3>3. Len(wire) \in Nat /\ Len(wire) <= MaxFrames
        OBVIOUS
      <3> QED
        BY <3>1, <3>2, <3>3, SMTT(30)
    <2>4. todo' \in Seq(Send)
      <3>1. <<[chan |-> "outlet", frame |-> [type |-> "Out"]]>> \in Seq(Send)
        <4>1. [type |-> "Out"] \in OutletFrame
          BY DEF OutletFrame
        <4>2. [chan |-> "outlet", frame |-> [type |-> "Out"]] \in Send
          BY <4>1 DEF Send
        <4> QED
          BY <4>2, OneKeeps
      <3>2. wire[Head(calls).n].type = "Request" /\ FrameIn(Head(calls)) =>
              SendsOf(Head(calls).n) \in Seq(Send)
        BY <1>5, RecvCases, HeadIsNext, SendsOfKeeps DEF TaskOver
      <3> QED
        BY <1>5, <3>1, <3>2, RecvCases DEF Over
    <2>5. published' \in Seq(1..MaxFrames)
      <3>1. FrameIn(Head(calls)) => Head(calls).n \in 1..MaxFrames
        BY <2>1 DEF Call, FrameIn
      <3>2. published' = published \/ (FrameIn(Head(calls)) /\ published' = Append(published, Head(calls).n))
        BY <1>5 DEF TaskRecv, FrameIn
      <3>3. CASE FrameIn(Head(calls)) /\ published' = Append(published, Head(calls).n)
        BY <3>1, <3>3, AppendProperties, LenProperties
      <3> QED
        BY <3>2, <3>3
    <2>6. /\ exchanges' \subseteq Exchanges
          /\ exch' \in [Exchanges -> {"idle", "waiting", "answered", "failed", "dropped"}]
          /\ task' \in {"init", "running", "panicked", "ended"}
      <3>1. Head(calls).call = "Exchange" => Head(calls).id \in Exchanges
        BY <2>1 DEF Call
      <3> QED
        BY <1>5, <3>1 DEF TaskRecv, Respond, Over
    <2> QED
      BY <1>5, <2>2, <2>3, <2>4, <2>5, <2>6, RecvCases
  <1>6. CASE TaskSend
    <2>1. Head(todo) \in Send /\ todo' \in Seq(Send)
      BY <1>6, HeadTailProperties, LenProperties DEF TaskSend
    <2>2. Head(todo).chan = "outlet" => Head(todo).frame \in OutletFrame
      BY <2>1 DEF Send
    <2>3. /\ mux' \in Seq(Send \cup [chan : {"remove"}]) /\ Len(mux') <= MuxCap
          /\ outlet' \in Seq(OutletFrame) /\ Len(outlet') <= OutletCap
      <3>1. /\ mux' = mux \/ (mux' = Append(mux, Head(todo)) /\ Len(mux) < MuxCap)
            /\ \/ outlet' = outlet
               \/ /\ Head(todo).chan = "outlet"
                  /\ outlet' = Append(outlet, Head(todo).frame) /\ Len(outlet) < OutletCap
        BY <1>6 DEF TaskSend
      <3>2. mux' \in Seq(Send \cup [chan : {"remove"}]) /\ Len(mux') <= MuxCap
        <4>1. Head(todo) \in Send \cup [chan : {"remove"}]
          BY <2>1
        <4> QED
          BY <3>1, <4>1, OfferKeeps
      <3>3. outlet' \in Seq(OutletFrame) /\ Len(outlet') <= OutletCap
        BY <2>2, <3>1, OfferKeeps
      <3> QED
        BY <3>2, <3>3
    <2> QED
      BY <1>6, <2>1, <2>3 DEF TaskSend
  <1>7. CASE TaskSendFails
    <2>1. todo' \in Seq(Send)
      BY <1>7, HeadTailProperties, LenProperties DEF TaskSendFails
    <2> QED
      BY <1>7, <2>1 DEF TaskSendFails
  <1>8. CASE TaskEnds
    BY <1>8 DEF TaskEnds, Over
  <1> QED
    BY <1>1, <1>2, <1>3, <1>4, <1>5, <1>6, <1>7, <1>8 DEF Pump, Task

\* Types are preserved by every step.
LEMMA TypeStep == PortalInv /\ [Next]_vars => TypeOK'
  <1>1. PortalInv /\ UNCHANGED vars => TypeOK'
    BY DEF PortalInv, TypeOK, vars, inVars, pumpVars, taskVars, outVars, ownerVars
  <1> QED
    BY <1>1, EnvType, TaskType DEF Next

-----------------------------------------------------------------------------
\* What a step does to the frames between the stream and the task: one is
\* accepted, lost, taken, passed on or received, another call is queued, or the task ends and
\* drops its calls.
LEMMA FlowCases ==
  ASSUME PortalInv, [Next]_vars
  PROVE  \/ /\ reader = "reading"
            /\ \E f \in Frames : wire' = Append(wire, f)
            /\ inlet' = Append(inlet, Len(wire) + 1)
            /\ accepted' = accepted + 1
            /\ UNCHANGED <<hand, calls, seen, task>>
         \/ /\ reader = "reading" /\ reader' = "ended"
            /\ \E f \in Frames : wire' = Append(wire, f)
            /\ UNCHANGED <<accepted, inlet, hand, calls, seen, task>>
         \/ PumpTake
         \/ PumpSend
         \/ TaskRecv
         \/ /\ \E x \in Call : calls' = Append(calls, x) /\ ~FrameIn(x)
            /\ ~TaskOver
            /\ UNCHANGED <<reader, wire, accepted, inlet, hand, seen, task>>
         \/ /\ calls' = <<>> /\ TaskOver'
            /\ UNCHANGED <<reader, wire, accepted, inlet, hand, seen>>
         \/ /\ UNCHANGED <<wire, accepted, inlet, hand, seen, calls>>
            /\ reader' = reader \/ reader' = "ended"
            /\ TaskOver' <=> TaskOver
  <1> USE DEF inVars, pumpVars, taskVars, outVars, ownerVars, TaskOver
  <1>1. [call |-> "FrameOut"] \in Call /\ ~FrameIn([call |-> "FrameOut"])
    BY DEF Call, FrameIn
  <1>2. \A e \in Exchanges : ExchangeOf(e) \in Call /\ ~FrameIn(ExchangeOf(e))
    BY DEF Call, FrameIn, ExchangeOf
  <1>3. ASSUME NEW f \in Frames, ReadFrame(f)
        PROVE  /\ reader = "reading"
               /\ wire' = Append(wire, f)
               /\ UNCHANGED <<hand, calls, seen, task>>
               /\ \/ inlet' = Append(inlet, Len(wire) + 1) /\ accepted' = accepted + 1
                  \/ reader' = "ended" /\ UNCHANGED <<accepted, inlet>>
    BY <1>3 DEF ReadFrame
  <1>4. CASE MuxFrameOut
    BY <1>1, <1>4 DEF MuxFrameOut
  <1>5. ASSUME NEW e \in Exchanges, ExchangeCall(e)
        PROVE  \/ /\ \E x \in Call : calls' = Append(calls, x) /\ ~FrameIn(x)
                  /\ ~TaskOver
                  /\ UNCHANGED <<reader, wire, accepted, inlet, hand, seen, task>>
               \/ /\ UNCHANGED <<reader, wire, accepted, inlet, hand, seen, calls>>
                  /\ TaskOver' <=> TaskOver
    BY <1>2, <1>5 DEF ExchangeCall, ExchangeOf
  <1>6. CASE TaskInit \/ TaskEnds
    BY <1>6 DEF TaskInit, TaskEnds, Over
  <1>7. CASE TaskSend \/ TaskSendFails \/ PumpEnds \/ Disconnect \/ WriteFrame \/ WriterEnds
             \/ TakeMux \/ DropPortal \/ UNCHANGED vars
             \/ (\E type \in {"Out", "Close"} : SendDirect(type))
             \/ (\E e \in Exchanges : ExchangeFails(e) \/ ExchangeDropped(e))
    BY <1>7
    DEF TaskSend, TaskSendFails, PumpEnds, Disconnect, WriteFrame, WriterEnds, TakeMux,
        DropPortal, SendDirect, ExchangeFails, ExchangeDropped, vars
  <1> QED
    BY <1>3, <1>4, <1>5, <1>6, <1>7 DEF Next, Pump, Task

\* The counts of frames are numbers.
LEMMA Counts ==
  ASSUME TypeOK
  PROVE  /\ Len(wire) \in Nat /\ Len(inlet) \in Nat /\ Len(hand) \in Nat /\ Len(calls) \in Nat
         /\ accepted \in Nat /\ seen \in Nat /\ Taken \in Int /\ Passed \in Int
  BY DEF TypeOK, Taken, Passed

\* The inlet and the pump hold the last frames read through every step.
LEMMA ReadStep == PortalInv /\ [Next]_vars => ReadInv'
  <1> SUFFICES ASSUME PortalInv, [Next]_vars PROVE ReadInv'
    OBVIOUS
  <1>a. /\ Len(wire) \in Nat /\ accepted \in Nat /\ Len(inlet) \in Nat /\ Len(hand) \in Nat /\ seen \in Nat
        /\ wire \in Seq(Frames) /\ inlet \in Seq(Nat) /\ hand \in Seq(1..MaxFrames)
    <2>1. /\ wire \in Seq(Frames) /\ inlet \in Seq(1..MaxFrames) /\ hand \in Seq(1..MaxFrames)
          /\ calls \in Seq(Call) /\ Len(hand) <= 1 /\ seen \in 0..MaxFrames
          /\ accepted \in 0..MaxFrames
      BY DEF PortalInv, TypeOK
    <2>2. 1..MaxFrames \subseteq Nat
      OBVIOUS
    <2>3. inlet \in Seq(Nat)
      BY <2>1, <2>2, SeqMonotonic
    <2> QED
      BY <2>1, <2>3
  <1>b. /\ accepted = Len(wire) \/ (reader = "ended" /\ accepted + 1 = Len(wire))
        /\ \A k \in 1..Len(inlet) : inlet[k] = accepted - Len(inlet) + k
        /\ \A k \in 1..Len(hand) : hand[k] = accepted - Len(inlet)
        /\ seen <= accepted - Len(inlet) - Len(hand)
    BY DEF PortalInv, ReadInv, Taken, Passed
  <1>c. ASSUME /\ accepted' = Len(wire') \/ (reader' = "ended" /\ accepted' + 1 = Len(wire'))
               /\ \A k \in 1..Len(inlet') : inlet'[k] = accepted' - Len(inlet') + k
               /\ \A k \in 1..Len(hand') : hand'[k] = accepted' - Len(inlet')
               /\ seen' <= accepted' - Len(inlet') - Len(hand')
        PROVE  ReadInv'
    BY <1>c DEF ReadInv, Taken, Passed
  <1>1. ASSUME NEW f \in Frames, wire' = Append(wire, f), inlet' = Append(inlet, Len(wire) + 1),
               reader = "reading", accepted' = accepted + 1, UNCHANGED <<hand, seen>>
        PROVE  ReadInv'
    <2>1. Len(wire') = Len(wire) + 1
      BY <1>1, <1>a, AppendProperties, LenProperties
    <2>2. Len(wire) + 1 \in Nat /\ accepted = Len(wire) /\ accepted' = Len(wire')
      <3>1. reader # "ended"
        BY <1>1
      <3>2. accepted = Len(wire)
        BY <1>b, <3>1
      <3>3. Len(wire) + 1 \in Nat
        BY <1>a
      <3> QED
        BY <1>1, <2>1, <3>2, <3>3
    <2>3. /\ Len(inlet') = Len(inlet) + 1
          /\ \A k \in 1..Len(inlet) : inlet'[k] = inlet[k]
          /\ inlet'[Len(inlet) + 1] = Len(wire) + 1
      BY <1>1, <1>a, <2>2, AppendProperties, LenProperties
    <2>4. \A k \in 1..Len(inlet') : inlet'[k] = accepted' - Len(inlet') + k
      <3> TAKE k \in 1..Len(inlet')
      <3>1. CASE k = Len(inlet) + 1
        BY <1>1, <1>a, <2>1, <2>2, <2>3, <3>1
      <3>2. CASE k \in 1..Len(inlet)
        BY <1>1, <1>a, <1>b, <2>1, <2>3, <3>2
      <3> QED
        BY <1>a, <2>3, <3>1, <3>2
    <2>5. accepted' - Len(inlet') = accepted - Len(inlet)
      BY <1>1, <1>a, <2>3
    <2> QED
      BY <1>1, <1>b, <1>c, <2>2, <2>4, <2>5
  <1>2. CASE PumpTake
    <2>1. /\ hand = <<>> /\ inlet # <<>> /\ hand' = <<inlet[1]>> /\ UNCHANGED <<reader, wire, accepted, seen>>
          /\ Len(inlet') = Len(inlet) - 1 /\ 1 \in 1..Len(inlet)
          /\ \A k \in 1..Len(inlet') : k + 1 \in 1..Len(inlet) /\ inlet'[k] = inlet[k + 1]
      BY <1>2, <1>a, HeadTailProperties, LenProperties DEF PumpTake, taskVars
    <2>2. Len(hand') = 1 /\ hand'[1] = inlet[1] /\ Len(hand) = 0
      BY <2>1
    <2>3. inlet[1] = accepted - Len(inlet) + 1
      BY <1>b, <2>1
    <2>4. /\ accepted' - Len(inlet') = accepted - Len(inlet) + 1
          /\ accepted' - Len(inlet') - Len(hand') = accepted - Len(inlet) - Len(hand)
      BY <1>a, <2>1, <2>2
    <2>5. \A k \in 1..Len(inlet') : inlet'[k] = accepted' - Len(inlet') + k
      <3> TAKE k \in 1..Len(inlet')
      <3>1. inlet'[k] = accepted - Len(inlet) + (k + 1)
        BY <1>b, <2>1
      <3> QED
        BY <1>a, <2>1, <3>1
    <2>6. \A k \in 1..Len(hand') : hand'[k] = accepted' - Len(inlet')
      BY <2>2, <2>3, <2>4
    <2> QED
      BY <1>b, <1>c, <2>1, <2>4, <2>5, <2>6
  <1>3. CASE PumpSend
    <2>1. hand' = <<>> /\ Len(hand') = 0 /\ UNCHANGED <<reader, wire, accepted, inlet, seen>>
      BY <1>3 DEF PumpSend, inVars, taskVars
    <2>2. seen' <= accepted' - Len(inlet') - Len(hand')
      BY <1>a, <1>b, <2>1
    <2> QED
      BY <1>b, <1>c, <2>1, <2>2
  <1>4. CASE TaskRecv
    <2>1. UNCHANGED <<reader, wire, accepted, inlet, hand>> /\ (seen' = seen \/ (seen' = seen + 1 /\ FrameIn(Head(calls))))
      BY <1>4, RecvCases DEF inVars, pumpVars
    <2>2. FrameIn(Head(calls)) => seen + 1 <= Passed
      BY <1>4, RecvCases, HeadIsNext DEF TaskOver
    <2>3. seen' <= accepted - Len(inlet) - Len(hand)
      BY <1>b, <2>1, <2>2 DEF Passed, Taken
    <2> QED
      BY <1>b, <1>c, <2>1, <2>3
  <1>5. ASSUME NEW f \in Frames, wire' = Append(wire, f), reader = "reading", reader' = "ended",
               UNCHANGED <<accepted, inlet, hand, seen>>
        PROVE  ReadInv'
    <2>1. Len(wire') = Len(wire) + 1
      BY <1>5, <1>a, AppendProperties, LenProperties
    <2>2. accepted' + 1 = Len(wire')
      BY <1>5, <1>a, <1>b, <2>1
    <2> QED
      BY <1>5, <1>b, <1>c, <2>2
  <1>6. ASSUME UNCHANGED <<wire, accepted, inlet, hand, seen>>, reader' = reader \/ reader' = "ended"
        PROVE  ReadInv'
    BY <1>6, <1>b, <1>c
  <1> QED
    BY <1>1, <1>2, <1>3, <1>4, <1>5, <1>6, FlowCases

-----------------------------------------------------------------------------
\* A frame passed on goes behind the others: it is the next of them.
LEMMA AppendFrame ==
  ASSUME NEW q \in Seq(Call), NEW x \in Call, NEW lo \in Int, NEW hi \in Int, lo <= hi,
         FrameIn(x), x.n = hi + 1, Between(q, lo, hi), Ascending(q)
  PROVE  /\ Between(Append(q, x), lo, hi + 1)
         /\ Ascending(Append(q, x))
         /\ Complete(q, lo, hi) => Complete(Append(q, x), lo, hi + 1)
  <1> DEFINE r == Append(q, x)
  <1>1. /\ Len(q) \in Nat /\ Len(r) = Len(q) + 1 /\ r[Len(q) + 1] = x
        /\ \A k \in 1..Len(q) : r[k] = q[k]
    BY AppendProperties, LenProperties
  <1> HIDE DEF r
  <1>2. \A k \in 1..Len(r) : k = Len(q) + 1 \/ k \in 1..Len(q)
    BY <1>1
  <1>3. Between(r, lo, hi + 1)
    <2> SUFFICES ASSUME NEW k \in 1..Len(r), FrameIn(r[k]) PROVE r[k].n \in (lo + 1)..(hi + 1)
      BY DEF Between
    <2>1. CASE k = Len(q) + 1
      BY <1>1, <2>1
    <2>2. CASE k \in 1..Len(q)
      <3>1. r[k].n \in (lo + 1)..hi
        BY <1>1, <2>2 DEF Between
      <3> QED
        BY <3>1, SMTT(20)
    <2> QED
      BY <1>2, <2>1, <2>2
  <1>4. Ascending(r)
    <2> SUFFICES ASSUME NEW j \in 1..Len(r), NEW k \in 1..Len(r), j < k, FrameIn(r[j]), FrameIn(r[k])
                 PROVE  r[j].n < r[k].n
      BY DEF Ascending
    <2>1. j \in 1..Len(q) /\ r[j] = q[j] /\ q[j].n \in (lo + 1)..hi
      BY <1>1 DEF Between
    <2>2. CASE k = Len(q) + 1
      <3>1. r[k] = x
        BY <1>1, <2>2
      <3>2. q[j].n < x.n
        BY <2>1, SMTT(20)
      <3> QED
        BY <2>1, <3>1, <3>2
    <2>3. CASE k \in 1..Len(q)
      BY <1>1, <2>1, <2>3 DEF Ascending
    <2> QED
      BY <1>2, <2>2, <2>3
  <1>5. ASSUME Complete(q, lo, hi) PROVE Complete(r, lo, hi + 1)
    <2> SUFFICES ASSUME NEW n \in (lo + 1)..(hi + 1)
                 PROVE  \E k \in 1..Len(r) : FrameIn(r[k]) /\ r[k].n = n
      BY DEF Complete
    <2>1. CASE n = hi + 1
      BY <1>1, <2>1
    <2>2. CASE n # hi + 1
      <3>1. PICK k \in 1..Len(q) : FrameIn(q[k]) /\ q[k].n = n
        BY <1>5, <2>2 DEF Complete
      <3> QED
        BY <1>1, <3>1
    <2> QED
      BY <2>1, <2>2
  <1> QED
    BY <1>3, <1>4, <1>5 DEF r

\* Any other call behind them changes nothing.
LEMMA AppendOther ==
  ASSUME NEW q \in Seq(Call), NEW x \in Call, NEW lo \in Int, NEW hi \in Int,
         ~FrameIn(x), Between(q, lo, hi), Ascending(q), Complete(q, lo, hi)
  PROVE  /\ Between(Append(q, x), lo, hi)
         /\ Ascending(Append(q, x))
         /\ Complete(Append(q, x), lo, hi)
  <1> DEFINE r == Append(q, x)
  <1>1. /\ Len(q) \in Nat /\ Len(r) = Len(q) + 1 /\ r[Len(q) + 1] = x
        /\ \A k \in 1..Len(q) : r[k] = q[k]
    BY AppendProperties, LenProperties
  <1> HIDE DEF r
  <1>2. \A k \in 1..Len(r) : FrameIn(r[k]) => k \in 1..Len(q)
    BY <1>1
  <1>3. Between(r, lo, hi)
    BY <1>1, <1>2 DEF Between
  <1>4. Ascending(r)
    BY <1>1, <1>2 DEF Ascending
  <1>5. Complete(r, lo, hi)
    <2>1. \A k \in 1..Len(q) : k \in 1..Len(r)
      BY <1>1
    <2> QED
      BY <1>1, <2>1 DEF Complete
  <1> QED
    BY <1>3, <1>4, <1>5 DEF r

\* The head taken: if it is a frame it is the first of them, and then the
\* others begin one later.
LEMMA TakeCall ==
  ASSUME NEW q \in Seq(Call), q # <<>>, NEW lo \in Int, NEW hi \in Int,
         Between(q, lo, hi), Ascending(q), Complete(q, lo, hi),
         FrameIn(Head(q)) => Head(q).n = lo + 1,
         NEW new \in Int, new = IF FrameIn(Head(q)) THEN lo + 1 ELSE lo
  PROVE  /\ Between(Tail(q), new, hi)
         /\ Ascending(Tail(q))
         /\ Complete(Tail(q), new, hi)
  <1> DEFINE r == Tail(q)
  <1>1. /\ Len(q) \in Nat /\ Len(r) = Len(q) - 1 /\ Head(q) = q[1] /\ 1 \in 1..Len(q)
        /\ \A k \in 1..Len(r) : k + 1 \in 1..Len(q) /\ r[k] = q[k + 1]
    BY HeadTailProperties, LenProperties
  <1> HIDE DEF r
  <1>2. \A k \in 1..Len(q) : k # 1 => k - 1 \in 1..Len(r) /\ q[k] = r[k - 1]
    BY <1>1
  <1>3. Between(r, new, hi)
    <2> SUFFICES ASSUME NEW k \in 1..Len(r), FrameIn(r[k]) PROVE r[k].n \in (new + 1)..hi
      BY DEF Between
    <2>1. k + 1 \in 1..Len(q) /\ r[k] = q[k + 1] /\ 1 < k + 1
      BY <1>1
    <2>2. q[k + 1].n \in (lo + 1)..hi
      BY <2>1 DEF Between
    <2>3. FrameIn(q[1]) => q[1].n < q[k + 1].n
      BY <1>1, <2>1 DEF Ascending
    <2> QED
      BY <1>1, <2>1, <2>2, <2>3
  <1>4. Ascending(r)
    <2> SUFFICES ASSUME NEW j \in 1..Len(r), NEW k \in 1..Len(r), j < k, FrameIn(r[j]), FrameIn(r[k])
                 PROVE  r[j].n < r[k].n
      BY DEF Ascending
    <2>1. /\ j + 1 \in 1..Len(q) /\ k + 1 \in 1..Len(q) /\ j + 1 < k + 1
          /\ r[j] = q[j + 1] /\ r[k] = q[k + 1]
      BY <1>1
    <2> QED
      BY <2>1 DEF Ascending
  <1>5. Complete(r, new, hi)
    <2> SUFFICES ASSUME NEW n \in (new + 1)..hi
                 PROVE  \E k \in 1..Len(r) : FrameIn(r[k]) /\ r[k].n = n
      BY DEF Complete
    <2>1. n \in (lo + 1)..hi /\ (FrameIn(Head(q)) => n # lo + 1)
      OBVIOUS
    <2>2. PICK k \in 1..Len(q) : FrameIn(q[k]) /\ q[k].n = n
      BY <2>1 DEF Complete
    <2>3. k # 1
      BY <1>1, <2>1, <2>2
    <2> QED
      BY <1>2, <2>2, <2>3
  <1> QED
    BY <1>3, <1>4, <1>5 DEF r

\* An empty queue holds nothing, in order.
LEMMA NoCalls ==
  ASSUME NEW lo \in Int, NEW hi \in Int
  PROVE  Between(<<>>, lo, hi) /\ Ascending(<<>>)
  BY DEF Between, Ascending

\* The calls keep the frames between the pump and the task through every step.
LEMMA CallStep == PortalInv /\ [Next]_vars => CallInv'
  <1> SUFFICES ASSUME PortalInv, [Next]_vars PROVE CallInv'
    OBVIOUS
  <1>a. /\ Len(wire) \in Nat /\ accepted \in Nat /\ Len(inlet) \in Nat /\ Len(hand) \in Nat /\ seen \in Nat
        /\ wire \in Seq(Frames) /\ inlet \in Seq(Nat) /\ hand \in Seq(1..MaxFrames)
        /\ Len(hand) <= 1 /\ calls \in Seq(Call)
    <2>1. /\ wire \in Seq(Frames) /\ inlet \in Seq(1..MaxFrames) /\ hand \in Seq(1..MaxFrames)
          /\ calls \in Seq(Call) /\ Len(hand) <= 1 /\ seen \in 0..MaxFrames
          /\ accepted \in 0..MaxFrames
      BY DEF PortalInv, TypeOK
    <2>2. 1..MaxFrames \subseteq Nat
      OBVIOUS
    <2>3. inlet \in Seq(Nat)
      BY <2>1, <2>2, SeqMonotonic
    <2> QED
      BY <2>1, <2>3
  <1>b. /\ Between(calls, seen, Passed) /\ Ascending(calls)
        /\ ~TaskOver => Complete(calls, seen, Passed)
        /\ seen <= Passed /\ Passed \in Int /\ seen \in Int
    BY Counts DEF PortalInv, CallInv, ReadInv
  <1>c. ASSUME Between(calls', seen', Passed'), Ascending(calls'),
               ~TaskOver' => Complete(calls', seen', Passed')
        PROVE  CallInv'
    BY <1>c DEF CallInv, Between, Ascending, Complete, FrameIn
  <1>1. ASSUME UNCHANGED <<calls, seen>>, Passed' = Passed, TaskOver' <=> TaskOver
        PROVE  CallInv'
    BY <1>1, <1>b, <1>c
  <1>2. ASSUME inlet' = Append(inlet, Len(wire) + 1), accepted' = accepted + 1,
               UNCHANGED <<hand, calls, seen, task>>
        PROVE  CallInv'
    <2>2. Len(wire) + 1 \in Nat
      BY <1>a
    <2>3. Len(inlet') = Len(inlet) + 1
      BY <1>2, <1>a, <2>2, AppendProperties, LenProperties
    <2>4. Passed' = Passed
      BY <1>2, <1>a, <2>3 DEF Passed, Taken
    <2> QED
      BY <1>1, <1>2, <2>4 DEF TaskOver
  <1>3. CASE PumpTake
    <2>1. /\ Len(inlet') = Len(inlet) - 1 /\ Len(hand) = 0 /\ Len(hand') = 1
          /\ UNCHANGED <<accepted, calls, seen, task>>
      BY <1>3, <1>a, HeadTailProperties, LenProperties DEF PumpTake, taskVars
    <2>2. Passed' = Passed
      BY <1>a, <2>1 DEF Passed, Taken
    <2> QED
      BY <1>1, <2>1, <2>2 DEF TaskOver
  <1>4. CASE PumpSend
    <2>1. hand # <<>> /\ hand' = <<>> /\ Len(hand') = 0 /\ UNCHANGED <<accepted, inlet, seen, task>>
      BY <1>4 DEF PumpSend, inVars, taskVars
    <2>2. Len(hand) = 1 /\ hand[1] \in 1..MaxFrames
      BY <1>a, <2>1, OnlyOne
    <2>3. hand[1] = Taken
      BY <2>2 DEF PortalInv, ReadInv
    <2>4. Passed' = Passed + 1 /\ hand[1] = Passed + 1
      BY <1>a, <2>1, <2>2, <2>3 DEF Passed, Taken
    <2>5. CASE TaskOver
      <3>1. calls = <<>> /\ calls' = <<>> /\ TaskOver'
        BY <1>4, <2>1, <2>5 DEF PumpSend, PortalInv, OverInv, TaskOver
      <3>2. Passed' \in Int /\ seen' \in Int
        BY <1>b, <2>1, <2>4
      <3> QED
        BY <1>c, <3>1, <3>2, NoCalls
    <2>6. CASE ~TaskOver
      <3> DEFINE x == [call |-> "FrameIn", n |-> hand[1]]
      <3>1. calls' = Append(calls, x)
        BY <1>4, <2>6 DEF PumpSend
      <3>2. x \in Call /\ FrameIn(x) /\ x.n = Passed + 1
        BY <2>2, <2>4 DEF Call, FrameIn
      <3> HIDE DEF x
      <3>3. /\ Between(Append(calls, x), seen, Passed + 1) /\ Ascending(Append(calls, x))
            /\ Complete(Append(calls, x), seen, Passed + 1)
        BY <1>a, <1>b, <2>6, <3>2, AppendFrame
      <3> QED
        BY <1>c, <2>1, <2>4, <3>1, <3>3
    <2> QED
      BY <2>5, <2>6
  <1>5. ASSUME NEW x \in Call, calls' = Append(calls, x), ~FrameIn(x), ~TaskOver,
               UNCHANGED <<accepted, inlet, hand, seen, task>>
        PROVE  CallInv'
    <2>1. Passed' = Passed
      BY <1>5 DEF Passed, Taken
    <2>2. /\ Between(Append(calls, x), seen, Passed) /\ Ascending(Append(calls, x))
          /\ Complete(Append(calls, x), seen, Passed)
      BY <1>5, <1>a, <1>b, AppendOther
    <2> QED
      BY <1>c, <1>5, <2>1, <2>2
  <1>6. ASSUME calls' = <<>>, TaskOver', Passed' \in Int, seen' \in Int
        PROVE  CallInv'
    BY <1>6, <1>c, NoCalls
  <1>7. CASE TaskRecv
    <2>1. calls # <<>> /\ ~TaskOver /\ UNCHANGED <<accepted, inlet, hand>>
      BY <1>7, RecvCases DEF TaskOver, inVars, pumpVars
    <2>2. Passed' = Passed
      BY <2>1 DEF Passed, Taken
    <2>3. seen' = IF FrameIn(Head(calls)) THEN seen + 1 ELSE seen
      BY <1>7, RecvCases
    <2>4. seen' \in Int
      BY <1>b, <2>3
    <2>5. calls' = Tail(calls) \/ (calls' = <<>> /\ TaskOver')
      BY <1>7, RecvCases DEF Over, TaskOver
    <2>6. FrameIn(Head(calls)) => Head(calls).n = seen + 1
      BY <2>1, HeadIsNext
    <2>7. /\ Between(Tail(calls), seen', Passed) /\ Ascending(Tail(calls))
          /\ Complete(Tail(calls), seen', Passed)
      BY <1>a, <1>b, <2>1, <2>3, <2>4, <2>6, TakeCall
    <2>8. CASE calls' = Tail(calls)
      BY <1>c, <2>2, <2>7, <2>8
    <2>9. CASE calls' = <<>> /\ TaskOver'
      BY <1>6, <1>b, <2>2, <2>4, <2>9
    <2> QED
      BY <2>5, <2>8, <2>9
  <1>8. CASE calls' = <<>> /\ TaskOver' /\ UNCHANGED <<accepted, inlet, hand, seen>>
    <2>1. Passed' = Passed
      BY <1>8 DEF Passed, Taken
    <2> QED
      BY <1>6, <1>8, <1>b, <2>1
  <1>9. CASE UNCHANGED <<accepted, inlet, hand, seen, calls>> /\ (TaskOver' <=> TaskOver)
    <2>1. Passed' = Passed
      BY <1>9 DEF Passed, Taken
    <2> QED
      BY <1>1, <1>9, <2>1
  <1>10. ASSUME UNCHANGED <<accepted, inlet, hand, calls, seen, task>> PROVE CallInv'
    BY <1>9, <1>10 DEF TaskOver
  <1> QED
    BY <1>2, <1>3, <1>4, <1>5, <1>7, <1>8, <1>9, <1>10, FlowCases

-----------------------------------------------------------------------------
\* What may be in mux_rx.
Routable == Send \cup [chan : {"remove"}]

\* A queue of them without its head keeps its order and its place.
LEMMA TailSent ==
  ASSUME NEW q \in Seq(Routable), q # <<>>, NEW r \in Seq(Routable), NEW hi \in Int
  PROVE  /\ Below(q, hi) => Below(Tail(q), hi)
         /\ InTurn(q) => InTurn(Tail(q))
         /\ Before(q, r) => Before(Tail(q), r)
         /\ Before(r, q) => Before(r, Tail(q))
  <1> DEFINE s == Tail(q)
  <1>1. Len(s) \in Nat /\ \A k \in 1..Len(s) : k + 1 \in 1..Len(q) /\ s[k] = q[k + 1]
    BY HeadTailProperties, LenProperties
  <1> HIDE DEF s
  <1>2. Below(q, hi) => Below(s, hi)
    BY <1>1 DEF Below
  <1>3. ASSUME InTurn(q) PROVE InTurn(s)
    <2> SUFFICES ASSUME NEW j \in 1..Len(s), NEW k \in 1..Len(s), j < k, Routed(s[j]), Routed(s[k])
                 PROVE  Ordered(s[j], s[k])
      BY DEF InTurn
    <2>1. /\ j + 1 \in 1..Len(q) /\ k + 1 \in 1..Len(q) /\ j + 1 < k + 1
          /\ s[j] = q[j + 1] /\ s[k] = q[k + 1]
      BY <1>1
    <2> QED
      BY <1>3, <2>1 DEF InTurn
  <1>4. Before(q, r) => Before(s, r)
    BY <1>1 DEF Before
  <1>5. Before(r, q) => Before(r, s)
    BY <1>1 DEF Before
  <1> QED
    BY <1>2, <1>3, <1>4, <1>5 DEF s

\* The head of what is to be sent, sent behind what was: the order is kept.
LEMMA MoveSent ==
  ASSUME NEW q \in Seq(Routable), NEW r \in Seq(Routable), r # <<>>, NEW hi \in Int,
         Below(q, hi), Below(r, hi), InTurn(q), InTurn(r), Before(q, r)
  PROVE  /\ Below(Append(q, Head(r)), hi)
         /\ InTurn(Append(q, Head(r)))
         /\ Before(Append(q, Head(r)), Tail(r))
  <1> DEFINE x == Head(r)
             p == Append(q, x)
             s == Tail(r)
  <1>1. /\ x \in Routable /\ x = r[1] /\ 1 \in 1..Len(r) /\ Len(s) \in Nat
        /\ \A k \in 1..Len(s) : k + 1 \in 1..Len(r) /\ s[k] = r[k + 1]
    BY HeadTailProperties, LenProperties
  <1>2. /\ Len(q) \in Nat /\ Len(p) = Len(q) + 1 /\ p[Len(q) + 1] = x
        /\ \A k \in 1..Len(q) : p[k] = q[k]
    BY <1>1, AppendProperties, LenProperties
  <1> HIDE DEF x, p, s
  <1>3. \A k \in 1..Len(p) : (k = Len(q) + 1 /\ p[k] = x) \/ (k \in 1..Len(q) /\ p[k] = q[k])
    BY <1>2
  <1>4. Below(p, hi)
    <2> SUFFICES ASSUME NEW k \in 1..Len(p), Routed(p[k]) PROVE p[k].n <= hi
      BY DEF Below
    <2>1. CASE p[k] = x
      BY <1>1, <2>1 DEF Below
    <2>2. CASE k \in 1..Len(q) /\ p[k] = q[k]
      BY <2>2 DEF Below
    <2> QED
      BY <1>3, <2>1, <2>2
  <1>5. InTurn(p)
    <2> SUFFICES ASSUME NEW j \in 1..Len(p), NEW k \in 1..Len(p), j < k, Routed(p[j]), Routed(p[k])
                 PROVE  Ordered(p[j], p[k])
      BY DEF InTurn
    <2>1. j \in 1..Len(q) /\ p[j] = q[j]
      BY <1>2
    <2>2. CASE p[k] = x
      BY <1>1, <2>1, <2>2 DEF Before
    <2>3. CASE k \in 1..Len(q) /\ p[k] = q[k]
      BY <2>1, <2>3 DEF InTurn
    <2> QED
      BY <1>3, <2>2, <2>3
  <1>6. Before(p, s)
    <2> SUFFICES ASSUME NEW j \in 1..Len(p), NEW k \in 1..Len(s), Routed(p[j]), Routed(s[k])
                 PROVE  Ordered(p[j], s[k])
      BY DEF Before
    <2>1. k + 1 \in 1..Len(r) /\ s[k] = r[k + 1] /\ 1 < k + 1
      BY <1>1
    <2>2. CASE p[j] = x
      BY <1>1, <2>1, <2>2 DEF InTurn
    <2>3. CASE j \in 1..Len(q) /\ p[j] = q[j]
      BY <2>1, <2>3 DEF Before
    <2> QED
      BY <1>3, <2>2, <2>3
  <1> QED
    BY <1>4, <1>5, <1>6 DEF x, p, s

\* What is not a request changes nothing at the end of the queue.
LEMMA AppendSent ==
  ASSUME NEW q \in Seq(Routable), NEW x \in Routable, ~Routed(x), NEW hi \in Int,
         Below(q, hi), InTurn(q)
  PROVE  Below(Append(q, x), hi) /\ InTurn(Append(q, x))
  <1> DEFINE p == Append(q, x)
  <1>1. /\ Len(q) \in Nat /\ Len(p) = Len(q) + 1 /\ p[Len(q) + 1] = x
        /\ \A k \in 1..Len(q) : p[k] = q[k]
    BY AppendProperties, LenProperties
  <1> HIDE DEF p
  <1>2. \A k \in 1..Len(p) : Routed(p[k]) => k \in 1..Len(q) /\ p[k] = q[k]
    BY <1>1
  <1> QED
    BY <1>2 DEF Below, InTurn, p

\* Nothing to send, or one frame for the far end, is in order.
LEMMA NoneSent ==
  ASSUME NEW x, ~Routed(x), NEW q \in Seq(Routable), NEW hi \in Int
  PROVE  /\ Below(<<>>, hi) /\ InTurn(<<>>) /\ Before(q, <<>>) /\ Before(<<>>, q)
         /\ Below(<<x>>, hi) /\ InTurn(<<x>>) /\ Before(q, <<x>>)
  <1>1. Len(<<x>>) = 1 /\ <<x>>[1] = x /\ \A k \in 1..1 : k = 1
    OBVIOUS
  <1>2. \A k \in 1..Len(<<x>>) : ~Routed(<<x>>[k])
    BY <1>1
  <1> QED
    BY <1>2 DEF Below, InTurn, Before

\* What a step does to the two queues.
LEMMA SentCases ==
  ASSUME PortalInv, [Next]_vars
  PROVE  \/ UNCHANGED <<mux, todo, seen>>
         \/ mux # <<>> /\ mux' = Tail(mux) /\ UNCHANGED <<todo, seen>>
         \/ mux' = <<>> /\ UNCHANGED <<todo, seen>>
         \/ /\ todo # <<>> /\ mux' = Append(mux, Head(todo)) /\ todo' = Tail(todo)
            /\ UNCHANGED seen
         \/ todo # <<>> /\ todo' = Tail(todo) /\ UNCHANGED <<mux, seen>>
         \/ mux' = Append(mux, [chan |-> "remove"]) /\ todo' = <<>> /\ UNCHANGED seen
         \/ todo' = <<>> /\ UNCHANGED <<mux, seen>>
         \/ TaskRecv
  <1> USE DEF inVars, pumpVars, taskVars, outVars, ownerVars
  <1>1. CASE TaskInit
    BY <1>1 DEF TaskInit, Over
  <1>2. CASE TaskEnds
    BY <1>2 DEF TaskEnds, Over
  <1>3. CASE TaskSend \/ TaskSendFails
    BY <1>3 DEF TaskSend, TaskSendFails
  <1>4. CASE TakeMux \/ DropPortal
    BY <1>4 DEF TakeMux, DropPortal
  <1>5. CASE \/ \E f \in Frames : ReadFrame(f)
             \/ Disconnect \/ WriteFrame \/ WriterEnds \/ Pump \/ MuxFrameOut
             \/ \E type \in {"Out", "Close"} : SendDirect(type)
             \/ \E e \in Exchanges : ExchangeCall(e) \/ ExchangeFails(e) \/ ExchangeDropped(e)
             \/ UNCHANGED vars
    BY <1>5
    DEF ReadFrame, Disconnect, WriteFrame, WriterEnds, Pump, PumpTake, PumpSend, PumpEnds,
        MuxFrameOut, SendDirect, ExchangeCall, ExchangeFails, ExchangeDropped, vars
  <1> QED
    BY <1>1, <1>2, <1>3, <1>4, <1>5 DEF Next, Task

\* What the task has sent and has still to send keeps its order through every
\* step.
LEMMA SentStep == PortalInv /\ [Next]_vars => SentInv'
  <1> SUFFICES ASSUME PortalInv, [Next]_vars PROVE SentInv'
    OBVIOUS
  <1>a. mux \in Seq(Routable) /\ todo \in Seq(Send) /\ seen \in Int
    BY DEF PortalInv, TypeOK, Routable
  <1>b. todo \in Seq(Routable)
    BY <1>a, SeqMonotonic DEF Routable
  <1>c. /\ Below(mux, seen) /\ Below(todo, seen) /\ InTurn(mux) /\ InTurn(todo)
        /\ Before(mux, todo)
    BY DEF PortalInv, SentInv
  <1>d. ASSUME Below(mux', seen'), Below(todo', seen'), InTurn(mux'), InTurn(todo'),
               Before(mux', todo')
        PROVE  SentInv'
    BY <1>d DEF SentInv, Below, InTurn, Before, Routed, Ordered
  <1> DEFINE remove == [chan |-> "remove"]
             out == [chan |-> "outlet", frame |-> [type |-> "Out"]]
  <1>e. remove \in Routable /\ ~Routed(remove) /\ ~Routed(out)
    BY DEF Routable, Routed
  <1> HIDE DEF remove, out
  <1>1. CASE UNCHANGED <<mux, todo, seen>>
    BY <1>1, <1>c, <1>d
  <1>2. CASE mux # <<>> /\ mux' = Tail(mux) /\ UNCHANGED <<todo, seen>>
    <2>1. Below(Tail(mux), seen) /\ InTurn(Tail(mux)) /\ Before(Tail(mux), todo)
      BY <1>2, <1>a, <1>b, <1>c, TailSent
    <2> QED
      BY <1>2, <1>c, <1>d, <2>1
  <1>3. CASE mux' = <<>> /\ UNCHANGED <<todo, seen>>
    <2>1. Below(<<>>, seen) /\ InTurn(<<>>) /\ Before(<<>>, todo)
      BY <1>a, <1>b, <1>e, NoneSent
    <2> QED
      BY <1>3, <1>c, <1>d, <2>1
  <1>4. CASE todo # <<>> /\ mux' = Append(mux, Head(todo)) /\ todo' = Tail(todo) /\ UNCHANGED seen
    <2>1. /\ Below(Append(mux, Head(todo)), seen) /\ InTurn(Append(mux, Head(todo)))
          /\ Before(Append(mux, Head(todo)), Tail(todo))
      BY <1>4, <1>a, <1>b, <1>c, MoveSent
    <2>2. Below(Tail(todo), seen) /\ InTurn(Tail(todo))
      BY <1>4, <1>a, <1>b, <1>c, TailSent
    <2> QED
      BY <1>4, <1>d, <2>1, <2>2
  <1>5. CASE todo # <<>> /\ todo' = Tail(todo) /\ UNCHANGED <<mux, seen>>
    <2>1. Below(Tail(todo), seen) /\ InTurn(Tail(todo)) /\ Before(mux, Tail(todo))
      BY <1>5, <1>a, <1>b, <1>c, TailSent
    <2> QED
      BY <1>5, <1>c, <1>d, <2>1
  <1>6. CASE mux' = Append(mux, remove) /\ todo' = <<>> /\ UNCHANGED seen
    <2>1. Below(Append(mux, remove), seen) /\ InTurn(Append(mux, remove))
      BY <1>a, <1>c, <1>e, AppendSent
    <2>2. Append(mux, remove) \in Seq(Routable)
      BY <1>a, <1>e, AppendProperties, LenProperties
    <2>3. Below(<<>>, seen) /\ InTurn(<<>>) /\ Before(Append(mux, remove), <<>>)
      BY <1>a, <1>e, <2>2, NoneSent
    <2> QED
      BY <1>6, <1>d, <2>1, <2>3
  <1>7. CASE todo' = <<>> /\ UNCHANGED <<mux, seen>>
    <2>1. Below(<<>>, seen) /\ InTurn(<<>>) /\ Before(mux, <<>>)
      BY <1>a, <1>e, NoneSent
    <2> QED
      BY <1>7, <1>c, <1>d, <2>1
  <1>8. CASE TaskRecv
    <2>1. task = "running" /\ todo = <<>> /\ calls # <<>> /\ mux' = mux
      BY <1>8, RecvCases
    <2>2. (seen' = seen \/ seen' = seen + 1) /\ seen' \in Int
      BY <1>8, <1>a, RecvCases
    <2>3. Below(mux, seen')
      <3> SUFFICES ASSUME NEW k \in 1..Len(mux), Routed(mux[k]) PROVE mux[k].n <= seen'
        BY DEF Below
      <3>1. mux[k] \in Routable
        BY <1>a
      <3>2. mux[k].n \in Int
        BY <3>1 DEF Routable, Routed, Send
      <3>3. mux[k].n <= seen
        BY <1>c DEF Below
      <3> QED
        BY <1>a, <2>2, <3>2, <3>3
    <2>4. ASSUME todo' = <<>> \/ todo' = <<out>>
          PROVE  Below(todo', seen') /\ InTurn(todo') /\ Before(mux, todo')
      BY <1>a, <1>e, <2>2, <2>4, NoneSent
    <2>5. ASSUME FrameIn(Head(calls)), seen' = seen + 1,
                 wire[Head(calls).n].type = "Request", todo' = SendsOf(Head(calls).n)
          PROVE  Below(todo', seen') /\ InTurn(todo') /\ Before(mux, todo')
      <3> DEFINE n == seen + 1
      <3>1. Head(calls).n = n /\ n \in 1..Len(wire)
        BY <2>1, <2>5, HeadIsNext DEF TaskOver
      <3>2. /\ todo' = SendsOf(n)
            /\ \A k \in 1..Len(SendsOf(n)) :
                 Routed(SendsOf(n)[k]) => SendsOf(n)[k].n = n /\ SendsOf(n)[k].i = k
        BY <2>5, <3>1, SendsOfKeeps DEF PortalInv
      <3>3. \A k \in 1..Len(todo') : Routed(todo'[k]) => todo'[k].n = n /\ todo'[k].i = k
        BY <3>2
      <3>4. n \in Int /\ n = seen + 1
        BY <1>a
      <3> HIDE DEF n
      <3>5. Below(todo', seen')
        BY <2>5, <3>3, <3>4 DEF Below
      <3>6. InTurn(todo')
        BY <3>3 DEF InTurn, Ordered
      <3>7. Before(mux, todo')
        <4> SUFFICES ASSUME NEW j \in 1..Len(mux), NEW k \in 1..Len(todo'),
                            Routed(mux[j]), Routed(todo'[k])
                     PROVE  mux[j].n < todo'[k].n
          BY DEF Before, Ordered
        <4>1. mux[j] \in Routable
          BY <1>a
        <4>2. mux[j].n \in Int
          BY <4>1 DEF Routable, Routed, Send
        <4>3. mux[j].n <= seen
          BY <1>c DEF Below
        <4> QED
          BY <1>a, <3>3, <3>4, <4>2, <4>3
      <3> QED
        BY <3>5, <3>6, <3>7
    <2>6. Below(todo', seen') /\ InTurn(todo') /\ Before(mux, todo')
      <3>1. \/ todo' = <<>> \/ todo' = <<out>>
            \/ /\ FrameIn(Head(calls)) /\ seen' = seen + 1
               /\ wire[Head(calls).n].type = "Request" /\ todo' = SendsOf(Head(calls).n)
        BY <1>8, <2>1, RecvCases DEF Over, out
      <3> QED
        BY <2>4, <2>5, <3>1
    <2>7. InTurn(mux)
      BY <1>c
    <2> QED
      BY <1>d, <2>1, <2>3, <2>6, <2>7
  <1> QED
    BY <1>1, <1>2, <1>3, <1>4, <1>5, <1>6, <1>7, <1>8, SentCases DEF remove

-----------------------------------------------------------------------------
\* A task that is over holds nothing, and one that has not begun has taken
\* nothing, through every step.
LEMMA OverStep == PortalInv /\ [Next]_vars => OverInv'
  <1> SUFFICES ASSUME PortalInv, [Next]_vars PROVE OverInv'
    OBVIOUS
  <1> USE DEF PortalInv, OverInv, TaskOver, inVars, pumpVars, taskVars, outVars, ownerVars
  <1>1. CASE TaskRecv
    BY <1>1, RecvCases DEF Over
  <1>2. CASE TaskInit \/ TaskEnds
    BY <1>2 DEF TaskInit, TaskEnds, Over
  <1>3. CASE TaskSend \/ TaskSendFails
    BY <1>3 DEF TaskSend, TaskSendFails
  <1>4. CASE MuxFrameOut \/ PumpSend \/ (\E e \in Exchanges : ExchangeCall(e))
    BY <1>4 DEF MuxFrameOut, PumpSend, ExchangeCall
  <1>5. CASE \/ \E f \in Frames : ReadFrame(f)
             \/ Disconnect \/ WriteFrame \/ WriterEnds \/ PumpTake \/ PumpEnds
             \/ TakeMux \/ DropPortal \/ UNCHANGED vars
             \/ \E type \in {"Out", "Close"} : SendDirect(type)
             \/ \E e \in Exchanges : ExchangeFails(e) \/ ExchangeDropped(e)
    BY <1>5
    DEF ReadFrame, Disconnect, WriteFrame, WriterEnds, PumpTake, PumpEnds,
        TakeMux, DropPortal, SendDirect, ExchangeFails, ExchangeDropped, vars
  <1> QED
    BY <1>1, <1>2, <1>3, <1>4, <1>5 DEF Next, Task, Pump

\* Only its owner puts frames on the outlet before the Init, through every step.
LEMMA OwnerStep == PortalInv /\ [Next]_vars => OnlyOwnerAheadOfInit'
  <1> SUFFICES ASSUME PortalInv, [Next]_vars, task' = "init"
               PROVE  Len(outlet') <= made'["direct"]
    BY DEF OnlyOwnerAheadOfInit
  <1> USE DEF inVars, pumpVars, taskVars, outVars, ownerVars
  <1>1. /\ outlet \in Seq(OutletFrame) /\ made \in [{"muxer", "direct"} -> Nat]
        /\ Len(outlet) \in Nat /\ made["direct"] \in Nat
        /\ task = "init" => todo = <<>> /\ Len(outlet) <= made["direct"]
    BY DEF PortalInv, TypeOK, OverInv, OnlyOwnerAheadOfInit
  <1>2. ASSUME task = "init", outlet' = outlet, made'["direct"] = made["direct"]
        PROVE  Len(outlet') <= made'["direct"]
    BY <1>1, <1>2
  <1>3. CASE TaskRecv \/ TaskInit \/ TaskEnds
    BY <1>3 DEF TaskRecv, TaskInit, TaskEnds, Over, Respond
  <1>4. CASE TaskSend \/ TaskSendFails
    BY <1>1, <1>2, <1>4 DEF TaskSend, TaskSendFails
  <1>5. CASE WriteFrame
    <2>1. Len(outlet') = Len(outlet) - 1 /\ task = "init" /\ made' = made
      BY <1>1, <1>5, HeadTailProperties, LenProperties DEF WriteFrame
    <2> QED
      BY <1>1, <2>1
  <1>6. CASE WriterEnds
    <2>1. Len(outlet') = 0 /\ task = "init" /\ made' = made
      BY <1>6 DEF WriterEnds
    <2> QED
      BY <1>1, <2>1
  <1>7. ASSUME NEW type \in {"Out", "Close"}, SendDirect(type)
        PROVE  Len(outlet') <= made'["direct"]
    <2>1. [type |-> type] \in OutletFrame
      BY DEF OutletFrame
    <2>2. Len(outlet') = Len(outlet) + 1 /\ task = "init"
      BY <1>1, <1>7, <2>1, AppendProperties, LenProperties DEF SendDirect
    <2>3. made'["direct"] = made["direct"] + 1
      BY <1>1, <1>7 DEF SendDirect
    <2> QED
      BY <1>1, <2>2, <2>3
  <1>8. CASE MuxFrameOut
    <2>1. made'["direct"] = made["direct"] /\ outlet' = outlet /\ task = "init"
      BY <1>1, <1>8 DEF MuxFrameOut
    <2> QED
      BY <1>2, <2>1
  <1>9. CASE \/ \E f \in Frames : ReadFrame(f)
             \/ Disconnect \/ Pump \/ TakeMux \/ DropPortal \/ UNCHANGED vars
             \/ \E e \in Exchanges : ExchangeCall(e) \/ ExchangeFails(e) \/ ExchangeDropped(e)
    <2>1. task = "init" /\ outlet' = outlet /\ made' = made
      BY <1>9
      DEF ReadFrame, Disconnect, Pump, PumpTake, PumpSend, PumpEnds, TakeMux, DropPortal,
          ExchangeCall, ExchangeFails, ExchangeDropped, vars
    <2> QED
      BY <1>2, <2>1
  <1> QED
    BY <1>3, <1>4, <1>5, <1>6, <1>7, <1>8, <1>9 DEF Next, Task

-----------------------------------------------------------------------------
\* A call behind the others: what it is for is queued, the rest as before.
LEMMA AppendQueued ==
  ASSUME NEW q \in Seq(Call), NEW x \in Call, NEW e
  PROVE  /\ Queued(Append(q, x), e) <=> Queued(q, e) \/ x = ExchangeOf(e)
         /\ Once(q, e) /\ (x = ExchangeOf(e) => ~Queued(q, e)) => Once(Append(q, x), e)
  <1> DEFINE r == Append(q, x)
             y == ExchangeOf(e)
  <1>1. /\ Len(q) \in Nat /\ Len(r) = Len(q) + 1 /\ r[Len(q) + 1] = x
        /\ \A k \in 1..Len(q) : r[k] = q[k]
    BY AppendProperties, LenProperties
  <1> HIDE DEF r, y
  <1>2. /\ \A k \in 1..Len(q) : k \in 1..Len(r) /\ r[k] = q[k]
        /\ \A k \in 1..Len(r) : (k = Len(q) + 1 /\ r[k] = x) \/ (k \in 1..Len(q) /\ r[k] = q[k])
        /\ Len(q) + 1 \in 1..Len(r) /\ r[Len(q) + 1] = x
    BY <1>1
  <1>3. Queued(r, e) <=> Queued(q, e) \/ x = y
    BY <1>2 DEF Queued, y
  <1>4. Once(q, e) /\ (x = y => ~Queued(q, e)) => Once(r, e)
    BY <1>2 DEF Queued, Once, y
  <1> QED
    BY <1>3, <1>4 DEF r, y

\* The head taken: what it was for is queued no more, the rest as before.
LEMMA TakeQueued ==
  ASSUME NEW q \in Seq(Call), q # <<>>, NEW e, Once(q, e)
  PROVE  /\ Queued(q, e) <=> Queued(Tail(q), e) \/ Head(q) = ExchangeOf(e)
         /\ Head(q) = ExchangeOf(e) => ~Queued(Tail(q), e)
         /\ Once(Tail(q), e)
  <1> DEFINE r == Tail(q)
             y == ExchangeOf(e)
  <1>1. /\ Len(q) \in Nat /\ Len(r) = Len(q) - 1 /\ Head(q) = q[1] /\ 1 \in 1..Len(q)
        /\ \A k \in 1..Len(r) : k + 1 \in 1..Len(q) /\ r[k] = q[k + 1]
    BY HeadTailProperties, LenProperties
  <1> HIDE DEF r, y
  <1>2. \A k \in 1..Len(q) : k = 1 \/ (k - 1 \in 1..Len(r) /\ q[k] = r[k - 1])
    BY <1>1
  <1>3. Queued(q, e) <=> Queued(r, e) \/ Head(q) = y
    BY <1>1, <1>2 DEF Queued, y
  <1>4. Head(q) = y => ~Queued(r, e)
    <2> SUFFICES ASSUME q[1] = y, NEW k \in 1..Len(r), r[k] = y PROVE FALSE
      BY <1>1 DEF Queued, y
    <2>1. k + 1 = 1
      BY <1>1 DEF Once, y
    <2> QED
      BY <2>1
  <1>5. Once(r, e)
    <2> SUFFICES ASSUME NEW j \in 1..Len(r), NEW k \in 1..Len(r), r[j] = y, r[k] = y PROVE j = k
      BY DEF Once, y
    <2>1. j + 1 = k + 1
      BY <1>1 DEF Once, y
    <2> QED
      BY <2>1
  <1> QED
    BY <1>3, <1>4, <1>5 DEF r, y

\* In an empty queue there is none.
LEMMA NoneQueued ==
  ASSUME NEW e
  PROVE  ~Queued(<<>>, e) /\ Once(<<>>, e)
  BY DEF Queued, Once

\* Its oneshot sender exists exactly when it is queued or in the table.
LEMMA PendingIs ==
  ASSUME TypeOK, NEW e
  PROVE  Pending(e) <=> e \in exchanges \/ Queued(calls, e)
  <1>1. DOMAIN calls = 1..Len(calls)
    BY DEF TypeOK
  <1> QED
    BY <1>1 DEF Pending, Queued, ExchangeOf

\* What a step does to the calls and the table.
LEMMA SenderCases ==
  ASSUME PortalInv, [Next]_vars
  PROVE  \/ UNCHANGED <<calls, exchanges, exch>> /\ (TaskOver => TaskOver')
         \/ calls' = <<>> /\ exchanges' = {} /\ TaskOver' /\ exch' = exch
         \/ PumpSend \/ MuxFrameOut \/ TaskRecv
         \/ \E e \in Exchanges : ExchangeCall(e) \/ ExchangeFails(e) \/ ExchangeDropped(e)
  <1> USE DEF inVars, pumpVars, taskVars, outVars, ownerVars, TaskOver
  <1>1. CASE TaskInit
    BY <1>1 DEF TaskInit, Over
  <1>2. CASE TaskEnds
    BY <1>2 DEF TaskEnds, Over
  <1>3. CASE TaskSend \/ TaskSendFails
    BY <1>3 DEF TaskSend, TaskSendFails
  <1>4. CASE \/ \E f \in Frames : ReadFrame(f)
             \/ Disconnect \/ WriteFrame \/ WriterEnds \/ PumpTake \/ PumpEnds
             \/ TakeMux \/ DropPortal \/ UNCHANGED vars
             \/ \E type \in {"Out", "Close"} : SendDirect(type)
    BY <1>4
    DEF ReadFrame, Disconnect, WriteFrame, WriterEnds, PumpTake, PumpEnds,
        TakeMux, DropPortal, SendDirect, vars
  <1> QED
    BY <1>1, <1>2, <1>3, <1>4 DEF Next, Task, Pump

\* What the task makes of a call, for the exchanges: one goes into the table,
\* or one is answered and goes out of it, or nothing changes, or it is over.
LEMMA RecvExchanges ==
  ASSUME PortalInv, TaskRecv
  PROVE  /\ task = "running" /\ calls # <<>>
         /\ \/ /\ exch' = exch
               /\ calls' = Tail(calls) /\ task' = task
               /\ \/ /\ Head(calls).call = "Exchange"
                     /\ exchanges' = exchanges \cup {Head(calls).id}
                  \/ Head(calls).call # "Exchange" /\ exchanges' = exchanges
            \/ \E id \in Exchanges :
                 /\ id \in exchanges /\ exch[id] = "waiting"
                 /\ exch' = [exch EXCEPT ![id] = "answered"]
                 /\ calls' = Tail(calls) /\ Head(calls).call # "Exchange" /\ task' = task
                 /\ exchanges' = exchanges \ {id}
            \/ /\ calls' = <<>> /\ exchanges' = {} /\ TaskOver' /\ exch' = exch
  <1> DEFINE n == Head(calls).n
             id == wire[n].id
  <1>1. exchanges \subseteq Exchanges
        /\ exch \in [Exchanges -> {"idle", "waiting", "answered", "failed", "dropped"}]
    BY DEF PortalInv, TypeOK
  <1>2. CASE /\ Head(calls).call = "FrameIn"
             /\ wire[n].type = "Response"
             /\ Respond(id)
    <2>1. CASE id \notin exchanges
      BY <1>2, <2>1 DEF TaskRecv, Respond
    <2>2. CASE id \in exchanges /\ exch[id] = "waiting"
      <3>1. id \in Exchanges
        BY <1>1, <2>2
      <3>2. exch' = [exch EXCEPT ![id] = "answered"]
        BY <1>2, <2>2 DEF Respond
      <3>3. /\ exchanges' = exchanges \ {id} /\ calls' = Tail(calls) /\ task' = task
            /\ task = "running" /\ calls # <<>>
        BY <1>2, <2>2 DEF Respond, TaskRecv
      <3> QED
        BY <1>2, <2>2, <3>1, <3>2, <3>3
    <2>3. CASE id \in exchanges /\ exch[id] # "waiting"
      <3>1. exch' = exch
        BY <1>1, <1>2, <2>3 DEF Respond
      <3> QED
        BY <1>2, <2>3, <3>1 DEF Respond, Over, TaskRecv, TaskOver
    <2> QED
      BY <2>1, <2>2, <2>3
  <1>3. CASE ~(/\ Head(calls).call = "FrameIn"
               /\ wire[n].type = "Response"
               /\ Respond(id))
    BY <1>3 DEF TaskRecv
  <1> QED
    BY <1>2, <1>3

\* The sender of every exchange stays in its place through every step.
LEMMA SenderStep == PortalInv /\ [Next]_vars => SenderInv'
  <1> SUFFICES ASSUME PortalInv, [Next]_vars, NEW e \in Exchanges PROVE SenderOf(e)'
    BY DEF SenderInv
  <1>a. /\ calls \in Seq(Call) /\ exchanges \subseteq Exchanges
        /\ exch \in [Exchanges -> {"idle", "waiting", "answered", "failed", "dropped"}]
    BY DEF PortalInv, TypeOK
  <1>b. /\ exch[e] = "waiting" => e \in exchanges \/ Queued(calls, e) \/ TaskOver
        /\ exch[e] \in {"idle", "answered", "failed"} => e \notin exchanges /\ ~Queued(calls, e)
        /\ Queued(calls, e) => e \notin exchanges
        /\ Once(calls, e)
    BY DEF PortalInv, SenderInv, SenderOf
  <1>c. \A d \in Exchanges : ExchangeOf(d) \in Call /\ (ExchangeOf(d) = ExchangeOf(e) => d = e)
    BY DEF Call, ExchangeOf
  <1>d. ExchangeOf(e).call = "Exchange" /\ ExchangeOf(e).id = e
    BY DEF ExchangeOf
  <1>e. ASSUME exch'[e] = "waiting" => e \in exchanges' \/ Queued(calls', e) \/ TaskOver',
               exch'[e] \in {"idle", "answered", "failed"} =>
                 e \notin exchanges' /\ ~Queued(calls', e),
               Queued(calls', e) => e \notin exchanges',
               Once(calls', e)
        PROVE  SenderOf(e)'
    BY <1>e DEF SenderOf, Queued, Once, ExchangeOf
  <1>1. CASE UNCHANGED <<calls, exchanges, exch>> /\ (TaskOver => TaskOver')
    BY <1>e, <1>1, <1>b
  <1>2. CASE calls' = <<>> /\ exchanges' = {} /\ TaskOver' /\ exch' = exch
    BY <1>e, <1>2, NoneQueued
  <1>3. ASSUME NEW x \in Call, x # ExchangeOf(e), calls' = Append(calls, x),
               UNCHANGED <<exchanges, task>>, exch'[e] = exch[e]
        PROVE  SenderOf(e)'
    <2>1. /\ Queued(Append(calls, x), e) <=> Queued(calls, e)
          /\ Once(Append(calls, x), e)
      BY <1>3, <1>a, <1>b, AppendQueued
    <2> QED
      BY <1>e, <1>3, <1>b, <2>1 DEF TaskOver
  <1>4. ASSUME UNCHANGED <<calls, exchanges, task>>,
               \/ exch'[e] = exch[e]
               \/ exch[e] = "waiting" /\ exch'[e] = "dropped"
               \/ exch'[e] = "failed" /\ e \notin exchanges /\ ~Queued(calls, e)
        PROVE  SenderOf(e)'
    BY <1>e, <1>4, <1>b DEF TaskOver
  <1>5. CASE PumpSend
    <2> DEFINE x == [call |-> "FrameIn", n |-> hand[1]]
    <2>1. UNCHANGED <<exchanges, task, exch>> /\ (calls' = calls \/ calls' = Append(calls, x))
      BY <1>5 DEF PumpSend, taskVars, ownerVars
    <2>2. x.call = "FrameIn"
      OBVIOUS
    <2>3. x \in Call
      <3>1. hand \in Seq(1..MaxFrames) /\ hand # <<>> /\ Len(hand) <= 1
        BY <1>5 DEF PumpSend, PortalInv, TypeOK
      <3>2. hand[1] \in 1..MaxFrames
        BY <3>1, OnlyOne
      <3> QED
        BY <3>2 DEF Call
    <2> HIDE DEF x
    <2>4. x # ExchangeOf(e)
      BY <1>d, <2>2
    <2> QED
      BY <1>3, <1>4, <2>1, <2>3, <2>4
  <1>6. CASE MuxFrameOut
    <2> DEFINE x == [call |-> "FrameOut"]
    <2>1. UNCHANGED <<exchanges, task, exch>> /\ (calls' = calls \/ calls' = Append(calls, x))
      BY <1>6 DEF MuxFrameOut, taskVars, ownerVars
    <2>2. x.call = "FrameOut" /\ x \in Call
      BY DEF Call
    <2> HIDE DEF x
    <2>4. x # ExchangeOf(e)
      BY <1>d, <2>2
    <2> QED
      BY <1>3, <1>4, <2>1, <2>2, <2>4
  <1>7. ASSUME NEW d \in Exchanges, ExchangeCall(d)
        PROVE  SenderOf(e)'
    <2>1. /\ exch[d] = "idle" /\ UNCHANGED <<exchanges, task>>
          /\ \/ calls' = Append(calls, ExchangeOf(d)) /\ exch' = [exch EXCEPT ![d] = "waiting"]
             \/ calls' = calls /\ exch' = [exch EXCEPT ![d] = "failed"]
      BY <1>7 DEF ExchangeCall, taskVars, ExchangeOf
    <2>2. CASE d # e
      <3>1. exch'[e] = exch[e]
        BY <1>a, <2>1, <2>2
      <3>2. ExchangeOf(d) \in Call /\ ExchangeOf(d) # ExchangeOf(e)
        BY <1>c, <2>2
      <3> QED
        BY <1>3, <1>4, <2>1, <3>1, <3>2
    <2>3. CASE d = e
      <3>1. e \notin exchanges /\ ~Queued(calls, e)
        BY <1>b, <2>1, <2>3
      <3>2. CASE calls' = calls /\ exch' = [exch EXCEPT ![d] = "failed"]
        <4>1. exch'[e] = "failed"
          BY <1>a, <2>3, <3>2
        <4> QED
          BY <1>4, <2>1, <3>1, <3>2, <4>1
      <3>3. CASE calls' = Append(calls, ExchangeOf(d)) /\ exch' = [exch EXCEPT ![d] = "waiting"]
        <4>1. exch'[e] = "waiting"
          BY <1>a, <2>3, <3>3
        <4>2. Queued(calls', e) /\ Once(calls', e)
          BY <1>a, <1>b, <1>c, <2>3, <3>1, <3>3, AppendQueued
        <4> QED
          BY <1>e, <2>1, <3>1, <4>1, <4>2
      <3> QED
        BY <2>1, <3>2, <3>3
    <2> QED
      BY <2>2, <2>3
  <1>8. ASSUME NEW d \in Exchanges, ExchangeFails(d) \/ ExchangeDropped(d)
        PROVE  SenderOf(e)'
    <2>1. UNCHANGED <<calls, exchanges, task>> /\ exch[d] = "waiting"
      BY <1>8 DEF ExchangeFails, ExchangeDropped, taskVars
    <2>2. CASE d # e
      <3>1. exch'[e] = exch[e]
        BY <1>a, <1>8, <2>2 DEF ExchangeFails, ExchangeDropped
      <3> QED
        BY <1>4, <2>1, <3>1
    <2>3. CASE d = e /\ ExchangeFails(d)
      <3>1. exch'[e] = "failed"
        BY <1>a, <2>3 DEF ExchangeFails
      <3>2. e \notin exchanges /\ ~Queued(calls, e)
        BY <2>3, PendingIs DEF ExchangeFails, PortalInv
      <3> QED
        BY <1>4, <2>1, <3>1, <3>2
    <2>4. CASE d = e /\ ExchangeDropped(d)
      <3>1. exch'[e] = "dropped"
        BY <1>a, <2>4 DEF ExchangeDropped
      <3> QED
        BY <1>4, <2>1, <2>4, <3>1
    <2> QED
      BY <1>8, <2>2, <2>3, <2>4
  <1>9. CASE TaskRecv
    <2>1. calls # <<>> /\ ~TaskOver
      BY <1>9, RecvExchanges DEF TaskOver
    <2>2. /\ Queued(calls, e) <=> Queued(Tail(calls), e) \/ Head(calls) = ExchangeOf(e)
          /\ Head(calls) = ExchangeOf(e) => ~Queued(Tail(calls), e)
          /\ Once(Tail(calls), e)
      BY <1>a, <1>b, <2>1, TakeQueued
    <2>3. Head(calls) \in Call
      BY <1>a, <2>1, HeadTailProperties, LenProperties
    <2>4. CASE /\ exch' = exch /\ calls' = Tail(calls)
               /\ Head(calls).call = "Exchange" /\ exchanges' = exchanges \cup {Head(calls).id}
      <3>1. Head(calls) = ExchangeOf(Head(calls).id)
        BY <2>3, <2>4 DEF Call, ExchangeOf
      <3>2. e = Head(calls).id <=> Head(calls) = ExchangeOf(e)
        BY <1>d, <3>1
      <3>3. e \in exchanges' <=> e \in exchanges \/ Head(calls) = ExchangeOf(e)
        BY <2>4, <3>2
      <3> QED
        BY <1>e, <1>b, <2>1, <2>2, <2>4, <3>3
    <2>5. CASE /\ exch' = exch /\ calls' = Tail(calls)
               /\ Head(calls).call # "Exchange" /\ exchanges' = exchanges
      <3>1. Head(calls) # ExchangeOf(e)
        BY <1>d, <2>5
      <3> QED
        BY <1>e, <1>b, <2>1, <2>2, <2>5, <3>1
    <2>6. ASSUME NEW id \in Exchanges, id \in exchanges, exch[id] = "waiting",
                 exch' = [exch EXCEPT ![id] = "answered"],
                 calls' = Tail(calls), Head(calls).call # "Exchange",
                 exchanges' = exchanges \ {id}
          PROVE  SenderOf(e)'
      <3>1. Head(calls) # ExchangeOf(e)
        BY <1>d, <2>6
      <3>2. Queued(Tail(calls), e) <=> Queued(calls, e)
        BY <2>2, <3>1
      <3>3. CASE e = id
        <4>1. e \notin exchanges' /\ ~Queued(calls, e) /\ exch'[e] = "answered"
          BY <1>a, <1>b, <2>6, <3>3
        <4> QED
          BY <1>e, <2>2, <2>6, <3>2, <4>1
      <3>4. CASE e # id
        <4>1. (e \in exchanges' <=> e \in exchanges) /\ exch'[e] = exch[e]
          BY <1>a, <2>6, <3>4
        <4> QED
          BY <1>e, <1>b, <2>1, <2>2, <2>6, <3>2, <4>1
      <3> QED
        BY <3>3, <3>4
    <2> QED
      BY <1>2, <1>9, <2>4, <2>5, <2>6, RecvExchanges
  <1> QED
    BY <1>1, <1>2, <1>5, <1>6, <1>7, <1>8, <1>9, SenderCases

-----------------------------------------------------------------------------
\* Every state reachable satisfies the invariant, whatever the far end sends
\* and wherever the channels fill up.
THEOREM PortalInvariant == Spec => []PortalInv
  <1>1. PortalInv /\ [Next]_vars => PortalInv'
    BY TypeStep, ReadStep, CallStep, SentStep, OverStep, SenderStep, OwnerStep DEF PortalInv
  <1> QED
    BY InitPortalInv, <1>1, PTL DEF Spec

\* Every variable keeps its type, and no channel holds more than its capacity
\* (the four bounded channels of Portal::new and of the tcp-server).
THEOREM PortalTypeCorrect == Spec => []TypeOK
  <1>1. PortalInv => TypeOK
    BY DEF PortalInv
  <1> QED
    BY PortalInvariant, <1>1, PTL

\* What is at each stage of the pipeline, and of which frames.
LEMMA StageOf ==
  ASSUME PortalInv, NEW p \in Pipeline
  PROVE  \/ /\ p.stage = 1 /\ p.k \in 1..Len(mux) /\ Routed(mux[p.k])
            /\ p.n = mux[p.k].n /\ p.i = mux[p.k].i
         \/ /\ p.stage = 2 /\ p.k \in 1..Len(todo) /\ Routed(todo[p.k])
            /\ p.n = todo[p.k].n /\ p.i = todo[p.k].i
         \/ /\ p.stage = 3 /\ p.k \in 1..Len(calls) /\ FrameIn(calls[p.k])
            /\ p.n = calls[p.k].n
         \/ p.stage = 4 /\ p.k \in 1..Len(hand) /\ p.n = hand[p.k]
         \/ p.stage = 5 /\ p.k \in 1..Len(inlet) /\ p.n = inlet[p.k]
  <1>1. /\ DOMAIN mux = 1..Len(mux) /\ DOMAIN todo = 1..Len(todo) /\ DOMAIN calls = 1..Len(calls)
        /\ DOMAIN hand = 1..Len(hand) /\ DOMAIN inlet = 1..Len(inlet)
    BY DEF PortalInv, TypeOK
  <1> QED
    BY <1>1 DEF Pipeline, Routed, FrameIn

\* The frames at each stage lie between those of the stages around it.
LEMMA StageBounds ==
  ASSUME PortalInv, NEW p \in Pipeline
  PROVE  /\ p.n \in Int
         /\ p.stage \in {1, 2} => p.n <= seen
         /\ p.stage = 3 => seen < p.n /\ p.n <= Passed
         /\ p.stage = 4 => p.k = 1 /\ p.n = Taken /\ Passed < Taken
         /\ p.stage = 5 => p.k \in Nat /\ p.k > 0 /\ p.n = Taken + p.k
  <1>1. /\ Len(wire) \in Nat /\ Len(inlet) \in Nat /\ Len(hand) \in Nat /\ seen \in Nat
        /\ Taken \in Int /\ Passed \in Int
    BY Counts DEF PortalInv
  <1>2. Len(hand) <= 1 /\ mux \in Seq(Routable) /\ todo \in Seq(Send)
    BY DEF PortalInv, TypeOK, Routable
  <1>3. CASE p.stage = 1
    <2>1. p.k \in 1..Len(mux) /\ Routed(mux[p.k]) /\ p.n = mux[p.k].n
      BY <1>3, StageOf
    <2>2. mux[p.k] \in Routable
      BY <1>2, <2>1
    <2>3. mux[p.k].n \in Int
      BY <2>1, <2>2 DEF Routable, Routed, Send
    <2>4. mux[p.k].n <= seen
      BY <2>1 DEF PortalInv, SentInv, Below
    <2> QED
      BY <1>3, <2>1, <2>3, <2>4
  <1>4. CASE p.stage = 2
    <2>1. p.k \in 1..Len(todo) /\ Routed(todo[p.k]) /\ p.n = todo[p.k].n
      BY <1>4, StageOf
    <2>2. todo[p.k] \in Send
      BY <1>2, <2>1
    <2>3. todo[p.k].n \in Int
      BY <2>1, <2>2 DEF Routed, Send
    <2>4. todo[p.k].n <= seen
      BY <2>1 DEF PortalInv, SentInv, Below
    <2> QED
      BY <1>4, <2>1, <2>3, <2>4
  <1>5. CASE p.stage = 3
    <2>1. p.k \in 1..Len(calls) /\ FrameIn(calls[p.k]) /\ p.n = calls[p.k].n
      BY <1>5, StageOf
    <2>2. calls[p.k].n \in (seen + 1)..Passed
      BY <2>1 DEF PortalInv, CallInv, Between
    <2>3. \A m \in (seen + 1)..Passed : m \in Int /\ seen < m /\ m <= Passed
      BY <1>1
    <2>4. p.n \in Int /\ seen < p.n /\ p.n <= Passed
      BY <2>1, <2>2, <2>3
    <2> QED
      BY <1>5, <2>4
  <1>6. CASE p.stage = 4
    <2>1. p.k \in 1..Len(hand) /\ p.n = hand[p.k]
      BY <1>6, StageOf
    <2>2. hand[p.k] = Taken
      BY <2>1 DEF PortalInv, ReadInv
    <2>3. p.k = 1 /\ Passed < Taken
      BY <1>1, <1>2, <2>1 DEF Passed
    <2> QED
      BY <1>1, <1>6, <2>1, <2>2, <2>3
  <1>7. CASE p.stage = 5
    <2>1. p.k \in 1..Len(inlet) /\ p.n = inlet[p.k]
      BY <1>7, StageOf
    <2>2. inlet[p.k] = Taken + p.k
      BY <2>1 DEF PortalInv, ReadInv
    <2> QED
      BY <1>1, <1>7, <2>1, <2>2, SMTT(20)
  <1> QED
    BY <1>3, <1>4, <1>5, <1>6, <1>7, StageOf

\* Requests reach the muxer in the order the stream brought them, each
\* recipient in its turn and once, whatever times out on the way (InOrder:
\* reader, pump and portal task).
THEOREM RequestsInOrder == Spec => []InOrder
  <1>1. ASSUME PortalInv, NEW p \in Pipeline, NEW q \in Pipeline,
               p.stage < q.stage \/ (p.stage = q.stage /\ p.k < q.k)
        PROVE  p.n < q.n \/ (p.n = q.n /\ p.i < q.i)
    <2>1. /\ Len(hand) \in Nat /\ seen \in Nat /\ Taken \in Int /\ Passed \in Int
          /\ seen <= Passed /\ Passed <= Taken
      <3>1. /\ Len(hand) \in Nat /\ seen \in Nat /\ Taken \in Int /\ Passed \in Int
            /\ seen <= Passed
        BY <1>1, Counts DEF PortalInv, ReadInv
      <3> QED
        BY <3>1 DEF Passed
    <2>2. /\ p.stage \in {1, 2, 3, 4, 5} /\ q.stage \in {1, 2, 3, 4, 5}
          /\ p.n \in Int /\ q.n \in Int
      BY <1>1, StageOf, StageBounds
    <2>3. CASE p.stage \in {1, 2} /\ q.stage \in {3, 4, 5}
      <3>1. p.n <= seen
        BY <1>1, <2>3, StageBounds
      <3>2. q.n > seen
        <4>1. CASE q.stage = 3
          BY <1>1, <4>1, StageBounds
        <4>2. CASE q.stage = 4
          <5>1. q.n = Taken /\ Passed < Taken
            BY <1>1, <4>2, StageBounds
          <5> QED
            BY <2>1, <5>1
        <4>3. CASE q.stage = 5
          <5>1. q.k \in Nat /\ q.k > 0 /\ q.n = Taken + q.k
            BY <1>1, <4>3, StageBounds
          <5> QED
            BY <2>1, <5>1
        <4> QED
          BY <2>3, <4>1, <4>2, <4>3
      <3> QED
        BY <2>1, <2>2, <3>1, <3>2
    <2>4. CASE p.stage = 3 /\ q.stage \in {4, 5}
      <3>1. p.n <= Passed
        BY <1>1, <2>4, StageBounds
      <3>2. q.n > Passed
        <4>1. CASE q.stage = 4
          <5>1. q.n = Taken /\ Passed < Taken
            BY <1>1, <4>1, StageBounds
          <5> QED
            BY <2>1, <5>1
        <4>2. CASE q.stage = 5
          <5>1. q.k \in Nat /\ q.k > 0 /\ q.n = Taken + q.k
            BY <1>1, <4>2, StageBounds
          <5> QED
            BY <2>1, <5>1
        <4> QED
          BY <2>4, <4>1, <4>2
      <3> QED
        BY <2>1, <2>2, <3>1, <3>2
    <2>5. CASE p.stage = 4 /\ q.stage = 5
      <3>1. p.n = Taken /\ q.n > Taken
        BY <1>1, <2>1, <2>5, StageBounds, SMTT(20)
      <3> QED
        BY <2>1, <2>2, <3>1
    <2>6. CASE p.stage = 1 /\ q.stage = 1
      <3>1. /\ p.k \in 1..Len(mux) /\ Routed(mux[p.k]) /\ p.n = mux[p.k].n /\ p.i = mux[p.k].i
            /\ q.k \in 1..Len(mux) /\ Routed(mux[q.k]) /\ q.n = mux[q.k].n /\ q.i = mux[q.k].i
            /\ p.k < q.k
        BY <1>1, <2>6, StageOf
      <3> QED
        BY <1>1, <3>1 DEF PortalInv, SentInv, InTurn, Ordered
    <2>7. CASE p.stage = 2 /\ q.stage = 2
      <3>1. /\ p.k \in 1..Len(todo) /\ Routed(todo[p.k]) /\ p.n = todo[p.k].n /\ p.i = todo[p.k].i
            /\ q.k \in 1..Len(todo) /\ Routed(todo[q.k]) /\ q.n = todo[q.k].n /\ q.i = todo[q.k].i
            /\ p.k < q.k
        BY <1>1, <2>7, StageOf
      <3> QED
        BY <1>1, <3>1 DEF PortalInv, SentInv, InTurn, Ordered
    <2>8. CASE p.stage = 1 /\ q.stage = 2
      <3>1. /\ p.k \in 1..Len(mux) /\ Routed(mux[p.k]) /\ p.n = mux[p.k].n /\ p.i = mux[p.k].i
            /\ q.k \in 1..Len(todo) /\ Routed(todo[q.k]) /\ q.n = todo[q.k].n /\ q.i = todo[q.k].i
        BY <1>1, <2>8, StageOf
      <3> QED
        BY <1>1, <3>1 DEF PortalInv, SentInv, Before, Ordered
    <2>9. CASE p.stage = 3 /\ q.stage = 3
      <3>1. /\ p.k \in 1..Len(calls) /\ FrameIn(calls[p.k]) /\ p.n = calls[p.k].n
            /\ q.k \in 1..Len(calls) /\ FrameIn(calls[q.k]) /\ q.n = calls[q.k].n
            /\ p.k < q.k
        BY <1>1, <2>9, StageOf
      <3> QED
        BY <1>1, <3>1 DEF PortalInv, CallInv, Ascending
    <2>10. CASE p.stage = 4 /\ q.stage = 4
      <3>1. p.k = 1 /\ q.k = 1 /\ p.k < q.k
        BY <1>1, <2>10, StageBounds
      <3> QED
        BY <3>1
    <2>11. CASE p.stage = 5 /\ q.stage = 5
      <3>1. /\ p.k \in Nat /\ p.n = Taken + p.k /\ q.k \in Nat /\ q.n = Taken + q.k
            /\ p.k < q.k
        BY <1>1, <2>11, StageBounds
      <3> QED
        BY <2>1, <3>1
    <2> QED
      BY <1>1, <2>2, <2>3, <2>4, <2>5, <2>6, <2>7, <2>8, <2>9, <2>10, <2>11
  <1>2. PortalInv => InOrder
    BY <1>1 DEF InOrder
  <1> QED
    BY PortalInvariant, <1>2, PTL

\* While the portal task runs, a frame read after those it has received is on its
\* way to it, but for the last, whose loss ended the reader (LossEndsReading:
\* try_send into the inlet, send().await into the calls).
THEOREM OnlyLastIsLost == Spec => []LossEndsReading
  <1>1. ASSUME PortalInv, ~TaskOver, NEW n \in 1..Len(wire)
        PROVE  /\ Unseen(n) => n > seen
               /\ n > seen /\ ~Unseen(n) => n = Len(wire) /\ reader = "ended"
    <2>1. /\ Len(wire) \in Nat /\ Len(inlet) \in Nat /\ Len(hand) \in Nat /\ seen \in Nat
          /\ accepted \in Nat /\ Taken \in Int /\ Passed \in Int
          /\ seen <= Passed /\ Len(hand) <= 1
      BY <1>1, Counts DEF PortalInv, ReadInv, TypeOK
    <2>2. /\ DOMAIN inlet = 1..Len(inlet) /\ DOMAIN hand = 1..Len(hand)
          /\ DOMAIN calls = 1..Len(calls)
      BY <1>1 DEF PortalInv, TypeOK
    <2>3. /\ \A i \in 1..Len(inlet) : inlet[i] = Taken + i
          /\ \A i \in 1..Len(hand) : hand[i] = Taken
          /\ \A i \in 1..Len(calls) : FrameIn(calls[i]) => calls[i].n \in (seen + 1)..Passed
          /\ \A m \in (seen + 1)..Passed :
               \E i \in 1..Len(calls) : FrameIn(calls[i]) /\ calls[i].n = m
      BY <1>1 DEF PortalInv, ReadInv, CallInv, Between, Complete
    <2>4. Taken = accepted - Len(inlet) /\ Passed = Taken - Len(hand)
      BY DEF Taken, Passed
    <2>5. ASSUME Unseen(n) PROVE n > seen
      <3>1. CASE \E i \in DOMAIN inlet : inlet[i] = n
        BY <2>1, <2>2, <2>3, <2>4, <3>1
      <3>2. CASE \E i \in DOMAIN hand : hand[i] = n
        BY <2>1, <2>2, <2>3, <2>4, <3>2
      <3>3. CASE \E i \in DOMAIN calls : calls[i].call = "FrameIn" /\ calls[i].n = n
        BY <2>1, <2>2, <2>3, <3>3 DEF FrameIn
      <3> QED
        BY <2>5, <3>1, <3>2, <3>3 DEF Unseen
    <2>6. ASSUME n > seen, n <= accepted PROVE Unseen(n)
      <3>1. CASE n <= Passed
        <4>1. n \in (seen + 1)..Passed
          BY <2>1, <2>6, <3>1
        <4>2. PICK i \in 1..Len(calls) : FrameIn(calls[i]) /\ calls[i].n = n
          BY <2>3, <4>1
        <4> QED
          BY <2>2, <4>2 DEF Unseen, FrameIn
      <3>2. CASE n > Passed /\ n <= Taken
        <4>1. 1 \in 1..Len(hand) /\ n = Taken
          BY <2>1, <2>4, <3>2
        <4>2. hand[1] = n
          BY <2>3, <4>1
        <4> QED
          BY <2>2, <4>1, <4>2 DEF Unseen
      <3>3. CASE n > Taken
        <4>1. n - Taken \in 1..Len(inlet)
          BY <2>1, <2>4, <2>6, <3>3
        <4>2. inlet[n - Taken] = n
          BY <2>1, <2>3, <4>1
        <4> QED
          BY <2>2, <4>1, <4>2 DEF Unseen
      <3> QED
        BY <2>1, <3>1, <3>2, <3>3
    <2>7. n > accepted => n = Len(wire) /\ reader = "ended"
      <3>1. accepted = Len(wire) \/ (reader = "ended" /\ accepted + 1 = Len(wire))
        BY <1>1 DEF PortalInv, ReadInv
      <3> QED
        BY <2>1, <3>1
    <2> QED
      BY <2>1, <2>5, <2>6, <2>7
  <1>2. PortalInv => LossEndsReading
    BY <1>1 DEF LossEndsReading
  <1> QED
    BY PortalInvariant, <1>2, PTL

\* A caller of Portal::exchange that waits has its oneshot sender with the task,
\* and one that is done has none there (ExchangePending).
THEOREM ExchangesArePending == Spec => []ExchangePending
  <1>1. ASSUME PortalInv PROVE ExchangePending
    <2>1. \A e \in Exchanges : Pending(e) <=> e \in exchanges \/ Queued(calls, e)
      BY <1>1, PendingIs DEF PortalInv
    <2> QED
      BY <1>1, <2>1 DEF ExchangePending, PortalInv, SenderInv, SenderOf
  <1> QED
    BY PortalInvariant, <1>1, PTL

\* Only the owner's own frames can be ahead of the Init frame that the far end
\* expects first (OnlyOwnerAheadOfInit: Portal::send, Portal::shutdown).
THEOREM InitIsFirst == Spec => []OnlyOwnerAheadOfInit
  <1>1. PortalInv => OnlyOwnerAheadOfInit
    BY DEF PortalInv
  <1> QED
    BY PortalInvariant, <1>1, PTL
=============================================================================
