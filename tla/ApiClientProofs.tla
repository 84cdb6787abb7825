-------------------------- MODULE ApiClientProofs --------------------------
(***************************************************************************)
(* What TLAPS proves of ApiClient, for any sets of calls, requests and     *)
(* holders of the skel, and any capacity of the inlet.                     *)
(***************************************************************************)
EXTENDS ApiClient, SequenceTheorems, TLAPS

\* What send_frame leaves of the inlet: the frame goes to the end, or nowhere.
LEMMA SendFrameKeeps ==
  ASSUME NEW frame \in InletFrame, inlet \in Seq(InletFrame), Len(inlet) <= InletCap,
         SendFrame(frame)
  PROVE  /\ inlet' \in Seq(InletFrame)
         /\ Len(inlet') <= InletCap
         /\ \A i \in 1..Len(inlet') :
              \/ i \in 1..Len(inlet) /\ inlet'[i] = inlet[i]
              \/ inlet'[i] = frame
  BY ConstantsAssumption DEF SendFrame

\* The task of a request sends one response if the request asks for one, and
\* nothing if it does not.
LEMMA HandleSends ==
  ASSUME NEW r \in Requests, HandleRequest(r)
  PROVE  \/ /\ handler[r].kind = "RequestResponse"
            /\ \E frame \in InletFrame :
                 frame.type = "Response" /\ frame.to = r /\ SendFrame(frame)
         \/ handler[r].kind # "RequestResponse" /\ inlet' = inlet
  <1>1. \A ok \in BOOLEAN : [type |-> "Response", to |-> r, ok |-> ok] \in InletFrame
    BY DEF InletFrame
  <1>2. PICK ok \in BOOLEAN : Respond(r, ok)
    BY DEF HandleRequest, HandleHttp, HandlePort, HandleNoPort
  <1> QED
    BY <1>1, <1>2 DEF Respond

-----------------------------------------------------------------------------
\* The invariant holds when Portal::new has made the skel and the control.
LEMMA InitExchangeInv == Init => ExchangeInv
  <1> SUFFICES ASSUME Init PROVE ExchangeInv
    OBVIOUS
  <1>1. TypeOK
    <2>1. [type |-> "Status", status |-> "Initializing"] \in InletFrame
      BY DEF InletFrame, Status
    <2>2. inlet \in Seq(InletFrame) /\ Len(inlet) = 1
      BY <2>1 DEF Init
    <2>3. outlet \in Seq(OutletFrame)
      BY DEF Init
    <2>4. handler \in [Requests -> [phase : {"none", "running", "done"},
                                    op : Operation, kind : ExchangeKind]]
      BY DEF Init, Operation, ExchangeKind
    <2>5. Len(inlet) <= InletCap
      BY <2>2, ConstantsAssumption
    <2> QED
      BY <2>2, <2>3, <2>4, <2>5 DEF Init, TypeOK, Status
  <1>2. TableInv
    BY DEF Init, TableInv, WaitingIsRegistered, Live
  <1>3. WireInv
    <2>1. \A i \in 1..Len(inlet) : inlet[i].type # "Request"
      BY DEF Init
    <2> QED
      BY <2>1 DEF Init, WireInv
  <1>4. ReceiveInv
    BY DEF Init, ReceiveInv, ResponseReachesCaller, LeaksOnlyUnanswered
  <1> QED
    BY <1>1, <1>2, <1>3, <1>4 DEF ExchangeInv

\* Types are preserved by every step, whatever else holds.
LEMMA TypeStep == TypeOK /\ [Next]_vars => TypeOK'
  <1> SUFFICES ASSUME TypeOK, [Next]_vars PROVE TypeOK'
    OBVIOUS
  <1> USE ConstantsAssumption
      DEF TypeOK, vars, skelVars, callVars, recvVars, meshVars
  <1>1. CASE InitReturns
    BY <1>1 DEF InitReturns
  <1>2. ASSUME NEW s \in Setters, NEW v \in Settable, SetStatusWrite(s, v) PROVE TypeOK'
    BY <1>2 DEF SetStatusWrite
  <1>3. ASSUME NEW s \in Setters, SetStatusSend(s) PROVE TypeOK'
    <2>1. [type |-> "Status", status |-> setter[s]] \in InletFrame
      BY <1>3 DEF SetStatusSend, InletFrame
    <2> QED
      BY <1>3, <2>1, SendFrameKeeps DEF SetStatusSend
  <1>4. CASE Notify
    <2>1. [type |-> "Notify"] \in InletFrame
      BY DEF InletFrame
    <2> QED
      BY <1>4, <2>1, SendFrameKeeps DEF Notify
  <1>5. ASSUME NEW c \in Calls, Exchange(c) PROVE TypeOK'
    <2>1. CASE ExchangeInsert(c)
      <3>1. [type |-> "Log"] \in InletFrame
        BY DEF InletFrame
      <3> QED
        BY <2>1, <3>1, SendFrameKeeps DEF ExchangeInsert
    <2>2. CASE ExchangeSend(c)
      <3>1. [type |-> "Request", id |-> c] \in InletFrame
        BY DEF InletFrame
      <3> QED
        BY <2>2, <3>1, SendFrameKeeps DEF ExchangeSend
    <2>3. CASE ExchangeAnswered(c) \/ ExchangeTimeout(c) \/ ExchangeDropped(c)
      BY <2>3 DEF ExchangeAnswered, ExchangeTimeout, ExchangeDropped
    <2> QED
      BY <1>5, <2>1, <2>2, <2>3 DEF Exchange
  <1>6. CASE ReceiveResponse
    <2>1. Head(outlet) \in OutletFrame /\ outlet' \in Seq(OutletFrame)
      BY <1>6, HeadTailProperties, LenProperties DEF ReceiveResponse, Receive
    <2>2. Head(outlet).reply \in Reply
      BY <1>6, <2>1 DEF ReceiveResponse, Receive, OutletFrame, Inert
    <2> QED
      BY <1>6, <2>1, <2>2 DEF ReceiveResponse, Receive
  <1>7. CASE ReceiveRequest
    <2>1. Head(outlet) \in OutletFrame /\ outlet' \in Seq(OutletFrame)
      BY <1>7, HeadTailProperties, LenProperties DEF ReceiveRequest, Receive
    <2>2. /\ Head(outlet).id \in Requests
          /\ Head(outlet).op \in Operation
          /\ Head(outlet).kind \in ExchangeKind
      BY <1>7, <2>1 DEF ReceiveRequest, Receive, OutletFrame, Inert
    <2> QED
      BY <1>7, <2>1, <2>2 DEF ReceiveRequest, Receive
  <1>8. CASE ReceiveIgnored
    <2>1. PICK type \in Inert \cup {"Response", "Request"} : Receive(type)
      BY <1>8 DEF ReceiveIgnored
    <2>2. outlet' \in Seq(OutletFrame)
      BY <2>1, HeadTailProperties, LenProperties DEF Receive
    <2> QED
      BY <1>8, <2>1, <2>2 DEF ReceiveIgnored, Receive
  <1>9. ASSUME NEW r \in Requests, HandleRequest(r) PROVE TypeOK'
    <2>1. inlet' \in Seq(InletFrame) /\ Len(inlet') <= InletCap
      BY <1>9, HandleSends, SendFrameKeeps
    <2>2. handler' \in [Requests -> [phase : {"none", "running", "done"},
                                     op : Operation, kind : ExchangeKind]]
      <3>1. handler' = [handler EXCEPT ![r].phase = "done"]
        BY <1>9 DEF HandleRequest, HandleHttp, HandlePort, HandleNoPort, Handle
      <3> QED
        BY <3>1
    <2>3. UNCHANGED <<portal, skelVars, callVars, recvVars, meshVars, outlet>>
      BY <1>9 DEF HandleRequest, HandleHttp, HandlePort, HandleNoPort, Handle
    <2> QED
      BY <2>1, <2>2, <2>3
  <1>10. CASE Mesh
    <2>1. CASE TakeFrame
      <3>1. /\ Head(inlet) \in InletFrame
            /\ inlet' \in Seq(InletFrame)
            /\ Len(inlet') <= InletCap
        BY <2>1, HeadTailProperties, LenProperties DEF TakeFrame
      <3>2. /\ Head(inlet).type = "Request" => Head(inlet).id \in Calls
            /\ Head(inlet).type = "Response" => Head(inlet).to \in Requests
        BY <3>1 DEF InletFrame
      <3> QED
        BY <2>1, <3>1, <3>2 DEF TakeFrame
    <2>2. ASSUME NEW reply \in Reply, MeshResponds(reply) PROVE TypeOK'
      <3>1. [type |-> "Response", reply |-> reply] \in OutletFrame
        BY DEF OutletFrame
      <3> QED
        BY <2>2, <3>1, AppendProperties, LenProperties DEF MeshResponds
    <2>3. ASSUME NEW r \in Requests, NEW op \in Operation, NEW kind \in Kinds,
                 MeshRequests(r, op, kind)
          PROVE  TypeOK'
      <3>1. [type |-> "Request", id |-> r, op |-> op, kind |-> kind] \in OutletFrame
        BY DEF OutletFrame
      <3> QED
        BY <2>3, <3>1, AppendProperties, LenProperties DEF MeshRequests
    <2>4. ASSUME NEW type \in InertFrames, MeshSends(type) PROVE TypeOK'
      <3>1. [type |-> type] \in OutletFrame
        BY DEF OutletFrame
      <3> QED
        BY <2>4, <3>1, AppendProperties, LenProperties DEF MeshSends
    <2> QED
      BY <1>10, <2>1, <2>2, <2>3, <2>4 DEF Mesh
  <1>11. CASE TakeSender \/ SendToCaller
    <2>1. CASE TakeSender
      BY <2>1 DEF TakeSender
    <2>2. CASE SendToCaller
      <3>1. slot' \in [Calls -> Reply \cup {None}]
        BY <2>2 DEF SendToCaller
      <3> QED
        BY <2>2, <3>1 DEF SendToCaller
    <2> QED
      BY <1>11, <2>1, <2>2
  <1>12. CASE UNCHANGED vars
    BY <1>12
  <1> QED
    BY <1>1, <1>2, <1>3, <1>4, <1>5, <1>6, <1>7, <1>8, <1>9, <1>10, <1>11, <1>12 DEF Next

\* Every reachable state is well typed, for any value of the constants.
THEOREM TypeCorrect == Spec => []TypeOK
  <1>1. Init => TypeOK
    BY InitExchangeInv DEF ExchangeInv
  <1> QED
    BY <1>1, TypeStep, PTL DEF Spec

-----------------------------------------------------------------------------
\* Every step that is not an exchange's own, nor part of the receipt of a
\* response, leaves the table, the calls and their channels alone, and what
\* receive() has in hand.
LEMMA TableFrame ==
  [Next]_vars =>
    \/ \E c \in Calls : Exchange(c)
    \/ ReceiveResponse \/ TakeSender \/ SendToCaller
    \/ UNCHANGED <<callVars, recvVars>> /\ issued \subseteq issued'
  BY DEF Next, vars, skelVars, callVars, recvVars, meshVars, InitReturns, SetStatusWrite,
         SetStatusSend, Notify, ReceiveRequest, ReceiveIgnored, Receive, HandleRequest,
         HandleHttp, HandlePort, HandleNoPort, Handle, Mesh, TakeFrame, MeshResponds,
         MeshRequests, MeshSends

\* What receive() has in hand is a response to a call that has sent.
LEMMA HandIsSent ==
  ASSUME ExchangeInv, hand # None
  PROVE  hand \in Reply /\ hand \in issued /\ hand.id \in Calls /\ Sent(hand.id)
  BY DEF ExchangeInv, TypeOK, WireInv, ReceiveInv, Reply

\* The table part of the invariant, one case for each action that changes it.
LEMMA TableStep == ExchangeInv /\ [Next]_vars => TableInv'
  <1> SUFFICES ASSUME ExchangeInv, [Next]_vars PROVE TableInv'
    OBVIOUS
  <1> USE ConstantsAssumption
      DEF ExchangeInv, TypeOK, TableInv, WaitingIsRegistered, Live, callVars, meshVars
  <1>1. ASSUME NEW c \in Calls, Exchange(c) PROVE TableInv'
    BY <1>1 DEF Exchange, ExchangeInsert, ExchangeSend, ExchangeAnswered, ExchangeTimeout,
                ExchangeDropped, recvVars
  <1>2. CASE ReceiveResponse
    BY <1>2 DEF ReceiveResponse, Receive, ReceiveInv
  <1>3. CASE TakeSender
    BY <1>3, HandIsSent DEF TakeSender
  <1>4. CASE SendToCaller
    <2>1. hand # None /\ hand.id \notin exchanges
      BY <1>4 DEF SendToCaller, ReceiveInv
    <2>2. hand \in Reply /\ hand \in issued /\ hand.id \in Calls /\ Sent(hand.id)
      BY <2>1, HandIsSent
    <2> QED
      BY <1>4, <2>1, <2>2 DEF SendToCaller, Sent
  <1>5. CASE UNCHANGED <<callVars, recvVars>> /\ issued \subseteq issued'
    BY <1>5 DEF recvVars
  <1> QED
    BY <1>1, <1>2, <1>3, <1>4, <1>5, TableFrame

\* The part about receive(): what it has received stays true of the callers,
\* whatever they do, and of the table, into which an id comes once.
LEMMA ReceiveStep == ExchangeInv /\ [Next]_vars => ReceiveInv'
  <1> SUFFICES ASSUME ExchangeInv, [Next]_vars PROVE ReceiveInv'
    OBVIOUS
  <1> USE ConstantsAssumption
      DEF ExchangeInv, TypeOK, ReceiveInv, ResponseReachesCaller, LeaksOnlyUnanswered,
          Live, callVars, recvVars, meshVars
  <1>1. \A reply \in received : reply.id \in Calls /\ Sent(reply.id)
    BY DEF WireInv, Reply
  <1>2. ASSUME NEW c \in Calls, Exchange(c) PROVE ReceiveInv'
    <2>1. CASE ExchangeInsert(c)
      <3>1. \A reply \in received : reply.id # c
        BY <1>1, <2>1 DEF ExchangeInsert, Sent
      <3> QED
        BY <1>1, <2>1, <3>1 DEF ExchangeInsert
    <2>2. CASE ExchangeSend(c)
      BY <1>1, <2>2 DEF ExchangeSend
    <2>3. CASE ExchangeAnswered(c) \/ ExchangeTimeout(c) \/ ExchangeDropped(c)
      BY <1>1, <2>3 DEF ExchangeAnswered, ExchangeTimeout, ExchangeDropped
    <2> QED
      BY <1>2, <2>1, <2>2, <2>3 DEF Exchange
  <1>3. CASE ReceiveResponse
    <2>1. Head(outlet) \in OutletFrame /\ Head(outlet) = outlet[1] /\ 1 \in 1..Len(outlet)
      BY <1>3, HeadTailProperties, LenProperties DEF ReceiveResponse, Receive
    <2>2. hand' \in issued
      BY <1>3, <2>1 DEF ReceiveResponse, Receive, WireInv
    <2>3. hand = None /\ ~taken /\ ~taken' /\ received' = received \cup {hand'}
      BY <1>3 DEF ReceiveResponse, Receive
    <2>4. None \notin received
      BY DEF Reply
    <2> QED
      BY <1>3, <2>2, <2>3, <2>4 DEF ReceiveResponse, Receive
  <1>4. CASE TakeSender
    <2>1. CASE hand.id \in exchanges
      BY <1>4, <2>1 DEF TakeSender
    <2>2. CASE hand.id \notin exchanges
      <3>1. hand # None /\ ~taken /\ hand' = None /\ UNCHANGED <<received, issued, exchanges, taken, call, slot>>
        BY <1>4, <2>2 DEF TakeSender
      <3>2. hand.id \in Calls
        BY <3>1, HandIsSent
      <3>3. Live(hand.id) => slot[hand.id] # None
        BY <2>2, <3>1, <3>2 DEF TableInv, WaitingIsRegistered
      <3> QED
        BY <2>2, <3>1, <3>3
    <2> QED
      BY <2>1, <2>2
  <1>5. CASE SendToCaller
    <2>1. hand # None /\ hand.id \notin exchanges /\ hand \in Reply /\ hand.id \in Calls
      BY <1>5, HandIsSent DEF SendToCaller
    <2>2. hand # None /\ None \notin Reply
      BY <2>1
    <2>3. \A reply \in received : Live(reply.id) => slot'[reply.id] # None
      BY <1>1, <1>5, <2>1, <2>2 DEF SendToCaller
    <2> QED
      BY <1>5, <2>1, <2>3 DEF SendToCaller
  <1>6. CASE UNCHANGED <<callVars, recvVars>> /\ issued \subseteq issued'
    BY <1>6
  <1> QED
    BY <1>2, <1>3, <1>4, <1>5, <1>6, TableFrame

\* The wire part of the invariant: first by what a step does to the two queues,
\* then action by action.
LEMMA WireStep == ExchangeInv /\ [Next]_vars => WireInv'
  <1> SUFFICES ASSUME ExchangeInv, [Next]_vars PROVE WireInv'
    OBVIOUS
  <1> USE ConstantsAssumption
      DEF ExchangeInv, TypeOK, WireInv, Sent, vars, skelVars, callVars, recvVars, meshVars
  <1>1. ASSUME NEW frame \in InletFrame, SendFrame(frame), UNCHANGED <<asked, issued>>,
               outlet' = outlet, \A c \in Calls : Sent(c) => Sent(c)',
               frame.type = "Request" => Sent(frame.id)'
        PROVE  WireInv'
    <2>1. \A i \in 1..Len(inlet) : inlet[i] \in InletFrame
      OBVIOUS
    <2>2. \A i \in 1..Len(inlet) : inlet[i].type = "Request" => inlet[i].id \in Calls
      BY <2>1 DEF InletFrame
    <2> QED
      BY <1>1, <2>2, SendFrameKeeps, Zenon
  <1>2. ASSUME UNCHANGED <<inlet, asked, issued>>, outlet' = outlet \/ (outlet # <<>> /\ outlet' = Tail(outlet)),
               \A c \in Calls : Sent(c) => Sent(c)'
        PROVE  WireInv'
    <2>1. \A i \in 1..Len(inlet) : inlet[i] \in InletFrame
      OBVIOUS
    <2>2. \A i \in 1..Len(inlet) : inlet[i].type = "Request" => inlet[i].id \in Calls
      BY <2>1 DEF InletFrame
    <2>3. \A reply \in issued : reply.id \in Calls
      BY DEF Reply
    <2>4. \A i \in 1..Len(outlet') :
            \E j \in 1..Len(outlet) : outlet'[i] = outlet[j]
      <3>1. CASE outlet' = outlet
        BY <3>1
      <3>2. CASE outlet # <<>> /\ outlet' = Tail(outlet)
        <4>1. \A i \in 1..Len(outlet') : i + 1 \in 1..Len(outlet) /\ outlet'[i] = outlet[i + 1]
          BY <3>2, HeadTailProperties, LenProperties
        <4> QED
          BY <4>1
      <3> QED
        BY <1>2, <3>1, <3>2
    <2>5. \A i \in 1..Len(outlet') :
            outlet'[i].type = "Response" => outlet'[i].reply \in issued
      <3> TAKE i \in 1..Len(outlet')
      <3>1. PICK j \in 1..Len(outlet) : outlet'[i] = outlet[j]
        BY <2>4
      <3> QED
        BY <3>1
    <2>6. \A i \in 1..Len(inlet) : inlet[i].type = "Request" => Sent(inlet[i].id)'
      BY <1>2, <2>2
    <2>7. \A c \in asked : Sent(c)'
      BY <1>2
    <2> QED
      BY <1>2, <2>5, <2>6, <2>7
  <1>3. ASSUME NEW frame \in OutletFrame, outlet' = Append(outlet, frame),
               UNCHANGED <<inlet, callVars, asked>>, issued \subseteq issued',
               frame.type = "Response" => frame.reply \in issued',
               \A reply \in issued' : reply.id \in asked
        PROVE  WireInv'
    BY <1>3, AppendProperties, LenProperties
  <1>4. CASE InitReturns
    BY <1>4, <1>2 DEF InitReturns
  <1>5. ASSUME NEW s \in Setters, NEW v \in Settable, SetStatusWrite(s, v) PROVE WireInv'
    BY <1>5, <1>2 DEF SetStatusWrite
  <1>6. ASSUME NEW s \in Setters, SetStatusSend(s) PROVE WireInv'
    <2>1. [type |-> "Status", status |-> setter[s]] \in InletFrame
      BY <1>6 DEF SetStatusSend, InletFrame
    <2> QED
      BY <1>6, <2>1, <1>1 DEF SetStatusSend
  <1>7. CASE Notify
    BY <1>7, <1>1 DEF Notify, InletFrame
  <1>8. ASSUME NEW c \in Calls, Exchange(c) PROVE WireInv'
    <2>1. CASE ExchangeInsert(c)
      <3>1. \A d \in Calls : Sent(d) => Sent(d)'
        BY <2>1 DEF ExchangeInsert
      <3>2. [type |-> "Log"] \in InletFrame
        BY DEF InletFrame
      <3> QED
        BY <2>1, <3>1, <3>2, <1>1, <1>2 DEF ExchangeInsert
    <2>2. CASE ExchangeSend(c)
      <3>1. [type |-> "Request", id |-> c] \in InletFrame
        BY DEF InletFrame
      <3>2. Sent(c)' /\ \A d \in Calls : Sent(d) => Sent(d)'
        BY <2>2 DEF ExchangeSend
      <3> QED
        BY <2>2, <3>1, <3>2, <1>1 DEF ExchangeSend
    <2>3. CASE ExchangeAnswered(c) \/ ExchangeTimeout(c) \/ ExchangeDropped(c)
      BY <2>3, <1>2 DEF ExchangeAnswered, ExchangeTimeout, ExchangeDropped
    <2> QED
      BY <1>8, <2>1, <2>2, <2>3 DEF Exchange
  <1>9. CASE ReceiveResponse \/ ReceiveRequest \/ ReceiveIgnored \/ TakeSender \/ SendToCaller
    BY <1>9, <1>2
    DEF ReceiveResponse, ReceiveRequest, ReceiveIgnored, Receive, TakeSender, SendToCaller
  <1>10. ASSUME NEW r \in Requests, HandleRequest(r) PROVE WireInv'
    <2>1. UNCHANGED <<callVars, meshVars, outlet>>
      BY <1>10 DEF HandleRequest, HandleHttp, HandlePort, HandleNoPort, Handle
    <2>2. ASSUME NEW frame \in InletFrame, frame.type = "Response", SendFrame(frame)
          PROVE  WireInv'
      BY <2>1, <2>2, <1>1
    <2>3. CASE inlet' = inlet
      BY <2>1, <2>3, <1>2
    <2> QED
      BY <1>10, <2>2, <2>3, HandleSends
  <1>11. CASE TakeFrame
    <2>1. /\ inlet # <<>> /\ inlet' = Tail(inlet)
          /\ UNCHANGED <<callVars, issued, outlet>>
          /\ asked' = IF Head(inlet).type = "Request" THEN asked \cup {Head(inlet).id} ELSE asked
      BY <1>11 DEF TakeFrame
    <2>2. 1 \in 1..Len(inlet) /\ inlet[1] = Head(inlet)
      BY <2>1, HeadTailProperties, LenProperties
    <2>3. Head(inlet).type = "Request" => Sent(Head(inlet).id)
      BY <2>2
    <2> QED
      BY <2>1, <2>3, HeadTailProperties, LenProperties
  <1>12. ASSUME NEW reply \in Reply, MeshResponds(reply) PROVE WireInv'
    <2>1. [type |-> "Response", reply |-> reply] \in OutletFrame
      BY DEF OutletFrame
    <2> QED
      BY <1>12, <2>1, <1>3 DEF MeshResponds
  <1>13. ASSUME NEW r \in Requests, NEW op \in Operation, NEW kind \in Kinds,
                MeshRequests(r, op, kind)
         PROVE  WireInv'
    <2>1. [type |-> "Request", id |-> r, op |-> op, kind |-> kind] \in OutletFrame
      BY DEF OutletFrame
    <2> QED
      BY <1>13, <2>1, <1>3 DEF MeshRequests
  <1>14. ASSUME NEW type \in InertFrames, MeshSends(type) PROVE WireInv'
    <2>1. [type |-> type] \in OutletFrame /\ type # "Response"
      BY DEF OutletFrame, Inert
    <2> QED
      BY <1>14, <2>1, <1>3 DEF MeshSends
  <1>15. CASE UNCHANGED vars
    BY <1>15, <1>2
  <1> QED
    BY <1>4, <1>5, <1>6, <1>7, <1>8, <1>9, <1>10, <1>11, <1>12, <1>13, <1>14, <1>15
    DEF Next, Mesh

\* The inductive invariant, for any number of concurrent exchanges.
THEOREM ExchangeInvariant == Spec => []ExchangeInv
  <1>1. ExchangeInv /\ [Next]_vars => ExchangeInv'
    BY TypeStep, TableStep, WireStep, ReceiveStep DEF ExchangeInv
  <1> QED
    BY <1>1, InitExchangeInv, PTL DEF Spec
-----------------------------------------------------------------------------
\* A waiting caller is in the table in every reachable state, so receive()
\* finds it (InletApi::exchange against Portal::receive).
THEOREM WaitingRegistered == Spec => []WaitingIsRegistered
  <1>1. ExchangeInv => WaitingIsRegistered
    BY DEF ExchangeInv, TableInv
  <1> QED
    BY <1>1, ExchangeInvariant, PTL

\* What a Ready portal has received is not lost to a caller who still waits,
\* for any number of callers, timeouts and status changes in between.
THEOREM ResponsesReachCallers == Spec => []ResponseReachesCaller
  <1>1. ExchangeInv => ResponseReachesCaller
    BY DEF ExchangeInv, ReceiveInv
  <1> QED
    BY <1>1, ExchangeInvariant, PTL

\* No sender outlives the receipt of its response.
THEOREM ResponsesLeaveNothing == Spec => []LeaksOnlyUnanswered
  <1>1. ExchangeInv => LeaksOnlyUnanswered
    BY DEF ExchangeInv, ReceiveInv
  <1> QED
    BY <1>1, ExchangeInvariant, PTL

-----------------------------------------------------------------------------
\* Each step of exchange() and receive() is a step of the contract, or none.
LEMMA ContractStep ==
  ExchangeInv /\ [Next]_vars => [Contract!Next]_(Contract!vars)
  <1> SUFFICES ASSUME ExchangeInv, [Next]_vars
               PROVE  Contract!Next \/ UNCHANGED Contract!vars
    OBVIOUS
  <1> USE DEF ExchangeInv, TypeOK
  <1>1. ASSUME NEW c \in Calls, ExchangeInsert(c) PROVE Contract!Ask(c)
    BY <1>1 DEF ExchangeInsert, Contract!Ask, Live, meshVars
  <1>2. ASSUME NEW c \in Calls, ExchangeSend(c) PROVE UNCHANGED Contract!vars
    BY <1>2 DEF ExchangeSend, Contract!vars, Live, meshVars
  <1>3. ASSUME NEW c \in Calls, ExchangeAnswered(c)
        PROVE  \E x \in Reply : Contract!Answer(c, x)
    <2>1. slot[c] \in Reply /\ slot[c] \in issued /\ slot[c].id = c
      BY <1>3 DEF ExchangeAnswered, TableInv
    <2>2. PICK x \in Reply : x = slot[c]
      BY <2>1
    <2>3. Contract!Answer(c, x)
      BY <1>3, <2>1, <2>2 DEF ExchangeAnswered, Contract!Answer, Live, meshVars
    <2> QED
      BY <2>3
  <1>4. ASSUME NEW c \in Calls, ExchangeTimeout(c) \/ ExchangeDropped(c)
        PROVE  Contract!Fail(c)
    BY <1>4 DEF ExchangeTimeout, ExchangeDropped, Contract!Fail, Live, meshVars
  <1>5. CASE ReceiveResponse \/ TakeSender \/ SendToCaller
    <2>1. \A c \in Calls : call[c] = "answered" => slot'[c] = slot[c]
      BY <1>5 DEF ReceiveResponse, TakeSender, SendToCaller, Receive, callVars, Live
    <2> QED
      BY <1>5, <2>1
      DEF ReceiveResponse, TakeSender, SendToCaller, Receive, Contract!vars, Live, callVars, meshVars
  <1>6. ASSUME NEW reply \in Reply, MeshResponds(reply) PROVE Contract!Issue(reply)
    <2>1. reply.id \in Calls /\ call[reply.id] # "idle"
      BY <1>6 DEF MeshResponds, WireInv, Sent, Reply
    <2> QED
      BY <1>6, <2>1 DEF MeshResponds, Contract!Issue, Live, callVars
  <1>7. CASE UNCHANGED <<callVars, issued>>
    BY <1>7 DEF callVars, Contract!vars, Live
  <1>8. ASSUME NEW c \in Calls, Exchange(c) PROVE Contract!Next \/ UNCHANGED Contract!vars
    <2>1. CASE ExchangeInsert(c)
      BY <1>1, <2>1 DEF Contract!Next
    <2>2. CASE ExchangeAnswered(c)
      BY <1>3, <2>2 DEF Contract!Next
    <2>3. CASE ExchangeTimeout(c) \/ ExchangeDropped(c)
      BY <1>4, <2>3 DEF Contract!Next
    <2> QED
      BY <1>2, <1>8, <2>1, <2>2, <2>3 DEF Exchange
  <1>9. ASSUME NEW reply \in Reply, MeshResponds(reply) PROVE Contract!Next
    BY <1>6, <1>9 DEF Contract!Next
  <1>10. \/ \E c \in Calls : Exchange(c)
         \/ ReceiveResponse \/ TakeSender \/ SendToCaller
         \/ \E reply \in Reply : MeshResponds(reply)
         \/ UNCHANGED <<callVars, issued>>
    BY DEF Next, vars, meshVars, InitReturns, SetStatusWrite, SetStatusSend, Notify,
           ReceiveRequest, ReceiveIgnored, Receive, HandleRequest, HandleHttp, HandlePort,
           HandleNoPort, Handle, Mesh, TakeFrame, MeshRequests, MeshSends
  <1> QED
    BY <1>5, <1>7, <1>8, <1>9, <1>10

\* The portal, its table and its timers implement the contract of an exchange:
\* an answered call has the mesh's response to that call, and ends once.
THEOREM ImplementsContract == Spec => ContractSpec
  <1>1. Init => Contract!Init
    BY DEF Init, Contract!Init, Live
  <1> QED
    BY <1>1, ContractStep, ExchangeInvariant, PTL DEF Spec, ContractSpec, Contract!Spec

-----------------------------------------------------------------------------
\* A request is on its way to receive(), in the hands of its task, or done, and
\* in one of these places only; so its task runs once.
HandlerInv ==
  /\ \A i \in 1..Len(outlet) :
       outlet[i].type = "Request" => handler[outlet[i].id].phase = "none"
  /\ \A i, j \in 1..Len(outlet) :
       /\ outlet[i].type = "Request" /\ outlet[j].type = "Request"
       /\ outlet[i].id = outlet[j].id
       => i = j

\* What a step may do to the mesh's requests: nothing, or what receive(), a
\* task or the mesh itself does.
LEMMA RequestFrame ==
  [Next]_vars =>
    \/ UNCHANGED <<handler, outlet>>
    \/ outlet # <<>> /\ outlet' = Tail(outlet) /\ UNCHANGED handler
    \/ ReceiveRequest
    \/ \E r \in Requests : HandleRequest(r)
    \/ \E frame \in OutletFrame :
         /\ outlet' = Append(outlet, frame)
         /\ UNCHANGED handler
         /\ frame.type # "Request"
    \/ \E r \in Requests, op \in Operation, kind \in Kinds : MeshRequests(r, op, kind)
  <1> SUFFICES ASSUME [Next]_vars
               PROVE  \/ UNCHANGED <<handler, outlet>>
                      \/ outlet # <<>> /\ outlet' = Tail(outlet) /\ UNCHANGED handler
                      \/ ReceiveRequest
                      \/ \E r \in Requests : HandleRequest(r)
                      \/ \E frame \in OutletFrame :
                           /\ outlet' = Append(outlet, frame)
                           /\ UNCHANGED handler
                           /\ frame.type # "Request"
                      \/ \E r \in Requests, op \in Operation, kind \in Kinds :
                           MeshRequests(r, op, kind)
    OBVIOUS
  <1>1. ASSUME NEW reply \in Reply, MeshResponds(reply)
        PROVE  \E frame \in OutletFrame :
                 /\ outlet' = Append(outlet, frame)
                 /\ UNCHANGED handler
                 /\ frame.type # "Request"
    BY <1>1 DEF MeshResponds, OutletFrame
  <1>2. ASSUME NEW type \in InertFrames, MeshSends(type)
        PROVE  \E frame \in OutletFrame :
                 /\ outlet' = Append(outlet, frame)
                 /\ UNCHANGED handler
                 /\ frame.type # "Request"
    <2>1. [type |-> type] \in OutletFrame /\ type # "Request"
      BY ConstantsAssumption DEF OutletFrame, Inert
    <2> QED
      BY <1>2, <2>1 DEF MeshSends
  <1>3. ASSUME ReceiveResponse \/ ReceiveIgnored
        PROVE  outlet # <<>> /\ outlet' = Tail(outlet) /\ UNCHANGED handler
    BY <1>3 DEF ReceiveResponse, ReceiveIgnored, Receive
  <1> QED
    BY <1>1, <1>2, <1>3
    DEF Next, vars, InitReturns, SetStatusWrite, SetStatusSend, Notify, Exchange,
        ExchangeInsert, ExchangeSend, ExchangeAnswered, ExchangeTimeout, ExchangeDropped,
        TakeSender, SendToCaller, Mesh, TakeFrame

\* A request on its way to receive() is one of the mesh's.
LEMMA RequestsAreTyped ==
  ASSUME TypeOK, NEW i \in 1..Len(outlet), outlet[i].type = "Request"
  PROVE  outlet[i].id \in Requests
  <1>1. outlet[i] \in OutletFrame
    BY DEF TypeOK
  <1> QED
    BY <1>1 DEF OutletFrame, Inert

\* receive() finds no task yet for the request it takes.
LEMMA ReceivedIsNew ==
  ASSUME TypeOK, HandlerInv, ReceiveRequest
  PROVE  /\ Head(outlet).id \in Requests
         /\ handler[Head(outlet).id].phase = "none"
         /\ \A i \in 1..Len(outlet') :
              outlet'[i].type = "Request" => outlet'[i].id # Head(outlet).id
  <1>1. Head(outlet) = outlet[1] /\ 1 \in 1..Len(outlet) /\ Head(outlet).type = "Request"
    BY HeadTailProperties, LenProperties DEF ReceiveRequest, Receive, TypeOK
  <1>2. \A i \in 1..Len(outlet') :
          i + 1 \in 1..Len(outlet) /\ i + 1 # 1 /\ outlet'[i] = outlet[i + 1]
    BY HeadTailProperties, LenProperties DEF ReceiveRequest, Receive, TypeOK
  <1>3. \A i \in 1..Len(outlet') :
          outlet'[i].type = "Request" => outlet'[i].id # Head(outlet).id
    BY <1>1, <1>2 DEF HandlerInv
  <1> QED
    BY <1>1, <1>3, RequestsAreTyped DEF HandlerInv

\* Every step keeps a request in one place.
LEMMA HandlerStep == TypeOK /\ HandlerInv /\ [Next]_vars => HandlerInv'
  <1> SUFFICES ASSUME TypeOK, HandlerInv, [Next]_vars PROVE HandlerInv'
    OBVIOUS
  <1>1. CASE UNCHANGED <<handler, outlet>>
    BY <1>1 DEF HandlerInv
  <1>2. ASSUME outlet # <<>>, outlet' = Tail(outlet)
        PROVE  /\ \A i \in 1..Len(outlet') : i + 1 \in 1..Len(outlet) /\ outlet'[i] = outlet[i + 1]
               /\ Len(outlet) \in Nat /\ Len(outlet') \in Nat
    BY <1>2, HeadTailProperties, LenProperties DEF TypeOK
  <1>3. CASE outlet # <<>> /\ outlet' = Tail(outlet) /\ UNCHANGED handler
    BY <1>2, <1>3 DEF HandlerInv
  <1>4. CASE ReceiveRequest
    <2> DEFINE request == Head(outlet)
    <2>1. /\ outlet # <<>> /\ outlet' = Tail(outlet)
          /\ handler' = [handler EXCEPT ![request.id] =
                           [phase |-> "running", op |-> request.op, kind |-> request.kind]]
      BY <1>4 DEF ReceiveRequest, Receive
    <2>2. \A i \in 1..Len(outlet') :
            outlet'[i].type = "Request" => outlet'[i].id # request.id
      BY <1>4, ReceivedIsNew
    <2> HIDE DEF request
    <2>3. \A i \in 1..Len(outlet') :
            outlet'[i].type = "Request" => handler'[outlet'[i].id].phase = "none"
      <3> TAKE i \in 1..Len(outlet')
      <3> HAVE outlet'[i].type = "Request"
      <3>1. outlet'[i].id \in Requests
        BY <1>2, <2>1, RequestsAreTyped
      <3>2. handler[outlet'[i].id].phase = "none"
        BY <1>2, <2>1 DEF HandlerInv
      <3> QED
        BY <2>1, <2>2, <3>1, <3>2 DEF TypeOK
    <2> QED
      BY <1>2, <2>1, <2>3 DEF HandlerInv
  <1>5. ASSUME NEW r \in Requests, HandleRequest(r) PROVE HandlerInv'
    <2>1. handler[r].phase = "running" /\ outlet' = outlet
          /\ handler' = [handler EXCEPT ![r].phase = "done"]
      BY <1>5 DEF HandleRequest, HandleHttp, HandlePort, HandleNoPort, Handle
    <2>2. \A i \in 1..Len(outlet) :
            outlet[i].type = "Request" => outlet[i].id \in Requests /\ outlet[i].id # r
      BY <2>1, RequestsAreTyped DEF HandlerInv
    <2> QED
      BY <2>1, <2>2 DEF HandlerInv, TypeOK
  <1>6. ASSUME NEW frame \in OutletFrame, outlet' = Append(outlet, frame), UNCHANGED handler,
               frame.type = "Request" =>
                 /\ handler[frame.id].phase = "none"
                 /\ \A i \in DOMAIN outlet :
                      outlet[i].type = "Request" => outlet[i].id # frame.id
        PROVE  HandlerInv'
    <2>1. /\ Len(outlet) \in Nat /\ DOMAIN outlet = 1..Len(outlet)
          /\ Len(outlet') = Len(outlet) + 1
          /\ outlet'[Len(outlet) + 1] = frame
          /\ \A i \in 1..Len(outlet) : outlet'[i] = outlet[i]
      BY <1>6 DEF TypeOK
    <2> QED
      BY <1>6, <2>1 DEF HandlerInv
  <1>7. ASSUME NEW r \in Requests, NEW op \in Operation, NEW kind \in Kinds,
               MeshRequests(r, op, kind)
        PROVE  HandlerInv'
    <2>1. [type |-> "Request", id |-> r, op |-> op, kind |-> kind] \in OutletFrame
      BY ConstantsAssumption DEF OutletFrame
    <2> QED
      BY <1>7, <1>6, <2>1 DEF MeshRequests
  <1> QED
    BY <1>1, <1>3, <1>4, <1>5, <1>6, <1>7, RequestFrame

\* What a step may do to the responses on their way to the mesh.
LEMMA InletFrameStep ==
  ASSUME TypeOK, [Next]_vars
  PROVE  \/ UNCHANGED <<inlet, heard>>
         \/ \E frame \in InletFrame :
              SendFrame(frame) /\ frame.type # "Response" /\ UNCHANGED heard
         \/ \E r \in Requests : HandleRequest(r)
         \/ TakeFrame
  <1>1. ASSUME NEW s \in Setters, SetStatusSend(s)
        PROVE  \E frame \in InletFrame :
                 SendFrame(frame) /\ frame.type # "Response" /\ UNCHANGED heard
    <2>1. [type |-> "Status", status |-> setter[s]] \in InletFrame
      BY <1>1 DEF SetStatusSend, InletFrame, TypeOK
    <2> QED
      BY <1>1, <2>1 DEF SetStatusSend, meshVars
  <1>2. ASSUME Notify
        PROVE  \E frame \in InletFrame :
                 SendFrame(frame) /\ frame.type # "Response" /\ UNCHANGED heard
    BY <1>2 DEF Notify, InletFrame, meshVars
  <1>3. ASSUME NEW c \in Calls, Exchange(c)
        PROVE  \/ UNCHANGED <<inlet, heard>>
               \/ \E frame \in InletFrame :
                    SendFrame(frame) /\ frame.type # "Response" /\ UNCHANGED heard
    <2>1. [type |-> "Request", id |-> c] \in InletFrame /\ [type |-> "Log"] \in InletFrame
      BY DEF InletFrame
    <2> QED
      BY <1>3, <2>1
      DEF Exchange, ExchangeInsert, ExchangeSend, ExchangeAnswered, ExchangeTimeout,
          ExchangeDropped, meshVars
  <1> QED
    BY <1>1, <1>2, <1>3
    DEF Next, vars, meshVars, InitReturns, SetStatusWrite, ReceiveResponse, TakeSender,
        SendToCaller, ReceiveRequest, ReceiveIgnored, Receive, Mesh, MeshResponds,
        MeshRequests, MeshSends

\* A request that is done stays as it is.
LEMMA DoneStays ==
  ASSUME TypeOK, HandlerInv, [Next]_vars, NEW r \in Requests, handler[r].phase = "done"
  PROVE  handler'[r] = handler[r]
  <1>1. CASE ReceiveRequest
    BY <1>1, ReceivedIsNew DEF ReceiveRequest, TypeOK
  <1>2. ASSUME NEW q \in Requests, HandleRequest(q) PROVE handler'[r] = handler[r]
    BY <1>2 DEF HandleRequest, HandleHttp, HandlePort, HandleNoPort, Handle, TypeOK
  <1> QED
    BY <1>1, <1>2, RequestFrame DEF MeshRequests

\* Every step leaves one response at most, on its way or with the mesh.
LEMMA OneResponseStep ==
  TypeOK /\ HandlerInv /\ OneResponseAtMost /\ [Next]_vars => OneResponseAtMost'
  <1> SUFFICES ASSUME TypeOK, HandlerInv, OneResponseAtMost, [Next]_vars
               PROVE  OneResponseAtMost'
    OBVIOUS
  <1>1. \A i \in 1..Len(inlet) : inlet[i].type = "Response" => inlet[i].to \in Requests
    <2>1. \A i \in 1..Len(inlet) : inlet[i] \in InletFrame
      BY DEF TypeOK
    <2> QED
      BY <2>1 DEF InletFrame
  <1>2. \A r \in Requests : handler[r].phase = "done" => handler'[r] = handler[r]
    BY DoneStays
  <1>3. heard \subseteq Requests /\ inlet \in Seq(InletFrame) /\ Len(inlet) <= InletCap /\ Len(inlet) \in Nat
    BY DEF TypeOK
  <1>4. CASE UNCHANGED <<inlet, heard>>
    BY <1>1, <1>2, <1>3, <1>4 DEF OneResponseAtMost
  <1>5. ASSUME NEW frame \in InletFrame, SendFrame(frame), UNCHANGED heard,
               frame.type = "Response" =>
                 /\ frame.to \in Requests \ heard
                 /\ \A i \in 1..Len(inlet) : inlet[i].type = "Response" => inlet[i].to # frame.to
                 /\ handler'[frame.to].phase = "done" /\ handler'[frame.to].kind = "RequestResponse"
        PROVE  OneResponseAtMost'
    <2>1. CASE inlet' = inlet
      BY <1>1, <1>2, <1>3, <1>5, <2>1 DEF OneResponseAtMost
    <2>2. CASE inlet' = Append(inlet, frame)
      <3>1. /\ Len(inlet') = Len(inlet) + 1
            /\ inlet'[Len(inlet) + 1] = frame
            /\ \A i \in 1..Len(inlet) : inlet'[i] = inlet[i]
        BY <1>3, <2>2
      <3> QED
        BY <1>1, <1>2, <1>3, <1>5, <3>1 DEF OneResponseAtMost
    <2> QED
      BY <1>5, <2>1, <2>2 DEF SendFrame
  <1>6. ASSUME NEW r \in Requests, HandleRequest(r) PROVE OneResponseAtMost'
    <2>1. /\ handler[r].phase = "running" /\ heard' = heard
          /\ handler' = [handler EXCEPT ![r].phase = "done"]
      BY <1>6 DEF HandleRequest, HandleHttp, HandlePort, HandleNoPort, Handle, meshVars
    <2>2. /\ handler'[r].phase = "done" /\ handler'[r].kind = handler[r].kind
      BY <2>1 DEF TypeOK
    <2>3. /\ r \notin heard
          /\ \A i \in 1..Len(inlet) : inlet[i].type = "Response" => inlet[i].to # r
      BY <2>1 DEF OneResponseAtMost
    <2>4. ASSUME NEW frame \in InletFrame, frame.type = "Response", frame.to = r,
                 SendFrame(frame), handler[r].kind = "RequestResponse"
          PROVE  OneResponseAtMost'
      BY <1>5, <2>1, <2>2, <2>3, <2>4
    <2> QED
      BY <1>4, <1>6, <2>1, <2>4, HandleSends
  <1>7. CASE TakeFrame
    <2>1. /\ inlet # <<>> /\ inlet' = Tail(inlet) /\ handler' = handler
          /\ heard' = IF Head(inlet).type = "Response" THEN heard \cup {Head(inlet).to} ELSE heard
      BY <1>7 DEF TakeFrame
    <2>2. Head(inlet) = inlet[1] /\ 1 \in 1..Len(inlet)
      BY <1>3, <2>1, HeadTailProperties, LenProperties
    <2>3. \A i \in 1..Len(inlet') :
            i + 1 \in 1..Len(inlet) /\ i + 1 # 1 /\ inlet'[i] = inlet[i + 1]
      BY <1>3, <2>1, HeadTailProperties, LenProperties
    <2>4. Len(inlet') \in Nat
      BY <1>3, <2>1
    <2>5. \A i \in 1..Len(inlet') :
            inlet'[i].type = "Response" =>
              /\ inlet'[i].to \notin heard'
              /\ \A j \in 1..Len(inlet') :
                   inlet'[j].type = "Response" /\ inlet'[j].to = inlet'[i].to => j = i
      BY <2>1, <2>2, <2>3, <2>4 DEF OneResponseAtMost
    <2> QED
      BY <2>1, <2>2, <2>3, <2>5 DEF OneResponseAtMost
  <1> QED
    BY <1>4, <1>5, <1>6, <1>7, InletFrameStep

\* The mesh gets one response to a request at most, and none to a notification,
\* for any number of requests and whatever the inlet has room for.
THEOREM OneResponseReachesMesh == Spec => []OneResponseAtMost
  <1>1. Init => HandlerInv /\ OneResponseAtMost
    BY DEF Init, HandlerInv, OneResponseAtMost
  <1> QED
    BY <1>1, HandlerStep, OneResponseStep, TypeCorrect, PTL DEF Spec
=============================================================================
