------------------------------ MODULE ApiClient ------------------------------
(***************************************************************************)
(* resource-mesh-portal-api-client: a Portal, the PortalSkel its control   *)
(* and ports share, and the InletApi they call.  The embedding program     *)
(* takes the frames the portal hands to its Inlet and calls receive() with *)
(* the frames of the mesh, one at a time (receive takes &mut self); the    *)
(* portal's own work runs on any number of threads.                        *)
(*                                                                         *)
(* An exchange id is a fresh uuid, so a call of InletApi::exchange stands  *)
(* for its own id.  The Inlet is the TcpInlet of the tcp-client: a bounded *)
(* channel and try_send.                                                   *)
(***************************************************************************)
EXTENDS Integers, Sequences

CONSTANTS
  Calls,       \* calls of InletApi::exchange
  Requests,    \* requests the mesh sends to this portal, by exchange id
  Setters,     \* clones of the PortalSkel on which set_status is called
  Settable,    \* the statuses they set
  Kinds,       \* the ExchangeKinds of the mesh's requests
  InertFrames, \* the frames among Inert that the mesh sends
  None,        \* an empty oneshot channel, an idle setter
  InletCap,    \* capacity of the channel behind the Inlet (1024 in tcp-client)
  OutletMax,   \* bound: frames on their way to receive()
  MaxReplies   \* bound: responses the mesh issues for one exchange id

Status == {"Unknown", "Initializing", "Ready", "Panic", "Done"}
ExchangeKind == {"None", "Notification", "RequestResponse"}
\* "NoPort" is a port operation that names a port the portal does not have.
Operation == {"Http", "Port", "NoPort"}
Reply == [id : Calls, n : 1..MaxReplies]
InletFrame ==
  [type : {"Log", "Notify"}] \cup [type : {"Status"}, status : Status]
    \cup [type : {"Request"}, id : Calls]
    \cup [type : {"Response"}, to : Requests, ok : BOOLEAN]
\* Outlet frames receive() has no use for, whatever the status.
Inert == {"Init", "CommandEvent", "BinParcel", "Close"}
OutletFrame ==
  [type : Inert] \cup [type : {"Response"}, reply : Reply]
    \cup [type : {"Request"}, id : Requests, op : Operation, kind : ExchangeKind]

ASSUME ConstantsAssumption ==
  /\ Settable \subseteq Status
  /\ Kinds \subseteq ExchangeKind
  /\ InertFrames \subseteq Inert
  /\ None \notin Reply \cup Status
  /\ InletCap \in Nat \ {0}
  /\ OutletMax \in Nat
  /\ MaxReplies \in Nat

VARIABLES
  portal,     \* Portal::new: awaiting ctrl.init(), returned, or failed
  status,     \* PortalSkel.status
  setter,     \* the status a set_status has written and not yet sent
  exchanges,  \* PortalSkel.exchanges: the ids that have a oneshot sender in the table
  call,       \* how far each exchange() is
  slot,       \* the oneshot channel of each exchange()
  hand,       \* the response receive() is busy with
  taken,      \* it has taken the sender of that response out of the table
  received,   \* history: the responses that a Ready portal received
  inlet,      \* frames the Inlet has accepted and the transport has not taken
  outlet,     \* frames on their way to receive()
  handler,    \* the tasks receive() has spawned, by request
  asked,      \* ids whose request the mesh has received
  heard,      \* the mesh's requests whose response it has received
  issued      \* responses the mesh has issued

skelVars == <<status, setter>>
callVars == <<exchanges, call, slot>>
recvVars == <<hand, taken, received>>
meshVars == <<asked, heard, issued>>
vars == <<portal, skelVars, callVars, recvVars, handler, meshVars, inlet, outlet>>

TypeOK ==
  /\ portal \in {"initializing", "built", "failed"}
  /\ status \in Status
  /\ setter \in [Setters -> Status \cup {None}]
  /\ exchanges \subseteq Calls
  /\ call \in [Calls -> {"idle", "registered", "waiting", "answered", "timedout", "dropped"}]
  /\ slot \in [Calls -> Reply \cup {None}]
  /\ inlet \in Seq(InletFrame) /\ Len(inlet) <= InletCap
  /\ outlet \in Seq(OutletFrame)
  /\ handler \in [Requests -> [phase : {"none", "running", "done"}, op : Operation, kind : ExchangeKind]]
  /\ hand \in Reply \cup {None} /\ taken \in BOOLEAN
  /\ received \subseteq Reply
  /\ asked \subseteq Calls
  /\ heard \subseteq Requests
  /\ issued \subseteq Reply

\* Portal::new has set the status, sent it, and made the control.
Init ==
  /\ portal = "initializing"
  /\ status = "Initializing"
  /\ setter = [s \in Setters |-> None]
  /\ exchanges = {}
  /\ call = [c \in Calls |-> "idle"]
  /\ slot = [c \in Calls |-> None]
  /\ inlet = <<[type |-> "Status", status |-> "Initializing"]>>
  /\ outlet = <<>>
  /\ handler = [r \in Requests |-> [phase |-> "none", op |-> "Http", kind |-> "None"]]
  /\ hand = None /\ taken = FALSE /\ received = {}
  /\ asked = {} /\ heard = {}
  /\ issued = {}

-----------------------------------------------------------------------------
(* The Inlet. *)

\* TcpInlet::send_frame: try_send; a frame that finds the channel full is
\* logged and dropped, and the caller is not told.
SendFrame(frame) ==
  inlet' = IF Len(inlet) < InletCap THEN Append(inlet, frame) ELSE inlet

-----------------------------------------------------------------------------
(* Portal::new, PortalSkel. *)

\* ctrl.init() returns, well or not.  Only a portal that was built receives.
InitReturns ==
  /\ portal = "initializing"
  /\ portal' \in {"built", "failed"}
  /\ UNCHANGED <<skelVars, callVars, recvVars, handler, meshVars, inlet, outlet>>

\* set_status writes the status under the lock, releases it, then sends it.
SetStatusWrite(s, v) ==
  /\ setter[s] = None
  /\ status' = v
  /\ setter' = [setter EXCEPT ![s] = v]
  /\ UNCHANGED <<portal, callVars, recvVars, handler, meshVars, inlet, outlet>>

SetStatusSend(s) ==
  /\ setter[s] # None
  /\ SendFrame([type |-> "Status", status |-> setter[s]])
  /\ setter' = [setter EXCEPT ![s] = None]
  /\ UNCHANGED <<portal, status, callVars, recvVars, handler, meshVars, outlet>>

-----------------------------------------------------------------------------
(* InletApi. *)

\* The caller still holds the receiving end of the oneshot channel.
Live(c) == call[c] \in {"registered", "waiting"}

Notify ==
  /\ SendFrame([type |-> "Notify"])
  /\ UNCHANGED <<portal, skelVars, callVars, recvVars, handler, meshVars, outlet>>

\* Fault: the sender does not get into the table.
ExchangeInsertForgets(c) ==
  /\ call[c] = "idle"
  /\ call' = [call EXCEPT ![c] = "registered"]
  /\ UNCHANGED <<portal, skelVars, exchanges, slot, recvVars, handler, meshVars, inlet, outlet>>

\* exchange(): a request whose kind was preset is announced with a warning
\* frame; then the sender goes into the table.
ExchangeInsert(c) ==
  /\ call[c] = "idle"
  /\ exchanges' = exchanges \cup {c}
  /\ call' = [call EXCEPT ![c] = "registered"]
  /\ \/ inlet' = inlet
     \/ SendFrame([type |-> "Log"])
  /\ UNCHANGED <<portal, skelVars, slot, recvVars, handler, meshVars, outlet>>

\* ... and only then is the request sent and the answer awaited.
ExchangeSend(c) ==
  /\ call[c] = "registered"
  /\ SendFrame([type |-> "Request", id |-> c])
  /\ call' = [call EXCEPT ![c] = "waiting"]
  /\ UNCHANGED <<portal, skelVars, exchanges, slot, recvVars, handler, meshVars, outlet>>

ExchangeAnswered(c) ==
  /\ call[c] = "waiting"
  /\ slot[c] # None
  /\ call' = [call EXCEPT ![c] = "answered"]
  /\ UNCHANGED <<portal, skelVars, exchanges, slot, recvVars, handler, meshVars, inlet, outlet>>

\* Fault: the clock runs only once the mesh has the request.
ExchangeTimeoutIfAsked(c) ==
  /\ call[c] = "waiting" /\ slot[c] = None /\ c \in asked
  /\ call' = [call EXCEPT ![c] = "timedout"]
  /\ UNCHANGED <<portal, skelVars, exchanges, slot, recvVars, handler, meshVars, inlet, outlet>>

\* tokio's timeout polls the channel and then the clock, and a response that
\* is sent in between is not seen.  The table keeps its sender, if it has it.
ExchangeTimeout(c) ==
  /\ call[c] = "waiting"
  /\ call' = [call EXCEPT ![c] = "timedout"]
  /\ UNCHANGED <<portal, skelVars, exchanges, slot, recvVars, handler, meshVars, inlet, outlet>>

\* The caller drops the future of exchange() while it awaits.
ExchangeDropped(c) ==
  /\ call[c] = "waiting"
  /\ call' = [call EXCEPT ![c] = "dropped"]
  /\ UNCHANGED <<portal, skelVars, exchanges, slot, recvVars, handler, meshVars, inlet, outlet>>

-----------------------------------------------------------------------------
(* Outlet::receive and the tasks it spawns. *)

\* What receive() does in every case: it exists once the portal does, it takes
\* one frame at a time and consumes it.
Receive(type) ==
  /\ portal = "built"
  /\ hand = None
  /\ outlet # <<>>
  /\ Head(outlet).type = type
  /\ outlet' = Tail(outlet)
  /\ UNCHANGED <<portal, skelVars, meshVars, inlet>>

\* A portal that is Ready is to hand the response to its caller.
ReceiveResponse ==
  /\ Receive("Response")
  /\ status = "Ready"
  /\ hand' = Head(outlet).reply
  /\ received' = received \cup {hand'}
  /\ UNCHANGED <<callVars, taken, handler>>

\* Fault: the sender is copied and stays in the table.
TakeSenderKeeps ==
  /\ hand # None /\ ~taken
  /\ IF hand.id \in exchanges THEN taken' = TRUE /\ hand' = hand ELSE hand' = None /\ taken' = taken
  /\ UNCHANGED <<portal, skelVars, callVars, received, handler, meshVars, inlet, outlet>>

\* Fault: a sender whose caller has gone is left where it is.
TakeSenderIfLive ==
  /\ hand # None /\ ~taken
  /\ IF hand.id \in exchanges /\ Live(hand.id)
       THEN exchanges' = exchanges \ {hand.id} /\ taken' = TRUE /\ hand' = hand
       ELSE hand' = None /\ UNCHANGED <<exchanges, taken>>
  /\ UNCHANGED <<portal, skelVars, call, slot, received, handler, meshVars, inlet, outlet>>

\* It takes the sender out of the table; a response without one is logged.
TakeSender ==
  /\ hand # None /\ ~taken
  /\ \/ /\ hand.id \in exchanges
        /\ exchanges' = exchanges \ {hand.id}
        /\ taken' = TRUE
        /\ hand' = hand
     \/ /\ hand.id \notin exchanges
        /\ hand' = None
        /\ UNCHANGED <<exchanges, taken>>
  /\ UNCHANGED <<portal, skelVars, call, slot, received, handler, meshVars, inlet, outlet>>

\* Fault: the response goes to any caller there is.
SendToCallerMisroutes ==
  /\ taken
  /\ \E c \in Calls : Live(c) /\ slot' = [slot EXCEPT ![c] = hand]
  /\ hand' = None /\ taken' = FALSE
  /\ UNCHANGED <<portal, skelVars, exchanges, call, received, handler, meshVars, inlet, outlet>>

\* It sends the response through the sender.  The caller may have gone since:
\* the send then fails, and unwrap_or(()) makes nothing of it.
SendToCaller ==
  /\ taken
  /\ slot' = IF Live(hand.id) THEN [slot EXCEPT ![hand.id] = hand] ELSE slot
  /\ hand' = None
  /\ taken' = FALSE
  /\ UNCHANGED <<portal, skelVars, exchanges, call, received, handler, meshVars, inlet, outlet>>

ReceiveRequest ==
  /\ Receive("Request")
  /\ status = "Ready"
  /\ LET request == Head(outlet) IN
       handler' = [handler EXCEPT ![request.id] =
                     [phase |-> "running", op |-> request.op, kind |-> request.kind]]
  /\ UNCHANGED <<callVars, recvVars>>

\* Fault: the sender is taken out before the status is looked at.
ReceiveIgnoredTakes ==
  /\ \E type \in Inert \cup {"Response", "Request"} :
       /\ Receive(type)
       /\ type \in {"Response", "Request"} => status # "Ready"
  /\ exchanges' = IF Head(outlet).type = "Response" THEN exchanges \ {Head(outlet).reply.id}
                  ELSE exchanges
  /\ UNCHANGED <<call, slot, recvVars, handler>>

\* A portal that is Ready does nothing with the other frames, Close included;
\* a portal that is not ignores every frame.
ReceiveIgnored ==
  /\ \E type \in Inert \cup {"Response", "Request"} :
       /\ Receive(type)
       /\ type \in {"Response", "Request"} => status # "Ready"
  /\ UNCHANGED <<callVars, recvVars, handler>>

\* Fault: a notification is responded to as well.
RespondAlways(r, ok) == SendFrame([type |-> "Response", to |-> r, ok |-> ok])

\* What a task has to say goes to the mesh if the request asks for it, and to
\* the log if not.
Respond(r, ok) ==
  \/ /\ handler[r].kind = "RequestResponse"
     /\ SendFrame([type |-> "Response", to |-> r, ok |-> ok])
  \/ /\ handler[r].kind # "RequestResponse"
     /\ inlet' = inlet

\* The task is through with its request.
Handle(r, op) ==
  /\ handler[r].phase = "running" /\ handler[r].op = op
  /\ handler' = [handler EXCEPT ![r].phase = "done"]
  /\ UNCHANGED <<portal, skelVars, callVars, recvVars, meshVars, outlet>>

\* The control's http_request, which a notification does not get to: when it
\* fails the response is Ok all the same, with a server side error in it.
HandleHttp(r) == Handle(r, "Http") /\ Respond(r, TRUE)

\* The port's request(), which a notification does get to: it returns a signal
\* of its choice, or nothing or an error, which become an error.
HandlePort(r) == Handle(r, "Port") /\ \E ok \in BOOLEAN : Respond(r, ok)

\* There is no such port.
HandleNoPort(r) == Handle(r, "NoPort") /\ Respond(r, FALSE)

HandleRequest(r) == HandleHttp(r) \/ HandlePort(r) \/ HandleNoPort(r)

-----------------------------------------------------------------------------
(* The transport and the mesh. *)

\* The transport takes the oldest frame and brings it to the mesh.
TakeFrame ==
  /\ inlet # <<>>
  /\ inlet' = Tail(inlet)
  /\ asked' = IF Head(inlet).type = "Request" THEN asked \cup {Head(inlet).id} ELSE asked
  /\ heard' = IF Head(inlet).type = "Response" THEN heard \cup {Head(inlet).to} ELSE heard
  /\ UNCHANGED <<portal, skelVars, callVars, recvVars, handler, issued, outlet>>

\* The mesh responds to a request it has received, perhaps late or repeatedly;
\* n counts its responses to that request.
MeshResponds(reply) ==
  /\ reply.id \in asked
  /\ reply \notin issued
  /\ \A n \in 1..(reply.n - 1) : [id |-> reply.id, n |-> n] \in issued
  /\ Len(outlet) < OutletMax
  /\ issued' = issued \cup {reply}
  /\ outlet' = Append(outlet, [type |-> "Response", reply |-> reply])
  /\ UNCHANGED <<portal, skelVars, callVars, recvVars, handler, asked, heard, inlet>>

\* Bound: a request of the mesh is delivered to receive() once.
MeshRequests(r, op, kind) ==
  /\ handler[r].phase = "none"
  /\ \A i \in DOMAIN outlet : outlet[i].type = "Request" => outlet[i].id # r
  /\ Len(outlet) < OutletMax
  /\ outlet' = Append(outlet, [type |-> "Request", id |-> r, op |-> op, kind |-> kind])
  /\ UNCHANGED <<portal, skelVars, callVars, recvVars, handler, meshVars, inlet>>

MeshSends(type) ==
  /\ Len(outlet) < OutletMax
  /\ outlet' = Append(outlet, [type |-> type])
  /\ UNCHANGED <<portal, skelVars, callVars, recvVars, handler, meshVars, inlet>>

-----------------------------------------------------------------------------
Exchange(c) ==
  \/ ExchangeInsert(c)
  \/ ExchangeSend(c)
  \/ ExchangeAnswered(c)
  \/ ExchangeTimeout(c)
  \/ ExchangeDropped(c)

Mesh ==
  \/ TakeFrame
  \/ \E reply \in Reply : MeshResponds(reply)
  \/ \E r \in Requests, op \in Operation, kind \in Kinds : MeshRequests(r, op, kind)
  \/ \E type \in InertFrames : MeshSends(type)

Next ==
  \/ InitReturns
  \/ \E s \in Setters, v \in Settable : SetStatusWrite(s, v)
  \/ \E s \in Setters : SetStatusSend(s)
  \/ Notify
  \/ \E c \in Calls : Exchange(c)
  \/ ReceiveResponse
  \/ TakeSender
  \/ SendToCaller
  \/ ReceiveRequest
  \/ ReceiveIgnored
  \/ \E r \in Requests : HandleRequest(r)
  \/ Mesh

Spec == Init /\ [][Next]_vars

\* Tokio runs every task that can run and fires every timer.  The mesh, the
\* transport and the user's code owe nothing.
Fairness ==
  /\ \A c \in Calls :
       /\ WF_vars(ExchangeSend(c))
       /\ WF_vars(ExchangeAnswered(c))
       /\ WF_vars(ExchangeTimeout(c))

FairSpec == Spec /\ Fairness

-----------------------------------------------------------------------------
(* Properties. *)

\* The sender of a caller that still waits for its answer is in the table, or
\* receive() has it in hand to answer that caller: nothing else takes it out,
\* and it went in before the request went out (InletApi::exchange inserts first).
WaitingIsRegistered ==
  \A c \in Calls :
    Live(c) /\ slot[c] = None => c \in exchanges \/ (taken /\ hand.id = c)

\* A response that a Ready portal received is not lost to a caller who still
\* waits: he has it, or another to his id, or receive() is about to give it to
\* him.  Only who gives up in that moment misses it.  That the portal was not
\* Ready for an earlier response to that id makes no difference.
ResponseReachesCaller ==
  \A reply \in received : Live(reply.id) => slot[reply.id] # None \/ hand = reply

\* What stays in the table for good are the senders of calls without a
\* response: one that a Ready portal received, however late, has taken its
\* sender out, also when nobody waits for it any more.
LeaksOnlyUnanswered ==
  \A reply \in received : reply.id \in exchanges => hand = reply

\* However the tasks of the mesh's requests end, and whatever the inlet drops,
\* the mesh never gets two responses to one request, nor any to a notification
\* or to a request that is not handled yet.
OneResponseAtMost ==
  /\ \A i \in 1..Len(inlet) :
       inlet[i].type = "Response" =>
         /\ inlet[i].to \notin heard
         /\ \A j \in 1..Len(inlet) :
              inlet[j].type = "Response" /\ inlet[j].to = inlet[i].to => j = i
         /\ handler[inlet[i].to].phase = "done"
         /\ handler[inlet[i].to].kind = "RequestResponse"
  /\ \A r \in heard : handler[r].phase = "done" /\ handler[r].kind = "RequestResponse"

\* An answered call has the mesh's response to that very call; it ends once,
\* and no late or repeated response changes how it ended.
Contract == INSTANCE ExchangeContract WITH
  Replies <- Reply,
  phase <- [c \in Calls |->
              IF Live(c) THEN "open"
              ELSE IF call[c] \in {"timedout", "dropped"} THEN "failed" ELSE call[c]],
  answer <- [c \in Calls |-> IF call[c] = "answered" THEN slot[c] ELSE None],
  issued <- issued
ContractSpec == Contract!Spec

\* HelloCtrl::init sends a request and prints the response ("send this request
\* to itself", line 491), as does server_up's control: a call that is made in
\* ctrl.init() does not time out while its response is at the portal's door.
InitSeesResponse ==
  [][\A c \in Calls :
       portal = "initializing" /\ call[c] = "waiting" /\ call'[c] = "timedout"
       => \A i \in DOMAIN outlet : outlet[i].type = "Response" => outlet[i].reply.id # c]_vars

-----------------------------------------------------------------------------
(* The inductive invariant behind the properties of an exchange. *)

Sent(c) == call[c] \notin {"idle", "registered"}

\* An id enters the table once, when its call begins, and leaves it with the
\* response that fills its channel.
TableInv ==
  /\ WaitingIsRegistered
  /\ \A c \in Calls : call[c] = "idle" => c \notin exchanges /\ slot[c] = None
  /\ \A c \in Calls : call[c] = "answered" => slot[c] # None
  /\ \A c \in Calls :
       slot[c] # None => c \notin exchanges /\ slot[c].id = c /\ slot[c] \in issued

\* No id is known outside before its request was sent, and every response on
\* its way was issued by the mesh.
WireInv ==
  /\ \A i \in 1..Len(inlet) : inlet[i].type = "Request" => Sent(inlet[i].id)
  /\ \A c \in asked : Sent(c)
  /\ \A reply \in issued : reply.id \in asked
  /\ \A i \in 1..Len(outlet) : outlet[i].type = "Response" => outlet[i].reply \in issued

\* What receive() has in hand was received and issued; it holds a sender only of
\* that response, which is then in the table no more.
ReceiveInv ==
  /\ received \subseteq issued
  /\ hand # None => hand \in received
  /\ taken => hand # None /\ hand.id \notin exchanges
  /\ ResponseReachesCaller
  /\ LeaksOnlyUnanswered

\* The whole invariant: every id is in one stage of its life at a time, in the
\* table, in its channel and on the wire (exchange() against receive()).
ExchangeInv == TypeOK /\ TableInv /\ WireInv /\ ReceiveInv

-----------------------------------------------------------------------------
(* Liveness. *)

\* Every exchange ends, even if the mesh never answers, the transport never
\* takes the request, or the portal is not Ready when the answer comes.
EveryExchangeEnds ==
  \A c \in Calls : call[c] # "idle" ~> ~Live(c)
=============================================================================
