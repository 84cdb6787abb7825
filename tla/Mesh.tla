-------------------------------- MODULE Mesh --------------------------------
(***************************************************************************)
(* Requests between the clients of one host: client portals, their server  *)
(* portals, the host's mux and the router of the test, with the            *)
(* conversions of serde's module message between them.                     *)
(*                                                                         *)
(*   client --up--> server portal --mux--> host --> router task            *)
(*   client <--down------------------------ host <--muxq--+                *)
(*                                                                         *)
(* The host is the embedding program: it takes from Portal.mux_rx, which   *)
(* is public, and deals with each call as PortalMuxer does with the one    *)
(* call that it handles before it ends (PortalMuxer).                      *)
(*                                                                         *)
(* One portal alone, with its tasks, its capacities and its order, is      *)
(* ApiClient and ServerPortal; here a frame passes a portal in one step,   *)
(* and each bounded channel takes what it is offered or has no room.       *)
(***************************************************************************)
EXTENDS Integers, Sequences, FiniteSets

CONSTANTS
  Portals,    \* the portals of the host, each with its client
  Strangers,  \* identifiers of none of them, such as a portal's parent
  Messages,   \* requests the clients make; an exchange's stands for its id
  Asked,      \* what a client may ask
  None        \* nothing yet

Key(p) == [by |-> "key", of |-> p]
Address(p) == [by |-> "address", of |-> p]
Identifier == {Key(p) : p \in Portals} \cup {Address(p) : p \in Portals} \cup Strangers

ExchangeKind == {"Notification", "RequestResponse"}  \* as notify() and exchange() set it
Operation == {"Select", "Resource", "Ext"}           \* as the router tells them apart
Signal == {"Stubs", "Reply", "Error"}
\* A client's request: inlet::Request.
InletRequest == [kind : ExchangeKind, operation : Operation, to : Seq(Identifier)]

\* Requests of the mesh and of the outlet; "i" is the place of the recipient in
\* the client's list, which no code sees.
MeshRequest ==
  [id : Messages, i : Nat, kind : ExchangeKind, operation : Operation,
   from : Identifier, to : Identifier]
OutletRequest ==
  [type : {"Request"}, id : Messages, i : Nat, kind : ExchangeKind,
   operation : {"Ext"}, from : Identifier]
MeshResponse == [to : Identifier, from : Identifier, id : Messages, signal : Signal]
OutletResponse == [type : {"Response"}, from : Identifier, id : Messages, signal : Signal]
InletFrame ==
  [type : {"Request"}, id : Messages]
    \cup [type : {"Response"}, to : Identifier, id : Messages, signal : Signal]
MuxCall ==
  [call : {"Select"}, of : MeshRequest] \cup [call : {"Request"}, it : MeshRequest]
    \cup [call : {"Response"}, it : MeshResponse]

ASSUME ConstantsAssumption ==
  /\ Asked \subseteq InletRequest
  /\ Strangers \cap ({Key(p) : p \in Portals} \cup {Address(p) : p \in Portals}) = {}
  /\ None \notin [from : Portals, it : Asked] \cup OutletResponse

VARIABLES
  sent,       \* who asked what: the client's request and its portal
  call,       \* how far each exchange() of a client is
  answer,     \* the response it returned
  up,         \* inlet frames on their way to each portal task
  mux,        \* mux_rx of each Portal
  tasks,      \* the router's tasks
  muxq,       \* mux_rx of the host, to which the router sends
  down,       \* outlet frames on their way to each client
  handling,   \* the tasks that receive() spawned
  delivered,  \* history: for each message, the requests clients received
  responded   \* history: for each message, the responses made to it

clientVars == <<sent, call, answer, handling, delivered>>
hostVars == <<mux, tasks, muxq>>
vars == <<clientVars, hostVars, up, down, responded>>

TypeOK ==
  /\ sent \in [Messages -> [from : Portals, it : Asked] \cup {None}]
  /\ call \in [Messages -> {"idle", "notified", "waiting", "answered", "timedout"}]
  /\ answer \in [Messages -> OutletResponse \cup {None}]
  /\ up \in [Portals -> Seq(InletFrame)]
  /\ mux \in [Portals -> Seq(MeshRequest)]
  /\ tasks \subseteq [request : MeshRequest, step : {"spawned", "asked", "informed"}]
  /\ muxq \in Seq(MuxCall)
  /\ down \in [Portals -> Seq(OutletRequest \cup OutletResponse)]
  /\ handling \subseteq [at : Portals, request : OutletRequest]
  /\ delivered \in [Messages -> Seq([at : Portals, request : OutletRequest])]
  /\ responded \in [Messages -> Seq([from : Identifier, id : Messages, signal : Signal])]

Init ==
  /\ sent = [m \in Messages |-> None]
  /\ call = [m \in Messages |-> "idle"]
  /\ answer = [m \in Messages |-> None]
  /\ up = [p \in Portals |-> <<>>]
  /\ mux = [p \in Portals |-> <<>>]
  /\ tasks = {}
  /\ muxq = <<>>
  /\ down = [p \in Portals |-> <<>>]
  /\ handling = {}
  /\ delivered = [m \in Messages |-> <<>>]
  /\ responded = [m \in Messages |-> <<>>]

\* A bounded channel after a try_send or a send_timeout, of which nobody looks
\* at the result: with the message, or without it if there was no room in time.
Offered(queue, x) == {queue, Append(queue, x)}

\* A response was made to x.id.
Responds(x) == responded' = [responded EXCEPT ![x.id] = Append(@, x)]

-----------------------------------------------------------------------------
(* The conversions of serde's module message. *)

\* Fault: the two identifiers, of one type, change places.
RequestFromSwapped(m, i, from, to) ==
  [id |-> m, i |-> i, kind |-> sent[m].it.kind, operation |-> sent[m].it.operation,
   from |-> to, to |-> from]

\* Request::from(request, from, to).
RequestFrom(m, i, from, to) ==
  [id |-> m, i |-> i, kind |-> sent[m].it.kind, operation |-> sent[m].it.operation,
   from |-> from, to |-> to]

\* TryInto<Request<ExtOperation>>: a resource operation is an error.
TryInto(r) == IF r.operation = "Ext" THEN r ELSE None

\* Into<outlet::Request>: "to" is left behind.
RequestInto(r) ==
  [type |-> "Request", id |-> r.id, i |-> r.i, kind |-> r.kind,
   operation |-> r.operation, from |-> r.from]

\* Into<outlet::Response>: "to" is left behind.
ResponseInto(x) ==
  [type |-> "Response", from |-> x.from, id |-> x.id, signal |-> x.signal]

-----------------------------------------------------------------------------
(* A client: InletApi and receive(). *)

\* notify() and exchange() set the kind; an exchange() waits for its answer.
Ask(p, m, request) ==
  /\ sent[m] = None
  /\ sent' = [sent EXCEPT ![m] = [from |-> p, it |-> request]]
  /\ call' = [call EXCEPT ![m] =
               IF request.kind = "RequestResponse" THEN "waiting" ELSE "notified"]
  /\ \E queue \in Offered(up[p], [type |-> "Request", id |-> m]) :
       up' = [up EXCEPT ![p] = queue]
  /\ UNCHANGED <<answer, handling, delivered, hostVars, down, responded>>

TimesOut(m) ==
  /\ call[m] = "waiting"
  /\ call' = [call EXCEPT ![m] = "timedout"]
  /\ UNCHANGED <<sent, answer, handling, delivered, hostVars, up, down, responded>>

\* receive() of a client that is not Ready.
Ignore(p) ==
  /\ down[p] # <<>>
  /\ down' = [down EXCEPT ![p] = Tail(@)]
  /\ UNCHANGED <<clientVars, hostVars, up, responded>>

ReceiveRequest(p) ==
  /\ down[p] # <<>> /\ Head(down[p]).type = "Request"
  /\ LET h == [at |-> p, request |-> Head(down[p])] IN
       /\ handling' = handling \cup {h}
       /\ delivered' = [delivered EXCEPT ![h.request.id] = Append(@, h)]
  /\ down' = [down EXCEPT ![p] = Tail(@)]
  /\ UNCHANGED <<sent, call, answer, hostVars, up, responded>>

\* Fault: any exchange that waits takes the response.
ReceiveResponseAny(p) ==
  /\ down[p] # <<>> /\ Head(down[p]).type = "Response"
  /\ \E m \in Messages :
       /\ call[m] = "waiting" /\ sent[m].from = p
       /\ call' = [call EXCEPT ![m] = "answered"]
       /\ answer' = [answer EXCEPT ![m] = Head(down[p])]
  /\ down' = [down EXCEPT ![p] = Tail(@)]
  /\ UNCHANGED <<sent, handling, delivered, hostVars, up, responded>>

\* The exchange is looked up in this client's own table; a response that finds
\* none, or a caller that has gone, is dropped.
ReceiveResponse(p) ==
  /\ down[p] # <<>> /\ Head(down[p]).type = "Response"
  /\ LET x == Head(down[p]) IN
       IF call[x.id] = "waiting" /\ sent[x.id].from = p
         THEN /\ call' = [call EXCEPT ![x.id] = "answered"]
              /\ answer' = [answer EXCEPT ![x.id] = x]
         ELSE UNCHANGED <<call, answer>>
  /\ down' = [down EXCEPT ![p] = Tail(@)]
  /\ UNCHANGED <<sent, handling, delivered, hostVars, up, responded>>

\* The task of a request responds to its sender if it asks for it; ApiClient
\* says in which ways, and when it does not.
Handle(h) ==
  /\ h \in handling
  /\ handling' = handling \ {h}
  /\ \/ /\ h.request.kind = "RequestResponse"
        /\ \E signal \in {"Reply", "Error"} :
             /\ Responds([from |-> Key(h.at), id |-> h.request.id, signal |-> signal])
             /\ \E queue \in Offered(up[h.at], [type |-> "Response", to |-> h.request.from,
                                                id |-> h.request.id, signal |-> signal]) :
                  up' = [up EXCEPT ![h.at] = queue]
     \/ UNCHANGED <<up, responded>>
  /\ UNCHANGED <<sent, call, answer, delivered, hostVars, down>>

-----------------------------------------------------------------------------
(* A server portal: its portal task. *)

\* The recipients whose copy the mux took, by their places in the list, in turn.
Taken(to) ==
  UNION {{places \in [1..n -> DOMAIN to] : \A j, k \in 1..n : j < k => places[j] < places[k]} :
         n \in 0..Len(to)}

\* mux with a copy of request m to each of them.
WithCopies(p, m, taken) ==
  [mux EXCEPT ![p] = @ \o
    [k \in DOMAIN taken |-> RequestFrom(m, taken[k], Key(p), sent[m].it.to[taken[k]])]]

\* Fault: the number of recipients is not looked at.
TakeRequestAny(p) ==
  /\ up[p] # <<>> /\ Head(up[p]).type = "Request"
  /\ LET m == Head(up[p]).id IN
       \E taken \in Taken(sent[m].it.to) : mux' = WithCopies(p, m, taken)
  /\ up' = [up EXCEPT ![p] = Tail(@)]
  /\ UNCHANGED <<clientVars, tasks, muxq, down, responded>>

\* A notification goes to each recipient in turn; a request for a response
\* must have exactly one, or the portal itself responds.
TakeRequest(p) ==
  /\ up[p] # <<>> /\ Head(up[p]).type = "Request"
  /\ LET m == Head(up[p]).id
         to == sent[m].it.to
         error == [from |-> Key(p), id |-> m, signal |-> "Error"]
     IN \/ /\ sent[m].it.kind = "Notification" \/ Len(to) = 1
           /\ \E taken \in Taken(to) : mux' = WithCopies(p, m, taken)
           /\ UNCHANGED <<down, responded>>
        \/ /\ sent[m].it.kind = "RequestResponse" /\ Len(to) # 1
           /\ Responds(error)
           /\ \E queue \in Offered(down[p], ResponseInto(error)) :
                down' = [down EXCEPT ![p] = queue]
           /\ mux' = mux
  /\ up' = [up EXCEPT ![p] = Tail(@)]
  /\ UNCHANGED <<clientVars, tasks, muxq>>

\* The portal task looks a response up in the table of Portal::exchange, whose
\* ids no client ever learns: it finds none, logs it and goes on.
TakeResponse(p) ==
  /\ up[p] # <<>> /\ Head(up[p]).type = "Response"
  /\ up' = [up EXCEPT ![p] = Tail(@)]
  /\ UNCHANGED <<clientVars, hostVars, down, responded>>

-----------------------------------------------------------------------------
(* The host. *)

\* The portal an identifier names: get_portal, through address_to_key.
GetPortal(id) == {p \in Portals : id \in {Key(p), Address(p)}}

\* MuxCall::MessageIn: route() spawns a task and returns.
MessageIn(p) ==
  /\ mux[p] # <<>>
  /\ tasks' = tasks \cup {[request |-> Head(mux[p]), step |-> "spawned"]}
  /\ mux' = [mux EXCEPT ![p] = Tail(@)]
  /\ UNCHANGED <<clientVars, muxq, up, down, responded>>

\* MuxCall::Select: the infos of all portals.
Select ==
  /\ muxq # <<>> /\ Head(muxq).call = "Select"
  /\ tasks' = {IF t.request = Head(muxq).of THEN [t EXCEPT !.step = "informed"] ELSE t : t \in tasks}
  /\ muxq' = Tail(muxq)
  /\ UNCHANGED <<clientVars, mux, up, down, responded>>

\* MuxCall::MessageOut: to the portal that "to" names, if it names one.
MessageOut ==
  /\ muxq # <<>> /\ Head(muxq).call # "Select"
  /\ LET message == Head(muxq)
         frame == IF message.call = "Request" THEN RequestInto(message.it) ELSE ResponseInto(message.it)
     IN \/ /\ GetPortal(message.it.to) = {}
           /\ down' = down
        \/ \E p \in GetPortal(message.it.to) : \E queue \in Offered(down[p], frame) :
             down' = [down EXCEPT ![p] = queue]
  /\ muxq' = Tail(muxq)
  /\ UNCHANGED <<clientVars, mux, tasks, up, responded>>

-----------------------------------------------------------------------------
(* The router: InYourFaceRouter::route, a task for each message. *)

\* A Select asks the mux; if there is no room its sender is dropped and
\* expect("expected infos") ends the task.
AskInfos(t) ==
  /\ t \in tasks /\ t.step = "spawned"
  /\ t.request.operation = "Select" /\ t.request.kind = "RequestResponse"
  /\ \/ /\ muxq' = Append(muxq, [call |-> "Select", of |-> t.request])
        /\ tasks' = (tasks \ {t}) \cup {[t EXCEPT !.step = "asked"]}
     \/ /\ tasks' = tasks \ {t}
        /\ muxq' = muxq
  /\ UNCHANGED <<clientVars, mux, up, down, responded>>

\* Fault: "from" is the asker's, as "to" is.
RespondOwnName(t, signal) ==
  LET response == [to |-> t.request.from, from |-> t.request.from,
                   id |-> t.request.id, signal |-> signal]
  IN /\ tasks' = tasks \ {t}
     /\ Responds([from |-> response.from, id |-> response.id, signal |-> signal])
     /\ muxq' \in Offered(muxq, [call |-> "Response", it |-> response])

\* The response goes back to the sender, from the recipient.
Respond(t, signal) ==
  LET response == [to |-> t.request.from, from |-> t.request.to,
                   id |-> t.request.id, signal |-> signal]
  IN /\ tasks' = tasks \ {t}
     /\ Responds([from |-> response.from, id |-> response.id, signal |-> signal])
     /\ muxq' \in Offered(muxq, [call |-> "Response", it |-> response])

RespondStubs(t) ==
  /\ t \in tasks /\ t.step = "informed"
  /\ Respond(t, "Stubs")
  /\ UNCHANGED <<clientVars, mux, up, down>>

\* The router has no other resource commands, and nothing to say to one that
\* wants no response.
RouteResource(t) ==
  /\ t \in tasks /\ t.step = "spawned" /\ t.request.operation # "Ext"
  /\ \/ /\ t.request.kind = "RequestResponse" /\ t.request.operation = "Resource"
        /\ Respond(t, "Error")
     \/ /\ t.request.kind = "Notification"
        /\ tasks' = tasks \ {t}
        /\ UNCHANGED <<muxq, responded>>
  /\ UNCHANGED <<clientVars, mux, up, down>>

\* Fault: a resource command goes out as well.
RouteExtAny(t) ==
  /\ t \in tasks /\ t.step = "spawned" /\ t.request.operation # "Select"
  /\ tasks' = tasks \ {t}
  /\ muxq' \in Offered(muxq, [call |-> "Request", it |-> t.request])
  /\ UNCHANGED <<clientVars, mux, up, down, responded>>

\* An Ext goes out again, to whom it names; its try_into() is unwrapped.
RouteExt(t) ==
  /\ t \in tasks /\ t.step = "spawned" /\ t.request.operation = "Ext"
  /\ tasks' = tasks \ {t}
  /\ muxq' \in Offered(muxq, [call |-> "Request", it |-> TryInto(t.request)])
  /\ UNCHANGED <<clientVars, mux, up, down, responded>>

-----------------------------------------------------------------------------
Client(p) ==
  \/ \E m \in Messages, request \in Asked : Ask(p, m, request)
  \/ Ignore(p) \/ ReceiveRequest(p) \/ ReceiveResponse(p)

Host == Select \/ MessageOut \/ \E p \in Portals : MessageIn(p)

Router == \E t \in tasks : AskInfos(t) \/ RespondStubs(t) \/ RouteResource(t) \/ RouteExt(t)

Next ==
  \/ \E p \in Portals : Client(p) \/ TakeRequest(p) \/ TakeResponse(p)
  \/ \E m \in Messages : TimesOut(m)
  \/ \E h \in handling : Handle(h)
  \/ Host
  \/ Router

Spec == Init /\ [][Next]_vars

-----------------------------------------------------------------------------
(* Properties. *)

\* A client receives a request only if its portal was named, by key or by
\* address, once at most for each time it was named and with its sender's key
\* as "from"; a request for a response reaches one client at most.
DeliveredAsNamed ==
  \A m \in Messages : LET got == delivered[m] IN
    /\ \A k \in DOMAIN got :
         /\ got[k].request.i \in DOMAIN sent[m].it.to
         /\ got[k].at \in GetPortal(sent[m].it.to[got[k].request.i])
         /\ got[k].request.from = Key(sent[m].from)
         /\ \A j \in DOMAIN got : got[j] = got[k] => j = k
    /\ got # <<>> /\ sent[m].it.kind = "RequestResponse" => Len(got) = 1

\* However many hands a request passes through (portal, router, handler), at
\* most one of them makes a response to it, and none to a notification.
OneResponse ==
  \A m \in Messages :
    responded[m] # <<>> => Len(responded[m]) = 1 /\ sent[m].it.kind = "RequestResponse"

\* The answer of an exchange comes from the one it was addressed to and is of
\* the sort that was asked for; the portal answers in its own name if there is
\* not exactly one recipient.
AnswerFits ==
  \A m \in Messages : call[m] = "answered" =>
    LET asked == sent[m].it  x == answer[m]
    IN \/ Len(asked.to) # 1 /\ x.from = Key(sent[m].from) /\ x.signal = "Error"
       \/ /\ Len(asked.to) = 1 /\ x.from = asked.to[1]
          /\ x.signal = "Stubs" <=> asked.operation = "Select"

\* From one client through the host to the other and back: what an exchange
\* promises its caller.
Contract == INSTANCE ExchangeContract WITH
  Calls <- Messages,
  Replies <- [from : Identifier, id : Messages, signal : Signal],
  phase <- [m \in Messages |->
              CASE call[m] \in {"waiting", "notified"} -> "open"
                [] call[m] = "timedout" -> "failed"
                [] OTHER -> call[m]],
  answer <- [m \in Messages |->
               IF answer[m] = None THEN None
               ELSE [from |-> answer[m].from, id |-> answer[m].id, signal |-> answer[m].signal]],
  issued <- {responded[m][1] : m \in {n \in Messages : responded[n] # <<>>}}
ContractSpec == Contract!Spec

\* The router's answer to a response, "all inbound messages are just sent back
\* to the outbound" (InYourFaceRouter::route), supposes that a response of one
\* client to another is passed on to it by the server portal it arrives at.
ResponsePassedOn ==
  [][\A p \in Portals :
       /\ up[p] # <<>> /\ Head(up[p]).type = "Response"
       /\ up'[p] = Tail(up[p])
       => mux'[p] # mux[p]]_vars
=============================================================================
