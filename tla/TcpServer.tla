------------------------------ MODULE TcpServer ------------------------------
(***************************************************************************)
(* resource-mesh-portal-tcp-server: the PortalTcpServer, with the muxer it *)
(* starts.                                                                 *)
(*                                                                         *)
(* Its thread binds, accepts and takes each client through the handshake   *)
(* in person, one after the other.  A task of the same runtime answers the *)
(* server's calls; Shutdown makes it mark the server dead and connect to   *)
(* the server itself, so that accept() returns and the mark is seen.  When *)
(* the thread is through, its runtime goes, and every task in it.          *)
(***************************************************************************)
EXTENDS PortalMuxer

CONSTANTS
  Clients,    \* programs that connect, each once; a client names its portal
  Obliging,   \* those among them that answer what the server waits for
  Listeners,  \* calls of ListenEvents
  Wake,       \* the connection the server makes to itself
  CallCap,    \* 1024
  MuxCalls,   \* what the embedding program calls the muxer for
  MaxMuxCalls \* bound: how often

ASSUME TcpAssumption ==
  /\ Portals = Clients
  /\ Obliging \subseteq Clients
  /\ Wake \notin Clients
  /\ CallCap \in Nat \ {0}
  /\ MaxMuxCalls \in Nat
  /\ MuxCalls \subseteq MuxCall

VARIABLES
  main,      \* how far the thread is; at a stage of the handshake, with current
  current,   \* the connection it handles
  backlog,   \* connections not yet accepted
  conn,      \* how far each client got
  alive,
  callTask,  \* the task: "recv", "announced", "marked", "ended"
  callq,     \* call_rx
  events,    \* everything broadcast
  listener,  \* each ListenEvents: "idle", "asked", "subscribed", or "dropped" with
             \* its sender
  routed     \* calls the embedding program made to the muxer

connVars == <<current, backlog, conn>>
callVars == <<alive, callTask, callq, listener>>
vars == <<main, connVars, callVars, events, routed, muxVars>>

Event ==
  [event : {"Initializing", "Ready", "Done", "Panic", "Shutdown"}]
    \cup [event : {"ClientConnected", "FlavorOk", "FlavorErr", "AuthOk", "AuthErr",
                   "InfoOk", "InfoErr"}, client : Clients]

Bound == main \in {"bound", "accept", "accepted", "flavor", "auth", "info", "add"}
TypeOK ==
  /\ MuxTypeOK
  /\ Bound \/ main \in {"start", "over", "gone"}
  /\ current \in Clients \cup {Wake}
  /\ backlog \in Seq(Clients \cup {Wake})
  /\ conn \in [Clients -> {"idle", "refused", "pending", "handled", "failed", "added"}]
  /\ alive \in BOOLEAN
  /\ callTask \in {"recv", "announced", "marked", "ended"}
  /\ callq \in Seq({"Shutdown", "InjectMessage"} \cup Listeners) /\ Len(callq) <= CallCap
  /\ events \in Seq(Event)
  /\ listener \in [Listeners -> {"idle", "asked", "subscribed", "dropped"}]
  /\ routed \in 0..MaxMuxCalls

Init ==
  /\ MuxInit
  /\ main = "start"
  /\ current = Wake /\ backlog = <<>> /\ conn = [c \in Clients |-> "idle"]
  /\ alive = TRUE /\ callTask = "recv" /\ callq = <<>>
  /\ events = <<[event |-> "Initializing"]>>
  /\ listener = [l \in Listeners |-> "idle"]
  /\ routed = 0

Broadcast(event) == events' = Append(events, [event |-> event])
Tell(event) == Append(events, [event |-> event, client |-> current])

-----------------------------------------------------------------------------
(* start(). *)

\* Fault: start() goes on when it could not bind.
BindGoesOn ==
  /\ main = "start"
  /\ main' = "bound"
  /\ events' = events \/ Broadcast("Panic")
  /\ UNCHANGED <<connVars, callVars, routed, muxVars>>

Bind ==
  /\ main = "start"
  /\ \/ main' = "bound" /\ events' = events
     \/ main' = "over" /\ Broadcast("Panic")
  /\ UNCHANGED <<connVars, callVars, routed, muxVars>>

AnnounceReady ==
  /\ main = "bound"
  /\ main' = "accept"
  /\ Broadcast("Ready")
  /\ UNCHANGED <<connVars, callVars, routed, muxVars>>

\* accept(), and under the lock a look at alive: a dead server is done.
Accept ==
  /\ main = "accept"
  /\ backlog # <<>>
  /\ current' = Head(backlog)
  /\ backlog' = Tail(backlog)
  /\ IF alive
       THEN /\ main' = "accepted"
            /\ UNCHANGED <<events, conn>>
       ELSE /\ main' = "over"
            /\ Broadcast("Done")
            /\ conn' = [c \in Clients |-> IF conn[c] = "pending" THEN "failed" ELSE conn[c]]
  /\ UNCHANGED <<callVars, routed, muxVars>>

\* An error of accept() ends the loop too, with the server alive.
AcceptFails ==
  /\ main = "accept"
  /\ main' = "over"
  /\ Broadcast("Done")
  /\ conn' = [c \in Clients |-> IF conn[c] = "pending" THEN "failed" ELSE conn[c]]
  /\ UNCHANGED <<current, backlog, callVars, routed, muxVars>>

\* A server that is alive takes even its own connection for a client; that one
\* is made only once alive is FALSE, so it is never handled.
AnnounceClient ==
  /\ main = "accepted"
  /\ main' = "flavor"
  /\ events' = Tell("ClientConnected")
  /\ conn' = [conn EXCEPT ![current] = "handled"]
  /\ UNCHANGED <<current, backlog, callVars, routed, muxVars>>

\* handle() returns, and its result is dropped.
Return(how) ==
  /\ main' = "accept"
  /\ conn' = [conn EXCEPT ![current] = how]

\* The client's flavor is read: it matches, it does not, or the stream fails;
\* and so may the answer, before or after the event is sent.
HandleFlavor ==
  /\ main = "flavor"
  /\ \/ main' = "auth" /\ events' = Tell("FlavorOk") /\ conn' = conn
     \/ Return("failed") /\ events' \in {events, Tell("FlavorErr"), Tell("FlavorOk")}
  /\ UNCHANGED <<current, backlog, callVars, routed, muxVars>>

\* server.auth() talks to the client as it likes.
HandleAuth ==
  /\ main = "auth"
  /\ \/ main' = "info" /\ events' = Tell("AuthOk") /\ conn' = conn
     \/ Return("failed") /\ events' \in {Tell("AuthErr"), Tell("AuthOk")}
  /\ UNCHANGED <<current, backlog, callVars, routed, muxVars>>

\* server.info(); then the portal and its tasks are made.
HandleInfo ==
  /\ main = "info"
  /\ \/ main' = "add" /\ events' = Tell("InfoOk") /\ conn' = conn
     \/ Return("failed") /\ events' = Tell("InfoErr")
  /\ UNCHANGED <<current, backlog, callVars, routed, muxVars>>

\* send_timeout to the muxer; a portal that cannot be added is dropped.
HandleAdd ==
  /\ main = "add"
  /\ \/ /\ PutMux([call |-> "Add", portal |-> current])
        /\ Return("added")
        /\ events' = events
     \/ /\ ~MuxOpen
        /\ Return("failed")
        /\ events' = Tell("InfoErr")
        /\ UNCHANGED muxVars
  /\ UNCHANGED <<current, backlog, callVars, routed>>

-----------------------------------------------------------------------------
(* The calls. *)

\* The receiver of the calls is dropped, and the senders of the ListenEvents
\* in it.
CallTaskEnds ==
  /\ callTask' = "ended"
  /\ callq' = <<>>
  /\ listener' = [l \in Listeners |-> IF listener[l] = "asked" THEN "dropped" ELSE listener[l]]

\* Fault: a channel without a bound.
CallUnbounded(call) ==
  /\ callTask # "ended"
  /\ callq' = Append(callq, call)
  /\ UNCHANGED <<main, connVars, alive, callTask, events, routed, muxVars>>

Call(call) ==
  /\ callTask # "ended"
  /\ Len(callq) < CallCap
  /\ callq' = Append(callq, call)
  /\ UNCHANGED <<main, connVars, alive, callTask, events, routed, muxVars>>

\* Bound: one Shutdown waits at a time; the task of the calls takes no second.
CallShutdown ==
  /\ ~\E i \in DOMAIN callq : callq[i] = "Shutdown"
  /\ Call("Shutdown")
  /\ UNCHANGED listener

InjectMessage ==
  /\ Call("InjectMessage")
  /\ UNCHANGED listener

\* The call of a server that has gone fails at once.
ListenEvents(l) ==
  /\ listener[l] = "idle"
  /\ Call(l)
  /\ listener' = [listener EXCEPT ![l] = "asked"]

\* Fault: ListenEvents are answered on after the shutdown.
TakeCallStill ==
  /\ callTask # "ended" /\ callq # <<>>
  /\ callq' = Tail(callq)
  /\ IF Head(callq) \in Listeners
       THEN /\ listener' = [listener EXCEPT ![Head(callq)] = "subscribed"]
            /\ UNCHANGED <<callTask, events>>
       ELSE /\ Head(callq) = "Shutdown" /\ callTask' = "announced"
            /\ Broadcast("Shutdown")
            /\ UNCHANGED listener
  /\ UNCHANGED <<main, connVars, alive, routed, muxVars>>

\* Fault: the calls are looked at between two clients.
TakeCallBetween ==
  /\ main = "accept"
  /\ callTask = "recv" /\ callq # <<>>
  /\ callq' = Tail(callq)
  /\ IF Head(callq) \in Listeners
       THEN /\ listener' = [listener EXCEPT ![Head(callq)] = "subscribed"]
            /\ UNCHANGED <<callTask, events>>
       ELSE /\ Head(callq) = "Shutdown" /\ callTask' = "announced"
            /\ Broadcast("Shutdown")
            /\ UNCHANGED listener
  /\ UNCHANGED <<main, connVars, alive, routed, muxVars>>

TakeCall ==
  /\ callTask = "recv"
  /\ callq # <<>>
  /\ callq' = Tail(callq)
  /\ \/ /\ Head(callq) \in Listeners
        /\ listener' = [listener EXCEPT ![Head(callq)] = "subscribed"]
        /\ UNCHANGED <<callTask, events>>
     \/ /\ Head(callq) = "InjectMessage"
        /\ UNCHANGED <<callTask, events, listener>>
     \/ /\ Head(callq) = "Shutdown"
        /\ callTask' = "announced"
        /\ Broadcast("Shutdown")
        /\ UNCHANGED listener
  /\ UNCHANGED <<main, connVars, alive, routed, muxVars>>

MarkDead ==
  /\ callTask = "announced"
  /\ callTask' = "marked"
  /\ alive' = FALSE
  /\ UNCHANGED <<main, connVars, callq, listener, events, routed, muxVars>>

\* Fault: the server is not connected to.
WakeServerForgets ==
  /\ callTask = "marked"
  /\ CallTaskEnds
  /\ UNCHANGED <<main, connVars, alive, events, routed, muxVars>>

\* The connection of the server to itself; that it is refused is ignored.
WakeServer ==
  /\ callTask = "marked"
  /\ backlog' = IF Bound THEN Append(backlog, Wake) ELSE backlog
  /\ CallTaskEnds
  /\ UNCHANGED <<main, current, conn, alive, events, routed, muxVars>>

\* start() has returned and the runtime is dropped, with the tasks in it.  The
\* muxer runs in the runtime of whoever made the server.
RuntimeGoes ==
  /\ main = "over"
  /\ main' = "gone"
  /\ CallTaskEnds
  /\ UNCHANGED <<connVars, alive, events, routed, muxVars>>

-----------------------------------------------------------------------------
(* The clients, and the program that embeds the server. *)

Connect(c) ==
  /\ conn[c] = "idle"
  /\ IF Bound
       THEN /\ backlog' = Append(backlog, c)
            /\ conn' = [conn EXCEPT ![c] = "pending"]
       ELSE /\ backlog' = backlog
            /\ conn' = [conn EXCEPT ![c] = "refused"]
  /\ UNCHANGED <<main, current, callVars, events, routed, muxVars>>

\* router_factory() gave the program a sender to the muxer.
ProgramCalls(call) ==
  /\ routed < MaxMuxCalls
  /\ routed' = routed + 1
  /\ PutMux(call)
  /\ UNCHANGED <<main, connVars, callVars, events>>

Muxer == MuxNext /\ UNCHANGED <<main, connVars, callVars, events, routed>>

-----------------------------------------------------------------------------
Handshake == HandleFlavor \/ HandleAuth

Thread ==
  Bind \/ AnnounceReady \/ Accept \/ AnnounceClient \/ HandleInfo \/ HandleAdd \/ RuntimeGoes

CallTask == TakeCall \/ MarkDead \/ WakeServer

Next ==
  \/ Thread
  \/ AcceptFails
  \/ Handshake
  \/ CallTask
  \/ CallShutdown
  \/ InjectMessage
  \/ \E l \in Listeners : ListenEvents(l)
  \/ \E c \in Clients : Connect(c)
  \/ \E call \in MuxCalls : ProgramCalls(call)
  \/ Muxer

Spec == Init /\ [][Next]_vars

\* The operating system runs the thread and tokio the tasks.  A handshake goes
\* on if its client obliges.
FairSpec ==
  /\ Spec
  /\ WF_vars(Thread)
  /\ WF_vars(CallTask)
  /\ WF_vars(Muxer)
  /\ WF_vars(Handshake /\ current \in Obliging)

-----------------------------------------------------------------------------
(* Properties. *)

\* Who subscribes is ahead of the shutdown: the task that answers ListenEvents
\* is the one that announces it, and answers none afterwards.  He is ahead of
\* Done or Panic too, unless bind or accept() has failed and the runtime is not
\* gone yet: then he hears neither, and at most a late Shutdown.
ListenerIsAhead ==
  [][\A l \in Listeners :
       listener'[l] = "subscribed" /\ listener[l] # "subscribed"
       => \A k \in 1..Len(events) :
            /\ events[k].event # "Shutdown"
            /\ events[k].event \in {"Done", "Panic"} => main = "over"]_vars

\* Done, or Panic, is the thread's last word, said once: after it only a shutdown
\* that comes too late is announced.
EndIsLast ==
  \A j, k \in 1..Len(events) :
    j < k /\ events[j].event \in {"Done", "Panic"} => events[k].event = "Shutdown"

Ended == main = "gone"

\* A client that does not oblige has the thread.
Stalled == main \in {"flavor", "auth"} /\ current \notin Obliging

\* A shutdown of a server that is bound ends it, in whatever order its
\* connection to itself and those of the clients come in, unless a client
\* stalls the handshake: handle() waits for it without a timeout.
BoundShutdownEnds == callTask = "announced" /\ Bound ~> Ended \/ Stalled

\* Every ListenEvents is answered, or its sender dropped, even while a client
\* stalls the thread.
ListenersAnswered == \A l \in Listeners : listener[l] = "asked" ~> listener[l] # "asked"

\* "make sure everyone got chance to be in the muxer" (line 347): a portal
\* that is made gets into the muxer's table.
EveryoneInMuxer ==
  \A c \in Clients : main = "add" /\ current = c ~> c \in portals
=============================================================================
