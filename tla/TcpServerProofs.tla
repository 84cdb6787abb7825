-------------------------- MODULE TcpServerProofs --------------------------
(***************************************************************************)
(* What TLAPS proves of TcpServer, for any clients, listeners and calls    *)
(* and any capacity of the channels.                                       *)
(***************************************************************************)
EXTENDS TcpServer, SequenceTheorems, TLAPS

Over == main \in {"over", "gone"}

\* The server's own connection is made by the task that has marked it dead, so
\* a server that is alive takes only clients through the handshake; and that
\* task does not outlive the runtime.
WakeInv ==
  /\ main = "gone" => callTask = "ended"
  /\ callTask = "marked" => ~alive
  /\ alive => \A i \in 1..Len(backlog) : backlog[i] # Wake
  /\ main \in {"accepted", "flavor", "auth", "info", "add"} => current \in Clients

\* Until the thread is through it has not said so; afterwards it says nothing.
EndInv ==
  /\ ~Over => \A k \in 1..Len(events) : events[k].event \notin {"Done", "Panic"}
  /\ EndIsLast

\* The task that takes the calls has announced no shutdown.
AnnounceInv ==
  callTask = "recv" => \A k \in 1..Len(events) : events[k].event # "Shutdown"

\* The inductive invariant (start(), handle() and the task of the calls).
ServerInv == TypeOK /\ WakeInv /\ EndInv /\ AnnounceInv

-----------------------------------------------------------------------------
\* The invariant holds of a new server.
LEMMA InitServerInv == Init => ServerInv
  BY TcpAssumption, MuxCapAssumption
  DEF Init, MuxInit, ServerInv, TypeOK, MuxTypeOK, Bound, Event, WakeInv, EndInv, Over,
      EndIsLast, AnnounceInv

-----------------------------------------------------------------------------
\* A send to the muxer keeps its types.
LEMMA PutMuxType ==
  ASSUME MuxTypeOK, NEW c \in MuxCall, PutMux(c)
  PROVE  MuxTypeOK'
  BY AppendProperties, LenProperties, MuxCapAssumption DEF MuxTypeOK, PutMux, MuxOpen

\* So does the muxer itself.
LEMMA MuxerType == MuxTypeOK /\ MuxNext => MuxTypeOK'
  <1> SUFFICES ASSUME MuxTypeOK, MuxNext PROVE MuxTypeOK'
    OBVIOUS
  <1>1. CASE MuxerHandles
    <2>1. /\ Head(muxq) \in MuxCall
          /\ Tail(muxq) \in Seq(MuxCall) /\ Len(Tail(muxq)) <= MuxCap
      BY <1>1, HeadTailProperties, LenProperties, MuxCapAssumption DEF MuxTypeOK, MuxerHandles
    <2>2. Head(muxq).call = "Add" => Head(muxq).portal \in Portals
      BY <2>1 DEF MuxCall
    <2> QED
      BY <1>1, <2>1, <2>2 DEF MuxTypeOK, MuxerHandles
  <1>2. CASE MuxerEnds
    BY <1>2, MuxCapAssumption DEF MuxTypeOK, MuxerEnds
  <1> QED
    BY <1>1, <1>2 DEF MuxNext

\* The thread's steps: what each makes of the variables that are typed.
LEMMA ThreadType ==
  ASSUME ServerInv, Thread \/ AcceptFails \/ Handshake
  PROVE  TypeOK'
  <1> USE TcpAssumption, MuxCapAssumption DEF ServerInv, TypeOK, connVars, callVars
  <1>1. \A e \in {"Initializing", "Ready", "Done", "Panic", "Shutdown"} :
          Append(events, [event |-> e]) \in Seq(Event)
    BY AppendProperties, LenProperties DEF Event
  <1>2. \A e \in {"ClientConnected", "FlavorOk", "FlavorErr", "AuthOk", "AuthErr", "InfoOk", "InfoErr"} :
          current \in Clients => Tell(e) \in Seq(Event)
    BY AppendProperties, LenProperties DEF Event, Tell
  <1>3. UNCHANGED muxVars => MuxTypeOK'
    BY DEF MuxTypeOK, muxVars
  <1>4. CASE Bind
    BY <1>1, <1>3, <1>4 DEF Bind, Broadcast, Bound
  <1>5. CASE AnnounceReady
    BY <1>1, <1>3, <1>5 DEF AnnounceReady, Broadcast, Bound
  <1>6. CASE Accept
    <2>1. Head(backlog) \in Clients \cup {Wake} /\ Tail(backlog) \in Seq(Clients \cup {Wake})
      BY <1>6, HeadTailProperties, LenProperties DEF Accept
    <2>2. conn' \in [Clients -> {"idle", "refused", "pending", "handled", "failed", "added"}]
      BY <1>6 DEF Accept
    <2> QED
      BY <1>1, <1>3, <1>6, <2>1, <2>2 DEF Accept, Broadcast, Bound
  <1>7. CASE AcceptFails
    BY <1>1, <1>3, <1>7 DEF AcceptFails, Broadcast, Bound
  <1>8. CASE AnnounceClient
    BY <1>2, <1>3, <1>8 DEF AnnounceClient, WakeInv, Bound
  <1>9. CASE Handshake
    BY <1>2, <1>3, <1>9 DEF Handshake, HandleFlavor, HandleAuth, Return, WakeInv, Bound
  <1>10. CASE HandleInfo
    BY <1>2, <1>3, <1>10 DEF HandleInfo, Return, WakeInv, Bound
  <1>11. CASE HandleAdd
    <2>1. current \in Clients
      BY <1>11 DEF HandleAdd, WakeInv
    <2>2. [call |-> "Add", portal |-> current] \in MuxCall
      BY <2>1 DEF MuxCall
    <2>3. MuxTypeOK'
      BY <1>3, <1>11, <2>2, PutMuxType DEF HandleAdd
    <2> QED
      BY <1>2, <1>11, <2>1, <2>3 DEF HandleAdd, Return, Bound
  <1>12. CASE RuntimeGoes
    BY <1>3, <1>12 DEF RuntimeGoes, CallTaskEnds, Bound
  <1> QED
    BY <1>4, <1>5, <1>6, <1>7, <1>8, <1>9, <1>10, <1>11, <1>12 DEF Thread

\* The steps of everybody else.
LEMMA OthersType ==
  ASSUME ServerInv, [Next]_vars, ~Thread, ~AcceptFails, ~Handshake
  PROVE  TypeOK'
  <1> USE TcpAssumption, MuxCapAssumption DEF ServerInv, TypeOK, connVars, callVars
  <1>1. UNCHANGED muxVars => MuxTypeOK'
    BY DEF MuxTypeOK, muxVars
  <1>2. UNCHANGED main => (Bound \/ main \in {"start", "over", "gone"})'
    BY DEF Bound
  <1>3. \A c \in {"Shutdown", "InjectMessage"} \cup Listeners :
          Append(callq, c) \in Seq({"Shutdown", "InjectMessage"} \cup Listeners)
    BY AppendProperties, LenProperties
  <1>4. ASSUME NEW c \in {"Shutdown", "InjectMessage"} \cup Listeners, Call(c),
               listener' \in [Listeners -> {"idle", "asked", "subscribed", "dropped"}]
        PROVE  TypeOK'
    <2>1. Len(callq') <= CallCap
      BY <1>4, AppendProperties, LenProperties DEF Call
    <2> QED
      BY <1>1, <1>2, <1>3, <1>4, <2>1 DEF Call
  <1>5. CASE CallShutdown
    BY <1>4, <1>5 DEF CallShutdown
  <1>6. CASE InjectMessage
    BY <1>4, <1>6 DEF InjectMessage
  <1>7. ASSUME NEW l \in Listeners, ListenEvents(l) PROVE TypeOK'
    BY <1>4, <1>7 DEF ListenEvents
  <1>8. CASE TakeCall
    <2>1. /\ Tail(callq) \in Seq({"Shutdown", "InjectMessage"} \cup Listeners)
          /\ Len(Tail(callq)) <= CallCap
      BY <1>8, HeadTailProperties, LenProperties DEF TakeCall
    <2>2. Append(events, [event |-> "Shutdown"]) \in Seq(Event)
      BY AppendProperties, LenProperties DEF Event
    <2>3. /\ callTask' \in {"recv", "announced", "marked", "ended"}
          /\ events' \in Seq(Event)
      BY <1>8, <2>2 DEF TakeCall, Broadcast
    <2>4. listener' \in [Listeners -> {"idle", "asked", "subscribed", "dropped"}]
      BY <1>8 DEF TakeCall
    <2>5. callq' = Tail(callq) /\ UNCHANGED <<main, connVars, alive, routed, muxVars>>
      BY <1>8 DEF TakeCall
    <2> HIDE DEF TakeCall
    <2> QED
      BY <1>1, <1>2, <2>1, <2>3, <2>4, <2>5
  <1>9. CASE MarkDead
    BY <1>1, <1>2, <1>9 DEF MarkDead
  <1>10. CASE WakeServer
    <2>1. backlog' \in Seq(Clients \cup {Wake})
      BY <1>10, AppendProperties, LenProperties DEF WakeServer
    <2> QED
      BY <1>1, <1>2, <1>10, <2>1 DEF WakeServer, CallTaskEnds
  <1>11. ASSUME NEW c \in Clients, Connect(c) PROVE TypeOK'
    <2>1. backlog' \in Seq(Clients \cup {Wake})
      <3>1. Append(backlog, c) \in Seq(Clients \cup {Wake})
        BY AppendProperties, LenProperties
      <3>2. backlog' = backlog \/ backlog' = Append(backlog, c)
        BY <1>11 DEF Connect
      <3> QED
        BY <3>1, <3>2
    <2> QED
      BY <1>1, <1>2, <1>11, <2>1 DEF Connect
  <1>12. ASSUME NEW c \in MuxCalls, ProgramCalls(c) PROVE TypeOK'
    <2>1. MuxTypeOK'
      BY <1>12, PutMuxType DEF ProgramCalls
    <2> QED
      BY <1>2, <1>12, <2>1 DEF ProgramCalls
  <1>13. CASE Muxer
    BY <1>2, <1>13, MuxerType DEF Muxer
  <1>14. CASE UNCHANGED vars
    BY <1>1, <1>2, <1>14 DEF vars
  <1> QED
    BY <1>5, <1>6, <1>7, <1>8, <1>9, <1>10, <1>11, <1>12, <1>13, <1>14 DEF Next, CallTask

\* Types are preserved by every step, as the handshake is only ever with a
\* client.
LEMMA TypeStep == ServerInv /\ [Next]_vars => TypeOK'
  BY ThreadType, OthersType

-----------------------------------------------------------------------------
\* A dead server stays dead, and only a dead one has its own connection before
\* it.
LEMMA WakeStep == ServerInv /\ [Next]_vars => WakeInv'
  <1> SUFFICES ASSUME ServerInv, [Next]_vars PROVE WakeInv'
    OBVIOUS
  <1> USE TcpAssumption DEF ServerInv, TypeOK, WakeInv, connVars, callVars
  <1>1. CASE Accept
    <2>1. /\ Head(backlog) \in Clients \cup {Wake} /\ Head(backlog) = backlog[1] /\ 1 \in 1..Len(backlog)
          /\ \A i \in 1..Len(Tail(backlog)) : i + 1 \in 1..Len(backlog) /\ Tail(backlog)[i] = backlog[i + 1]
      BY <1>1, HeadTailProperties, LenProperties DEF Accept
    <2> QED
      BY <1>1, <2>1 DEF Accept
  <1>2. CASE WakeServer
    BY <1>2 DEF WakeServer, CallTaskEnds
  <1>3. ASSUME NEW c \in Clients, Connect(c) PROVE WakeInv'
    <2>1. \A i \in 1..Len(backlog') :
            (i \in 1..Len(backlog) /\ backlog'[i] = backlog[i]) \/ backlog'[i] = c
      <3>1. backlog' = backlog \/ backlog' = Append(backlog, c)
        BY <1>3 DEF Connect
      <3>2. CASE backlog' = Append(backlog, c)
        BY <3>2, AppendProperties, LenProperties
      <3> QED
        BY <3>1, <3>2
    <2> QED
      BY <1>3, <2>1 DEF Connect
  <1>4. CASE Bind \/ AnnounceReady \/ AnnounceClient \/ HandleInfo \/ HandleAdd \/ RuntimeGoes
             \/ AcceptFails \/ Handshake
    BY <1>4 DEF Bind, AnnounceReady, AnnounceClient, HandleInfo, HandleAdd, RuntimeGoes,
                CallTaskEnds, AcceptFails, Handshake, HandleFlavor, HandleAuth, Return
  <1>5. CASE TakeCall \/ MarkDead
    BY <1>5 DEF TakeCall, MarkDead
  <1>6. CASE UNCHANGED <<main, connVars, alive, callTask>>
    BY <1>6
  <1>7. CASE CallShutdown \/ InjectMessage \/ (\E l \in Listeners : ListenEvents(l))
             \/ (\E c \in MuxCalls : ProgramCalls(c)) \/ Muxer \/ UNCHANGED vars
    BY <1>6, <1>7 DEF CallShutdown, InjectMessage, ListenEvents, Call, ProgramCalls, Muxer, vars
  <1> QED
    BY <1>1, <1>2, <1>3, <1>4, <1>5, <1>7 DEF Next, Thread, CallTask

-----------------------------------------------------------------------------
\* What a step broadcasts: the thread speaks only while it is not through, and
\* with its last word it is; the task of the calls announces its shutdown.
LEMMA EventsFrame ==
  ServerInv /\ [Next]_vars =>
    \/ events' = events /\ (Over' <=> Over)
    \/ /\ ~Over /\ ~Over'
       /\ \E e \in Event : /\ events' = Append(events, e)
                           /\ e.event \notin {"Done", "Panic", "Shutdown"}
    \/ /\ ~Over /\ Over'
       /\ \E e \in Event : /\ events' = Append(events, e)
                           /\ e.event # "Shutdown"
    \/ /\ callTask = "recv" /\ callTask' = "announced" /\ (Over' <=> Over)
       /\ \E e \in Event : events' = Append(events, e) /\ e.event = "Shutdown"
  <1> SUFFICES ASSUME ServerInv, [Next]_vars
               PROVE  \/ events' = events /\ (Over' <=> Over)
                      \/ /\ ~Over /\ ~Over'
                         /\ \E e \in Event : /\ events' = Append(events, e)
                                             /\ e.event \notin {"Done", "Panic", "Shutdown"}
                      \/ /\ ~Over /\ Over'
                         /\ \E e \in Event : /\ events' = Append(events, e)
                                             /\ e.event # "Shutdown"
                      \/ /\ callTask = "recv" /\ callTask' = "announced" /\ (Over' <=> Over)
                         /\ \E e \in Event : events' = Append(events, e) /\ e.event = "Shutdown"
    OBVIOUS
  <1> USE DEF Over
  <1>1. \A e \in {"Ready", "Done", "Panic", "Shutdown"} : [event |-> e] \in Event
    BY DEF Event
  <1>2. \A e \in {"ClientConnected", "FlavorOk", "FlavorErr", "AuthOk", "AuthErr", "InfoOk", "InfoErr"} :
          current \in Clients => [event |-> e, client |-> current] \in Event
    BY DEF Event
  <1>3. main \in {"accepted", "flavor", "auth", "info", "add"} => current \in Clients
    BY DEF ServerInv, WakeInv
  <1>4. CASE Bind \/ AnnounceReady \/ Accept \/ AcceptFails
    BY <1>1, <1>4 DEF Bind, AnnounceReady, Accept, AcceptFails, Broadcast
  <1>5. CASE AnnounceClient \/ Handshake \/ HandleInfo \/ HandleAdd
    BY <1>2, <1>3, <1>5
    DEF AnnounceClient, Handshake, HandleFlavor, HandleAuth, HandleInfo, HandleAdd, Return, Tell
  <1>6. CASE TakeCall
    BY <1>1, <1>6 DEF TakeCall, Broadcast
  <1> QED
    BY <1>4, <1>5, <1>6
    DEF Next, Thread, CallTask, RuntimeGoes, MarkDead, WakeServer, CallShutdown, InjectMessage,
        ListenEvents, Call, Connect, ProgramCalls, Muxer, vars

\* The task of the calls never goes back to taking them.
LEMMA CallTaskForward == [Next]_vars /\ callTask' = "recv" => callTask = "recv"
  BY DEF Next, vars, callVars, Thread, CallTask, Bind, AnnounceReady, Accept, AcceptFails,
         AnnounceClient, Handshake, HandleFlavor, HandleAuth, HandleInfo, HandleAdd, RuntimeGoes,
         CallTaskEnds, TakeCall, MarkDead, WakeServer, CallShutdown, InjectMessage, ListenEvents,
         Call, Connect, ProgramCalls, Muxer

\* Done is the last word through every step, and no shutdown is announced
\* before it is taken.
LEMMA EndStep == ServerInv /\ [Next]_vars => EndInv' /\ AnnounceInv'
  <1> SUFFICES ASSUME ServerInv, [Next]_vars PROVE EndInv' /\ AnnounceInv'
    OBVIOUS
  <1> USE DEF ServerInv, TypeOK, EndInv, AnnounceInv, EndIsLast
  <1>1. CASE events' = events /\ (Over' <=> Over)
    BY <1>1, CallTaskForward
  <1>2. ASSUME NEW e \in Event, events' = Append(events, e)
        PROVE  /\ Len(events) \in Nat /\ Len(events') = Len(events) + 1
               /\ events'[Len(events) + 1] = e
               /\ \A i \in 1..Len(events) : events'[i] = events[i]
    BY <1>2, AppendProperties, LenProperties
  <1>3. ASSUME NEW e \in Event, events' = Append(events, e), ~Over, e.event # "Shutdown",
               Over' \/ e.event \notin {"Done", "Panic"}
        PROVE  EndInv' /\ AnnounceInv'
    BY <1>2, <1>3, CallTaskForward
  <1>4. ASSUME NEW e \in Event, events' = Append(events, e), e.event = "Shutdown",
               callTask' = "announced", Over' <=> Over
        PROVE  EndInv' /\ AnnounceInv'
    BY <1>2, <1>4
  <1> QED
    BY <1>1, <1>3, <1>4, EventsFrame

-----------------------------------------------------------------------------
\* The invariant holds in every behaviour of the server.
THEOREM ServerInvariant == Spec => []ServerInv
  <1>1. ServerInv /\ [Next]_vars => ServerInv'
    BY TypeStep, WakeStep, EndStep DEF ServerInv
  <1> QED
    BY <1>1, InitServerInv, PTL DEF Spec

\* The server's variables keep their types, its channels their bounds, and no
\* event names a client that was none.
THEOREM ServerTypeCorrect == Spec => []TypeOK
  <1>1. ServerInv => TypeOK
    BY DEF ServerInv
  <1> QED
    BY <1>1, ServerInvariant, PTL

\* After Done or Panic nothing is broadcast but a shutdown that comes too late,
\* whatever clients, handshakes and shutdown do before.
THEOREM EndIsLastWord == Spec => []EndIsLast
  <1>1. ServerInv => EndIsLast
    BY DEF ServerInv, EndInv
  <1> QED
    BY <1>1, ServerInvariant, PTL

\* Nobody is subscribed once the shutdown is announced, nor after Done or Panic
\* except in the moment before the runtime goes, for any number of listeners
\* (ListenerIsAhead: the task that takes the calls).
THEOREM ListenersAreAhead == Spec => ListenerIsAhead
  <1>1. ServerInv /\ [Next]_vars =>
          [\A l \in Listeners :
             listener'[l] = "subscribed" /\ listener[l] # "subscribed"
             => \A k \in 1..Len(events) :
                  /\ events[k].event # "Shutdown"
                  /\ events[k].event \in {"Done", "Panic"} => main = "over"]_vars
    <2> SUFFICES ASSUME ServerInv, [Next]_vars, NEW l \in Listeners,
                        listener'[l] = "subscribed", listener[l] # "subscribed",
                        NEW k \in 1..Len(events)
                 PROVE  /\ events[k].event # "Shutdown"
                        /\ events[k].event \in {"Done", "Panic"} => main = "over"
      OBVIOUS
    <2>1. callTask = "recv"
      BY DEF ServerInv, TypeOK, Next, vars, callVars, Thread, CallTask, Bind, AnnounceReady,
             Accept, AcceptFails, AnnounceClient, Handshake, HandleFlavor, HandleAuth, HandleInfo,
             HandleAdd, RuntimeGoes, CallTaskEnds, TakeCall, MarkDead, WakeServer, CallShutdown,
             InjectMessage, ListenEvents, Call, Connect, ProgramCalls, Muxer
    <2>2. events[k].event # "Shutdown"
      BY <2>1 DEF ServerInv, AnnounceInv
    <2>3. main # "gone"
      BY <2>1 DEF ServerInv, WakeInv
    <2>4. events[k].event \in {"Done", "Panic"} => Over
      BY DEF ServerInv, EndInv
    <2> QED
      BY <2>2, <2>3, <2>4 DEF Over
  <1> QED
    BY <1>1, ServerInvariant, PTL DEF Spec, ListenerIsAhead
=============================================================================
