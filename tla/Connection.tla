----------------------------- MODULE Connection -----------------------------
(***************************************************************************)
(* One client and one server going through the handshake: what             *)
(* PortalTcpClient::new writes and reads, and what PortalTcpServer::handle *)
(* does at the other end, over two FrameStreams.  The handshake is spoken  *)
(* in strings; from the Init on, both sides speak frames.                  *)
(*                                                                         *)
(* The client's and the server's auth() are the embedding programs'; they  *)
(* are taken to speak as those of the tests do: the client writes one      *)
(* string, the server reads one.                                           *)
(***************************************************************************)
EXTENDS Integers, Sequences

CONSTANTS
  MaxFrames,  \* bound: frames the server sends after the Init
  MaxBreaks   \* bound: whether the connection may break, 0 or 1

ASSUME BoundsAssumption == MaxFrames \in Nat /\ MaxBreaks \in {0, 1}

VARIABLES
  client,     \* how far PortalTcpClient::new is
  reader,     \* its reading task: "none", "reading", "ended"
  kept,       \* new() still holds the receiver of the portal's frames
  server,     \* how far handle() is; "portal" when it has made the Portal
  initSent,   \* the portal task's writer has written the Init
  frames,     \* frames written after it
  toServer,   \* what is on its way
  toClient,
  broken      \* the connection has failed

clientVars == <<client, reader, kept>>
serverVars == <<server, initSent, frames>>
vars == <<clientVars, serverVars, toServer, toClient, broken>>

String == {"flavor", "otherFlavor", "user", "otherUser", "Ok", "error"}
Frame == {"Init", "Close", "Frame", "Status"}
ClientStage ==
  {"connected", "awaitFlavor", "auth", "awaitAuth", "awaitInit", "creating", "created",
   "returned", "failed"}
\* new() still reads and writes.
Busy == client \in {"connected", "awaitFlavor", "auth", "awaitAuth", "awaitInit", "creating"}

TypeOK ==
  /\ client \in ClientStage
  /\ reader \in {"none", "reading", "ended"}
  /\ kept \in BOOLEAN
  /\ server \in {"flavor", "auth", "info", "portal", "closed"}
  /\ initSent \in BOOLEAN
  /\ frames \in 0..MaxFrames
  /\ toServer \in Seq(String \cup Frame)
  /\ toClient \in Seq(String \cup Frame)
  /\ broken \in BOOLEAN

Init ==
  /\ client = "connected" /\ reader = "none" /\ kept = TRUE
  /\ server = "flavor" /\ initSent = FALSE /\ frames = 0
  /\ toServer = <<>> /\ toClient = <<>>
  /\ broken = FALSE

\* What is written on a broken stream is lost; the write may fail, too.
Written(q, m) == IF broken THEN q ELSE Append(q, m)

-----------------------------------------------------------------------------
(* The client. *)

\* A read of the client: the message is taken.
ClientReads(m) ==
  /\ toClient # <<>> /\ Head(toClient) = m
  /\ toClient' = Tail(toClient)

\* new() returns an error: both halves of the stream are dropped.
ClientFails ==
  /\ client' = "failed"
  /\ kept' = FALSE

WriteFlavor ==
  /\ client = "connected"
  /\ \E f \in {"flavor", "otherFlavor"} : toServer' = Written(toServer, f)
  /\ client' = "awaitFlavor"
  /\ UNCHANGED <<reader, kept, serverVars, toClient, broken>>

\* The answers to the flavor and to the authorization are read alike: anything
\* but "Ok" is an error.
ReadOk(stage, next) ==
  /\ client = stage
  /\ \/ ClientReads("Ok") /\ client' = next /\ kept' = kept
     \/ (\E m \in (String \cup Frame) \ {"Ok"} : ClientReads(m)) /\ ClientFails
  /\ UNCHANGED <<reader, serverVars, toServer, broken>>

\* client.auth(); it may also fail.
ClientAuth ==
  /\ client = "auth"
  /\ \/ /\ \E u \in {"user", "otherUser"} : toServer' = Written(toServer, u)
        /\ client' = "awaitAuth" /\ kept' = kept
     \/ ClientFails /\ toServer' = toServer
  /\ UNCHANGED <<reader, serverVars, toClient, broken>>

\* Fault: the first frame is not looked at.
ReadInitAny ==
  /\ client = "awaitInit"
  /\ \E m \in String \cup Frame : ClientReads(m)
  /\ client' = "creating"
  /\ UNCHANGED <<reader, kept, serverVars, toServer, broken>>

ReadInit ==
  /\ client = "awaitInit"
  /\ \/ ClientReads("Init") /\ client' = "creating" /\ kept' = kept
     \/ (\E m \in (String \cup Frame) \ {"Init"} : ClientReads(m)) /\ ClientFails
  /\ UNCHANGED <<reader, serverVars, toServer, broken>>

\* Portal::new announces the status and awaits ctrl.init(); nothing reads the
\* stream meanwhile.  Then the reading task is spawned.
CreatePortal ==
  /\ client = "creating"
  /\ toServer' = Written(toServer, "Status")
  /\ \/ client' = "created" /\ reader' = "reading" /\ kept' = kept
     \/ ClientFails /\ reader' = reader
  /\ UNCHANGED <<serverVars, toClient, broken>>

\* new() returns the portal; the receiver of its frames goes with its locals.
ReturnPortal ==
  /\ client = "created"
  /\ client' = "returned"
  /\ kept' = FALSE
  /\ UNCHANGED <<reader, serverVars, toServer, toClient, broken>>

\* The reading task hands on a frame while there is a receiver.
ReadFrame ==
  /\ reader = "reading"
  /\ toClient # <<>>
  /\ toClient' = Tail(toClient)
  /\ reader' = IF kept THEN "reading" ELSE "ended"
  /\ UNCHANGED <<client, kept, serverVars, toServer, broken>>

\* A read at the end of the stream fails, and so does a write on a broken one.
ClientEnd ==
  /\ broken \/ server = "closed"
  /\ toClient = <<>> \/ client \in {"connected", "auth"}
  /\ \/ Busy /\ ClientFails /\ reader' = reader
     \/ reader = "reading" /\ reader' = "ended" /\ UNCHANGED <<client, kept>>
  /\ UNCHANGED <<serverVars, toServer, toClient, broken>>

-----------------------------------------------------------------------------
(* The server. *)

ServerReads(m) ==
  /\ toServer # <<>> /\ Head(toServer) = m
  /\ toServer' = Tail(toServer)

Answer(m, stage) ==
  /\ toClient' = Written(toClient, m)
  /\ server' \in IF broken THEN {stage, "closed"} ELSE {stage}

\* Fault: after a flavor that does not match, another is waited for.
HandleFlavorWaits ==
  /\ server = "flavor"
  /\ \/ ServerReads("flavor") /\ Answer("Ok", "auth")
     \/ ServerReads("otherFlavor") /\ UNCHANGED <<server, toClient>>
  /\ UNCHANGED <<clientVars, initSent, frames, broken>>

HandleFlavor ==
  /\ server = "flavor"
  /\ \/ ServerReads("flavor") /\ Answer("Ok", "auth")
     \/ (\E m \in (String \cup Frame) \ {"flavor"} : ServerReads(m)) /\ Answer("error", "closed")
  /\ UNCHANGED <<clientVars, initSent, frames, broken>>

\* Fault: the second "Ok" is not written.
HandleAuthSilent ==
  /\ server = "auth"
  /\ \/ ServerReads("user") /\ server' = "info" /\ toClient' = toClient
     \/ ServerReads("otherUser") /\ Answer("error", "closed")
  /\ UNCHANGED <<clientVars, initSent, frames, broken>>

HandleAuth ==
  /\ server = "auth"
  /\ \/ ServerReads("user") /\ Answer("Ok", "info")
     \/ (\E m \in (String \cup Frame) \ {"user"} : ServerReads(m)) /\ Answer("error", "closed")
  /\ UNCHANGED <<clientVars, initSent, frames, broken>>

\* server.info() finds the portal's Info, or the connection is closed.
HandleInfo ==
  /\ server = "info"
  /\ \/ server' = "portal" /\ toClient' = toClient
     \/ Answer("Close", "closed")
  /\ UNCHANGED <<clientVars, initSent, frames, toServer, broken>>

\* The tasks of the portal write the Init, then what the mesh sends.
ServerWrites ==
  /\ server = "portal" /\ ~broken
  /\ \/ ~initSent /\ initSent' = TRUE /\ toClient' = Append(toClient, "Init") /\ frames' = frames
     \/ /\ initSent /\ frames < MaxFrames
        /\ frames' = frames + 1
        /\ toClient' = Append(toClient, "Frame")
        /\ initSent' = initSent
  /\ UNCHANGED <<clientVars, server, toServer, broken>>

\* The server's reading task takes the client's frames.
ServerTakes ==
  /\ server = "portal"
  /\ toServer # <<>>
  /\ toServer' = Tail(toServer)
  /\ UNCHANGED <<clientVars, serverVars, toClient, broken>>

\* A read at the end of the stream: handle() returns.
ServerEnd ==
  /\ server \in {"flavor", "auth"}
  /\ toServer = <<>>
  /\ broken \/ client = "failed"
  /\ server' = "closed"
  /\ UNCHANGED <<clientVars, initSent, frames, toServer, toClient, broken>>

\* The connection fails, and what was on its way may be lost.
Break ==
  /\ MaxBreaks = 1 /\ ~broken
  /\ broken' = TRUE
  /\ \E i \in 0..Len(toServer), j \in 0..Len(toClient) :
       toServer' = SubSeq(toServer, 1, i) /\ toClient' = SubSeq(toClient, 1, j)
  /\ UNCHANGED <<clientVars, serverVars>>

-----------------------------------------------------------------------------
New ==
  \/ WriteFlavor
  \/ ReadOk("awaitFlavor", "auth")
  \/ ClientAuth
  \/ ReadOk("awaitAuth", "awaitInit")
  \/ ReadInit
  \/ CreatePortal
  \/ ReturnPortal
  \/ ReadFrame
  \/ ClientEnd

Handle == HandleFlavor \/ HandleAuth \/ HandleInfo \/ ServerWrites \/ ServerTakes \/ ServerEnd

Next == New \/ Handle \/ Break

Spec == Init /\ [][Next]_vars

\* Both ends run, and the embedding programs' code returns.
FairSpec == Spec /\ WF_vars(New) /\ WF_vars(Handle)

-----------------------------------------------------------------------------
(* Properties. *)

\* The client makes a portal only if the server did: it found the flavor and
\* the user good, and has an Info for it.  No answer is taken for another.
Agreement ==
  client \in {"creating", "created", "returned"} => server = "portal" /\ initSent

\* PortalTcpClient::new and PortalTcpServer::handle are each at a step of their
\* own, with nothing but the words of the handshake between, and agree.
HandshakeInv == TypeOK /\ Agreement

\* Both ends change from strings to frames at the same point of the stream: no
\* frame is read as a string, and no string as a frame, whoever is ahead.
SameLanguage ==
  /\ toClient # <<>> =>
       /\ client \in {"awaitFlavor", "awaitAuth"} => Head(toClient) \in String
       /\ client \notin {"awaitFlavor", "awaitAuth", "connected", "auth"}
            => Head(toClient) \in Frame \/ client = "failed"
  /\ toServer # <<>> =>
       /\ server \in {"flavor", "auth"} => Head(toServer) \in String
       /\ server = "portal" => Head(toServer) \in Frame

\* No handshake hangs: whatever is refused, and wherever the connection breaks,
\* new() returns and handle() does.
HandshakeEnds ==
  /\ <>(client \in {"returned", "failed"})
  /\ <>(server \in {"portal", "closed"})
=============================================================================
