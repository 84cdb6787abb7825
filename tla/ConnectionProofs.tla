-------------------------- MODULE ConnectionProofs --------------------------
(***************************************************************************)
(* What TLAPS proves of Connection, for any number of frames after the     *)
(* Init and wherever the connection breaks.                                *)
(***************************************************************************)
EXTENDS Connection, SequenceTheorems, TLAPS

\* What is in a queue after an append was there before, in its place, or is the
\* new one, at the end.
LEMMA AppendPlaces ==
  ASSUME NEW S, NEW q \in Seq(S), NEW x \in S, NEW i \in 1..Len(Append(q, x))
  PROVE  \/ i \in 1..Len(q) /\ Append(q, x)[i] = q[i]
         \/ i = Len(q) + 1 /\ Append(q, x)[i] = x
  OBVIOUS

\* A queue with no room for two that is not empty.
LEMMA OnlyOne ==
  ASSUME NEW S, NEW q \in Seq(S), q # <<>>, Len(q) <= 1
  PROVE  Len(q) = 1 /\ q[1] \in S
  <1>1. q[1] \in S /\ Len(q) \in Nat /\ Len(q) >= 1
    OBVIOUS
  <1>2. \A n \in Nat : n >= 1 /\ n <= 1 => n = 1
    OBVIOUS
  <1>3. Len(q) = 1
    BY <1>1, <1>2, Zenon
  <1> QED
    BY <1>1, <1>3, Zenon

Message == String \cup Frame

\* The answer to the authorization, and after it only frames.
AnswerFirst(q) ==
  \A k \in 1..Len(q) : IF k = 1 THEN q[k] \in {"Ok", "error"} ELSE q[k] \in Frame

HoldsInit(q) == \E k \in 1..Len(q) : q[k] = "Init"

\* What may be on its way to the client at each of its steps.
ToClientInv ==
  /\ client \in {"connected", "auth"} => toClient = <<>>
  /\ client = "awaitFlavor" => toClient \in Seq({"Ok", "error"}) /\ Len(toClient) <= 1
  /\ client = "awaitAuth" => AnswerFirst(toClient)
  /\ client \in {"awaitInit", "creating", "created", "returned"} => toClient \in Seq(Frame)
  /\ HoldsInit(toClient) => server = "portal" /\ initSent

\* How far the client can be at each step of the server, and what may be on
\* its way to the server then.
ToServerInv ==
  /\ server = "flavor" =>
       /\ client \in {"connected", "awaitFlavor", "failed"} /\ toClient = <<>>
       /\ toServer \in Seq(String) /\ Len(toServer) <= 1
       /\ client = "connected" => toServer = <<>>
  /\ server = "auth" =>
       /\ client \in {"awaitFlavor", "auth", "awaitAuth", "failed"}
       /\ toServer \in Seq(String) /\ Len(toServer) <= 1
       /\ client \in {"awaitFlavor", "auth"} => toServer = <<>>
       /\ client = "awaitAuth" => toClient = <<>>
  /\ server = "info" => client \in {"awaitAuth", "awaitInit", "failed"} /\ toServer = <<>>
  /\ server = "portal" =>
       /\ client \in {"awaitAuth", "awaitInit", "creating", "created", "returned", "failed"}
       /\ toServer \in Seq(Frame)

\* Until it breaks, the answer to the authorization is on its way while the
\* client waits for it and the server has gone on; nothing else reads it.
AnswerInv ==
  /\ server \in {"info", "portal"} /\ client = "awaitAuth" /\ ~broken => toClient # <<>>
  /\ reader = "reading" => client \in {"created", "returned"}

\* The inductive invariant.
StepInv == TypeOK /\ Agreement /\ ToClientInv /\ ToServerInv /\ AnswerInv

-----------------------------------------------------------------------------
\* The types of the variables, one by one.
LEMMA StepTypes ==
  ASSUME StepInv
  PROVE  /\ toServer \in Seq(Message) /\ toClient \in Seq(Message)
         /\ Len(toServer) \in Nat /\ Len(toClient) \in Nat
         /\ frames \in 0..MaxFrames /\ MaxFrames \in Nat
  BY BoundsAssumption DEF StepInv, TypeOK, Message

\* A write: one more at the end, if the connection stands.
LEMMA WrittenKeeps ==
  ASSUME NEW S, NEW q \in Seq(S), NEW m \in S
  PROVE  /\ Written(q, m) \in Seq(S)
         /\ q = <<>> => Len(Written(q, m)) <= 1
         /\ ~broken => Written(q, m) # <<>>
         /\ \A k \in 1..Len(Written(q, m)) :
              \/ k \in 1..Len(q) /\ Written(q, m)[k] = q[k]
              \/ k = Len(q) + 1 /\ Written(q, m)[k] = m
  <1>1. CASE broken
    <2>1. Written(q, m) = q /\ (q = <<>> => Len(q) = 0)
      BY <1>1 DEF Written
    <2> QED
      BY <1>1, <2>1
  <1>2. CASE ~broken
    <2>1. Written(q, m) = Append(q, m)
      BY <1>2 DEF Written
    <2>2. /\ Append(q, m) \in Seq(S) /\ Len(q) \in Nat /\ Len(Append(q, m)) = Len(q) + 1
          /\ \A k \in 1..Len(Append(q, m)) :
               \/ k \in 1..Len(q) /\ Append(q, m)[k] = q[k]
               \/ k = Len(q) + 1 /\ Append(q, m)[k] = m
      BY AppendProperties, LenProperties, AppendPlaces
    <2>3. (q = <<>> => Len(q) = 0) /\ Len(<<>>) = 0
      OBVIOUS
    <2>4. Append(q, m) # <<>>
      BY <2>2, <2>3
    <2> QED
      BY <2>1, <2>2, <2>3, <2>4
  <1> QED
    BY <1>1, <1>2

\* Taking from a queue of at most one leaves none.
LEMMA LastTaken ==
  ASSUME NEW S, NEW q \in Seq(S), q # <<>>, Len(q) <= 1
  PROVE  Tail(q) = <<>>
  <1>1. Len(q) = 1
    BY OnlyOne
  <1>2. Len(Tail(q)) = Len(q) - 1 /\ Tail(q) \in Seq(S)
    BY HeadTailProperties, LenProperties
  <1>3. 1 - 1 = 0
    OBVIOUS
  <1>4. Len(Tail(q)) = 0
    BY <1>1, <1>2, <1>3, Zenon
  <1>5. \A r \in Seq(S) : Len(r) = 0 => r = <<>>
    OBVIOUS
  <1> QED
    BY <1>2, <1>4, <1>5, Zenon

\* Behind the answer there are only frames, whatever is read, written or lost.
LEMMA AnswerKeeps ==
  ASSUME NEW q \in Seq(Message), AnswerFirst(q)
  PROVE  /\ q # <<>> => Tail(q) \in Seq(Frame) /\ Head(q) \in {"Ok", "error"}
         /\ q # <<>> => \A m \in Frame : AnswerFirst(Append(q, m))
         /\ \A k \in 0..Len(q) : AnswerFirst(SubSeq(q, 1, k))
  <1>1. ASSUME q # <<>> PROVE Tail(q) \in Seq(Frame) /\ Head(q) \in {"Ok", "error"}
    <2>1. /\ Head(q) = q[1] /\ 1 \in 1..Len(q) /\ Tail(q) \in Seq(Message)
          /\ \A k \in 1..Len(Tail(q)) : k + 1 \in 1..Len(q) /\ Tail(q)[k] = q[k + 1]
      BY <1>1, HeadTailProperties, LenProperties
    <2>2. \A k \in 1..Len(Tail(q)) : Tail(q)[k] \in Frame
      <3> TAKE k \in 1..Len(Tail(q))
      <3>1. k + 1 \in 1..Len(q) /\ k + 1 # 1 /\ Tail(q)[k] = q[k + 1]
        BY <2>1
      <3> QED
        BY <3>1 DEF AnswerFirst
    <2>3. \A r \in Seq(Message) : (\A k \in 1..Len(r) : r[k] \in Frame) => r \in Seq(Frame)
      OBVIOUS
    <2> QED
      BY <2>1, <2>2, <2>3 DEF AnswerFirst
  <1>2. ASSUME q # <<>>, NEW m \in Frame PROVE AnswerFirst(Append(q, m))
    <2>1. m \in Message
      BY DEF Message
    <2>2. 1 \in 1..Len(q) /\ Len(q) \in Nat
      BY <1>2, HeadTailProperties, LenProperties
    <2>3. \A k \in 1..Len(Append(q, m)) :
            \/ k \in 1..Len(q) /\ Append(q, m)[k] = q[k]
            \/ k = Len(q) + 1 /\ Append(q, m)[k] = m
      BY <2>1, AppendPlaces
    <2>4. Len(q) + 1 # 1
      BY <2>2
    <2> QED
      BY <2>3, <2>4 DEF AnswerFirst
  <1>3. ASSUME NEW k \in 0..Len(q) PROVE AnswerFirst(SubSeq(q, 1, k))
    <2>1. /\ Len(SubSeq(q, 1, k)) = k /\ Len(q) \in Nat
          /\ \A i \in 1..k : SubSeq(q, 1, k)[i] = q[i]
      BY SubSeqProperties, LenProperties, ElementOfSeq
    <2> QED
      BY <2>1 DEF AnswerFirst
  <1> QED
    BY <1>1, <1>2, <1>3

-----------------------------------------------------------------------------
\* The invariant holds of a new connection.
LEMMA InitStepInv == Init => StepInv
  <1> SUFFICES ASSUME Init PROVE StepInv
    OBVIOUS
  <1> USE DEF Init
  <1>1. TypeOK
    <2>1. frames \in 0..MaxFrames
      BY BoundsAssumption
    <2>2. client \in ClientStage
      BY DEF ClientStage
    <2>3. <<>> \in Seq(String \cup Frame)
      OBVIOUS
    <2>4. toServer \in Seq(String \cup Frame) /\ toClient \in Seq(String \cup Frame)
      BY <2>3
    <2> HIDE DEF Init
    <2>5. /\ reader \in {"none", "reading", "ended"} /\ kept \in BOOLEAN /\ initSent \in BOOLEAN
          /\ broken \in BOOLEAN /\ server \in {"flavor", "auth", "info", "portal", "closed"}
      BY DEF Init
    <2> QED
      BY <2>1, <2>2, <2>4, <2>5 DEF TypeOK
  <1>2. Agreement /\ ToClientInv /\ AnswerInv
    BY DEF Agreement, ToClientInv, AnswerInv, HoldsInit
  <1>3. ToServerInv
    <2>1. toServer \in Seq(String) /\ Len(toServer) <= 1
      OBVIOUS
    <2> QED
      BY <2>1 DEF ToServerInv
  <1> QED
    BY <1>1, <1>2, <1>3 DEF StepInv

\* An Init is there only if it was there before, or is what is written.
LEMMA InitKeeps ==
  ASSUME NEW q \in Seq(Message)
  PROVE  /\ q # <<>> /\ HoldsInit(Tail(q)) => HoldsInit(q)
         /\ q # <<>> /\ Head(q) = "Init" => HoldsInit(q)
         /\ \A m \in Message : HoldsInit(Written(q, m)) => HoldsInit(q) \/ m = "Init"
         /\ \A k \in 0..Len(q) : HoldsInit(SubSeq(q, 1, k)) => HoldsInit(q)
  <1>1. ASSUME q # <<>> PROVE (HoldsInit(Tail(q)) => HoldsInit(q)) /\ (Head(q) = "Init" => HoldsInit(q))
    <2>1. /\ Head(q) = q[1] /\ 1 \in 1..Len(q)
          /\ \A k \in 1..Len(Tail(q)) : k + 1 \in 1..Len(q) /\ Tail(q)[k] = q[k + 1]
      BY <1>1, HeadTailProperties, LenProperties
    <2> QED
      BY <2>1 DEF HoldsInit
  <1>2. ASSUME NEW m \in Message, HoldsInit(Written(q, m)) PROVE HoldsInit(q) \/ m = "Init"
    <2>1. \A k \in 1..Len(Written(q, m)) :
            \/ k \in 1..Len(q) /\ Written(q, m)[k] = q[k]
            \/ k = Len(q) + 1 /\ Written(q, m)[k] = m
      BY WrittenKeeps
    <2> QED
      BY <1>2, <2>1 DEF HoldsInit
  <1>3. ASSUME NEW k \in 0..Len(q), HoldsInit(SubSeq(q, 1, k)) PROVE HoldsInit(q)
    <2>1. /\ Len(SubSeq(q, 1, k)) = k /\ Len(q) \in Nat
          /\ \A i \in 1..k : SubSeq(q, 1, k)[i] = q[i]
      BY SubSeqProperties, LenProperties, ElementOfSeq
    <2>2. \A i \in 1..k : i \in 1..Len(q)
      BY <2>1
    <2> QED
      BY <1>3, <2>1, <2>2 DEF HoldsInit
  <1> QED
    BY <1>1, <1>2, <1>3

-----------------------------------------------------------------------------
\* The client's first string, and the one of its auth().
LEMMA ClientWrites ==
  ASSUME StepInv, WriteFlavor \/ ClientAuth
  PROVE  StepInv'
  <1>1. /\ toServer \in Seq(Message) /\ toClient \in Seq(Message)
        /\ UNCHANGED <<reader, serverVars, toClient, broken>>
    BY StepTypes DEF WriteFlavor, ClientAuth
  <1>2. UNCHANGED <<server, initSent, frames>>
    BY <1>1 DEF serverVars
  <1>3. CASE WriteFlavor
    <2>1. PICK f \in {"flavor", "otherFlavor"} : toServer' = Written(toServer, f)
      BY <1>3 DEF WriteFlavor
    <2>2. client = "connected" /\ client' = "awaitFlavor" /\ kept' = kept
      BY <1>3 DEF WriteFlavor
    <2>3. f \in String /\ f \in Message
      BY DEF String, Message
    <2>4. toServer' \in Seq(Message)
      BY <1>1, <2>1, <2>3, WrittenKeeps
    <2>5. server \in {"flavor", "closed"} /\ toClient = <<>>
      BY <2>2 DEF StepInv, TypeOK, ToClientInv, ToServerInv
    <2>6. server = "flavor" => toServer' \in Seq(String) /\ Len(toServer') <= 1
      <3> SUFFICES ASSUME server = "flavor"
                   PROVE  toServer' \in Seq(String) /\ Len(toServer') <= 1
        OBVIOUS
      <3>1. toServer = <<>> /\ toServer \in Seq(String)
        BY <2>2 DEF StepInv, ToServerInv
      <3> QED
        BY <2>1, <2>3, <3>1, WrittenKeeps
    <2>7. TypeOK'
      BY <1>1, <1>2, <2>2, <2>4 DEF StepInv, TypeOK, ClientStage, Message
    <2>8. toClient \in Seq({"Ok", "error"}) /\ Len(toClient) <= 1
      BY <2>5
    <2>9. ToClientInv'
      BY <1>1, <1>2, <2>2, <2>5, <2>8 DEF StepInv, ToClientInv
    <2>10. ToServerInv' /\ AnswerInv' /\ Agreement'
      BY <1>1, <1>2, <2>2, <2>5, <2>6 DEF StepInv, ToServerInv, AnswerInv, Agreement
    <2> QED
      BY <2>7, <2>9, <2>10 DEF StepInv
  <1>4. CASE ClientAuth
    <2>1. \/ /\ \E u \in {"user", "otherUser"} : toServer' = Written(toServer, u)
             /\ client' = "awaitAuth" /\ kept' = kept
          \/ client' = "failed" /\ kept' = FALSE /\ toServer' = toServer
      BY <1>4 DEF ClientAuth, ClientFails
    <2>2. client = "auth" /\ toClient = <<>> /\ server \in {"auth", "closed"}
      BY <1>4 DEF ClientAuth, StepInv, TypeOK, ToClientInv, ToServerInv
    <2>3. /\ toServer' \in Seq(Message)
          /\ server = "auth" => toServer' \in Seq(String) /\ Len(toServer') <= 1
      <3>1. ASSUME NEW u \in {"user", "otherUser"}, toServer' = Written(toServer, u)
            PROVE  /\ toServer' \in Seq(Message)
                   /\ server = "auth" => toServer' \in Seq(String) /\ Len(toServer') <= 1
        <4>1. u \in String /\ u \in Message
          BY DEF String, Message
        <4>2. server = "auth" => toServer = <<>> /\ toServer \in Seq(String)
          BY <2>2 DEF StepInv, ToServerInv
        <4> QED
          BY <1>1, <3>1, <4>1, <4>2, WrittenKeeps
      <3>2. server = "auth" => toServer \in Seq(String) /\ Len(toServer) <= 1
        BY DEF StepInv, ToServerInv
      <3> QED
        BY <1>1, <2>1, <3>1, <3>2
    <2>4. TypeOK'
      BY <1>1, <1>2, <2>1, <2>3 DEF StepInv, TypeOK, ClientStage, Message
    <2>5. AnswerFirst(toClient)
      BY <2>2 DEF AnswerFirst
    <2>6. AnswerFirst(toClient)'
      BY <1>1, <2>5 DEF AnswerFirst
    <2>7. ToClientInv'
      BY <1>1, <1>2, <2>1, <2>2, <2>6 DEF StepInv, ToClientInv, HoldsInit
    <2>8. ToServerInv' /\ AnswerInv' /\ Agreement'
      BY <1>1, <1>2, <2>1, <2>2, <2>3 DEF StepInv, ToServerInv, AnswerInv, Agreement
    <2> QED
      BY <2>4, <2>7, <2>8 DEF StepInv
  <1> QED
    BY <1>3, <1>4

\* The client's reads of an answer.
LEMMA ClientReadsOk ==
  ASSUME StepInv, ReadOk("awaitFlavor", "auth") \/ ReadOk("awaitAuth", "awaitInit")
  PROVE  StepInv'
  <1>1. /\ toServer \in Seq(Message) /\ toClient \in Seq(Message)
        /\ UNCHANGED <<reader, serverVars, toServer, broken>>
        /\ toClient # <<>> /\ toClient' = Tail(toClient)
        /\ kept' = kept \/ kept' = FALSE
    BY StepTypes DEF ReadOk, ClientReads, ClientFails
  <1>2. UNCHANGED <<server, initSent, frames>>
    BY <1>1 DEF serverVars
  <1>3. toClient' \in Seq(Message) /\ (HoldsInit(toClient') => server = "portal" /\ initSent)
    BY <1>1, HeadTailProperties, LenProperties, InitKeeps DEF StepInv, ToClientInv
  <1>4. CASE ReadOk("awaitFlavor", "auth")
    <2>1. client = "awaitFlavor" /\ client' \in {"auth", "failed"}
      BY <1>4 DEF ReadOk, ClientFails
    <2>2. toClient' = <<>>
      BY <1>1, <2>1, LastTaken DEF StepInv, ToClientInv
    <2>3. server \in {"auth", "closed"}
      BY <1>1, <2>1 DEF StepInv, TypeOK, ToServerInv
    <2>4. TypeOK'
      BY <1>1, <1>2, <1>3, <2>1 DEF StepInv, TypeOK, ClientStage, Message
    <2>5. ToClientInv'
      BY <1>2, <2>1, <2>2 DEF ToClientInv, HoldsInit
    <2>6. ToServerInv' /\ AnswerInv' /\ Agreement'
      BY <1>1, <1>2, <2>1, <2>3 DEF StepInv, ToServerInv, AnswerInv, Agreement
    <2> QED
      BY <2>4, <2>5, <2>6 DEF StepInv
  <1>5. CASE ReadOk("awaitAuth", "awaitInit")
    <2>1. client = "awaitAuth" /\ client' \in {"awaitInit", "failed"}
      BY <1>5 DEF ReadOk, ClientFails
    <2>2. toClient' \in Seq(Frame)
      BY <1>1, <2>1, AnswerKeeps DEF StepInv, ToClientInv
    <2>3. server \in {"info", "portal", "closed"}
      BY <1>1, <2>1 DEF StepInv, TypeOK, ToServerInv
    <2>4. TypeOK'
      BY <1>1, <1>2, <1>3, <2>1 DEF StepInv, TypeOK, ClientStage, Message
    <2>5. HoldsInit(toClient)' => (server = "portal" /\ initSent)'
      BY <1>2, <1>3 DEF HoldsInit
    <2>6. ToClientInv'
      BY <2>1, <2>2, <2>5 DEF ToClientInv
    <2>7. ToServerInv' /\ AnswerInv' /\ Agreement'
      BY <1>1, <1>2, <2>1, <2>3 DEF StepInv, ToServerInv, AnswerInv, Agreement
    <2> QED
      BY <2>4, <2>6, <2>7 DEF StepInv
  <1> QED
    BY <1>4, <1>5

\* From the Init on: new() reads it, makes the portal and returns it.
LEMMA ClientReadsInit ==
  ASSUME StepInv, ReadInit
  PROVE  StepInv'
  <1>1. /\ toServer \in Seq(Message) /\ toClient \in Seq(Message)
        /\ UNCHANGED <<reader, serverVars, toServer, broken>>
        /\ toClient # <<>> /\ toClient' = Tail(toClient) /\ client = "awaitInit"
        /\ \/ Head(toClient) = "Init" /\ client' = "creating" /\ kept' = kept
           \/ client' = "failed" /\ kept' = FALSE
    BY StepTypes DEF ReadInit, ClientReads, ClientFails
  <1>2. UNCHANGED <<server, initSent, frames>>
    BY <1>1 DEF serverVars
  <1>3. toClient' \in Seq(Message) /\ (HoldsInit(toClient') => server = "portal" /\ initSent)
    BY <1>1, HeadTailProperties, LenProperties, InitKeeps DEF StepInv, ToClientInv
  <1>4. client' = "creating" => server = "portal" /\ initSent
    BY <1>1, InitKeeps DEF StepInv, ToClientInv
  <1>5. toClient' \in Seq(Frame)
    BY <1>1, HeadTailProperties, LenProperties DEF StepInv, ToClientInv
  <1>6. server \in {"info", "portal", "closed"}
    BY <1>1 DEF StepInv, TypeOK, ToServerInv
  <1>7. TypeOK'
    BY <1>1, <1>2, <1>3 DEF StepInv, TypeOK, ClientStage, Message
  <1>8. HoldsInit(toClient)' => (server = "portal" /\ initSent)'
    BY <1>2, <1>3 DEF HoldsInit
  <1>9. ToClientInv'
    BY <1>1, <1>5, <1>8 DEF ToClientInv
  <1>10. ToServerInv' /\ AnswerInv' /\ Agreement'
    BY <1>1, <1>2, <1>4, <1>6 DEF StepInv, ToServerInv, AnswerInv, Agreement
  <1> QED
    BY <1>7, <1>9, <1>10 DEF StepInv

\* The client makes its portal, or gives it to whoever asked for it.
LEMMA ClientMakesPortal ==
  ASSUME StepInv, CreatePortal \/ ReturnPortal
  PROVE  StepInv'
  <1>1. /\ toServer \in Seq(Message) /\ UNCHANGED <<serverVars, toClient, broken>>
        /\ kept' = kept \/ kept' = FALSE
        /\ client \in {"creating", "created"} /\ client' \in {"created", "returned", "failed"}
        /\ reader' = reader \/ (reader' = "reading" /\ client' = "created")
        /\ reader' = "reading" => client' \in {"created", "returned"}
        /\ toServer' = toServer \/ toServer' = Written(toServer, "Status")
    BY StepTypes DEF CreatePortal, ReturnPortal, ClientFails, StepInv, AnswerInv
  <1>2. UNCHANGED <<server, initSent, frames>>
    BY <1>1 DEF serverVars
  <1>3. server = "portal" /\ initSent
    BY <1>1 DEF StepInv, Agreement
  <1>4. toServer' \in Seq(Frame) /\ toServer' \in Seq(Message)
    <2>1. "Status" \in Frame /\ "Status" \in Message
      BY DEF Frame, Message
    <2>2. toServer \in Seq(Frame)
      BY <1>3 DEF StepInv, ToServerInv
    <2> QED
      BY <1>1, <2>1, <2>2, WrittenKeeps
  <1>5. TypeOK'
    BY <1>1, <1>2, <1>4 DEF StepInv, TypeOK, ClientStage, Message
  <1>6. ToClientInv'
    <2>1. toClient \in Seq(Frame)
      BY <1>1 DEF StepInv, ToClientInv
    <2> QED
      BY <1>1, <1>2, <1>3, <2>1 DEF ToClientInv
  <1>7. ToServerInv' /\ AnswerInv' /\ Agreement'
    BY <1>1, <1>2, <1>3, <1>4 DEF ToServerInv, AnswerInv, Agreement
  <1> QED
    BY <1>5, <1>6, <1>7 DEF StepInv

\* The reading task, and the end of the stream.
LEMMA ClientReadsOn ==
  ASSUME StepInv, ReadFrame \/ ClientEnd
  PROVE  StepInv'
  <1>1. UNCHANGED <<serverVars, toServer, broken>>
    BY DEF ReadFrame, ClientEnd
  <1>2. UNCHANGED <<server, initSent, frames>>
    BY <1>1 DEF serverVars
  <1>3. CASE ReadFrame
    <2>1. /\ client' = client /\ kept' = kept /\ client \in {"created", "returned"}
          /\ toClient # <<>> /\ toClient' = Tail(toClient) /\ reader' \in {"reading", "ended"}
      BY <1>3 DEF ReadFrame, StepInv, AnswerInv
    <2>2. toClient \in Seq(Frame) /\ toClient \in Seq(Message)
      BY <2>1, StepTypes DEF StepInv, ToClientInv
    <2>3. toClient' \in Seq(Frame) /\ toClient' \in Seq(Message)
      BY <2>1, <2>2, HeadTailProperties, LenProperties
    <2>4. server = "portal" /\ initSent
      BY <2>1 DEF StepInv, Agreement
    <2>5. TypeOK'
      BY <1>1, <1>2, <2>1, <2>3 DEF StepInv, TypeOK, Message
    <2>6. ToClientInv'
      BY <1>2, <2>1, <2>3, <2>4 DEF ToClientInv
    <2>7. ToServerInv' /\ AnswerInv' /\ Agreement'
      BY <1>1, <1>2, <2>1, <2>4 DEF StepInv, ToServerInv, AnswerInv, Agreement
    <2> QED
      BY <2>5, <2>6, <2>7 DEF StepInv
  <1>4. CASE ClientEnd
    <2>1. /\ toClient' = toClient
          /\ \/ Busy /\ client' = "failed" /\ kept' = FALSE /\ reader' = reader
             \/ reader' = "ended" /\ client' = client /\ kept' = kept
      BY <1>4 DEF ClientEnd, ClientFails
    <2>2. Busy => reader # "reading"
      BY DEF Busy, StepInv, AnswerInv
    <2>3. TypeOK'
      BY <1>1, <1>2, <2>1 DEF StepInv, TypeOK, ClientStage
    <2>4. ToClientInv'
      BY <1>2, <2>1 DEF StepInv, ToClientInv, AnswerFirst, HoldsInit
    <2>5. ToServerInv' /\ AnswerInv' /\ Agreement'
      BY <1>1, <1>2, <2>1, <2>2 DEF StepInv, ToServerInv, AnswerInv, Agreement
    <2> QED
      BY <2>3, <2>4, <2>5 DEF StepInv
  <1> QED
    BY <1>3, <1>4

-----------------------------------------------------------------------------
\* The server reads the flavor and answers.
LEMMA ServerReadsFlavor ==
  ASSUME StepInv, HandleFlavor
  PROVE  StepInv'
  <1>1. /\ toServer \in Seq(Message) /\ UNCHANGED <<clientVars, initSent, frames, broken>>
        /\ server = "flavor" /\ server' \in {"auth", "closed"}
        /\ toServer # <<>> /\ toServer' = Tail(toServer)
        /\ \E m \in {"Ok", "error"} : toClient' = Written(toClient, m)
    BY StepTypes DEF HandleFlavor, ServerReads, Answer
  <1>2. UNCHANGED <<client, reader, kept>>
    BY <1>1 DEF clientVars
  <1>3. /\ client \in {"awaitFlavor", "failed"} /\ toClient = <<>> /\ Len(toServer) <= 1
    BY <1>1 DEF StepInv, ToServerInv
  <1>4. toServer' = <<>> /\ toServer' \in Seq(String) /\ toServer' \in Seq(Message) /\ Len(toServer') <= 1
    <2>1. toServer' = <<>>
      BY <1>1, <1>3, LastTaken
    <2> QED
      BY <2>1
  <1>5. /\ toClient' \in Seq({"Ok", "error"}) /\ Len(toClient') <= 1
        /\ toClient' \in Seq(Message) /\ ~HoldsInit(toClient')
    <2>1. PICK m \in {"Ok", "error"} : toClient' = Written(toClient, m)
      BY <1>1
    <2>2. m \in Message /\ m # "Init"
      BY DEF Message, String
    <2>3. toClient \in Seq({"Ok", "error"}) /\ toClient \in Seq(Message) /\ ~HoldsInit(toClient)
      BY <1>3 DEF HoldsInit
    <2> QED
      BY <1>3, <2>1, <2>2, <2>3, WrittenKeeps, InitKeeps
  <1>6. TypeOK'
    BY <1>1, <1>2, <1>4, <1>5 DEF StepInv, TypeOK, Message
  <1>7. ToClientInv'
    <2>1. ~HoldsInit(toClient)'
      BY <1>5 DEF HoldsInit
    <2> QED
      BY <1>2, <1>3, <1>5, <2>1 DEF ToClientInv
  <1>8. ToServerInv' /\ AnswerInv' /\ Agreement'
    BY <1>1, <1>2, <1>3, <1>4 DEF StepInv, ToServerInv, AnswerInv, Agreement
  <1> QED
    BY <1>6, <1>7, <1>8 DEF StepInv

\* The server reads the authorization and answers.
LEMMA ServerReadsAuth ==
  ASSUME StepInv, HandleAuth
  PROVE  StepInv'
  <1>1. /\ toServer \in Seq(Message) /\ UNCHANGED <<clientVars, initSent, frames, broken>>
        /\ server = "auth" /\ server' \in {"info", "closed"}
        /\ toServer # <<>> /\ toServer' = Tail(toServer)
        /\ \E m \in {"Ok", "error"} : toClient' = Written(toClient, m)
    BY StepTypes DEF HandleAuth, ServerReads, Answer
  <1>2. UNCHANGED <<client, reader, kept>>
    BY <1>1 DEF clientVars
  <1>3. /\ client \in {"awaitAuth", "failed"} /\ Len(toServer) <= 1
        /\ client = "awaitAuth" => toClient = <<>>
    BY <1>1 DEF StepInv, ToServerInv
  <1>4. toServer' = <<>> /\ toServer' \in Seq(Message)
    <2>1. toServer' = <<>>
      BY <1>1, <1>3, LastTaken
    <2> QED
      BY <2>1
  <1>5. PICK m \in {"Ok", "error"} : toClient' = Written(toClient, m)
    BY <1>1
  <1>6. m \in Message /\ m # "Init" /\ toClient \in Seq(Message)
    BY StepTypes DEF Message, String
  <1>7. /\ toClient' \in Seq(Message) /\ (~broken => toClient' # <<>>)
        /\ ~HoldsInit(toClient')
    <2>1. ~HoldsInit(toClient)
      BY <1>1 DEF StepInv, ToClientInv
    <2> QED
      BY <1>5, <1>6, <2>1, WrittenKeeps, InitKeeps
  <1>8. client = "awaitAuth" => AnswerFirst(toClient')
    <2> SUFFICES ASSUME client = "awaitAuth" PROVE AnswerFirst(toClient')
      OBVIOUS
    <2>1. toClient = <<>> /\ toClient \in Seq({"Ok", "error"})
      BY <1>3
    <2>2. toClient' \in Seq({"Ok", "error"}) /\ Len(toClient') <= 1
      BY <1>5, <2>1, WrittenKeeps
    <2>3. \A k \in 1..Len(toClient') : k = 1 /\ toClient'[k] \in {"Ok", "error"}
      BY <2>2
    <2> QED
      BY <2>3 DEF AnswerFirst
  <1>9. TypeOK'
    BY <1>1, <1>2, <1>4, <1>7 DEF StepInv, TypeOK, Message
  <1>10. ToClientInv'
    <2>1. ~HoldsInit(toClient)' /\ (client = "awaitAuth" => AnswerFirst(toClient)')
      BY <1>7, <1>8 DEF HoldsInit, AnswerFirst
    <2> QED
      BY <1>2, <1>3, <2>1 DEF ToClientInv
  <1>11. ToServerInv' /\ AnswerInv' /\ Agreement'
    BY <1>1, <1>2, <1>3, <1>4, <1>7 DEF StepInv, ToServerInv, AnswerInv, Agreement
  <1> QED
    BY <1>9, <1>10, <1>11 DEF StepInv

\* A frame for the client goes behind the answer it still waits for.
LEMMA FrameForClient ==
  ASSUME StepInv, NEW m \in Frame, server \in {"info", "portal"}, toClient' = Written(toClient, m),
         UNCHANGED <<client, reader, broken>>,
         m = "Init" \/ HoldsInit(toClient) => (server = "portal" /\ initSent)'
  PROVE  /\ toClient' \in Seq(Message) /\ ToClientInv'
         /\ client = "awaitAuth" /\ ~broken => toClient' # <<>>
  <1>1. m \in Message /\ toClient \in Seq(Message)
    BY StepTypes DEF Message
  <1>2. /\ client \in {"awaitAuth", "awaitInit", "creating", "created", "returned", "failed"}
        /\ client = "awaitAuth" /\ ~broken => toClient # <<>>
    BY DEF StepInv, ToServerInv, AnswerInv
  <1>3. toClient' \in Seq(Message) /\ (~broken => toClient' # <<>>)
    BY <1>1, WrittenKeeps
  <1>4. client = "awaitAuth" => AnswerFirst(toClient')
    <2> SUFFICES ASSUME client = "awaitAuth" PROVE AnswerFirst(toClient')
      OBVIOUS
    <2>1. AnswerFirst(toClient)
      BY DEF StepInv, ToClientInv
    <2> QED
      BY <1>1, <1>2, <2>1, AnswerKeeps DEF Written
  <1>5. client \in {"awaitInit", "creating", "created", "returned"} => toClient' \in Seq(Frame)
    BY WrittenKeeps DEF StepInv, ToClientInv
  <1>6. HoldsInit(toClient') => HoldsInit(toClient) \/ m = "Init"
    BY <1>1, InitKeeps
  <1>7. HoldsInit(toClient)' => (server = "portal" /\ initSent)'
    BY <1>6 DEF HoldsInit
  <1>8. client = "awaitAuth" => AnswerFirst(toClient)'
    BY <1>4 DEF AnswerFirst
  <1>9. ToClientInv'
    BY <1>2, <1>5, <1>7, <1>8 DEF ToClientInv
  <1> QED
    BY <1>3, <1>9

\* The server finds the portal's Info or closes the connection.
LEMMA ServerFindsInfo ==
  ASSUME StepInv, HandleInfo
  PROVE  StepInv'
  <1>1. /\ UNCHANGED <<clientVars, initSent, frames, toServer, broken>> /\ server = "info"
        /\ \/ server' = "portal" /\ toClient' = toClient
           \/ /\ server' \in {"portal", "closed"} /\ server' = "closed"
              /\ toClient' = Written(toClient, "Close")
    BY DEF HandleInfo, Answer
  <1>2. UNCHANGED <<client, reader, kept>>
    BY <1>1 DEF clientVars
  <1>3. client \in {"awaitAuth", "awaitInit", "failed"} /\ toServer = <<>> /\ ~HoldsInit(toClient)
    BY <1>1 DEF StepInv, ToServerInv, ToClientInv
  <1>4. "Close" \in Frame /\ toClient \in Seq(Message)
    BY StepTypes DEF Frame
  <1>5. toClient' \in Seq(Message) /\ ToClientInv'
    <2>1. CASE toClient' = toClient
      <3>1. ~HoldsInit(toClient)' /\ (client = "awaitAuth" => AnswerFirst(toClient)')
        BY <1>3, <2>1 DEF HoldsInit, AnswerFirst, StepInv, ToClientInv
      <3>2. client \in {"awaitInit", "creating", "created", "returned"} => toClient' \in Seq(Frame)
        BY <2>1 DEF StepInv, ToClientInv
      <3> QED
        BY <1>2, <1>3, <1>4, <2>1, <3>1, <3>2 DEF ToClientInv
    <2>2. CASE toClient' = Written(toClient, "Close")
      BY <1>1, <1>2, <1>3, <1>4, <2>2, FrameForClient
    <2> QED
      BY <1>1, <2>1, <2>2
  <1>6. toServer' \in Seq(Frame) /\ toServer' = toServer
    BY <1>1, <1>3
  <1>7. TypeOK'
    BY <1>1, <1>2, <1>5 DEF StepInv, TypeOK, Message
  <1>8. ToServerInv' /\ AnswerInv' /\ Agreement'
    BY <1>1, <1>2, <1>3, <1>6 DEF StepInv, ToServerInv, AnswerInv, Agreement
  <1> QED
    BY <1>5, <1>7, <1>8 DEF StepInv

\* The portal's tasks write and read frames.
LEMMA ServerPortalRuns ==
  ASSUME StepInv, ServerWrites \/ ServerTakes
  PROVE  StepInv'
  <1>1. UNCHANGED <<clientVars, server, broken>> /\ server = "portal"
    BY DEF ServerWrites, ServerTakes, serverVars
  <1>2. UNCHANGED <<client, reader, kept>>
    BY <1>1 DEF clientVars
  <1>3. CASE ServerWrites
    <2>1. PICK m \in Frame :
            /\ toClient' = Append(toClient, m) /\ toServer' = toServer /\ ~broken
            /\ \/ m = "Init" /\ initSent' = TRUE /\ frames' = frames
               \/ m = "Frame" /\ initSent' = initSent /\ frames' = frames + 1 /\ frames < MaxFrames
      BY <1>3 DEF ServerWrites, Frame
    <2>2. toClient' = Written(toClient, m)
      BY <2>1 DEF Written
    <2>3. m = "Init" \/ HoldsInit(toClient) => (server = "portal" /\ initSent)'
      BY <1>1, <2>1 DEF StepInv, ToClientInv
    <2>4. /\ toClient' \in Seq(Message) /\ ToClientInv'
          /\ client = "awaitAuth" /\ ~broken => toClient' # <<>>
      BY <1>1, <1>2, <2>2, <2>3, FrameForClient
    <2>5. frames' \in 0..MaxFrames /\ initSent' \in BOOLEAN
      <3>1. frames \in 0..MaxFrames /\ MaxFrames \in Nat /\ initSent \in BOOLEAN
        BY StepTypes DEF StepInv, TypeOK
      <3>2. frames' = frames \/ (frames' = frames + 1 /\ frames < MaxFrames)
        BY <2>1
      <3>3. frames' \in 0..MaxFrames
        BY <3>1, <3>2
      <3> QED
        BY <2>1, <3>1, <3>3
    <2>6. TypeOK'
      BY <1>1, <1>2, <2>1, <2>4, <2>5 DEF StepInv, TypeOK, Message
    <2>7. ToServerInv' /\ AnswerInv' /\ Agreement'
      BY <1>1, <1>2, <2>1, <2>4 DEF StepInv, ToServerInv, AnswerInv, Agreement
    <2> QED
      BY <2>4, <2>6, <2>7 DEF StepInv
  <1>4. CASE ServerTakes
    <2>1. /\ toServer # <<>> /\ toServer' = Tail(toServer) /\ toClient' = toClient
          /\ UNCHANGED <<initSent, frames>>
      BY <1>4 DEF ServerTakes, serverVars
    <2>2. toServer \in Seq(Frame) /\ toServer \in Seq(Message)
      BY <1>1, StepTypes DEF StepInv, ToServerInv
    <2>3. toServer' \in Seq(Frame) /\ toServer' \in Seq(Message)
      BY <2>1, <2>2, HeadTailProperties, LenProperties
    <2>4. TypeOK'
      BY <1>1, <1>2, <2>1, <2>3 DEF StepInv, TypeOK, Message
    <2>5. ToClientInv'
      BY <1>1, <1>2, <2>1 DEF StepInv, ToClientInv, AnswerFirst, HoldsInit
    <2>6. ToServerInv' /\ AnswerInv' /\ Agreement'
      BY <1>1, <1>2, <2>1, <2>3 DEF StepInv, ToServerInv, AnswerInv, Agreement
    <2> QED
      BY <2>4, <2>5, <2>6 DEF StepInv
  <1> QED
    BY <1>3, <1>4

\* The end of the stream at the server.
LEMMA ServerEnds ==
  ASSUME StepInv, ServerEnd
  PROVE  StepInv'
  <1>1. /\ server \in {"flavor", "auth"} /\ server' = "closed"
        /\ UNCHANGED <<client, reader, kept, initSent, frames, toServer, toClient, broken>>
    BY DEF ServerEnd, clientVars
  <1>2. TypeOK'
    BY <1>1 DEF StepInv, TypeOK
  <1>3. ToClientInv'
    BY <1>1 DEF StepInv, ToClientInv, AnswerFirst, HoldsInit
  <1>4. ToServerInv' /\ AnswerInv' /\ Agreement'
    BY <1>1 DEF StepInv, ToServerInv, AnswerInv, Agreement
  <1> QED
    BY <1>2, <1>3, <1>4 DEF StepInv

\* The connection breaks: what is left on its way is the beginning of it.
LEMMA BreakKeeps ==
  ASSUME StepInv, Break
  PROVE  StepInv'
  <1>1. PICK i \in 0..Len(toServer), j \in 0..Len(toClient) :
          toServer' = SubSeq(toServer, 1, i) /\ toClient' = SubSeq(toClient, 1, j)
    BY DEF Break
  <1>2. broken' = TRUE /\ UNCHANGED <<client, reader, kept, server, initSent, frames>>
    BY DEF Break, clientVars, serverVars
  <1>3. toServer \in Seq(Message) /\ toClient \in Seq(Message)
    BY StepTypes
  <1>4. /\ toServer' \in Seq(Message) /\ toClient' \in Seq(Message)
        /\ Len(toServer') <= Len(toServer) /\ Len(toClient') <= Len(toClient)
        /\ Len(toServer') \in Nat /\ Len(toClient') \in Nat
        /\ Len(toServer) \in Nat /\ Len(toClient) \in Nat
    BY <1>1, <1>3, SubSeqProperties, LenProperties, ElementOfSeq
  <1>5. (toServer = <<>> => toServer' = <<>>) /\ (toClient = <<>> => toClient' = <<>>)
    <2>1. \A q \in Seq(Message) : Len(q) = 0 <=> q = <<>>
      OBVIOUS
    <2>2. Len(toServer) = 0 => Len(toServer') = 0
      BY <1>4
    <2>3. Len(toClient) = 0 => Len(toClient') = 0
      BY <1>4
    <2> QED
      BY <1>3, <1>4, <2>1, <2>2, <2>3
  <1>6. /\ toServer \in Seq(String) => toServer' \in Seq(String)
        /\ toServer \in Seq(Frame) => toServer' \in Seq(Frame)
        /\ toClient \in Seq({"Ok", "error"}) => toClient' \in Seq({"Ok", "error"})
        /\ toClient \in Seq(Frame) => toClient' \in Seq(Frame)
    BY <1>1, SubSeqProperties, LenProperties, ElementOfSeq
  <1>7. AnswerFirst(toClient) => AnswerFirst(toClient')
    BY <1>1, <1>3, AnswerKeeps
  <1>8. HoldsInit(toClient') => HoldsInit(toClient)
    BY <1>1, <1>3, InitKeeps
  <1>9. TypeOK'
    BY <1>2, <1>4 DEF StepInv, TypeOK, Message
  <1>10. ToClientInv'
    <2>1. (HoldsInit(toClient)' => HoldsInit(toClient)) /\ (AnswerFirst(toClient) => AnswerFirst(toClient)')
      BY <1>7, <1>8 DEF HoldsInit, AnswerFirst
    <2>2. Len(toClient) <= 1 => Len(toClient') <= 1
      BY <1>4
    <2> QED
      BY <1>2, <1>5, <1>6, <2>1, <2>2 DEF StepInv, ToClientInv
  <1>11. ToServerInv'
    <2>1. Len(toServer) <= 1 => Len(toServer') <= 1
      BY <1>4
    <2> QED
      BY <1>2, <1>5, <1>6, <2>1 DEF StepInv, ToServerInv
  <1>12. AnswerInv' /\ Agreement'
    BY <1>2 DEF StepInv, AnswerInv, Agreement
  <1> QED
    BY <1>9, <1>10, <1>11, <1>12 DEF StepInv

-----------------------------------------------------------------------------
\* Every state reachable satisfies the invariant, whatever either end refuses
\* and wherever the connection breaks.
THEOREM StepInvariant == Spec => []StepInv
  <1>1. ASSUME StepInv, UNCHANGED vars PROVE StepInv'
    <2>1. UNCHANGED <<client, reader, kept, server, initSent, frames, toServer, toClient, broken>>
      BY <1>1 DEF vars, clientVars, serverVars
    <2>2. TypeOK' /\ Agreement' /\ AnswerInv'
      BY <1>1, <2>1 DEF StepInv, TypeOK, Agreement, AnswerInv
    <2>3. ToClientInv'
      BY <1>1, <2>1 DEF StepInv, ToClientInv, AnswerFirst, HoldsInit
    <2>4. ToServerInv'
      BY <1>1, <2>1 DEF StepInv, ToServerInv
    <2> QED
      BY <2>2, <2>3, <2>4 DEF StepInv
  <1>2. StepInv /\ [Next]_vars => StepInv'
    BY <1>1, ClientWrites, ClientReadsOk, ClientReadsInit, ClientMakesPortal, ClientReadsOn,
       ServerReadsFlavor, ServerReadsAuth, ServerFindsInfo, ServerPortalRuns, ServerEnds,
       BreakKeeps
    DEF Next, New, Handle
  <1> QED
    BY InitStepInv, <1>2, PTL DEF Spec

\* A client that makes its portal has a server that made one, with the Init
\* written (HandshakeInv: PortalTcpClient::new, PortalTcpServer::handle).
THEOREM HandshakeAgrees == Spec => []HandshakeInv
  <1>1. StepInv => HandshakeInv
    BY DEF StepInv, HandshakeInv
  <1> QED
    BY StepInvariant, <1>1, PTL

\* Neither end reads a frame for a string or a string for a frame
\* (SameLanguage: both change over at the same point of the stream).
THEOREM SpeaksOneLanguage == Spec => []SameLanguage
  <1>1. ASSUME StepInv PROVE SameLanguage
    <2>1. ASSUME toClient # <<>>
          PROVE  /\ client \in {"awaitFlavor", "awaitAuth"} => Head(toClient) \in String
                 /\ client \notin {"awaitFlavor", "awaitAuth", "connected", "auth"}
                      => Head(toClient) \in Frame \/ client = "failed"
      <3>1. {"Ok", "error"} \subseteq String
        BY DEF String
      <3>2. client = "awaitFlavor" => Head(toClient) \in {"Ok", "error"}
        BY <1>1, <2>1, HeadTailProperties, LenProperties DEF StepInv, ToClientInv
      <3>3. client = "awaitAuth" => Head(toClient) \in {"Ok", "error"}
        BY <1>1, <2>1, AnswerKeeps, StepTypes DEF StepInv, ToClientInv
      <3>4. client \in {"awaitInit", "creating", "created", "returned"} => Head(toClient) \in Frame
        BY <1>1, <2>1, HeadTailProperties, LenProperties DEF StepInv, ToClientInv
      <3>5. client \in ClientStage
        BY <1>1 DEF StepInv, TypeOK
      <3> QED
        BY <3>1, <3>2, <3>3, <3>4, <3>5 DEF ClientStage
    <2>2. ASSUME toServer # <<>>
          PROVE  /\ server \in {"flavor", "auth"} => Head(toServer) \in String
                 /\ server = "portal" => Head(toServer) \in Frame
      BY <1>1, <2>2, HeadTailProperties, LenProperties DEF StepInv, ToServerInv
    <2> QED
      BY <2>1, <2>2 DEF SameLanguage
  <1> QED
    BY StepInvariant, <1>1, PTL
=============================================================================
