----------------------------- MODULE MeshProofs -----------------------------
(***************************************************************************)
(* What TLAPS proves of Mesh, for any portals, messages and identifiers,   *)
(* whatever the clients ask, and whatever is lost.                         *)
(***************************************************************************)
EXTENDS Mesh, SequenceTheorems, TLAPS

\* A message of R is in the queue; there are no two of them.
Held(q, R) == \E k \in 1..Len(q) : q[k] \in R
Apart(q, R) == \A j, k \in 1..Len(q) : q[j] \in R /\ q[k] \in R => j = k

\* Appending adds the new message and no other.
LEMMA HeldAppend ==
  ASSUME NEW S, NEW q \in Seq(S), NEW x \in S, NEW R, Apart(q, R), x \in R => ~Held(q, R)
  PROVE  /\ Held(Append(q, x), R) => Held(q, R) \/ x \in R
         /\ Apart(Append(q, x), R)
  <1> DEFINE r == Append(q, x)
  <1>1. /\ Len(q) \in Nat /\ Len(r) = Len(q) + 1 /\ r[Len(q) + 1] = x
        /\ \A k \in 1..Len(q) : r[k] = q[k]
    BY AppendProperties, LenProperties
  <1> HIDE DEF r
  <1>2. \A k \in 1..Len(r) :
          \/ k \in 1..Len(q) /\ r[k] = q[k]
          \/ k = Len(q) + 1 /\ r[k] = x
    BY <1>1
  <1>3. Held(r, R) => Held(q, R) \/ x \in R
    BY <1>2 DEF Held
  <1>4. ASSUME NEW j \in 1..Len(r), NEW k \in 1..Len(r), r[j] \in R, r[k] \in R
        PROVE  j = k
    <2>1. CASE x \in R
      BY <1>2, <1>4, <2>1 DEF Held
    <2>2. CASE x \notin R
      BY <1>2, <1>4, <2>2 DEF Apart
    <2> QED
      BY <2>1, <2>2
  <1> QED
    BY <1>3, <1>4 DEF Apart, r

\* Taking the head leaves what was behind it, without the message taken.
LEMMA HeldTail ==
  ASSUME NEW S, NEW q \in Seq(S), q # <<>>, NEW R, Apart(q, R)
  PROVE  /\ Held(Tail(q), R) => Held(q, R) /\ Head(q) \notin R
         /\ Head(q) \in R => Held(q, R)
         /\ Apart(Tail(q), R)
  <1> DEFINE r == Tail(q)
  <1>1. /\ Head(q) = q[1] /\ 1 \in 1..Len(q)
        /\ Len(q) \in Nat /\ Len(r) = Len(q) - 1
        /\ \A k \in 1..Len(r) : k + 1 \in 1..Len(q) /\ r[k] = q[k + 1]
    BY HeadTailProperties, LenProperties
  <1> HIDE DEF r
  <1>2. ASSUME NEW k \in 1..Len(r), r[k] \in R
        PROVE  Held(q, R) /\ Head(q) \notin R
    <2>1. k + 1 \in 1..Len(q) /\ q[k + 1] \in R /\ k + 1 # 1
      BY <1>1, <1>2
    <2> QED
      BY <1>1, <2>1 DEF Held, Apart
  <1>3. ASSUME NEW j \in 1..Len(r), NEW k \in 1..Len(r), r[j] \in R, r[k] \in R
        PROVE  j = k
    <2>1. j + 1 \in 1..Len(q) /\ k + 1 \in 1..Len(q) /\ q[j + 1] \in R /\ q[k + 1] \in R
      BY <1>1, <1>3
    <2>2. j + 1 = k + 1
      BY <2>1 DEF Apart
    <2> QED
      BY <2>2
  <1> QED
    BY <1>1, <1>2, <1>3 DEF Held, Apart, r

\* What they hold together.
LEMMA HeldConcat ==
  ASSUME NEW S, NEW q \in Seq(S), NEW s \in Seq(S), NEW R,
         Apart(q, R), Apart(s, R), ~(Held(q, R) /\ Held(s, R))
  PROVE  /\ Held(q \o s, R) => Held(q, R) \/ Held(s, R)
         /\ Apart(q \o s, R)
  <1> DEFINE r == q \o s
  <1>1. /\ Len(q) \in Nat /\ Len(s) \in Nat /\ Len(r) = Len(q) + Len(s)
        /\ \A k \in 1..Len(r) : r[k] = IF k <= Len(q) THEN q[k] ELSE s[k - Len(q)]
    BY ConcatProperties, LenProperties
  <1> HIDE DEF r
  <1>2. \A k \in 1..Len(r) :
          \/ k \in 1..Len(q) /\ r[k] = q[k]
          \/ k - Len(q) \in 1..Len(s) /\ r[k] = s[k - Len(q)]
    BY <1>1, SMTT(20)
  <1>3. Held(r, R) => Held(q, R) \/ Held(s, R)
    BY <1>2 DEF Held
  <1>4. ASSUME NEW j \in 1..Len(r), NEW k \in 1..Len(r), r[j] \in R, r[k] \in R
        PROVE  j = k
    <2>1. CASE j \in 1..Len(q) /\ k \in 1..Len(q) /\ r[j] = q[j] /\ r[k] = q[k]
      BY <1>4, <2>1 DEF Apart
    <2>2. CASE /\ j - Len(q) \in 1..Len(s) /\ k - Len(q) \in 1..Len(s)
               /\ r[j] = s[j - Len(q)] /\ r[k] = s[k - Len(q)]
      <3>1. j - Len(q) = k - Len(q)
        BY <1>4, <2>2 DEF Apart
      <3> QED
        BY <1>1, <3>1
    <2>3. CASE Held(q, R) /\ Held(s, R)
      BY <2>3
    <2> QED
      BY <1>2, <1>4, <2>1, <2>2, <2>3 DEF Held
  <1> QED
    BY <1>3, <1>4 DEF Apart, r

Task == [request : MeshRequest, step : {"spawned", "asked", "informed"}]
Handling == [at : Portals, request : OutletRequest]
Outgoing == OutletRequest \cup OutletResponse
MadeResponse == [from : Identifier, id : Messages, signal : Signal]

-----------------------------------------------------------------------------
(* What each place may hold: nothing but what follows from what was asked. *)

\* A request, in any of its forms, is the copy of one that was asked, for the
\* i-th of its recipients; the others share its fate only if no response is
\* wanted.
Carried(r) ==
  /\ sent[r.id] # None
  /\ r.i \in DOMAIN sent[r.id].it.to
  /\ r.kind = sent[r.id].it.kind /\ r.operation = sent[r.id].it.operation
  /\ r.from = Key(sent[r.id].from)
  /\ r.kind = "RequestResponse" => Len(sent[r.id].it.to) = 1

Named(r) == Carried(r) /\ r.to = sent[r.id].it.to[r.i]

\* A response on its way back is the one that was made, and fits.
Made(x) == [from |-> x.from, id |-> x.id, signal |-> x.signal]
FitsRequest(x) ==
  LET asked == sent[x.id].it
  IN \/ Len(asked.to) # 1 /\ x.from = Key(sent[x.id].from) /\ x.signal = "Error"
     \/ /\ Len(asked.to) = 1 /\ x.from = asked.to[1]
        /\ x.signal = "Stubs" <=> asked.operation = "Select"
Answers(x) == sent[x.id] # None /\ FitsRequest(x) /\ responded[x.id] = <<Made(x)>>

AtUp(p) == {f \in InletFrame : f.type = "Request" => sent[f.id] # None /\ sent[f.id].from = p}
AtMux(p) == {r \in MeshRequest : Named(r) /\ sent[r.id].from = p}
AtRouter ==
  {t \in Task : /\ Named(t.request)
                /\ t.step # "spawned" =>
                     t.request.operation = "Select" /\ t.request.kind = "RequestResponse"}
AtMuxq ==
  {c \in MuxCall :
     /\ c.call = "Select" => c.of.operation = "Select" /\ c.of.kind = "RequestResponse"
     /\ c.call = "Request" => Named(c.it) /\ c.it.operation = "Ext"
     /\ c.call = "Response" => Answers(c.it)}
ForPortal(r, p) == Carried(r) /\ p \in GetPortal(sent[r.id].it.to[r.i])
AtDown(p) ==
  {f \in Outgoing : /\ f.type = "Request" => ForPortal(f, p)
                    /\ f.type = "Response" => Answers(f)}
AtClient(m) == {h \in Handling : h.request.id = m /\ ForPortal(h.request, h.at)}

OverAll(S, f) == f = [s \in S |-> f[s]]

UpInv == OverAll(Portals, up) /\ \A p \in Portals : up[p] \in Seq(AtUp(p))
MuxInv == OverAll(Portals, mux) /\ \A p \in Portals : mux[p] \in Seq(AtMux(p))
RouterInv == tasks \subseteq AtRouter
MuxqInv == muxq \in Seq(AtMuxq)
DownInv == OverAll(Portals, down) /\ \A p \in Portals : down[p] \in Seq(AtDown(p))
ClientsInv ==
  /\ OverAll(Messages, delivered) /\ \A m \in Messages : delivered[m] \in Seq(AtClient(m))
  /\ \A h \in handling : h \in Handling /\ Held(delivered[h.request.id], {h})

PlacesInv == UpInv /\ MuxInv /\ RouterInv /\ MuxqInv /\ DownInv /\ ClientsInv

\* What a client knows of its own requests.
CallerInv ==
  /\ sent \in [Messages -> [from : Portals, it : Asked] \cup {None}]
  /\ call \in [Messages -> {"idle", "notified", "waiting", "answered", "timedout"}]
  /\ answer \in [Messages -> OutletResponse \cup {None}]
  /\ \A m \in Messages :
       /\ sent[m] = None <=> call[m] = "idle"
       /\ call[m] = "answered" => answer[m] # None /\ answer[m].id = m /\ Answers(answer[m])

-----------------------------------------------------------------------------
(* Where a copy is: each is in one place, or lost. *)

\* Copies of request m, the i-th, in each of their forms.
InletCopy(m) == {f \in InletFrame : f.type = "Request" /\ f.id = m}
MeshCopy(m, i) == {r \in MeshRequest : r.id = m /\ r.i = i}
CallCopy(m, i) == {c \in MuxCall : c.call = "Request" /\ c.it \in MeshCopy(m, i)}
OutletCopy(m, i) == {f \in OutletRequest : f.id = m /\ f.i = i}
ClientCopy(m, i) == {h \in Handling : h.request \in OutletCopy(m, i)}

\* The messages of R that any of the queues of f holds.
AnyHeld(S, f, R) == \E s \in S : Held(f[s], R)
AllApart(S, f, R) == \A s \in S : Apart(f[s], R)

InUp(m) == AnyHeld(Portals, up, InletCopy(m))
InMux(m, i) == AnyHeld(Portals, mux, MeshCopy(m, i))
InRouter(m, i) == \E t \in tasks : t.request \in MeshCopy(m, i)
InMuxq(m, i) == Held(muxq, CallCopy(m, i))
InDown(m, i) == AnyHeld(Portals, down, OutletCopy(m, i))
Received(m, i) == Held(delivered[m], ClientCopy(m, i))

\* No place holds it twice, and no two places hold it.
OnceUp(m) == AllApart(Portals, up, InletCopy(m))
OnceMux(m, i) == AllApart(Portals, mux, MeshCopy(m, i))
OnceRouter(m, i) ==
  \A t, u \in tasks : t.request \in MeshCopy(m, i) /\ u.request \in MeshCopy(m, i) => t = u
OnceMuxq(m, i) == Apart(muxq, CallCopy(m, i))
OnceDown(m, i) == AllApart(Portals, down, OutletCopy(m, i))
OnceReceived(m, i) == Apart(delivered[m], ClientCopy(m, i))

NotTwice(m, i) ==
  /\ OnceUp(m) /\ OnceMux(m, i) /\ OnceRouter(m, i)
  /\ OnceMuxq(m, i) /\ OnceDown(m, i) /\ OnceReceived(m, i)

OnePlace(m, i) ==
  /\ InUp(m) =>
       ~InMux(m, i) /\ ~InRouter(m, i) /\ ~InMuxq(m, i) /\ ~InDown(m, i) /\ ~Received(m, i)
  /\ InMux(m, i) => ~InRouter(m, i) /\ ~InMuxq(m, i) /\ ~InDown(m, i) /\ ~Received(m, i)
  /\ InRouter(m, i) => ~InMuxq(m, i) /\ ~InDown(m, i) /\ ~Received(m, i)
  /\ InMuxq(m, i) => ~InDown(m, i) /\ ~Received(m, i)
  /\ InDown(m, i) => ~Received(m, i)

CopyInv == \A m \in Messages, i \in Nat : NotTwice(m, i) /\ OnePlace(m, i)

\* A request that has its response is nowhere any more: nobody is left to make
\* another.
Somewhere(m, i) ==
  InUp(m) \/ InMux(m, i) \/ InRouter(m, i) \/ InMuxq(m, i) \/ InDown(m, i)

Settled(m) ==
  /\ \A i \in Nat : ~Somewhere(m, i)
  /\ \A h \in handling : h.request.id # m

ResponseInv ==
  /\ responded \in [Messages -> Seq(MadeResponse)]
  /\ \A m \in Messages : responded[m] # <<>> =>
       /\ Len(responded[m]) = 1 /\ responded[m][1].id = m
       /\ sent[m] # None /\ sent[m].it.kind = "RequestResponse"
       /\ Settled(m)

\* The inductive invariant.
MeshInv == PlacesInv /\ CallerInv /\ CopyInv /\ ResponseInv

-----------------------------------------------------------------------------
(* The invariant holds of a new mesh. *)
LEMMA InitMeshInv == Init => MeshInv
  <1> SUFFICES ASSUME Init PROVE MeshInv
    OBVIOUS
  <1>1. \A S : <<>> \in Seq(S)
    OBVIOUS
  <1>2. \A R : Apart(<<>>, R) /\ ~Held(<<>>, R)
    BY DEF Apart, Held
  <1>3. PlacesInv
    BY <1>1 DEF Init, PlacesInv, UpInv, MuxInv, RouterInv, MuxqInv, DownInv, ClientsInv, OverAll
  <1>4. CallerInv
    BY DEF Init, CallerInv
  <1>5. ASSUME NEW m \in Messages, NEW i \in Nat
        PROVE  /\ NotTwice(m, i) /\ ~InUp(m) /\ ~InMux(m, i) /\ ~InRouter(m, i)
               /\ ~InMuxq(m, i) /\ ~InDown(m, i)
    BY <1>2 DEF Init, NotTwice, OnceUp, OnceMux, OnceRouter, OnceMuxq, OnceDown, OnceReceived,
                InUp, InMux, InRouter, InMuxq, InDown, AnyHeld, AllApart
  <1>6. CopyInv
    BY <1>5 DEF CopyInv, OnePlace
  <1>7. ResponseInv
    BY <1>1 DEF Init, ResponseInv
  <1> QED
    BY <1>3, <1>4, <1>6, <1>7 DEF MeshInv

-----------------------------------------------------------------------------
(* What was asked and what was answered stays so: what a place may hold, it  *)
(* may go on holding.                                                        *)
Grows ==
  /\ \A m \in Messages : sent[m] # None => sent'[m] = sent[m]
  /\ \A m \in Messages : responded[m] # <<>> => responded'[m] = responded[m]

\* A copy of a request stays a copy of it.
LEMMA CarriedGrows ==
  ASSUME Grows, NEW r, r.id \in Messages, Carried(r)
  PROVE  Carried(r)' /\ sent'[r.id] = sent[r.id]
  BY DEF Grows, Carried

\* A response stays the one that was made.
LEMMA AnswersGrows ==
  ASSUME Grows, NEW x, x.id \in Messages, Answers(x)
  PROVE  Answers(x)'
  <1>1. sent'[x.id] = sent[x.id] /\ responded'[x.id] = responded[x.id]
    BY DEF Grows, Answers
  <1> QED
    BY <1>1 DEF Answers, FitsRequest

\* So every place may hold at least what it could.
LEMMA PlacesGrow ==
  ASSUME Grows
  PROVE  /\ \A p \in Portals :
              AtUp(p) \subseteq AtUp(p)' /\ AtMux(p) \subseteq AtMux(p)' /\ AtDown(p) \subseteq AtDown(p)'
         /\ AtRouter \subseteq AtRouter' /\ AtMuxq \subseteq AtMuxq'
         /\ \A m \in Messages : AtClient(m) \subseteq AtClient(m)'
  <1>1. ASSUME NEW r \in MeshRequest, Named(r)
        PROVE  Named(r)' /\ sent'[r.id] = sent[r.id]
    <2>1. r.id \in Messages
      BY DEF MeshRequest
    <2> QED
      BY <1>1, <2>1, CarriedGrows DEF Named
  <1>2. ASSUME NEW p \in Portals
        PROVE  AtUp(p) \subseteq AtUp(p)'
    BY DEF AtUp, InletFrame, Grows
  <1>3. ASSUME NEW p \in Portals
        PROVE  AtMux(p) \subseteq AtMux(p)'
    BY <1>1 DEF AtMux
  <1>4. AtRouter \subseteq AtRouter'
    BY <1>1 DEF AtRouter, Task
  <1>5. AtMuxq \subseteq AtMuxq'
    BY <1>1, AnswersGrows DEF AtMuxq, MuxCall, MeshResponse
  <1>6. ASSUME NEW r \in OutletRequest, NEW p \in Portals, ForPortal(r, p)
        PROVE  ForPortal(r, p)'
    <2>1. r.id \in Messages
      BY DEF OutletRequest
    <2> QED
      BY <1>6, <2>1, CarriedGrows DEF ForPortal, GetPortal
  <1>7. ASSUME NEW p \in Portals
        PROVE  AtDown(p) \subseteq AtDown(p)'
    BY <1>6, AnswersGrows DEF AtDown, Outgoing, OutletRequest, OutletResponse
  <1>8. ASSUME NEW m \in Messages
        PROVE  AtClient(m) \subseteq AtClient(m)'
    BY <1>6 DEF AtClient, Handling
  <1> QED
    BY <1>2, <1>3, <1>4, <1>5, <1>7, <1>8

-----------------------------------------------------------------------------
(* The queues of all portals, when one of them changes. *)

\* The head of one queue is taken; if no other queue holds such a message, it
\* was the only one.
LEMMA TakenAt ==
  ASSUME NEW S, NEW f, OverAll(S, f), NEW s \in S, NEW T, f[s] \in Seq(T), f[s] # <<>>,
         NEW g, g = [f EXCEPT ![s] = Tail(f[s])],
         NEW R, AllApart(S, f, R),
         \A t \in S : Held(f[s], R) /\ Held(f[t], R) => t = s
  PROVE  /\ AllApart(S, g, R)
         /\ AnyHeld(S, g, R) => AnyHeld(S, f, R) /\ Head(f[s]) \notin R
         /\ Head(f[s]) \in R => AnyHeld(S, f, R)
  <1>1. g[s] = Tail(f[s]) /\ \A t \in S : t # s => g[t] = f[t]
    BY DEF OverAll
  <1>2. Apart(f[s], R)
    BY DEF AllApart
  <1>3. /\ Held(g[s], R) => Held(f[s], R) /\ Head(f[s]) \notin R
        /\ Head(f[s]) \in R => Held(f[s], R)
        /\ Apart(g[s], R)
    BY <1>1, <1>2, HeldTail
  <1>4. AllApart(S, g, R)
    BY <1>1, <1>3 DEF AllApart
  <1>5. AnyHeld(S, g, R) => AnyHeld(S, f, R) /\ Head(f[s]) \notin R
    BY <1>1, <1>3 DEF AnyHeld
  <1> QED
    BY <1>3, <1>4, <1>5 DEF AnyHeld

\* One queue is offered a message that none of them holds.
LEMMA OfferedAt ==
  ASSUME NEW S, NEW f, OverAll(S, f), NEW s \in S, NEW T, f[s] \in Seq(T), NEW x \in T,
         NEW q \in Offered(f[s], x), NEW g, g = [f EXCEPT ![s] = q],
         NEW R, AllApart(S, f, R), x \in R => ~AnyHeld(S, f, R)
  PROVE  /\ AllApart(S, g, R)
         /\ AnyHeld(S, g, R) => AnyHeld(S, f, R) \/ x \in R
  <1>1. g[s] = q /\ \A t \in S : t # s => g[t] = f[t]
    BY DEF OverAll
  <1>2. Apart(f[s], R) /\ (x \in R => ~Held(f[s], R))
    BY DEF AllApart, AnyHeld
  <1>3. (Held(q, R) => Held(f[s], R) \/ x \in R) /\ Apart(q, R)
    BY <1>2, HeldAppend, Zenon DEF Offered
  <1> QED
    BY <1>1, <1>3 DEF AllApart, AnyHeld

\* What the other channels keep, they keep.
LEMMA OfferedKeeps ==
  ASSUME NEW T, NEW q \in Seq(T), NEW x \in T, NEW r \in Offered(q, x)
  PROVE  r \in Seq(T)
  BY AppendProperties, LenProperties DEF Offered

\* The same for one queue.
LEMMA OfferedOnce ==
  ASSUME NEW T, NEW q \in Seq(T), NEW x \in T, NEW r \in Offered(q, x),
         NEW R, Apart(q, R), x \in R => ~Held(q, R)
  PROVE  /\ Apart(r, R)
         /\ Held(r, R) => Held(q, R) \/ x \in R
  BY HeldAppend, Zenon DEF Offered

-----------------------------------------------------------------------------
(* Whose queues a copy can be in. *)

\* An identifier names one portal at most.
LEMMA NamesOne ==
  ASSUME NEW id, NEW p \in GetPortal(id), NEW q \in GetPortal(id)
  PROVE  p = q
  BY DEF GetPortal, Key, Address

\* A request is in its sender's queues, and on its way down at one portal.
LEMMA OneQueue ==
  ASSUME PlacesInv, NEW p \in Portals, NEW q \in Portals, NEW m \in Messages, NEW i \in Nat
  PROVE  /\ Held(up[p], InletCopy(m)) => sent[m] # None /\ sent[m].from = p
         /\ Held(mux[p], MeshCopy(m, i)) =>
              sent[m] # None /\ sent[m].from = p /\ i \in DOMAIN sent[m].it.to
         /\ Held(down[p], OutletCopy(m, i)) =>
              /\ sent[m] # None /\ i \in DOMAIN sent[m].it.to
              /\ p \in GetPortal(sent[m].it.to[i])
  <1>1. up[p] \in Seq(AtUp(p)) /\ mux[p] \in Seq(AtMux(p)) /\ down[p] \in Seq(AtDown(p))
    BY DEF PlacesInv, UpInv, MuxInv, MuxqInv, DownInv, ClientsInv
  <1>2. ASSUME NEW k \in 1..Len(up[p]), up[p][k] \in InletCopy(m)
        PROVE  sent[m] # None /\ sent[m].from = p
    <2>1. up[p][k] \in AtUp(p)
      BY <1>1
    <2> QED
      BY <1>2, <2>1 DEF AtUp, InletCopy
  <1>3. ASSUME NEW k \in 1..Len(mux[p]), mux[p][k] \in MeshCopy(m, i)
        PROVE  sent[m] # None /\ sent[m].from = p /\ i \in DOMAIN sent[m].it.to
    <2>1. mux[p][k] \in AtMux(p)
      BY <1>1
    <2> QED
      BY <1>3, <2>1 DEF AtMux, MeshCopy, Named, Carried
  <1>4. ASSUME NEW k \in 1..Len(down[p]), down[p][k] \in OutletCopy(m, i)
        PROVE  /\ sent[m] # None /\ i \in DOMAIN sent[m].it.to
               /\ p \in GetPortal(sent[m].it.to[i])
    <2>1. down[p][k] \in AtDown(p)
      BY <1>1
    <2>2. down[p][k].type = "Request"
      BY <1>4 DEF OutletCopy, OutletRequest
    <2> QED
      BY <1>4, <2>1, <2>2 DEF AtDown, OutletCopy, ForPortal, Carried
  <1> QED
    BY <1>2, <1>3, <1>4 DEF Held

\* The other places hold only copies for the recipients of what was asked.
LEMMA CopiesExist ==
  ASSUME PlacesInv, NEW m \in Messages, NEW i \in Nat,
         InMux(m, i) \/ InRouter(m, i) \/ InMuxq(m, i) \/ InDown(m, i) \/ Received(m, i)
  PROVE  sent[m] # None /\ i \in DOMAIN sent[m].it.to
  <1>1. CASE InMux(m, i) \/ InDown(m, i)
    BY <1>1, OneQueue DEF InMux, InDown, AnyHeld
  <1>2. CASE InRouter(m, i)
    BY <1>2 DEF PlacesInv, RouterInv, InRouter, AtRouter, MeshCopy, Named, Carried
  <1>3. CASE InMuxq(m, i)
    <2>1. PICK k \in 1..Len(muxq) : muxq[k] \in CallCopy(m, i)
      BY <1>3 DEF InMuxq, Held
    <2>2. muxq[k] \in AtMuxq
      BY DEF PlacesInv, UpInv, MuxInv, MuxqInv, DownInv, ClientsInv
    <2> QED
      BY <2>1, <2>2 DEF AtMuxq, CallCopy, MeshCopy, Named, Carried
  <1>4. CASE Received(m, i)
    <2>1. PICK k \in 1..Len(delivered[m]) : delivered[m][k] \in ClientCopy(m, i)
      BY <1>4 DEF Received, Held
    <2>2. delivered[m][k] \in AtClient(m)
      BY DEF PlacesInv, UpInv, MuxInv, MuxqInv, DownInv, ClientsInv
    <2> QED
      BY <2>1, <2>2, Zenon DEF AtClient, ClientCopy, OutletCopy, ForPortal, Carried
  <1> QED
    BY <1>1, <1>2, <1>3, <1>4

-----------------------------------------------------------------------------
(* What a step may do to each place: at most the copies of N are new there. *)
UpStep(N) ==
  UpInv' /\ \A m \in Messages : OnceUp(m)' /\ (InUp(m)' => InUp(m) \/ m \in N)
MuxStep(N) ==
  MuxInv' /\ \A m \in Messages, i \in Nat :
               OnceMux(m, i)' /\ (InMux(m, i)' => InMux(m, i) \/ <<m, i>> \in N)
RouterStep(N) ==
  RouterInv' /\ \A m \in Messages, i \in Nat :
                  OnceRouter(m, i)' /\ (InRouter(m, i)' => InRouter(m, i) \/ <<m, i>> \in N)
MuxqStep(N) ==
  MuxqInv' /\ \A m \in Messages, i \in Nat :
                OnceMuxq(m, i)' /\ (InMuxq(m, i)' => InMuxq(m, i) \/ <<m, i>> \in N)
DownStep(N) ==
  DownInv' /\ \A m \in Messages, i \in Nat :
                OnceDown(m, i)' /\ (InDown(m, i)' => InDown(m, i) \/ <<m, i>> \in N)
ClientsStep(N) ==
  ClientsInv' /\ \A m \in Messages, i \in Nat :
                  OnceReceived(m, i)' /\ (Received(m, i)' => Received(m, i) \/ <<m, i>> \in N)

\* A copy that is new in a place has left the one before it; so it is still in
\* one place.
LEMMA CopiesMove ==
  ASSUME CopyInv, NEW U, NEW X, NEW R, NEW Q, NEW D, NEW C,
         UpStep(U), MuxStep(X), RouterStep(R), MuxqStep(Q), DownStep(D), ClientsStep(C),
         \A m \in Messages, i \in Nat : m \in U => ~Somewhere(m, i) /\ ~Received(m, i),
         \A m \in Messages, i \in Nat :
           /\ <<m, i>> \in X => InUp(m) /\ ~InUp(m)'
           /\ <<m, i>> \in R => InMux(m, i) /\ ~InMux(m, i)'
           /\ <<m, i>> \in Q => InRouter(m, i) /\ ~InRouter(m, i)'
           /\ <<m, i>> \in D => InMuxq(m, i) /\ ~InMuxq(m, i)'
           /\ <<m, i>> \in C => InDown(m, i) /\ ~InDown(m, i)'
  PROVE  /\ PlacesInv' /\ CopyInv'
         /\ \A m \in Messages, i \in Nat : Somewhere(m, i)' => Somewhere(m, i) \/ m \in U
  <1>1. ASSUME NEW m \in Messages, NEW i \in Nat
        PROVE  NotTwice(m, i)' /\ OnePlace(m, i)' /\ (Somewhere(m, i)' => Somewhere(m, i) \/ m \in U)
    <2>1. NotTwice(m, i)'
      BY DEF UpStep, MuxStep, RouterStep, MuxqStep, DownStep, ClientsStep, NotTwice
    <2>2. OnePlace(m, i)
      BY DEF CopyInv
    <2>3. /\ InUp(m)' => InUp(m) \/ m \in U
          /\ InMux(m, i)' => InMux(m, i) \/ <<m, i>> \in X
          /\ InRouter(m, i)' => InRouter(m, i) \/ <<m, i>> \in R
          /\ InMuxq(m, i)' => InMuxq(m, i) \/ <<m, i>> \in Q
          /\ InDown(m, i)' => InDown(m, i) \/ <<m, i>> \in D
          /\ Received(m, i)' => Received(m, i) \/ <<m, i>> \in C
      BY DEF UpStep, MuxStep, RouterStep, MuxqStep, DownStep, ClientsStep
    <2>4. /\ InUp(m)' => InUp(m) \/ m \in U
          /\ InMux(m, i)' => InMux(m, i) \/ (InUp(m) /\ ~InUp(m)')
          /\ InRouter(m, i)' => InRouter(m, i) \/ (InMux(m, i) /\ ~InMux(m, i)')
          /\ InMuxq(m, i)' => InMuxq(m, i) \/ (InRouter(m, i) /\ ~InRouter(m, i)')
          /\ InDown(m, i)' => InDown(m, i) \/ (InMuxq(m, i) /\ ~InMuxq(m, i)')
          /\ Received(m, i)' => Received(m, i) \/ (InDown(m, i) /\ ~InDown(m, i)')
          /\ m \in U => ~Somewhere(m, i) /\ ~Received(m, i)
      BY <2>3
    <2>5. OnePlace(m, i)'
      BY <2>2, <2>4 DEF OnePlace, Somewhere
    <2>6. Somewhere(m, i)' => Somewhere(m, i) \/ m \in U
      BY <2>4 DEF Somewhere
    <2> QED
      BY <2>1, <2>5, <2>6
  <1>2. PlacesInv'
    BY DEF PlacesInv, UpStep, MuxStep, RouterStep, MuxqStep, DownStep, ClientsStep
  <1> QED
    BY <1>1, <1>2 DEF CopyInv

\* When nothing is asked.
LEMMA CopiesGoOn ==
  ASSUME CopyInv, NEW X, NEW R, NEW Q, NEW D, NEW C,
         UpStep({}), MuxStep(X), RouterStep(R), MuxqStep(Q), DownStep(D), ClientsStep(C),
         \A m \in Messages, i \in Nat :
           /\ <<m, i>> \in X => InUp(m) /\ ~InUp(m)'
           /\ <<m, i>> \in R => InMux(m, i) /\ ~InMux(m, i)'
           /\ <<m, i>> \in Q => InRouter(m, i) /\ ~InRouter(m, i)'
           /\ <<m, i>> \in D => InMuxq(m, i) /\ ~InMuxq(m, i)'
           /\ <<m, i>> \in C => InDown(m, i) /\ ~InDown(m, i)'
  PROVE  /\ PlacesInv' /\ CopyInv'
         /\ \A m \in Messages, i \in Nat : Somewhere(m, i)' => Somewhere(m, i)
  <1>1. PICK U : U = {}
    OBVIOUS
  <1>2. UpStep(U) /\ \A m \in Messages : m \notin U
    BY <1>1
  <1>3. \A m \in Messages, i \in Nat : m \in U => ~Somewhere(m, i) /\ ~Received(m, i)
    BY <1>2
  <1>4. /\ PlacesInv' /\ CopyInv'
        /\ \A m \in Messages, i \in Nat : Somewhere(m, i)' => Somewhere(m, i) \/ m \in U
    BY <1>2, <1>3, CopiesMove
  <1> QED
    BY <1>2, <1>4

-----------------------------------------------------------------------------
(* Each place, in the steps of the code. *)

\* What each place holds it may hold after a step as well.
LEMMA OldPlaces ==
  ASSUME PlacesInv, Grows
  PROVE  /\ \A p \in Portals :
              /\ up[p] \in Seq(AtUp(p)') /\ mux[p] \in Seq(AtMux(p)')
              /\ down[p] \in Seq(AtDown(p)')
         /\ tasks \subseteq AtRouter' /\ muxq \in Seq(AtMuxq')
         /\ \A m \in Messages : delivered[m] \in Seq(AtClient(m)')
  <1>1. ASSUME NEW p \in Portals
        PROVE  up[p] \in Seq(AtUp(p)') /\ mux[p] \in Seq(AtMux(p)') /\ down[p] \in Seq(AtDown(p)')
    <2>1. up[p] \in Seq(AtUp(p)) /\ mux[p] \in Seq(AtMux(p)) /\ down[p] \in Seq(AtDown(p))
      BY DEF PlacesInv, UpInv, MuxInv, DownInv
    <2> QED
      BY <2>1, PlacesGrow, SeqMonotonic
  <1>2. tasks \subseteq AtRouter' /\ muxq \in Seq(AtMuxq')
    BY PlacesGrow, SeqMonotonic DEF PlacesInv, RouterInv, MuxqInv
  <1>3. ASSUME NEW m \in Messages
        PROVE  delivered[m] \in Seq(AtClient(m)')
    BY PlacesGrow, SeqMonotonic DEF PlacesInv, ClientsInv
  <1> QED
    BY <1>1, <1>2, <1>3

\* The copies are apart.
LEMMA OldCopies ==
  ASSUME CopyInv, NEW m \in Messages, NEW i \in Nat
  PROVE  /\ OnceUp(m) /\ OnceMux(m, i) /\ OnceRouter(m, i)
         /\ OnceMuxq(m, i) /\ OnceDown(m, i) /\ OnceReceived(m, i)
         /\ OnePlace(m, i)
  BY DEF CopyInv, NotTwice

\* The channels from the clients: nothing happens to them,
LEMMA UpKept ==
  ASSUME PlacesInv, CopyInv, Grows, UNCHANGED up
  PROVE  UpStep({})
  <1>1. UpInv'
    BY OldPlaces DEF PlacesInv, UpInv
  <1>2. ASSUME NEW m \in Messages
        PROVE  OnceUp(m)' /\ (InUp(m)' => InUp(m))
    <2>1. OnceUp(m)
      BY OldCopies, 0 \in Nat
    <2> QED
      BY <2>1 DEF OnceUp, InUp
  <1> QED
    BY <1>1, <1>2 DEF UpStep

\* a portal task takes a frame, which is then on its way no longer,
LEMMA UpTaken ==
  ASSUME PlacesInv, CopyInv, Grows,
         NEW p \in Portals, up[p] # <<>>, up' = [up EXCEPT ![p] = Tail(up[p])]
  PROVE  /\ UpStep({}) /\ Head(up[p]) \in AtUp(p)
         /\ \A m \in Messages : Head(up[p]) \in InletCopy(m) => InUp(m) /\ ~InUp(m)'
  <1>1. OverAll(Portals, up) /\ up[p] \in Seq(AtUp(p)) /\ up[p] \in Seq(AtUp(p)')
    BY OldPlaces DEF PlacesInv, UpInv
  <1>2. Head(up[p]) \in AtUp(p) /\ Tail(up[p]) \in Seq(AtUp(p)')
    BY <1>1, HeadTailProperties, LenProperties
  <1>3. UpInv'
    <2>1. /\ OverAll(Portals, up') /\ up'[p] = Tail(up[p])
          /\ \A q \in Portals : q # p => up'[q] = up[q]
      BY <1>1 DEF OverAll
    <2> QED
      BY <1>2, <2>1, OldPlaces DEF UpInv
  <1>4. ASSUME NEW m \in Messages
        PROVE  /\ OnceUp(m)'
               /\ InUp(m)' => InUp(m) /\ Head(up[p]) \notin InletCopy(m)
               /\ Head(up[p]) \in InletCopy(m) => InUp(m)
    <2>1. AllApart(Portals, up, InletCopy(m))
      BY OldCopies, 0 \in Nat DEF OnceUp
    <2>2. \A q \in Portals : Held(up[p], InletCopy(m)) /\ Held(up[q], InletCopy(m)) => q = p
      BY OneQueue, 0 \in Nat
    <2> QED
      BY <1>1, <2>1, <2>2, TakenAt, Zenon DEF OnceUp, InUp
  <1> QED
    BY <1>2, <1>3, <1>4 DEF UpStep

\* or a client sends one that is not on its way yet.
LEMMA UpOffered ==
  ASSUME PlacesInv, CopyInv, Grows, NEW N,
         NEW p \in Portals, NEW x \in AtUp(p)', NEW q \in Offered(up[p], x),
         up' = [up EXCEPT ![p] = q],
         \A m \in Messages : x \in InletCopy(m) => ~InUp(m) /\ m \in N
  PROVE  UpStep(N)
  <1>1. OverAll(Portals, up) /\ up[p] \in Seq(AtUp(p)')
    BY OldPlaces DEF PlacesInv, UpInv
  <1>2. q \in Seq(AtUp(p)')
    BY <1>1, OfferedKeeps
  <1>3. UpInv'
    <2>1. /\ OverAll(Portals, up') /\ up'[p] = q
          /\ \A r \in Portals : r # p => up'[r] = up[r]
      BY <1>1 DEF OverAll
    <2> QED
      BY <1>2, <2>1, OldPlaces DEF UpInv
  <1>4. ASSUME NEW m \in Messages
        PROVE  OnceUp(m)' /\ (InUp(m)' => InUp(m) \/ m \in N)
    <2>1. AllApart(Portals, up, InletCopy(m))
      BY OldCopies, 0 \in Nat DEF OnceUp
    <2>2. x \in InletCopy(m) => ~AnyHeld(Portals, up, InletCopy(m)) /\ m \in N
      BY DEF InUp
    <2> QED
      BY <1>1, <2>1, <2>2, OfferedAt DEF OnceUp, InUp
  <1> QED
    BY <1>3, <1>4 DEF UpStep

\* The mux channels of the portals: nothing happens to them,
LEMMA MuxKept ==
  ASSUME PlacesInv, CopyInv, Grows, UNCHANGED mux
  PROVE  MuxStep({})
  <1>1. MuxInv'
    BY OldPlaces DEF PlacesInv, MuxInv
  <1> QED
    BY <1>1, OldCopies DEF MuxStep, OnceMux, InMux

\* or the host takes a message,
LEMMA MuxTaken ==
  ASSUME PlacesInv, CopyInv, Grows,
         NEW p \in Portals, mux[p] # <<>>, mux' = [mux EXCEPT ![p] = Tail(mux[p])]
  PROVE  /\ MuxStep({}) /\ Head(mux[p]) \in AtMux(p)
         /\ \A m \in Messages, i \in Nat :
              Head(mux[p]) \in MeshCopy(m, i) => InMux(m, i) /\ ~InMux(m, i)'
  <1>1. OverAll(Portals, mux) /\ mux[p] \in Seq(AtMux(p)) /\ mux[p] \in Seq(AtMux(p)')
    BY OldPlaces DEF PlacesInv, MuxInv
  <1>2. Head(mux[p]) \in AtMux(p) /\ Tail(mux[p]) \in Seq(AtMux(p)')
    BY <1>1, HeadTailProperties, LenProperties
  <1>3. MuxInv'
    <2>1. /\ OverAll(Portals, mux') /\ mux'[p] = Tail(mux[p])
          /\ \A q \in Portals : q # p => mux'[q] = mux[q]
      BY <1>1 DEF OverAll
    <2> QED
      BY <1>2, <2>1, OldPlaces DEF MuxInv
  <1>4. ASSUME NEW m \in Messages, NEW i \in Nat
        PROVE  /\ OnceMux(m, i)'
               /\ InMux(m, i)' => InMux(m, i) /\ Head(mux[p]) \notin MeshCopy(m, i)
               /\ Head(mux[p]) \in MeshCopy(m, i) => InMux(m, i)
    <2>1. AllApart(Portals, mux, MeshCopy(m, i))
      BY OldCopies DEF OnceMux
    <2>2. \A q \in Portals : Held(mux[p], MeshCopy(m, i)) /\ Held(mux[q], MeshCopy(m, i)) => q = p
      BY OneQueue
    <2>3. PICK f, g, R, T : f = mux /\ g = mux' /\ R = MeshCopy(m, i) /\ T = AtMux(p)
      OBVIOUS
    <2>4. /\ OverAll(Portals, f) /\ f[p] \in Seq(T) /\ f[p] # <<>>
          /\ g = [f EXCEPT ![p] = Tail(f[p])] /\ AllApart(Portals, f, R)
          /\ \A q \in Portals : Held(f[p], R) /\ Held(f[q], R) => q = p
      BY <1>1, <2>1, <2>2, <2>3
    <2>5. /\ AllApart(Portals, g, R)
          /\ AnyHeld(Portals, g, R) => AnyHeld(Portals, f, R) /\ Head(f[p]) \notin R
          /\ Head(f[p]) \in R => AnyHeld(Portals, f, R)
      BY <2>4, TakenAt, Zenon
    <2> QED
      BY <2>3, <2>5 DEF OnceMux, InMux
  <1> QED
    BY <1>2, <1>3, <1>4 DEF MuxStep

\* The copies that the portal task makes of a request: typed, one for each
\* recipient taken, and no other.
LEMMA CopiesMade ==
  ASSUME CallerInv, NEW m \in Messages, sent[m] # None, NEW taken \in Taken(sent[m].it.to),
         sent[m].it.kind = "Notification" \/ Len(sent[m].it.to) = 1,
         NEW s, s = [k \in DOMAIN taken |->
                      RequestFrom(m, taken[k], Key(sent[m].from), sent[m].it.to[taken[k]])]
  PROVE  /\ s \in Seq(AtMux(sent[m].from))
         /\ \A n \in Messages, i \in Nat :
              Apart(s, MeshCopy(n, i)) /\ (Held(s, MeshCopy(n, i)) => n = m)
  <1> DEFINE to == sent[m].it.to
             p == sent[m].from
  <1>1. /\ sent[m] \in [from : Portals, it : Asked] /\ Asked \subseteq InletRequest
    BY ConstantsAssumption DEF CallerInv
  <1>2. /\ p \in Portals /\ to \in Seq(Identifier) /\ sent[m].it \in InletRequest
    BY <1>1 DEF InletRequest
  <1>3. Len(to) \in Nat /\ DOMAIN to = 1..Len(to) /\ \A i \in DOMAIN to : to[i] \in Identifier
    BY <1>2
  <1>4. Key(p) \in Identifier
    BY <1>2 DEF Identifier
  <1> HIDE DEF to, p
  <1>5. PICK n \in 0..Len(to) :
          /\ taken \in [1..n -> DOMAIN to]
          /\ \A j, k \in 1..n : j < k => taken[j] < taken[k]
    BY DEF Taken, to
  <1>6. n \in Nat /\ DOMAIN taken = 1..n /\ \A k \in 1..n : taken[k] \in Nat /\ taken[k] \in DOMAIN to
    BY <1>3, <1>5
  <1>7. s = [k \in 1..n |-> RequestFrom(m, taken[k], Key(p), to[taken[k]])]
    BY <1>6 DEF to, p
  <1>8. ASSUME NEW k \in 1..n
        PROVE  RequestFrom(m, taken[k], Key(p), to[taken[k]]) \in AtMux(p)
    <2> DEFINE r == RequestFrom(m, taken[k], Key(p), to[taken[k]])
    <2>1. r \in MeshRequest
      BY <1>2, <1>3, <1>4, <1>6 DEF MeshRequest, RequestFrom, InletRequest
    <2>2. /\ r.id = m /\ r.i = taken[k] /\ r.kind = sent[m].it.kind
          /\ r.operation = sent[m].it.operation /\ r.from = Key(p) /\ r.to = to[taken[k]]
      BY DEF RequestFrom
    <2> HIDE DEF r
    <2>3. Named(r)
      BY <1>6, <2>2 DEF Named, Carried, to, p
    <2> QED
      BY <2>1, <2>2, <2>3 DEF AtMux, p, r
  <1>9. s \in Seq(AtMux(p)) /\ Len(s) = n
    BY <1>6, <1>7, <1>8
  <1>10. \A k \in 1..n : s[k].id = m /\ s[k].i = taken[k]
    BY <1>7 DEF RequestFrom
  <1>11. ASSUME NEW mm \in Messages, NEW i \in Nat
         PROVE  Apart(s, MeshCopy(mm, i)) /\ (Held(s, MeshCopy(mm, i)) => mm = m)
    <2>1. ASSUME NEW j \in 1..n, NEW k \in 1..n, s[j] \in MeshCopy(mm, i), s[k] \in MeshCopy(mm, i)
          PROVE  j = k
      <3>1. taken[j] = taken[k] /\ taken[j] \in Nat
        BY <1>6, <1>10, <2>1 DEF MeshCopy
      <3>2. ~(j < k) /\ ~(k < j)
        BY <1>5, <3>1
      <3> QED
        BY <1>6, <3>2
    <2>2. Apart(s, MeshCopy(mm, i))
      BY <1>9, <2>1 DEF Apart
    <2>3. Held(s, MeshCopy(mm, i)) => mm = m
      BY <1>9, <1>10 DEF Held, MeshCopy
    <2> QED
      BY <2>2, <2>3
  <1> QED
    BY <1>9, <1>11 DEF p

\* or the portal task puts the copies of a request there that it has taken.
LEMMA MuxCopies ==
  ASSUME PlacesInv, CallerInv, CopyInv, Grows, UNCHANGED <<sent, responded>>,
         NEW m \in Messages, InUp(m), sent[m] # None, NEW taken \in Taken(sent[m].it.to),
         sent[m].it.kind = "Notification" \/ Len(sent[m].it.to) = 1,
         mux' = WithCopies(sent[m].from, m, taken)
  PROVE  MuxStep({m} \X Nat)
  <1> DEFINE s == [k \in DOMAIN taken |->
                    RequestFrom(m, taken[k], Key(sent[m].from), sent[m].it.to[taken[k]])]
  <1>1. PICK p \in Portals : p = sent[m].from
    BY DEF CallerInv
  <1>2. /\ s \in Seq(AtMux(p))
        /\ \A n \in Messages, i \in Nat :
              Apart(s, MeshCopy(n, i)) /\ (Held(s, MeshCopy(n, i)) => n = m)
    BY <1>1, CopiesMade
  <1>3. mux' = [mux EXCEPT ![p] = mux[p] \o s]
    BY <1>1 DEF WithCopies
  <1> HIDE DEF s
  <1>4. OverAll(Portals, mux) /\ mux[p] \in Seq(AtMux(p))
    BY <1>1 DEF PlacesInv, MuxInv
  <1>5. AtMux(p)' = AtMux(p)
    BY DEF AtMux, Named, Carried
  <1>6. mux[p] \o s \in Seq(AtMux(p))
    BY <1>2, <1>4, ConcatProperties, LenProperties
  <1>7. /\ OverAll(Portals, mux') /\ mux'[p] = mux[p] \o s
        /\ \A q \in Portals : q # p => mux'[q] = mux[q]
    BY <1>1, <1>3, <1>4, Zenon DEF OverAll
  <1>8. MuxInv'
    <2>1. \A q \in Portals : mux[q] \in Seq(AtMux(q)')
      BY OldPlaces
    <2>2. \A q \in Portals : mux'[q] \in Seq(AtMux(q)')
      BY <1>5, <1>6, <1>7, <2>1
    <2> QED
      BY <1>7, <2>2 DEF MuxInv
  <1>9. ASSUME NEW n \in Messages, NEW i \in Nat
        PROVE  OnceMux(n, i)' /\ (InMux(n, i)' => InMux(n, i) \/ n = m)
    <2>1. Apart(mux[p], MeshCopy(n, i)) /\ OnePlace(n, i) /\ OnceMux(n, i)
      BY <1>1, OldCopies DEF OnceMux, AllApart
    <2>2. ~(Held(mux[p], MeshCopy(n, i)) /\ Held(s, MeshCopy(n, i)))
      BY <1>1, <1>2, <2>1 DEF OnePlace, InMux, AnyHeld
    <2>3. /\ Held(mux[p] \o s, MeshCopy(n, i)) => Held(mux[p], MeshCopy(n, i)) \/ Held(s, MeshCopy(n, i))
          /\ Apart(mux[p] \o s, MeshCopy(n, i))
      BY <1>2, <1>4, <2>1, <2>2, HeldConcat
    <2>4. OnceMux(n, i)'
      BY <1>7, <2>1, <2>3 DEF OnceMux, AllApart
    <2>5. InMux(n, i)' => InMux(n, i) \/ n = m
      BY <1>1, <1>2, <1>7, <2>3 DEF InMux, AnyHeld
    <2> QED
      BY <2>4, <2>5
  <1> QED
    BY <1>8, <1>9 DEF MuxStep

\* The router's tasks: none does anything,
LEMMA RouterKept ==
  ASSUME PlacesInv, CopyInv, Grows, UNCHANGED tasks
  PROVE  RouterStep({})
  <1>1. RouterInv'
    BY OldPlaces DEF RouterInv
  <1> QED
    BY <1>1, OldCopies DEF RouterStep, OnceRouter, InRouter

\* one starts with a message that none has,
LEMMA RouterAdds ==
  ASSUME PlacesInv, CopyInv, Grows, NEW N, NEW t \in AtRouter', tasks' = tasks \cup {t},
         \A m \in Messages, i \in Nat :
           t.request \in MeshCopy(m, i) => ~InRouter(m, i) /\ <<m, i>> \in N
  PROVE  RouterStep(N)
  <1>1. RouterInv'
    BY OldPlaces DEF RouterInv
  <1>2. ASSUME NEW m \in Messages, NEW i \in Nat
        PROVE  OnceRouter(m, i)' /\ (InRouter(m, i)' => InRouter(m, i) \/ <<m, i>> \in N)
    <2>1. OnceRouter(m, i)
      BY OldCopies
    <2> QED
      BY <2>1 DEF OnceRouter, InRouter
  <1> QED
    BY <1>1, <1>2 DEF RouterStep

\* or one ends, and nobody has its message,
LEMMA RouterDrops ==
  ASSUME PlacesInv, CopyInv, Grows, NEW t \in tasks, tasks' = tasks \ {t}
  PROVE  /\ RouterStep({}) /\ t \in AtRouter
         /\ \A m \in Messages, i \in Nat :
              t.request \in MeshCopy(m, i) => InRouter(m, i) /\ ~InRouter(m, i)'
  <1>1. RouterInv' /\ t \in AtRouter
    BY OldPlaces DEF RouterInv, PlacesInv
  <1>2. ASSUME NEW m \in Messages, NEW i \in Nat
        PROVE  /\ OnceRouter(m, i)' /\ (InRouter(m, i)' => InRouter(m, i))
               /\ t.request \in MeshCopy(m, i) => InRouter(m, i) /\ ~InRouter(m, i)'
    <2>1. OnceRouter(m, i)
      BY OldCopies
    <2> QED
      BY <2>1 DEF OnceRouter, InRouter
  <1> QED
    BY <1>1, <1>2 DEF RouterStep

\* Tasks that take a step keep their requests.
LEMMA RouterGoesOn ==
  ASSUME PlacesInv, CopyInv, Grows, NEW f, tasks' = {f[t] : t \in tasks},
         \A t \in tasks : f[t] \in AtRouter' /\ f[t].request = t.request
  PROVE  RouterStep({})
  <1>1. RouterInv'
    BY DEF RouterInv
  <1>2. ASSUME NEW m \in Messages, NEW i \in Nat
        PROVE  OnceRouter(m, i)' /\ (InRouter(m, i)' => InRouter(m, i))
    <2>1. OnceRouter(m, i)
      BY OldCopies
    <2>2. ASSUME NEW u \in tasks', u.request \in MeshCopy(m, i)
          PROVE  \E t \in tasks : u = f[t] /\ t.request \in MeshCopy(m, i)
      BY <2>2
    <2>3. OnceRouter(m, i)'
      BY <2>1, <2>2 DEF OnceRouter
    <2>4. InRouter(m, i)' => InRouter(m, i)
      BY <2>2 DEF InRouter
    <2> QED
      BY <2>3, <2>4
  <1> QED
    BY <1>1, <1>2 DEF RouterStep

\* The mux channel of the host: nothing happens to it,
LEMMA MuxqKept ==
  ASSUME PlacesInv, CopyInv, Grows, UNCHANGED muxq
  PROVE  MuxqStep({})
  <1>1. MuxqInv'
    BY OldPlaces DEF MuxqInv
  <1> QED
    BY <1>1, OldCopies DEF MuxqStep, OnceMuxq, InMuxq

\* the host takes a call,
LEMMA MuxqTaken ==
  ASSUME PlacesInv, CopyInv, Grows, muxq # <<>>, muxq' = Tail(muxq)
  PROVE  /\ MuxqStep({}) /\ Head(muxq) \in AtMuxq
         /\ \A m \in Messages, i \in Nat :
              Head(muxq) \in CallCopy(m, i) => InMuxq(m, i) /\ ~InMuxq(m, i)'
  <1>1. muxq \in Seq(AtMuxq) /\ muxq \in Seq(AtMuxq')
    BY OldPlaces DEF PlacesInv, MuxqInv
  <1>2. Head(muxq) \in AtMuxq /\ Tail(muxq) \in Seq(AtMuxq')
    BY <1>1, HeadTailProperties, LenProperties
  <1>3. ASSUME NEW m \in Messages, NEW i \in Nat
        PROVE  /\ OnceMuxq(m, i)'
               /\ InMuxq(m, i)' => InMuxq(m, i) /\ Head(muxq) \notin CallCopy(m, i)
               /\ Head(muxq) \in CallCopy(m, i) => InMuxq(m, i)
    <2>1. Apart(muxq, CallCopy(m, i))
      BY OldCopies DEF OnceMuxq
    <2> QED
      BY <1>1, <2>1, HeldTail DEF OnceMuxq, InMuxq
  <1> QED
    BY <1>2, <1>3 DEF MuxqStep, MuxqInv

\* or a task of the router sends one that is not there yet.
LEMMA MuxqOffered ==
  ASSUME PlacesInv, CopyInv, Grows, NEW N, NEW x \in AtMuxq', muxq' \in Offered(muxq, x),
         \A m \in Messages, i \in Nat :
           x \in CallCopy(m, i) => ~InMuxq(m, i) /\ <<m, i>> \in N
  PROVE  MuxqStep(N)
  <1>1. muxq \in Seq(AtMuxq')
    BY OldPlaces
  <1>2. muxq' \in Seq(AtMuxq')
    BY <1>1, OfferedKeeps
  <1>3. ASSUME NEW m \in Messages, NEW i \in Nat
        PROVE  OnceMuxq(m, i)' /\ (InMuxq(m, i)' => InMuxq(m, i) \/ <<m, i>> \in N)
    <2>1. Apart(muxq, CallCopy(m, i))
      BY OldCopies DEF OnceMuxq
    <2>2. x \in CallCopy(m, i) => ~Held(muxq, CallCopy(m, i)) /\ <<m, i>> \in N
      BY DEF InMuxq
    <2> QED
      BY <1>1, <2>1, <2>2, OfferedOnce DEF OnceMuxq, InMuxq
  <1> QED
    BY <1>2, <1>3 DEF MuxqStep, MuxqInv

\* The channels to the clients: nothing happens to them,
LEMMA DownKept ==
  ASSUME PlacesInv, CopyInv, Grows, UNCHANGED down
  PROVE  DownStep({})
  <1>1. DownInv'
    BY OldPlaces DEF PlacesInv, DownInv
  <1> QED
    BY <1>1, OldCopies DEF DownStep, OnceDown, InDown

\* a client takes a frame,
LEMMA DownTaken ==
  ASSUME PlacesInv, CopyInv, Grows,
         NEW p \in Portals, down[p] # <<>>, down' = [down EXCEPT ![p] = Tail(down[p])]
  PROVE  /\ DownStep({}) /\ Head(down[p]) \in AtDown(p)
         /\ \A m \in Messages, i \in Nat :
              Head(down[p]) \in OutletCopy(m, i) => InDown(m, i) /\ ~InDown(m, i)'
  <1>1. OverAll(Portals, down) /\ down[p] \in Seq(AtDown(p)) /\ down[p] \in Seq(AtDown(p)')
    BY OldPlaces DEF PlacesInv, DownInv
  <1>2. Head(down[p]) \in AtDown(p) /\ Tail(down[p]) \in Seq(AtDown(p)')
    BY <1>1, HeadTailProperties, LenProperties
  <1>3. DownInv'
    <2>1. /\ OverAll(Portals, down') /\ down'[p] = Tail(down[p])
          /\ \A q \in Portals : q # p => down'[q] = down[q]
      BY <1>1 DEF OverAll
    <2> QED
      BY <1>2, <2>1, OldPlaces DEF DownInv
  <1>4. ASSUME NEW m \in Messages, NEW i \in Nat
        PROVE  /\ OnceDown(m, i)'
               /\ InDown(m, i)' => InDown(m, i) /\ Head(down[p]) \notin OutletCopy(m, i)
               /\ Head(down[p]) \in OutletCopy(m, i) => InDown(m, i)
    <2>1. AllApart(Portals, down, OutletCopy(m, i))
      BY OldCopies DEF OnceDown
    <2>2. \A q \in Portals : Held(down[p], OutletCopy(m, i)) /\ Held(down[q], OutletCopy(m, i)) => q = p
      BY OneQueue, NamesOne
    <2>3. PICK f, g, R, T : f = down /\ g = down' /\ R = OutletCopy(m, i) /\ T = AtDown(p)
      OBVIOUS
    <2>4. /\ OverAll(Portals, f) /\ f[p] \in Seq(T) /\ f[p] # <<>>
          /\ g = [f EXCEPT ![p] = Tail(f[p])] /\ AllApart(Portals, f, R)
          /\ \A q \in Portals : Held(f[p], R) /\ Held(f[q], R) => q = p
      BY <1>1, <2>1, <2>2, <2>3
    <2>5. /\ AllApart(Portals, g, R)
          /\ AnyHeld(Portals, g, R) => AnyHeld(Portals, f, R) /\ Head(f[p]) \notin R
          /\ Head(f[p]) \in R => AnyHeld(Portals, f, R)
      BY <2>4, TakenAt, Zenon
    <2> QED
      BY <2>3, <2>5 DEF OnceDown, InDown
  <1> QED
    BY <1>2, <1>3, <1>4 DEF DownStep

\* or one is offered a frame that none has.
LEMMA DownOffered ==
  ASSUME PlacesInv, CopyInv, Grows, NEW N,
         NEW p \in Portals, NEW x \in AtDown(p)', NEW q \in Offered(down[p], x),
         down' = [down EXCEPT ![p] = q],
         \A m \in Messages, i \in Nat :
           x \in OutletCopy(m, i) => ~InDown(m, i) /\ <<m, i>> \in N
  PROVE  DownStep(N)
  <1>1. OverAll(Portals, down) /\ down[p] \in Seq(AtDown(p)')
    BY OldPlaces DEF PlacesInv, DownInv
  <1>2. q \in Seq(AtDown(p)')
    BY <1>1, OfferedKeeps
  <1>3. DownInv'
    <2>1. /\ OverAll(Portals, down') /\ down'[p] = q
          /\ \A r \in Portals : r # p => down'[r] = down[r]
      BY <1>1 DEF OverAll
    <2> QED
      BY <1>2, <2>1, OldPlaces DEF DownInv
  <1>4. ASSUME NEW m \in Messages, NEW i \in Nat
        PROVE  OnceDown(m, i)' /\ (InDown(m, i)' => InDown(m, i) \/ <<m, i>> \in N)
    <2>1. AllApart(Portals, down, OutletCopy(m, i))
      BY OldCopies DEF OnceDown
    <2>2. x \in OutletCopy(m, i) => ~AnyHeld(Portals, down, OutletCopy(m, i)) /\ <<m, i>> \in N
      BY DEF InDown
    <2> QED
      BY <1>1, <2>1, <2>2, OfferedAt DEF OnceDown, InDown
  <1> QED
    BY <1>3, <1>4 DEF DownStep

\* The tasks of receive() only end.
LEMMA ClientsKept ==
  ASSUME PlacesInv, CopyInv, Grows, UNCHANGED delivered, handling' \subseteq handling
  PROVE  ClientsStep({})
  <1>1. ClientsInv'
    BY OldPlaces DEF PlacesInv, ClientsInv
  <1> QED
    BY <1>1, OldCopies DEF ClientsStep, OnceReceived, Received

\* A client receives a request that it has not received before.
LEMMA ClientsReceive ==
  ASSUME PlacesInv, CopyInv, Grows, NEW N, NEW h, h.request.id \in Messages,
         h \in AtClient(h.request.id)', handling' = handling \cup {h},
         delivered' = [delivered EXCEPT ![h.request.id] = Append(delivered[h.request.id], h)],
         \A m \in Messages, i \in Nat :
           h \in ClientCopy(m, i) => ~Received(m, i) /\ <<m, i>> \in N
  PROVE  ClientsStep(N)
  <1>1. PICK n \in Messages : n = h.request.id
    OBVIOUS
  <1>2. /\ OverAll(Messages, delivered) /\ \A m \in Messages : delivered[m] \in Seq(AtClient(m)')
        /\ \A g \in handling : g \in Handling /\ Held(delivered[g.request.id], {g})
    BY OldPlaces DEF PlacesInv, ClientsInv
  <1>3. /\ OverAll(Messages, delivered') /\ delivered'[n] = Append(delivered[n], h)
        /\ \A m \in Messages : m # n => delivered'[m] = delivered[m]
    BY <1>1, <1>2 DEF OverAll
  <1>4. h \in AtClient(n)' /\ h \in Handling
    BY <1>1 DEF AtClient
  <1>5. \A m \in Messages : delivered'[m] \in Seq(AtClient(m)')
    BY <1>2, <1>3, <1>4, AppendProperties, LenProperties
  <1>6. /\ Len(delivered[n]) \in Nat /\ Len(delivered'[n]) = Len(delivered[n]) + 1
        /\ delivered'[n][Len(delivered[n]) + 1] = h
        /\ \A k \in 1..Len(delivered[n]) : delivered'[n][k] = delivered[n][k]
    BY <1>2, <1>3, <1>4, AppendProperties, LenProperties
  <1>7. ASSUME NEW g \in handling'
        PROVE  g \in Handling /\ Held(delivered'[g.request.id], {g})
    <2>1. CASE g = h
      BY <1>1, <1>4, <1>6, <2>1 DEF Held
    <2>2. CASE g \in handling
      <3>1. g \in Handling /\ Held(delivered[g.request.id], {g}) /\ g.request.id \in Messages
        BY <1>2, <2>2 DEF Handling, OutletRequest
      <3>2. CASE g.request.id = n
        BY <1>6, <3>1, <3>2 DEF Held
      <3>3. CASE g.request.id # n
        BY <1>3, <3>1, <3>3
      <3> QED
        BY <3>1, <3>2, <3>3
    <2> QED
      BY <2>1, <2>2
  <1>8. ClientsInv'
    BY <1>3, <1>5, <1>7 DEF ClientsInv
  <1>9. ASSUME NEW m \in Messages, NEW i \in Nat
        PROVE  OnceReceived(m, i)' /\ (Received(m, i)' => Received(m, i) \/ <<m, i>> \in N)
    <2>1. Apart(delivered[m], ClientCopy(m, i))
      BY OldCopies DEF OnceReceived
    <2>2. CASE m = n
      BY <1>2, <1>3, <1>4, <2>1, <2>2, HeldAppend DEF OnceReceived, Received
    <2>3. CASE m # n
      BY <1>3, <2>1, <2>3 DEF OnceReceived, Received
    <2> QED
      BY <2>2, <2>3
  <1> QED
    BY <1>8, <1>9 DEF ClientsStep

-----------------------------------------------------------------------------
(* What was asked, answered and responded. *)

\* A caller that does nothing keeps what it has.
LEMMA CallerKept ==
  ASSUME CallerInv, Grows, UNCHANGED <<sent, call, answer>>
  PROVE  CallerInv'
  <1>1. ASSUME NEW m \in Messages, call[m] = "answered"
        PROVE  Answers(answer[m])'
    <2>1. PICK x : x = answer[m]
      OBVIOUS
    <2>2. x.id = m /\ Answers(x) /\ x = answer'[m]
      BY <1>1, <2>1 DEF CallerInv
    <2>3. Answers(x)'
      BY <2>2, AnswersGrows
    <2> QED
      BY <2>2, <2>3
  <1> QED
    BY <1>1 DEF CallerInv

\* A request that has its response has it still, and is still nowhere.
LEMMA StaysSettled ==
  ASSUME ResponseInv, Grows, UNCHANGED responded, NEW U,
         \A m \in Messages, i \in Nat : Somewhere(m, i)' => Somewhere(m, i) \/ m \in U,
         \A m \in Messages : m \in U => sent[m] = None,
         \A h \in handling' : \/ h \in handling
                             \/ (h.request.id \in Messages /\ \E i \in Nat : Somewhere(h.request.id, i))
  PROVE  ResponseInv'
  <1>1. ASSUME NEW m \in Messages, responded[m] # <<>>
        PROVE  Settled(m)' /\ sent'[m] = sent[m]
    <2>1. Settled(m) /\ sent[m] # None
      BY <1>1 DEF ResponseInv
    <2>2. sent'[m] = sent[m] /\ m \notin U
      BY <2>1 DEF Grows
    <2>3. \A i \in Nat : ~Somewhere(m, i)'
      BY <2>1, <2>2 DEF Settled
    <2>4. \A h \in handling' : h.request.id # m
      BY <2>1 DEF Settled
    <2> QED
      BY <2>2, <2>3, <2>4 DEF Settled
  <1> QED
    BY <1>1 DEF ResponseInv

\* The same, when nothing is asked.
LEMMA RemainsSettled ==
  ASSUME ResponseInv, Grows, UNCHANGED responded,
         \A m \in Messages, i \in Nat : Somewhere(m, i)' => Somewhere(m, i),
         \A h \in handling' : \/ h \in handling
                             \/ (h.request.id \in Messages /\ \E i \in Nat : Somewhere(h.request.id, i))
  PROVE  ResponseInv'
  <1>1. PICK U : U = {}
    OBVIOUS
  <1>2. \A m \in Messages : m \notin U
    BY <1>1
  <1>3. \A m \in Messages : m \in U => sent[m] = None
    BY <1>2
  <1>4. \A m \in Messages, i \in Nat : Somewhere(m, i)' => Somewhere(m, i) \/ m \in U
    OBVIOUS
  <1> QED
    BY <1>3, <1>4, StaysSettled

\* A request that is not settled has no response; it gets this one.
LEMMA RespondsOnce ==
  ASSUME ResponseInv, NEW x \in MadeResponse, ~Settled(x.id), Responds(x), UNCHANGED sent
  PROVE  /\ responded[x.id] = <<>> /\ responded'[x.id] = <<x>>
         /\ \A m \in Messages : m # x.id => responded'[m] = responded[m]
         /\ responded' \in [Messages -> Seq(MadeResponse)]
         /\ Grows
  <1>1. x.id \in Messages
    BY DEF MadeResponse
  <1>2. responded[x.id] = <<>>
    BY <1>1 DEF ResponseInv
  <1>3. Append(<<>>, x) = <<x>> /\ <<x>> \in Seq(MadeResponse)
    OBVIOUS
  <1>4. /\ responded'[x.id] = <<x>>
        /\ \A m \in Messages : m # x.id => responded'[m] = responded[m]
        /\ responded' \in [Messages -> Seq(MadeResponse)]
    BY <1>1, <1>2, <1>3 DEF ResponseInv, Responds
  <1> QED
    BY <1>2, <1>4 DEF Grows

\* A request that gets its response where it was the last time settles.
LEMMA Settles ==
  ASSUME ResponseInv, NEW x \in MadeResponse, ~Settled(x.id), Responds(x), UNCHANGED sent,
         sent[x.id] # None, sent[x.id].it.kind = "RequestResponse",
         \A m \in Messages, i \in Nat : Somewhere(m, i)' => Somewhere(m, i),
         \A i \in Nat : ~Somewhere(x.id, i)',
         \A h \in handling' : h \in handling /\ h.request.id # x.id
  PROVE  ResponseInv'
  <1>1. /\ responded'[x.id] = <<x>>
        /\ \A m \in Messages : m # x.id => responded'[m] = responded[m]
        /\ responded' \in [Messages -> Seq(MadeResponse)]
    BY RespondsOnce
  <1>2. Len(<<x>>) = 1 /\ <<x>>[1] = x
    OBVIOUS
  <1>3. ASSUME NEW m \in Messages, responded'[m] # <<>>
        PROVE  /\ Len(responded'[m]) = 1 /\ responded'[m][1].id = m
               /\ sent'[m] # None /\ sent'[m].it.kind = "RequestResponse"
               /\ Settled(m)'
    <2>1. CASE m = x.id
      BY <1>1, <1>2, <2>1 DEF Settled
    <2>2. CASE m # x.id
      <3>1. responded'[m] = responded[m] /\ responded[m] # <<>>
        BY <1>1, <1>3, <2>2
      <3>2. /\ Len(responded[m]) = 1 /\ responded[m][1].id = m
            /\ sent[m] # None /\ sent[m].it.kind = "RequestResponse" /\ Settled(m)
        BY <3>1 DEF ResponseInv
      <3>3. Settled(m)'
        BY <3>2 DEF Settled
      <3> QED
        BY <3>1, <3>2, <3>3
    <2> QED
      BY <2>1, <2>2
  <1> QED
    BY <1>1, <1>3 DEF ResponseInv

-----------------------------------------------------------------------------
(* The steps of a client. *)

\* Before it is asked, a request is nowhere.
LEMMA NotYet ==
  ASSUME PlacesInv, NEW m \in Messages, sent[m] = None, NEW i \in Nat
  PROVE  ~InUp(m) /\ ~Somewhere(m, i) /\ ~Received(m, i)
  <1>1. ~InUp(m)
    BY OneQueue DEF InUp, AnyHeld
  <1> QED
    BY <1>1, CopiesExist DEF Somewhere

\* A request that is asked is nowhere yet.
LEMMA AskStep ==
  ASSUME MeshInv, NEW p \in Portals, NEW m \in Messages, NEW request \in Asked, Ask(p, m, request)
  PROVE  MeshInv'
  <1> USE DEF MeshInv
  <1> DEFINE x == [type |-> "Request", id |-> m]
             s == [from |-> p, it |-> request]
  <1>1. /\ sent[m] = None /\ sent' = [sent EXCEPT ![m] = s]
        /\ call' = [call EXCEPT ![m] =
                     IF request.kind = "RequestResponse" THEN "waiting" ELSE "notified"]
        /\ UNCHANGED <<answer, handling, delivered, mux, tasks, muxq, down, responded>>
    BY DEF Ask, hostVars
  <1>2. PICK q \in Offered(up[p], x) : up' = [up EXCEPT ![p] = q]
    BY DEF Ask
  <1>3. s \in [from : Portals, it : Asked] /\ s # None
    BY ConstantsAssumption
  <1>4. /\ sent' \in [Messages -> [from : Portals, it : Asked] \cup {None}]
        /\ sent'[m] = s /\ \A n \in Messages : n # m => sent'[n] = sent[n]
    BY <1>1, <1>3 DEF CallerInv
  <1>5. Grows
    BY <1>1, <1>4 DEF Grows
  <1>6. x \in AtUp(p)'
    BY <1>3, <1>4 DEF AtUp, InletFrame
  <1>7. \A n \in Messages : x \in InletCopy(n) => n = m
    BY DEF InletCopy
  <1> HIDE DEF x, s
  <1>8. \A i \in Nat : ~InUp(m) /\ ~Somewhere(m, i) /\ ~Received(m, i)
    BY <1>1, NotYet
  <1>9. ~InUp(m)
    BY <1>8, 0 \in Nat
  <1>10. UpStep({m})
    BY <1>2, <1>5, <1>6, <1>7, <1>9, UpOffered
  <1>11. MuxStep({}) /\ RouterStep({}) /\ MuxqStep({}) /\ DownStep({}) /\ ClientsStep({})
    BY <1>1, <1>5, MuxKept, RouterKept, MuxqKept, DownKept, ClientsKept
  <1>12. /\ PlacesInv' /\ CopyInv'
         /\ \A n \in Messages, i \in Nat : Somewhere(n, i)' => Somewhere(n, i) \/ n \in {m}
    BY <1>8, <1>10, <1>11, CopiesMove
  <1>13. ResponseInv'
    <2>1. \A n \in Messages : n \in {m} => sent[n] = None
      BY <1>1
    <2> QED
      BY <1>1, <1>5, <1>12, <2>1, StaysSettled
  <1>14. CallerInv'
    <2>1. \A n \in Messages : n # m => call'[n] = call[n]
      BY <1>1 DEF CallerInv
    <2>2. call'[m] \in {"waiting", "notified"}
          /\ call' \in [Messages -> {"idle", "notified", "waiting", "answered", "timedout"}]
      BY <1>1 DEF CallerInv
    <2>3. ASSUME NEW n \in Messages, call'[n] = "answered"
          PROVE  answer'[n] # None /\ answer'[n].id = n /\ Answers(answer[n])'
      <3>1. n # m /\ call[n] = "answered"
        BY <2>1, <2>2, <2>3
      <3>2. answer[n] # None /\ answer[n].id = n /\ Answers(answer[n])
        BY <3>1 DEF CallerInv
      <3>3. Answers(answer[n])' <=> Answers(answer[n])
        BY <1>1, <1>4, <3>1, <3>2 DEF Answers, FitsRequest
      <3> QED
        BY <1>1, <3>2, <3>3
    <2>4. ASSUME NEW n \in Messages
          PROVE  sent'[n] = None <=> call'[n] = "idle"
      BY <1>3, <1>4, <2>1, <2>2 DEF CallerInv
    <2>5. answer' \in [Messages -> OutletResponse \cup {None}]
      BY <1>1 DEF CallerInv
    <2> QED
      BY <1>4, <2>2, <2>3, <2>4, <2>5 DEF CallerInv
  <1> QED
    BY <1>12, <1>13, <1>14

\* A caller that gives up leaves everything else as it is.
LEMMA TimesOutStep ==
  ASSUME MeshInv, NEW m \in Messages, TimesOut(m)
  PROVE  MeshInv'
  <1> USE DEF MeshInv
  <1>1. /\ call[m] = "waiting" /\ call' = [call EXCEPT ![m] = "timedout"]
        /\ UNCHANGED <<sent, answer, handling, delivered, up, mux, tasks, muxq, down, responded>>
    BY DEF TimesOut, hostVars
  <1>2. Grows
    BY <1>1 DEF Grows
  <1>3. /\ UpStep({}) /\ MuxStep({}) /\ RouterStep({}) /\ MuxqStep({}) /\ DownStep({})
        /\ ClientsStep({})
    BY <1>1, <1>2, UpKept, MuxKept, RouterKept, MuxqKept, DownKept, ClientsKept
  <1>4. /\ PlacesInv' /\ CopyInv'
        /\ \A n \in Messages, i \in Nat : Somewhere(n, i)' => Somewhere(n, i)
    BY <1>3, CopiesGoOn
  <1>5. ResponseInv'
    BY <1>1, <1>2, <1>4, RemainsSettled
  <1>6. CallerInv'
    <2>1. /\ call' \in [Messages -> {"idle", "notified", "waiting", "answered", "timedout"}]
          /\ call'[m] = "timedout" /\ \A n \in Messages : n # m => call'[n] = call[n]
      BY <1>1 DEF CallerInv
    <2>2. \A n \in Messages : Answers(answer[n])' <=> Answers(answer[n])
      BY <1>1 DEF Answers, FitsRequest
    <2> QED
      BY <1>1, <2>1, <2>2 DEF CallerInv
  <1> QED
    BY <1>4, <1>5, <1>6

\* A frame that is ignored is lost.
LEMMA IgnoreStep ==
  ASSUME MeshInv, NEW p \in Portals, Ignore(p)
  PROVE  MeshInv'
  <1> USE DEF MeshInv
  <1>1. /\ down[p] # <<>> /\ down' = [down EXCEPT ![p] = Tail(down[p])]
        /\ UNCHANGED <<sent, call, answer, handling, delivered, up, mux, tasks, muxq, responded>>
    BY DEF Ignore, clientVars, hostVars
  <1>2. Grows
    BY <1>1 DEF Grows
  <1>3. UpStep({}) /\ MuxStep({}) /\ RouterStep({}) /\ MuxqStep({}) /\ ClientsStep({})
    BY <1>1, <1>2, UpKept, MuxKept, RouterKept, MuxqKept, ClientsKept
  <1>4. DownStep({})
    BY <1>1, <1>2, DownTaken
  <1>5. /\ PlacesInv' /\ CopyInv'
        /\ \A n \in Messages, i \in Nat : Somewhere(n, i)' => Somewhere(n, i)
    BY <1>3, <1>4, CopiesGoOn
  <1>6. ResponseInv'
    BY <1>1, <1>2, <1>5, RemainsSettled
  <1>7. CallerInv'
    BY <1>1, <1>2, CallerKept
  <1> QED
    BY <1>5, <1>6, <1>7

\* A request leaves the channel and is received, by the portal it was for.
LEMMA ReceiveRequestStep ==
  ASSUME MeshInv, NEW p \in Portals, ReceiveRequest(p)
  PROVE  MeshInv'
  <1> USE DEF MeshInv
  <1> DEFINE r == Head(down[p])
             h == [at |-> p, request |-> r]
  <1>1. /\ down[p] # <<>> /\ down' = [down EXCEPT ![p] = Tail(down[p])]
        /\ r.type = "Request" /\ handling' = handling \cup {h}
        /\ delivered' = [delivered EXCEPT ![h.request.id] = Append(delivered[h.request.id], h)]
        /\ UNCHANGED <<sent, call, answer, up, mux, tasks, muxq, responded>>
    BY DEF ReceiveRequest, hostVars
  <1>2. Grows
    BY <1>1 DEF Grows
  <1>3. UpStep({}) /\ MuxStep({}) /\ RouterStep({}) /\ MuxqStep({})
    BY <1>1, <1>2, UpKept, MuxKept, RouterKept, MuxqKept
  <1>4. /\ DownStep({}) /\ r \in AtDown(p)
        /\ \A m \in Messages, i \in Nat :
             r \in OutletCopy(m, i) => InDown(m, i) /\ ~InDown(m, i)'
    BY <1>1, <1>2, DownTaken
  <1>5. h.at = p /\ h.request = r
    OBVIOUS
  <1>6. r \in OutletRequest /\ ForPortal(r, p)
    BY <1>1, <1>4 DEF AtDown, Outgoing, OutletResponse
  <1>7. h \in Handling
    BY <1>6 DEF Handling
  <1> HIDE DEF r, h
  <1>8. r.id \in Messages /\ r.i \in Nat /\ r \in OutletCopy(r.id, r.i)
    BY <1>6 DEF OutletCopy, OutletRequest
  <1>9. h \in AtClient(r.id)
    BY <1>5, <1>6, <1>7 DEF AtClient
  <1>10. PICK n \in Messages, j \in Nat : n = r.id /\ j = r.i
    BY <1>8
  <1>11. h \in AtClient(n)'
    BY <1>2, <1>9, <1>10, PlacesGrow
  <1>12. \A m \in Messages, i \in Nat :
           h \in ClientCopy(m, i) => m = n /\ i = j /\ r \in OutletCopy(m, i)
    BY <1>5, <1>10 DEF ClientCopy, OutletCopy
  <1>13. ASSUME NEW m \in Messages, NEW i \in Nat, h \in ClientCopy(m, i)
         PROVE  ~Received(m, i) /\ <<m, i>> \in {<<n, j>>}
    BY <1>4, <1>12, <1>13, OldCopies DEF OnePlace
  <1>14. ClientsStep({<<n, j>>})
    <2>1. PICK g : g = h
      OBVIOUS
    <2>2. g.request.id = n
      BY <1>5, <1>10, <2>1
    <2>3. g \in AtClient(g.request.id)'
      BY <1>11, <2>1, <2>2
    <2> QED
      BY <1>1, <1>2, <1>13, <2>1, <2>2, <2>3, ClientsReceive
  <1>15. \A m \in Messages, i \in Nat :
           <<m, i>> \in {<<n, j>>} => InDown(m, i) /\ ~InDown(m, i)'
    BY <1>4, <1>8, <1>10
  <1>16. /\ PlacesInv' /\ CopyInv'
         /\ \A m \in Messages, i \in Nat : Somewhere(m, i)' => Somewhere(m, i)
    BY <1>3, <1>4, <1>14, <1>15, CopiesGoOn
  <1>17. Somewhere(n, j)
    BY <1>15 DEF Somewhere
  <1>18. ResponseInv'
    <2>1. \A g \in handling' :
            g \in handling \/ (g.request.id \in Messages /\ \E i \in Nat : Somewhere(g.request.id, i))
      BY <1>1, <1>5, <1>8, <1>10, <1>17
    <2> QED
      BY <1>1, <1>2, <1>16, <2>1, RemainsSettled
  <1>19. CallerInv'
    BY <1>1, <1>2, CallerKept
  <1> QED
    BY <1>16, <1>18, <1>19

\* The answer of an exchange is the response that was made to it.
LEMMA ReceiveResponseStep ==
  ASSUME MeshInv, NEW p \in Portals, ReceiveResponse(p)
  PROVE  MeshInv'
  <1> USE DEF MeshInv
  <1> DEFINE x == Head(down[p])
  <1>1. /\ down[p] # <<>> /\ down' = [down EXCEPT ![p] = Tail(down[p])]
        /\ x.type = "Response"
        /\ UNCHANGED <<sent, handling, delivered, up, mux, tasks, muxq, responded>>
    BY DEF ReceiveResponse, hostVars
  <1>2. \/ /\ call[x.id] = "waiting"
           /\ call' = [call EXCEPT ![x.id] = "answered"] /\ answer' = [answer EXCEPT ![x.id] = x]
        \/ UNCHANGED <<call, answer>>
    BY DEF ReceiveResponse
  <1>3. Grows
    BY <1>1 DEF Grows
  <1>4. UpStep({}) /\ MuxStep({}) /\ RouterStep({}) /\ MuxqStep({}) /\ ClientsStep({})
    BY <1>1, <1>3, UpKept, MuxKept, RouterKept, MuxqKept, ClientsKept
  <1>5. DownStep({}) /\ x \in AtDown(p)
    BY <1>1, <1>3, DownTaken
  <1>6. /\ PlacesInv' /\ CopyInv'
        /\ \A n \in Messages, i \in Nat : Somewhere(n, i)' => Somewhere(n, i)
    BY <1>4, <1>5, CopiesGoOn
  <1>7. ResponseInv'
    BY <1>1, <1>3, <1>6, RemainsSettled
  <1>8. x \in OutletResponse /\ Answers(x) /\ x # None /\ x.id \in Messages
    BY <1>1, <1>5, ConstantsAssumption DEF AtDown, Outgoing, OutletRequest, OutletResponse
  <1> HIDE DEF x
  <1>9. CallerInv'
    <2>1. CASE UNCHANGED <<call, answer>>
      BY <1>1, <1>3, <2>1, CallerKept
    <2>2. CASE /\ call[x.id] = "waiting"
               /\ call' = [call EXCEPT ![x.id] = "answered"] /\ answer' = [answer EXCEPT ![x.id] = x]
      <3>1. PICK m \in Messages : m = x.id
        BY <1>8
      <3>2. /\ call' \in [Messages -> {"idle", "notified", "waiting", "answered", "timedout"}]
            /\ call'[m] = "answered" /\ \A n \in Messages : n # m => call'[n] = call[n]
            /\ call[m] = "waiting"
        BY <2>2, <3>1 DEF CallerInv
      <3>3. /\ answer' \in [Messages -> OutletResponse \cup {None}]
            /\ answer'[m] = x /\ \A n \in Messages : n # m => answer'[n] = answer[n]
        BY <1>8, <2>2, <3>1 DEF CallerInv
      <3>4. ASSUME NEW n \in Messages, call'[n] = "answered"
            PROVE  answer'[n] # None /\ answer'[n].id = n /\ Answers(answer[n])'
        <4>1. PICK y : y = answer'[n]
          OBVIOUS
        <4>2. y # None /\ y.id = n /\ Answers(y)
          BY <1>8, <3>1, <3>2, <3>3, <3>4, <4>1 DEF CallerInv
        <4>3. Answers(y)'
          BY <1>1, <4>2 DEF Answers, FitsRequest
        <4> QED
          BY <4>1, <4>2, <4>3
      <3> QED
        BY <1>1, <3>2, <3>3, <3>4 DEF CallerInv
    <2> QED
      BY <1>2, <2>1, <2>2
  <1> QED
    BY <1>6, <1>7, <1>9

\* A task of receive() has a request that its client received; no two have one.
LEMMA HandlingIs ==
  ASSUME PlacesInv, NEW h \in handling
  PROVE  /\ h \in AtClient(h.request.id) /\ h.request.id \in Messages /\ h.request.i \in Nat
         /\ \A m \in Messages, i \in Nat : h \in ClientCopy(m, i) => Received(m, i)
         /\ h \in ClientCopy(h.request.id, h.request.i)
  <1>1. h \in Handling /\ Held(delivered[h.request.id], {h})
    BY DEF PlacesInv, ClientsInv
  <1>2. h.request.id \in Messages /\ h.request.i \in Nat
    BY <1>1 DEF Handling, OutletRequest
  <1>3. PICK k \in 1..Len(delivered[h.request.id]) : delivered[h.request.id][k] = h
    BY <1>1 DEF Held
  <1>4. h \in AtClient(h.request.id)
    BY <1>2, <1>3 DEF PlacesInv, ClientsInv
  <1>5. ASSUME NEW m \in Messages, NEW i \in Nat, h \in ClientCopy(m, i)
        PROVE  Received(m, i)
    <2>1. h.request.id = m
      BY <1>5 DEF ClientCopy, OutletCopy
    <2> QED
      BY <1>3, <1>5, <2>1 DEF Received, Held
  <1> QED
    BY <1>1, <1>2, <1>4, <1>5 DEF ClientCopy, OutletCopy, Handling

\* No two tasks have the same copy.
LEMMA HandlingApart ==
  ASSUME PlacesInv, CopyInv, NEW m \in Messages, NEW i \in Nat,
         NEW g \in handling, NEW h \in handling, g \in ClientCopy(m, i), h \in ClientCopy(m, i)
  PROVE  g = h
  <1>1. Apart(delivered[m], ClientCopy(m, i))
    BY OldCopies DEF OnceReceived
  <1>2. g.request.id = m /\ h.request.id = m
    BY DEF ClientCopy, OutletCopy
  <1>3. Held(delivered[m], {g}) /\ Held(delivered[m], {h})
    BY <1>2 DEF PlacesInv, ClientsInv
  <1>4. PICK j \in 1..Len(delivered[m]) : delivered[m][j] = g
    BY <1>3 DEF Held
  <1>5. PICK k \in 1..Len(delivered[m]) : delivered[m][k] = h
    BY <1>3 DEF Held
  <1>6. j = k
    BY <1>1, <1>4, <1>5 DEF Apart
  <1> QED
    BY <1>4, <1>5, <1>6

\* A request with one recipient has one copy.
LEMMA NoOtherCopy ==
  ASSUME PlacesInv, CallerInv, NEW m \in Messages, sent[m] # None, Len(sent[m].it.to) = 1,
         NEW i \in DOMAIN sent[m].it.to, NEW j \in Nat
  PROVE  /\ i = 1 /\ i \in Nat
         /\ Somewhere(m, j) => Somewhere(m, i) /\ (InUp(m) \/ j = i)
         /\ Received(m, j) => j = i
  <1>1. sent[m].it.to \in Seq(Identifier)
    BY ConstantsAssumption DEF CallerInv, InletRequest
  <1>2. DOMAIN sent[m].it.to = 1..1
    BY <1>1
  <1>3. i = 1
    BY <1>2
  <1>4. j \in DOMAIN sent[m].it.to => j = i
    BY <1>2, <1>3
  <1> QED
    BY <1>3, <1>4, CopiesExist DEF Somewhere

\* The task that responds has the only copy of the request, so that its response is
\* the first and the last.
LEMMA HandleStep ==
  ASSUME MeshInv, NEW h \in handling, Handle(h)
  PROVE  MeshInv'
  <1> USE DEF MeshInv
  <1>1. /\ handling' = handling \ {h}
        /\ UNCHANGED <<sent, call, answer, delivered, mux, tasks, muxq, down>>
    BY DEF Handle, hostVars
  <1>2. CASE UNCHANGED <<up, responded>>
    <2>1. Grows
      BY <1>1, <1>2 DEF Grows
    <2>2. /\ UpStep({}) /\ MuxStep({}) /\ RouterStep({}) /\ MuxqStep({}) /\ DownStep({})
          /\ ClientsStep({})
      BY <1>1, <1>2, <2>1, UpKept, MuxKept, RouterKept, MuxqKept, DownKept, ClientsKept
    <2>3. /\ PlacesInv' /\ CopyInv'
          /\ \A m \in Messages, i \in Nat : Somewhere(m, i)' => Somewhere(m, i)
      BY <2>2, CopiesGoOn
    <2>4. ResponseInv'
      BY <1>1, <1>2, <2>1, <2>3, RemainsSettled
    <2>5. CallerInv'
      BY <1>1, <2>1, CallerKept
    <2> QED
      BY <2>3, <2>4, <2>5
  <1>3. ASSUME h.request.kind = "RequestResponse", NEW signal \in {"Reply", "Error"},
               Responds([from |-> Key(h.at), id |-> h.request.id, signal |-> signal]),
               NEW q \in Offered(up[h.at], [type |-> "Response", to |-> h.request.from,
                                           id |-> h.request.id, signal |-> signal]),
               up' = [up EXCEPT ![h.at] = q]
        PROVE  MeshInv'
    <2> DEFINE x == [from |-> Key(h.at), id |-> h.request.id, signal |-> signal]
               f == [type |-> "Response", to |-> h.request.from,
                     id |-> h.request.id, signal |-> signal]
    <2>1. PICK m \in Messages, i \in Nat : m = h.request.id /\ i = h.request.i
      BY HandlingIs
    <2>2. h \in AtClient(m) /\ h \in ClientCopy(m, i) /\ Received(m, i)
      BY <2>1, HandlingIs
    <2>3. /\ h.at \in Portals /\ h.request.from \in Identifier
          /\ sent[m] # None /\ i \in DOMAIN sent[m].it.to
          /\ sent[m].it.kind = "RequestResponse" /\ Len(sent[m].it.to) = 1
      BY <1>3, <2>1, <2>2 DEF AtClient, Handling, OutletRequest, ForPortal, Carried
    <2>4. x \in MadeResponse /\ x.id = m
      BY <2>1, <2>3 DEF MadeResponse, Identifier, Signal
    <2>5. f \in InletFrame /\ f.type = "Response"
      BY <2>1, <2>3 DEF InletFrame, Signal
    <2>6. Responds(x) /\ q \in Offered(up[h.at], f)
      BY <1>3
    <2> HIDE DEF x, f
    <2>7. ~Settled(m)
      BY <2>1 DEF Settled
    <2>8. Grows
      BY <1>1, <2>4, <2>6, <2>7, RespondsOnce
    <2>9. UpStep({})
      <3>1. f \in AtUp(h.at)' /\ \A n \in Messages : f \notin InletCopy(n)
        BY <2>5 DEF AtUp, InletCopy
      <3>2. PICK p \in Portals : p = h.at
        BY <2>3
      <3>3. f \in AtUp(p)'
        BY <2>5 DEF AtUp
      <3> QED
        BY <1>3, <2>6, <2>8, <3>1, <3>2, <3>3, UpOffered
    <2>10. MuxStep({}) /\ RouterStep({}) /\ MuxqStep({}) /\ DownStep({}) /\ ClientsStep({})
      BY <1>1, <2>8, MuxKept, RouterKept, MuxqKept, DownKept, ClientsKept
    <2>11. /\ PlacesInv' /\ CopyInv'
           /\ \A n \in Messages, j \in Nat : Somewhere(n, j)' => Somewhere(n, j)
      BY <2>9, <2>10, CopiesGoOn
    <2>12. \A j \in Nat : ~Somewhere(m, j)'
      <3>1. ~Somewhere(m, i)
        BY <2>2, OldCopies DEF OnePlace, Somewhere
      <3> QED
        BY <2>3, <2>11, <3>1, NoOtherCopy
    <2>13. ASSUME NEW g \in handling', g.request.id = m
           PROVE  FALSE
      <3>1. g \in handling /\ g # h
        BY <1>1
      <3>2. PICK j \in Nat : g \in ClientCopy(m, j) /\ Received(m, j)
        BY <2>13, <3>1, HandlingIs
      <3>3. j = i
        BY <2>3, <3>2, NoOtherCopy
      <3> QED
        BY <2>2, <3>1, <3>2, <3>3, HandlingApart
    <2>14. ResponseInv'
      BY <1>1, <2>3, <2>4, <2>6, <2>7, <2>11, <2>12, <2>13, Settles
    <2>15. CallerInv'
      BY <1>1, <2>8, CallerKept
    <2> QED
      BY <2>11, <2>14, <2>15
  <1> QED
    BY <1>2, <1>3 DEF Handle

-----------------------------------------------------------------------------
(* The steps of a portal task. *)
\* The portal task either passes a request on, to some of its recipients, or responds
\* to it itself, never both.
LEMMA TakeRequestStep ==
  ASSUME MeshInv, NEW p \in Portals, TakeRequest(p)
  PROVE  MeshInv'
  <1> USE DEF MeshInv
  <1> DEFINE f == Head(up[p])
  <1>1. /\ up[p] # <<>> /\ f.type = "Request" /\ up' = [up EXCEPT ![p] = Tail(up[p])]
        /\ UNCHANGED <<sent, call, answer, handling, delivered, tasks, muxq>>
    BY SMTT(20) DEF TakeRequest, clientVars
  <1>2. up[p] \in Seq(AtUp(p))
    BY DEF PlacesInv, UpInv
  <1>3. f \in AtUp(p)
    BY <1>1, <1>2, HeadTailProperties, LenProperties
  <1>4. f.id \in Messages /\ sent[f.id] # None /\ sent[f.id].from = p
    BY <1>1, <1>3 DEF AtUp, InletFrame
  <1>5. PICK m \in Messages : m = f.id
    BY <1>4
  <1>6. f \in InletCopy(m)
    BY <1>1, <1>3, <1>5 DEF AtUp, InletCopy
  <1>0. \/ /\ sent[m].it.kind = "Notification" \/ Len(sent[m].it.to) = 1
           /\ \E taken \in Taken(sent[m].it.to) : mux' = WithCopies(p, m, taken)
           /\ UNCHANGED <<down, responded>>
        \/ /\ sent[m].it.kind = "RequestResponse" /\ Len(sent[m].it.to) # 1
           /\ Responds([from |-> Key(p), id |-> m, signal |-> "Error"])
           /\ \E q \in Offered(down[p], ResponseInto([from |-> Key(p), id |-> m, signal |-> "Error"])) :
                down' = [down EXCEPT ![p] = q]
           /\ mux' = mux
    BY <1>5, Zenon DEF TakeRequest
  <1>7. CASE /\ sent[m].it.kind = "Notification" \/ Len(sent[m].it.to) = 1
             /\ \E taken \in Taken(sent[m].it.to) : mux' = WithCopies(p, m, taken)
             /\ UNCHANGED <<down, responded>>
    <2>1. Grows
      BY <1>1, <1>7 DEF Grows
    <2>2. UpStep({}) /\ InUp(m) /\ ~InUp(m)'
      BY <1>1, <1>6, <2>1, UpTaken
    <2>3. PICK taken \in Taken(sent[m].it.to) : mux' = WithCopies(p, m, taken)
      BY <1>7
    <2>4. MuxStep({m} \X Nat)
      BY <1>1, <1>4, <1>5, <1>7, <2>1, <2>2, <2>3, MuxCopies
    <2>5. RouterStep({}) /\ MuxqStep({}) /\ DownStep({}) /\ ClientsStep({})
      BY <1>1, <1>7, <2>1, RouterKept, MuxqKept, DownKept, ClientsKept
    <2>6. \A n \in Messages, i \in Nat : <<n, i>> \in {m} \X Nat => InUp(n) /\ ~InUp(n)'
      BY <2>2
    <2>7. /\ PlacesInv' /\ CopyInv'
          /\ \A n \in Messages, i \in Nat : Somewhere(n, i)' => Somewhere(n, i)
      BY <2>2, <2>4, <2>5, <2>6, CopiesGoOn
    <2>8. ResponseInv'
      BY <1>1, <1>7, <2>1, <2>7, RemainsSettled
    <2>9. CallerInv'
      BY <1>1, <2>1, CallerKept
    <2> QED
      BY <2>7, <2>8, <2>9
  <1>8. ASSUME NEW error, error = [from |-> Key(p), id |-> m, signal |-> "Error"],
               sent[m].it.kind = "RequestResponse", Len(sent[m].it.to) # 1, Responds(error),
               NEW q \in Offered(down[p], ResponseInto(error)), down' = [down EXCEPT ![p] = q],
               mux' = mux
        PROVE  MeshInv'
    <2>1. error \in MadeResponse /\ error.id = m
      BY <1>8 DEF MadeResponse, Identifier, Signal
    <2>2. InUp(m)
      BY <1>1, <1>2, <1>6, HeldTail, OldCopies, 0 \in Nat DEF OnceUp, AllApart, InUp, AnyHeld
    <2>3. ~Settled(m)
      BY <2>2, 0 \in Nat DEF Settled, Somewhere
    <2>4. Grows /\ responded'[m] = <<error>>
      BY <1>1, <1>8, <2>1, <2>3, RespondsOnce
    <2>5. UpStep({}) /\ ~InUp(m)'
      BY <1>1, <1>6, <2>4, UpTaken
    <2>6. MuxStep({}) /\ RouterStep({}) /\ MuxqStep({}) /\ ClientsStep({})
      BY <1>1, <1>8, <2>4, MuxKept, RouterKept, MuxqKept, ClientsKept
    <2>7. PICK x : x = ResponseInto(error)
      OBVIOUS
    <2>8. /\ x \in OutletResponse /\ x.type = "Response" /\ x.id = m
          /\ x.from = Key(p) /\ x.signal = "Error" /\ Made(x) = error
      BY <1>8, <2>7 DEF ResponseInto, OutletResponse, Identifier, Signal, Made
    <2>9. Answers(x)'
      BY <1>1, <1>4, <1>5, <1>8, <2>4, <2>8 DEF Answers, FitsRequest, Made
    <2>10. x \in AtDown(p)' /\ \A n \in Messages, i \in Nat : x \notin OutletCopy(n, i)
      BY <2>8, <2>9 DEF AtDown, Outgoing, OutletCopy, OutletRequest
    <2>11. DownStep({})
      BY <1>8, <2>4, <2>7, <2>10, DownOffered
    <2>12. /\ PlacesInv' /\ CopyInv'
           /\ \A n \in Messages, i \in Nat : Somewhere(n, i)' => Somewhere(n, i)
      BY <2>5, <2>6, <2>11, CopiesGoOn
    <2>13. ASSUME NEW i \in Nat
           PROVE  ~Somewhere(m, i)' /\ ~Received(m, i)
      <3>1. ~InMux(m, i) /\ ~InRouter(m, i) /\ ~InMuxq(m, i) /\ ~InDown(m, i) /\ ~Received(m, i)
        BY <2>2, OldCopies DEF OnePlace
      <3>2. ~InMux(m, i)' /\ ~InRouter(m, i)' /\ ~InMuxq(m, i)' /\ ~InDown(m, i)'
        BY <2>6, <2>11, <3>1 DEF MuxStep, RouterStep, MuxqStep, DownStep
      <3> QED
        BY <2>5, <3>1, <3>2 DEF Somewhere
    <2>14. \A h \in handling : h.request.id # m
      BY <2>13, HandlingIs
    <2>15. ResponseInv'
      BY <1>1, <1>4, <1>5, <1>8, <2>1, <2>3, <2>12, <2>13, <2>14, Settles
    <2>16. CallerInv'
      BY <1>1, <2>4, CallerKept
    <2> QED
      BY <2>12, <2>15, <2>16
  <1> QED
    BY <1>0, <1>7, <1>8

\* A response that the portal task has no exchange for is lost.
LEMMA TakeResponseStep ==
  ASSUME MeshInv, NEW p \in Portals, TakeResponse(p)
  PROVE  MeshInv'
  <1> USE DEF MeshInv
  <1>1. /\ up[p] # <<>> /\ up' = [up EXCEPT ![p] = Tail(up[p])]
        /\ UNCHANGED <<sent, call, answer, handling, delivered, mux, tasks, muxq, down, responded>>
    BY DEF TakeResponse, clientVars, hostVars
  <1>2. Grows
    BY <1>1 DEF Grows
  <1>3. MuxStep({}) /\ RouterStep({}) /\ MuxqStep({}) /\ DownStep({}) /\ ClientsStep({})
    BY <1>1, <1>2, MuxKept, RouterKept, MuxqKept, DownKept, ClientsKept
  <1>4. UpStep({})
    BY <1>1, <1>2, UpTaken
  <1>5. /\ PlacesInv' /\ CopyInv'
        /\ \A n \in Messages, i \in Nat : Somewhere(n, i)' => Somewhere(n, i)
    BY <1>3, <1>4, CopiesGoOn
  <1>6. ResponseInv'
    BY <1>1, <1>2, <1>5, RemainsSettled
  <1>7. CallerInv'
    BY <1>1, <1>2, CallerKept
  <1> QED
    BY <1>5, <1>6, <1>7

-----------------------------------------------------------------------------
(* The steps of the host. *)
\* A message leaves the mux channel with a task of its own.
LEMMA MessageInStep ==
  ASSUME MeshInv, NEW p \in Portals, MessageIn(p)
  PROVE  MeshInv'
  <1> USE DEF MeshInv
  <1> DEFINE r == Head(mux[p])
             t == [request |-> r, step |-> "spawned"]
  <1>1. /\ mux[p] # <<>> /\ mux' = [mux EXCEPT ![p] = Tail(mux[p])] /\ tasks' = tasks \cup {t}
        /\ UNCHANGED <<sent, call, answer, handling, delivered, up, muxq, down, responded>>
    BY DEF MessageIn, clientVars
  <1>2. Grows
    BY <1>1 DEF Grows
  <1>3. UpStep({}) /\ MuxqStep({}) /\ DownStep({}) /\ ClientsStep({})
    BY <1>1, <1>2, UpKept, MuxqKept, DownKept, ClientsKept
  <1>4. /\ MuxStep({}) /\ r \in AtMux(p)
        /\ \A m \in Messages, i \in Nat : r \in MeshCopy(m, i) => InMux(m, i) /\ ~InMux(m, i)'
    BY <1>1, <1>2, MuxTaken
  <1>5. t.request = r /\ t.step = "spawned"
    OBVIOUS
  <1>6. t \in Task
    BY <1>4 DEF AtMux, Task
  <1> HIDE DEF r, t
  <1>7. r \in MeshRequest /\ Named(r)
    BY <1>4 DEF AtMux
  <1>8. PICK m \in Messages, i \in Nat : r.id = m /\ r.i = i /\ r \in MeshCopy(m, i)
    BY <1>7 DEF MeshRequest, MeshCopy
  <1>9. t \in AtRouter'
    <2>1. t \in AtRouter
      BY <1>5, <1>6, <1>7 DEF AtRouter
    <2> QED
      BY <1>2, <2>1, PlacesGrow
  <1>10. \A n \in Messages, j \in Nat : t.request \in MeshCopy(n, j) =>
            ~InRouter(n, j) /\ <<n, j>> \in {<<m, i>>}
    BY <1>4, <1>5, <1>8, OldCopies DEF OnePlace, MeshCopy
  <1>11. RouterStep({<<m, i>>})
    BY <1>1, <1>2, <1>9, <1>10, RouterAdds
  <1>12. \A n \in Messages, j \in Nat : <<n, j>> \in {<<m, i>>} => InMux(n, j) /\ ~InMux(n, j)'
    BY <1>4, <1>8
  <1>13. /\ PlacesInv' /\ CopyInv'
         /\ \A n \in Messages, j \in Nat : Somewhere(n, j)' => Somewhere(n, j)
    BY <1>3, <1>4, <1>11, <1>12, CopiesGoOn
  <1>14. ResponseInv'
    BY <1>1, <1>2, <1>13, RemainsSettled
  <1>15. CallerInv'
    BY <1>1, <1>2, CallerKept
  <1> QED
    BY <1>13, <1>14, <1>15

\* A task that gets its infos keeps its request.
LEMMA SelectStep ==
  ASSUME MeshInv, Select
  PROVE  MeshInv'
  <1> USE DEF MeshInv
  <1> DEFINE c == Head(muxq)
             f == [t \in tasks |-> IF t.request = c.of THEN [t EXCEPT !.step = "informed"] ELSE t]
  <1>1. /\ muxq # <<>> /\ c.call = "Select" /\ muxq' = Tail(muxq)
        /\ tasks' = {IF t.request = c.of THEN [t EXCEPT !.step = "informed"] ELSE t : t \in tasks}
        /\ UNCHANGED <<sent, call, answer, handling, delivered, up, mux, down, responded>>
    BY DEF Select, clientVars
  <1>2. tasks' = {f[t] : t \in tasks}
    BY <1>1
  <1>3. Grows
    BY <1>1 DEF Grows
  <1>4. UpStep({}) /\ MuxStep({}) /\ DownStep({}) /\ ClientsStep({})
    BY <1>1, <1>3, UpKept, MuxKept, DownKept, ClientsKept
  <1>5. MuxqStep({}) /\ c \in AtMuxq
    BY <1>1, <1>3, MuxqTaken
  <1>6. c.of.operation = "Select" /\ c.of.kind = "RequestResponse"
    BY <1>1, <1>5 DEF AtMuxq
  <1> HIDE DEF c
  <1>7. ASSUME NEW t \in tasks
        PROVE  f[t] \in AtRouter' /\ f[t].request = t.request
    <2>1. t \in AtRouter
      BY DEF PlacesInv, RouterInv
    <2>2. t \in Task /\ [t EXCEPT !.step = "informed"] \in Task
          /\ [t EXCEPT !.step = "informed"].request = t.request
      BY <2>1 DEF AtRouter, Task
    <2>3. f[t] \in Task /\ f[t].request = t.request
      BY <2>2
    <2>4. f[t] \in AtRouter
      BY <1>6, <2>1, <2>3 DEF AtRouter
    <2> QED
      BY <1>3, <2>3, <2>4, PlacesGrow
  <1> HIDE DEF f
  <1>8. RouterStep({})
    BY <1>2, <1>3, <1>7, RouterGoesOn
  <1>9. /\ PlacesInv' /\ CopyInv'
        /\ \A n \in Messages, j \in Nat : Somewhere(n, j)' => Somewhere(n, j)
    BY <1>4, <1>5, <1>8, CopiesGoOn
  <1>10. ResponseInv'
    BY <1>1, <1>3, <1>9, RemainsSettled
  <1>11. CallerInv'
    BY <1>1, <1>3, CallerKept
  <1> QED
    BY <1>9, <1>10, <1>11

\* MuxCall::MessageOut: a request goes from the queue of the host to the portal
\* of the recipient it is for; a response is passed on as it is.
LEMMA MessageOutStep ==
  ASSUME MeshInv, MessageOut
  PROVE  MeshInv'
  <1> USE DEF MeshInv
  <1>1. PICK c : c = Head(muxq)
    OBVIOUS
  <1>2. PICK x : x = IF c.call = "Request" THEN RequestInto(c.it) ELSE ResponseInto(c.it)
    OBVIOUS
  <1>3. /\ muxq # <<>> /\ c.call # "Select" /\ muxq' = Tail(muxq)
        /\ UNCHANGED <<sent, call, answer, handling, delivered, up, mux, tasks, responded>>
        /\ \/ down' = down
           \/ \E p \in GetPortal(c.it.to) : \E q \in Offered(down[p], x) :
                down' = [down EXCEPT ![p] = q]
    BY <1>1, <1>2 DEF MessageOut, clientVars
  <1>4. Grows
    BY <1>3 DEF Grows
  <1>5. UpStep({}) /\ MuxStep({}) /\ RouterStep({}) /\ ClientsStep({})
    BY <1>3, <1>4, UpKept, MuxKept, RouterKept, ClientsKept
  <1>6. /\ MuxqStep({}) /\ c \in AtMuxq
        /\ \A m \in Messages, i \in Nat : c \in CallCopy(m, i) => InMuxq(m, i) /\ ~InMuxq(m, i)'
    BY <1>1, <1>3, <1>4, MuxqTaken
  <1>7. \/ c.call = "Request" /\ c.it \in MeshRequest /\ Named(c.it) /\ c.it.operation = "Ext"
        \/ c.call = "Response" /\ c.it \in MeshResponse /\ Answers(c.it)
    BY <1>3, <1>6 DEF AtMuxq, MuxCall
  <1>8. PICK N : N = {n \in Messages \X Nat : x \in OutletCopy(n[1], n[2])}
    OBVIOUS
  <1>9. \A m \in Messages, i \in Nat : <<m, i>> \in N <=> x \in OutletCopy(m, i)
    BY <1>8
  <1>10. /\ \A p \in GetPortal(c.it.to) : x \in AtDown(p)
         /\ \A m \in Messages, i \in Nat : x \in OutletCopy(m, i) => c \in CallCopy(m, i)
    <2>1. CASE c.call = "Request"
      <3>1. c.it \in MeshRequest /\ Named(c.it) /\ c.it.operation = "Ext"
        BY <1>7, <2>1
      <3>2. /\ x.type = "Request" /\ x.id = c.it.id /\ x.i = c.it.i /\ x.kind = c.it.kind
            /\ x.operation = c.it.operation /\ x.from = c.it.from
        BY <1>2, <2>1 DEF RequestInto
      <3>3. x \in OutletRequest
        BY <1>2, <2>1, <3>1 DEF RequestInto, OutletRequest, MeshRequest
      <3>4. Carried(x) /\ c.it.to = sent[x.id].it.to[x.i]
        BY <3>1, <3>2 DEF Named, Carried
      <3>5. \A p \in GetPortal(c.it.to) : x \in AtDown(p)
        BY <3>2, <3>3, <3>4 DEF AtDown, Outgoing, ForPortal
      <3>6. c \in MuxCall
        BY <1>6 DEF AtMuxq
      <3> QED
        BY <2>1, <3>1, <3>2, <3>5, <3>6 DEF OutletCopy, CallCopy, MeshCopy
    <2>2. CASE c.call = "Response"
      <3>1. c.it \in MeshResponse /\ Answers(c.it)
        BY <1>7, <2>2
      <3>2. /\ x.type = "Response" /\ x.id = c.it.id /\ x.from = c.it.from
            /\ x.signal = c.it.signal /\ x \in OutletResponse
        BY <1>2, <2>2, <3>1 DEF ResponseInto, OutletResponse, MeshResponse
      <3>3. Answers(x)
        BY <3>1, <3>2 DEF Answers, FitsRequest, Made
      <3> QED
        BY <3>2, <3>3 DEF AtDown, Outgoing, OutletCopy, OutletRequest
    <2> QED
      BY <1>7, <2>1, <2>2
  <1>11. DownStep(N)
    <2>1. CASE down' = down
      <3>1. DownStep({})
        BY <1>4, <2>1, DownKept
      <3> QED
        BY <3>1 DEF DownStep
    <2>2. ASSUME NEW p \in GetPortal(c.it.to), NEW q \in Offered(down[p], x),
                 down' = [down EXCEPT ![p] = q]
          PROVE  DownStep(N)
      <3>1. p \in Portals
        BY DEF GetPortal
      <3>2. x \in AtDown(p)'
        BY <1>4, <1>10, <3>1, PlacesGrow
      <3>3. \A m \in Messages, i \in Nat : x \in OutletCopy(m, i) => ~InDown(m, i) /\ <<m, i>> \in N
        BY <1>6, <1>9, <1>10, OldCopies DEF OnePlace
      <3> QED
        BY <1>4, <2>2, <3>1, <3>2, <3>3, DownOffered
    <2> QED
      BY <1>3, <2>1, <2>2
  <1>12. \A m \in Messages, i \in Nat : <<m, i>> \in N => InMuxq(m, i) /\ ~InMuxq(m, i)'
    BY <1>6, <1>9, <1>10
  <1>13. /\ PlacesInv' /\ CopyInv'
         /\ \A m \in Messages, i \in Nat : Somewhere(m, i)' => Somewhere(m, i)
    BY <1>5, <1>6, <1>11, <1>12, CopiesGoOn
  <1>14. ResponseInv'
    BY <1>3, <1>4, <1>13, RemainsSettled
  <1>15. CallerInv'
    BY <1>3, <1>4, CallerKept
  <1> QED
    BY <1>13, <1>14, <1>15

-----------------------------------------------------------------------------
(* The steps of the router's tasks. *)

\* A task that asks for infos keeps its request; one that cannot ask ends.
LEMMA AskInfosStep ==
  ASSUME MeshInv, NEW t \in tasks, AskInfos(t)
  PROVE  MeshInv'
  <1> USE DEF MeshInv
  <1> DEFINE u == [t EXCEPT !.step = "asked"]
             c == [call |-> "Select", of |-> t.request]
  <1>1. /\ t.request.operation = "Select" /\ t.request.kind = "RequestResponse"
        /\ \/ muxq' = Append(muxq, c) /\ tasks' = (tasks \ {t}) \cup {u}
           \/ tasks' = tasks \ {t} /\ muxq' = muxq
        /\ UNCHANGED <<sent, call, answer, handling, delivered, up, mux, down, responded>>
    BY DEF AskInfos, clientVars
  <1>2. Grows
    BY <1>1 DEF Grows
  <1>3. UpStep({}) /\ MuxStep({}) /\ DownStep({}) /\ ClientsStep({})
    BY <1>1, <1>2, UpKept, MuxKept, DownKept, ClientsKept
  <1>4. t \in AtRouter
    BY DEF PlacesInv, RouterInv
  <1>5. u \in AtRouter /\ u.request = t.request
    BY <1>1, <1>4 DEF AtRouter, Task
  <1>6. c \in AtMuxq /\ c.call = "Select"
    BY <1>1, <1>4 DEF AtMuxq, AtRouter, Task, MuxCall
  <1> HIDE DEF u, c
  <1>7. RouterStep({}) /\ MuxqStep({})
    <2>1. CASE muxq' = Append(muxq, c) /\ tasks' = (tasks \ {t}) \cup {u}
      <3> DEFINE f == [v \in tasks |-> IF v = t THEN u ELSE v]
      <3>1. tasks' = {f[v] : v \in tasks}
        BY <2>1
      <3>2. \A v \in tasks : f[v] \in AtRouter' /\ f[v].request = v.request
        BY <1>2, <1>5, PlacesGrow DEF PlacesInv, RouterInv
      <3> HIDE DEF f
      <3>3. RouterStep({})
        BY <1>2, <3>1, <3>2, RouterGoesOn
      <3>4. c \in AtMuxq' /\ muxq' \in Offered(muxq, c)
        BY <1>2, <1>6, <2>1, PlacesGrow DEF Offered
      <3>5. \A m \in Messages, i \in Nat : c \notin CallCopy(m, i)
        BY <1>6 DEF CallCopy
      <3>6. MuxqStep({})
        BY <1>2, <3>4, <3>5, MuxqOffered
      <3> QED
        BY <3>3, <3>6
    <2>2. CASE tasks' = tasks \ {t} /\ muxq' = muxq
      BY <1>2, <2>2, RouterDrops, MuxqKept
    <2> QED
      BY <1>1, <2>1, <2>2
  <1>8. /\ PlacesInv' /\ CopyInv'
        /\ \A m \in Messages, i \in Nat : Somewhere(m, i)' => Somewhere(m, i)
    BY <1>3, <1>7, CopiesGoOn
  <1>9. ResponseInv'
    BY <1>1, <1>2, <1>8, RemainsSettled
  <1>10. CallerInv'
    BY <1>1, <1>2, CallerKept
  <1> QED
    BY <1>8, <1>9, <1>10

\* A task whose request wants a response holds the only copy of it, so that
\* its response is the first and the last.
LEMMA RespondStep ==
  ASSUME MeshInv, NEW t \in tasks, NEW signal \in Signal, Respond(t, signal),
         t.request.kind = "RequestResponse",
         signal = "Stubs" <=> t.request.operation = "Select",
         UNCHANGED <<clientVars, mux, up, down>>
  PROVE  MeshInv'
  <1> USE DEF MeshInv
  <1>1. PICK r : r = t.request
    OBVIOUS
  <1>2. PICK response : response = [to |-> r.from, from |-> r.to, id |-> r.id, signal |-> signal]
    OBVIOUS
  <1>3. PICK x : x = [from |-> r.to, id |-> r.id, signal |-> signal]
    OBVIOUS
  <1>4. PICK c : c = [call |-> "Response", it |-> response]
    OBVIOUS
  <1>5. /\ tasks' = tasks \ {t} /\ Responds(x) /\ muxq' \in Offered(muxq, c)
        /\ UNCHANGED <<sent, call, answer, handling, delivered, up, mux, down>>
    BY <1>1, <1>2, <1>3, <1>4 DEF Respond, clientVars
  <1>6. t \in AtRouter
    BY DEF PlacesInv, RouterInv
  <1>7. r \in MeshRequest /\ Named(r)
    BY <1>1, <1>6 DEF AtRouter, Task
  <1>8. PICK m \in Messages, i \in Nat : m = r.id /\ i = r.i
    BY <1>7 DEF MeshRequest
  <1>9. r \in MeshCopy(m, i) /\ InRouter(m, i)
    BY <1>1, <1>7, <1>8 DEF MeshCopy, InRouter
  <1>10. /\ sent[m] # None /\ i \in DOMAIN sent[m].it.to /\ r.to = sent[m].it.to[i]
         /\ sent[m].it.kind = "RequestResponse" /\ Len(sent[m].it.to) = 1
         /\ r.operation = sent[m].it.operation
    BY <1>1, <1>7, <1>8 DEF Named, Carried
  <1>11. x \in MadeResponse /\ x.id = m
    BY <1>3, <1>7, <1>8 DEF MadeResponse, MeshRequest
  <1>12. ~Settled(m)
    BY <1>9 DEF Settled, Somewhere
  <1>13. Grows /\ responded'[m] = <<x>>
    BY <1>5, <1>11, <1>12, RespondsOnce
  <1>14. UpStep({}) /\ MuxStep({}) /\ DownStep({}) /\ ClientsStep({})
    BY <1>5, <1>13, UpKept, MuxKept, DownKept, ClientsKept
  <1>15. RouterStep({}) /\ ~InRouter(m, i)'
    BY <1>1, <1>5, <1>9, <1>13, RouterDrops
  <1>16. MuxqStep({})
    <2>1. /\ response \in MeshResponse /\ Made(response) = x /\ response.id = m
          /\ response.from = r.to /\ response.signal = signal
      BY <1>2, <1>3, <1>7, <1>8 DEF MeshResponse, MeshRequest, Made
    <2>2. i = 1
      BY <1>10, NoOtherCopy
    <2>3. Answers(response)'
      BY <1>1, <1>5, <1>10, <1>13, <2>1, <2>2 DEF Answers, FitsRequest
    <2>4. c \in MuxCall /\ c.call = "Response" /\ c.it = response
      BY <1>4, <2>1 DEF MuxCall
    <2>5. c \in AtMuxq' /\ \A n \in Messages, j \in Nat : c \notin CallCopy(n, j)
      BY <2>3, <2>4 DEF AtMuxq, CallCopy
    <2> QED
      BY <1>5, <1>13, <2>5, MuxqOffered
  <1>17. /\ PlacesInv' /\ CopyInv'
         /\ \A n \in Messages, j \in Nat : Somewhere(n, j)' => Somewhere(n, j)
    BY <1>14, <1>15, <1>16, CopiesGoOn
  <1>18. ~Somewhere(m, i)' /\ ~Received(m, i) /\ ~InUp(m)
    <2>1. ~InUp(m) /\ ~InMux(m, i) /\ ~InMuxq(m, i) /\ ~InDown(m, i) /\ ~Received(m, i)
      BY <1>9, OldCopies DEF OnePlace
    <2>2. ~InUp(m)' /\ ~InMux(m, i)' /\ ~InMuxq(m, i)' /\ ~InDown(m, i)'
      BY <1>14, <1>16, <2>1 DEF UpStep, MuxStep, MuxqStep, DownStep
    <2> QED
      BY <1>15, <2>1, <2>2 DEF Somewhere
  <1>19. \A j \in Nat : ~Somewhere(m, j)'
    BY <1>10, <1>17, <1>18, NoOtherCopy
  <1>20. ASSUME NEW h \in handling'
         PROVE  h \in handling /\ h.request.id # m
    <2>1. h \in handling
      BY <1>5
    <2>2. ASSUME h.request.id = m
          PROVE  FALSE
      <3>1. PICK j \in Nat : Received(m, j)
        BY <2>1, <2>2, HandlingIs
      <3> QED
        BY <1>10, <1>18, <3>1, NoOtherCopy
    <2> QED
      BY <2>1, <2>2
  <1>21. ResponseInv'
    BY <1>5, <1>10, <1>11, <1>12, <1>17, <1>19, <1>20, Settles
  <1>22. CallerInv'
    BY <1>5, <1>13, CallerKept
  <1> QED
    BY <1>17, <1>21, <1>22

\* The response to a Select.
LEMMA RespondStubsStep ==
  ASSUME MeshInv, NEW t \in tasks, RespondStubs(t)
  PROVE  MeshInv'
  <1>1. t.request.kind = "RequestResponse" /\ t.request.operation = "Select"
    BY DEF RespondStubs, MeshInv, PlacesInv, RouterInv, AtRouter
  <1>2. "Stubs" \in Signal
    BY DEF Signal
  <1>3. Respond(t, "Stubs") /\ UNCHANGED <<clientVars, mux, up, down>>
    BY DEF RespondStubs
  <1> QED
    BY <1>1, <1>2, <1>3, RespondStep

\* The error for any other resource command, and the end of a notification.
LEMMA RouteResourceStep ==
  ASSUME MeshInv, NEW t \in tasks, RouteResource(t)
  PROVE  MeshInv'
  <1>1. UNCHANGED <<clientVars, mux, up, down>>
    BY DEF RouteResource
  <1>2. CASE /\ t.request.kind = "RequestResponse" /\ t.request.operation = "Resource"
             /\ Respond(t, "Error")
    <2>1. "Error" \in Signal /\ ("Error" = "Stubs" <=> t.request.operation = "Select")
      BY <1>2 DEF Signal
    <2> QED
      BY <1>1, <1>2, <2>1, RespondStep
  <1>3. CASE tasks' = tasks \ {t} /\ UNCHANGED <<muxq, responded>>
    <2> USE DEF MeshInv
    <2>1. UNCHANGED <<sent, call, answer, handling, delivered, up, mux, muxq, down, responded>>
      BY <1>1, <1>3 DEF clientVars
    <2>2. Grows
      BY <2>1 DEF Grows
    <2>3. UpStep({}) /\ MuxStep({}) /\ MuxqStep({}) /\ DownStep({}) /\ ClientsStep({})
      BY <2>1, <2>2, UpKept, MuxKept, MuxqKept, DownKept, ClientsKept
    <2>4. RouterStep({})
      BY <1>3, <2>2, RouterDrops
    <2>5. /\ PlacesInv' /\ CopyInv'
          /\ \A m \in Messages, i \in Nat : Somewhere(m, i)' => Somewhere(m, i)
      BY <2>3, <2>4, CopiesGoOn
    <2>6. ResponseInv'
      BY <2>1, <2>2, <2>5, RemainsSettled
    <2>7. CallerInv'
      BY <2>1, <2>2, CallerKept
    <2> QED
      BY <2>5, <2>6, <2>7
  <1> QED
    BY <1>2, <1>3 DEF RouteResource

\* The request goes on to the queue of the host, and its task ends.
LEMMA RouteExtStep ==
  ASSUME MeshInv, NEW t \in tasks, RouteExt(t)
  PROVE  MeshInv'
  <1> USE DEF MeshInv
  <1>1. PICK r : r = t.request
    OBVIOUS
  <1>2. PICK c : c = [call |-> "Request", it |-> r]
    OBVIOUS
  <1>3. /\ r.operation = "Ext" /\ tasks' = tasks \ {t} /\ muxq' \in Offered(muxq, c)
        /\ UNCHANGED <<sent, call, answer, handling, delivered, up, mux, down, responded>>
    BY <1>1, <1>2 DEF RouteExt, TryInto, clientVars
  <1>4. Grows
    BY <1>3 DEF Grows
  <1>5. UpStep({}) /\ MuxStep({}) /\ DownStep({}) /\ ClientsStep({})
    BY <1>3, <1>4, UpKept, MuxKept, DownKept, ClientsKept
  <1>6. /\ RouterStep({}) /\ t \in AtRouter
        /\ \A m \in Messages, i \in Nat : r \in MeshCopy(m, i) => InRouter(m, i) /\ ~InRouter(m, i)'
    BY <1>1, <1>3, <1>4, RouterDrops
  <1>7. r \in MeshRequest /\ Named(r)
    BY <1>1, <1>6 DEF AtRouter, Task
  <1>8. PICK m \in Messages, i \in Nat : r.id = m /\ r.i = i /\ r \in MeshCopy(m, i)
    BY <1>7 DEF MeshRequest, MeshCopy
  <1>9. c \in AtMuxq'
    <2>1. c \in AtMuxq
      BY <1>2, <1>3, <1>7 DEF AtMuxq, MuxCall
    <2> QED
      BY <1>4, <2>1, PlacesGrow
  <1>10. \A n \in Messages, j \in Nat : c \in CallCopy(n, j) =>
            ~InMuxq(n, j) /\ <<n, j>> \in {<<m, i>>}
    BY <1>2, <1>6, <1>8, OldCopies DEF OnePlace, MeshCopy, CallCopy
  <1>11. MuxqStep({<<m, i>>})
    BY <1>3, <1>4, <1>9, <1>10, MuxqOffered
  <1>12. \A n \in Messages, j \in Nat :
           <<n, j>> \in {<<m, i>>} => InRouter(n, j) /\ ~InRouter(n, j)'
    BY <1>6, <1>8
  <1>13. /\ PlacesInv' /\ CopyInv'
         /\ \A n \in Messages, j \in Nat : Somewhere(n, j)' => Somewhere(n, j)
    BY <1>5, <1>6, <1>11, <1>12, CopiesGoOn
  <1>14. ResponseInv'
    BY <1>3, <1>4, <1>13, RemainsSettled
  <1>15. CallerInv'
    BY <1>3, <1>4, CallerKept
  <1> QED
    BY <1>13, <1>14, <1>15

-----------------------------------------------------------------------------
(* The invariant. *)

\* Every step of the mesh keeps it.
LEMMA NextStep ==
  ASSUME MeshInv, [Next]_vars
  PROVE  MeshInv'
  <1>1. ASSUME NEW p \in Portals, Client(p) \/ TakeRequest(p) \/ TakeResponse(p)
        PROVE  MeshInv'
    <2>1. CASE Client(p)
      BY <2>1, AskStep, IgnoreStep, ReceiveRequestStep, ReceiveResponseStep DEF Client
    <2> QED
      BY <1>1, <2>1, TakeRequestStep, TakeResponseStep
  <1>2. ASSUME NEW m \in Messages, TimesOut(m)
        PROVE  MeshInv'
    BY <1>2, TimesOutStep
  <1>3. ASSUME NEW h \in handling, Handle(h)
        PROVE  MeshInv'
    BY <1>3, HandleStep
  <1>4. CASE Host
    BY <1>4, SelectStep, MessageOutStep, MessageInStep DEF Host
  <1>5. CASE Router
    BY <1>5, AskInfosStep, RespondStubsStep, RouteResourceStep, RouteExtStep DEF Router
  <1>6. CASE UNCHANGED vars
    <2> USE DEF MeshInv
    <2>1. UNCHANGED <<sent, call, answer, handling, delivered, up, mux, tasks, muxq, down, responded>>
      BY <1>6 DEF vars, clientVars, hostVars
    <2>2. Grows
      BY <2>1 DEF Grows
    <2>3. /\ UpStep({}) /\ MuxStep({}) /\ RouterStep({}) /\ MuxqStep({}) /\ DownStep({})
          /\ ClientsStep({})
      BY <2>1, <2>2, UpKept, MuxKept, RouterKept, MuxqKept, DownKept, ClientsKept
    <2>4. /\ PlacesInv' /\ CopyInv'
          /\ \A m \in Messages, i \in Nat : Somewhere(m, i)' => Somewhere(m, i)
      BY <2>3, CopiesGoOn
    <2>5. ResponseInv'
      BY <2>1, <2>2, <2>4, RemainsSettled
    <2>6. CallerInv'
      BY <2>1, <2>2, CallerKept
    <2> QED
      BY <2>4, <2>5, <2>6
  <1> QED
    BY <1>1, <1>2, <1>3, <1>4, <1>5, <1>6 DEF Next

\* In every reachable state.
THEOREM MeshInvariant == Spec => []MeshInv
  <1>1. Init => MeshInv
    BY InitMeshInv
  <1>2. MeshInv /\ [Next]_vars => MeshInv'
    BY NextStep
  <1> QED
    BY <1>1, <1>2, PTL DEF Spec

-----------------------------------------------------------------------------
(* What it says of the mesh. *)

\* Every place holds what it is for, in the form it is in there.
THEOREM MeshTypeCorrect == Spec => []TypeOK
  <1>1. MeshInv => TypeOK
    <2> SUFFICES ASSUME MeshInv PROVE TypeOK
      OBVIOUS
    <2> USE DEF MeshInv, PlacesInv
    <2>1. /\ sent \in [Messages -> [from : Portals, it : Asked] \cup {None}]
          /\ call \in [Messages -> {"idle", "notified", "waiting", "answered", "timedout"}]
          /\ answer \in [Messages -> OutletResponse \cup {None}]
      BY DEF CallerInv
    <2>2. up \in [Portals -> Seq(InletFrame)]
      <3>1. \A p \in Portals : AtUp(p) \subseteq InletFrame
        BY DEF AtUp
      <3> QED
        BY <3>1, SeqMonotonic DEF UpInv, OverAll
    <2>3. mux \in [Portals -> Seq(MeshRequest)]
      <3>1. \A p \in Portals : AtMux(p) \subseteq MeshRequest
        BY DEF AtMux
      <3> QED
        BY <3>1, SeqMonotonic DEF MuxInv, OverAll
    <2>4. tasks \subseteq [request : MeshRequest, step : {"spawned", "asked", "informed"}]
      BY DEF RouterInv, AtRouter, Task
    <2>5. muxq \in Seq(MuxCall)
      <3>1. AtMuxq \subseteq MuxCall
        BY DEF AtMuxq
      <3> QED
        BY <3>1, SeqMonotonic DEF MuxqInv
    <2>6. down \in [Portals -> Seq(OutletRequest \cup OutletResponse)]
      <3>1. \A p \in Portals : AtDown(p) \subseteq Outgoing
        BY DEF AtDown
      <3>2. down \in [Portals -> Seq(Outgoing)]
        BY <3>1, SeqMonotonic DEF DownInv, OverAll
      <3> QED
        BY <3>2 DEF Outgoing
    <2>7. /\ handling \subseteq [at : Portals, request : OutletRequest]
          /\ delivered \in [Messages -> Seq([at : Portals, request : OutletRequest])]
      <3>1. \A m \in Messages : AtClient(m) \subseteq Handling
        BY DEF AtClient
      <3>2. handling \subseteq Handling /\ delivered \in [Messages -> Seq(Handling)]
        BY <3>1, SeqMonotonic DEF ClientsInv, OverAll
      <3> QED
        BY <3>2 DEF Handling
    <2>8. responded \in [Messages -> Seq([from : Identifier, id : Messages, signal : Signal])]
      BY DEF ResponseInv, MadeResponse
    <2> QED
      BY <2>1, <2>2, <2>3, <2>4, <2>5, <2>6, <2>7, <2>8 DEF TypeOK
  <1> QED
    BY <1>1, MeshInvariant, PTL

\* A client receives a request only if its portal was named, once at most for
\* each time it was named, with its sender's key as "from"; and a request for a
\* response reaches one client at most.
THEOREM DeliveredAsAsked == Spec => []DeliveredAsNamed
  <1>1. MeshInv => DeliveredAsNamed
    <2> SUFFICES ASSUME MeshInv PROVE DeliveredAsNamed
      OBVIOUS
    <2> USE DEF MeshInv
    <2>1. ASSUME NEW m \in Messages
          PROVE  /\ delivered[m] \in Seq(Handling)
                 /\ Len(delivered[m]) \in Nat /\ DOMAIN delivered[m] = 1..Len(delivered[m])
      <3>1. delivered[m] \in Seq(AtClient(m)) /\ AtClient(m) \subseteq Handling
        BY DEF PlacesInv, ClientsInv, AtClient
      <3>2. delivered[m] \in Seq(Handling)
        BY <3>1, SeqMonotonic
      <3> QED
        BY <3>2
    <2>2. ASSUME NEW m \in Messages, NEW k \in DOMAIN delivered[m]
          PROVE  /\ delivered[m][k] \in AtClient(m) /\ delivered[m][k].request.i \in Nat
                 /\ delivered[m][k] \in ClientCopy(m, delivered[m][k].request.i)
                 /\ Received(m, delivered[m][k].request.i)
      <3>1. delivered[m][k] \in AtClient(m)
        <4>1. delivered[m] \in Seq(AtClient(m))
          BY DEF PlacesInv, ClientsInv
        <4> QED
          BY <2>1, <4>1
      <3>2. /\ delivered[m][k].request.i \in Nat
            /\ delivered[m][k] \in ClientCopy(m, delivered[m][k].request.i)
        BY <3>1 DEF AtClient, Handling, OutletRequest, ClientCopy, OutletCopy
      <3> QED
        BY <2>1, <3>1, <3>2 DEF Received, Held
    <2>3. ASSUME NEW m \in Messages, NEW i \in Nat,
                 NEW j \in DOMAIN delivered[m], NEW k \in DOMAIN delivered[m],
                 delivered[m][j] \in ClientCopy(m, i), delivered[m][k] \in ClientCopy(m, i)
          PROVE  j = k
      BY <2>1, <2>3, OldCopies DEF OnceReceived, Apart
    <2>4. ASSUME NEW m \in Messages, NEW k \in DOMAIN delivered[m]
          PROVE  /\ sent[m] # None
                 /\ delivered[m][k].request.i \in DOMAIN sent[m].it.to
                 /\ delivered[m][k].at \in GetPortal(sent[m].it.to[delivered[m][k].request.i])
                 /\ delivered[m][k].request.from = Key(sent[m].from)
                 /\ sent[m].it.kind = "RequestResponse" => Len(sent[m].it.to) = 1
                 /\ \A j \in DOMAIN delivered[m] : delivered[m][j] = delivered[m][k] => j = k
      <3>1. \A j \in DOMAIN delivered[m] : delivered[m][j] = delivered[m][k] => j = k
        BY <2>2, <2>3
      <3>2. PICK h : h = delivered[m][k]
        OBVIOUS
      <3>3. h.request.id = m /\ ForPortal(h.request, h.at)
        BY <2>2, <3>2 DEF AtClient
      <3>4. /\ sent[m] # None /\ h.request.i \in DOMAIN sent[m].it.to
            /\ h.at \in GetPortal(sent[m].it.to[h.request.i])
            /\ h.request.from = Key(sent[m].from)
            /\ sent[m].it.kind = "RequestResponse" => Len(sent[m].it.to) = 1
        BY <3>3 DEF ForPortal, Carried
      <3> QED
        BY <3>1, <3>2, <3>4
    <2>5. ASSUME NEW m \in Messages, delivered[m] # <<>>, sent[m].it.kind = "RequestResponse"
          PROVE  Len(delivered[m]) = 1
      <3>1. 1 \in DOMAIN delivered[m]
        <4>1. delivered[m] \in Seq(Handling) /\ delivered[m] # <<>>
          BY <2>1, <2>5
        <4>2. Len(delivered[m]) # 0
          BY <4>1
        <4> QED
          BY <2>1, <4>2
      <3>2. ASSUME NEW k \in DOMAIN delivered[m]
            PROVE  k = 1
        <4>1. sent[m] # None /\ Len(sent[m].it.to) = 1
          BY <2>4, <2>5
        <4>2. delivered[m][k].request.i = 1 /\ delivered[m][1].request.i = 1
          <5>1. PICK i : i = delivered[m][k].request.i
            OBVIOUS
          <5>2. PICK j : j = delivered[m][1].request.i
            OBVIOUS
          <5>3. i \in DOMAIN sent[m].it.to /\ j \in DOMAIN sent[m].it.to
            BY <2>4, <3>1, <5>1, <5>2
          <5>4. i = 1 /\ j = 1
            BY <4>1, <5>3, NoOtherCopy, 0 \in Nat
          <5> QED
            BY <5>1, <5>2, <5>4
        <4>3. delivered[m][k] \in ClientCopy(m, 1) /\ delivered[m][1] \in ClientCopy(m, 1)
          BY <2>2, <3>1, <4>2
        <4> QED
          BY <2>3, <3>1, <4>3
      <3>3. Len(delivered[m]) \in DOMAIN delivered[m]
        BY <2>1, <3>1
      <3> QED
        BY <3>2, <3>3
    <2> QED
      BY <2>4, <2>5 DEF DeliveredAsNamed
  <1> QED
    BY <1>1, MeshInvariant, PTL

\* However many hands a request passes through, one of them at most makes a
\* response to it, and none to a notification.
THEOREM OneResponseEach == Spec => []OneResponse
  <1>1. MeshInv => OneResponse
    BY DEF MeshInv, ResponseInv, OneResponse
  <1> QED
    BY <1>1, MeshInvariant, PTL

\* The answer of an exchange comes from the one it was addressed to, and is of
\* the sort that was asked for.
THEOREM AnswersFit == Spec => []AnswerFits
  <1>1. MeshInv => AnswerFits
    BY DEF MeshInv, CallerInv, Answers, FitsRequest, AnswerFits
  <1> QED
    BY <1>1, MeshInvariant, PTL

-----------------------------------------------------------------------------
(* The mesh keeps the contract of an exchange. *)

\* What the contract sees of a call, of an answer, and of the responses made.
PhaseOf(how) ==
  CASE how \in {"waiting", "notified"} -> "open"
    [] how = "timedout" -> "failed"
    [] OTHER -> how
AnswerOf(x) == IF x = None THEN None ELSE [from |-> x.from, id |-> x.id, signal |-> x.signal]

Phases == [m \in Messages |-> PhaseOf(call[m])]
Answered == [m \in Messages |-> AnswerOf(answer[m])]
Issued == {responded[m][1] : m \in {n \in Messages : responded[n] # <<>>}}

\* The response that is made to a request is one the contract may issue.
LEMMA ResponseIssued ==
  ASSUME MeshInv, MeshInv', NEW x \in MadeResponse, Responds(x), UNCHANGED <<sent, call, answer>>
  PROVE  Contract!Issue(x)
  <1>1. PICK m \in Messages : m = x.id
    BY DEF MadeResponse
  <1>2. /\ responded \in [Messages -> Seq(MadeResponse)]
        /\ \A n \in Messages : responded[n] # <<>> => Len(responded[n]) = 1 /\ responded[n][1].id = n
    BY DEF MeshInv, ResponseInv
  <1>3. /\ responded'[m] = Append(responded[m], x)
        /\ \A n \in Messages : n # m => responded'[n] = responded[n]
    BY <1>1, <1>2 DEF Responds
  <1>4. /\ Len(responded'[m]) = Len(responded[m]) + 1 /\ Len(responded[m]) \in Nat
        /\ responded'[m] # <<>>
    BY <1>2, <1>3
  <1>5. Len(responded'[m]) = 1 /\ sent'[m] # None
    BY <1>4 DEF MeshInv, ResponseInv
  <1>6. responded[m] = <<>> /\ responded'[m][1] = x
    BY <1>2, <1>3, <1>4, <1>5
  <1>7. x \notin Issued
    BY <1>1, <1>2, <1>6 DEF Issued
  <1>8. Issued' = Issued \cup {x}
    BY <1>3, <1>4, <1>6 DEF Issued
  <1>9. Phases[x.id] # "idle" /\ Phases' = Phases /\ Answered' = Answered
    <2>1. call[m] # "idle" /\ call[m] \in {"notified", "waiting", "answered", "timedout"}
      BY <1>5 DEF MeshInv, CallerInv
    <2> QED
      BY <1>1, <2>1 DEF Phases, PhaseOf, Answered
  <1> QED
    BY <1>7, <1>8, <1>9 DEF Contract!Issue, Phases, PhaseOf, Answered, AnswerOf, Issued

\* A step of the mesh is a step of the contract, or none.
LEMMA ContractStep ==
  ASSUME MeshInv, MeshInv', [Next]_vars
  PROVE  [Contract!Next]_(Contract!vars)
  <1> SUFFICES Contract!Next \/ UNCHANGED Contract!vars
    OBVIOUS
  <1>1. CASE UNCHANGED <<call, answer, responded>>
    BY <1>1 DEF Contract!vars
  <1>2. ASSUME NEW x \in MadeResponse, Responds(x), UNCHANGED <<sent, call, answer>>
        PROVE  Contract!Next
    <2>1. Contract!Issue(x)
      BY <1>2, ResponseIssued
    <2> QED
      BY <2>1 DEF Contract!Next, MadeResponse
  <1>3. ASSUME NEW p \in Portals, NEW m \in Messages, NEW request \in Asked, Ask(p, m, request)
        PROVE  Contract!Ask(m)
    <2>1. call[m] = "idle" /\ UNCHANGED <<answer, responded>>
      BY <1>3 DEF Ask, MeshInv, CallerInv
    <2>2. call' = [call EXCEPT ![m] =
                    IF request.kind = "RequestResponse" THEN "waiting" ELSE "notified"]
      BY <1>3 DEF Ask
    <2>3. call'[m] \in {"waiting", "notified"} /\ \A n \in Messages : n # m => call'[n] = call[n]
      BY <2>2 DEF MeshInv, CallerInv
    <2>4. Phases[m] = "idle" /\ Phases' = [Phases EXCEPT ![m] = "open"]
      BY <2>1, <2>3 DEF Phases, PhaseOf
    <2>5. Answered' = Answered /\ Issued' = Issued
      BY <2>1 DEF Answered, Issued
    <2> QED
      BY <2>4, <2>5 DEF Contract!Ask, Phases, PhaseOf, Answered, AnswerOf, Issued
  <1>4. ASSUME NEW m \in Messages, TimesOut(m)
        PROVE  Contract!Fail(m)
    <2>1. call[m] = "waiting" /\ UNCHANGED <<answer, responded>>
      BY <1>4 DEF TimesOut
    <2>2. call'[m] = "timedout" /\ \A n \in Messages : n # m => call'[n] = call[n]
      BY <1>4 DEF TimesOut, MeshInv, CallerInv
    <2>3. Phases[m] = "open" /\ Phases' = [Phases EXCEPT ![m] = "failed"]
      BY <2>1, <2>2 DEF Phases, PhaseOf
    <2>4. Answered' = Answered /\ Issued' = Issued
      BY <2>1 DEF Answered, Issued
    <2> QED
      BY <2>3, <2>4 DEF Contract!Fail, Phases, PhaseOf, Answered, AnswerOf, Issued
  <1>5. ASSUME NEW p \in Portals, ReceiveResponse(p)
        PROVE  Contract!Next \/ UNCHANGED Contract!vars
    <2>1. PICK y : y = Head(down[p])
      OBVIOUS
    <2>2. \/ /\ call[y.id] = "waiting"
             /\ call' = [call EXCEPT ![y.id] = "answered"] /\ answer' = [answer EXCEPT ![y.id] = y]
          \/ UNCHANGED <<call, answer>>
      BY <1>5, <2>1 DEF ReceiveResponse
    <2>3. down[p] # <<>> /\ y.type = "Response" /\ responded' = responded
      BY <1>5, <2>1 DEF ReceiveResponse
    <2>4. y \in AtDown(p)
      BY <2>1, <2>3, HeadTailProperties, LenProperties DEF MeshInv, PlacesInv, DownInv
    <2>5. /\ y \in OutletResponse /\ y # None /\ y.id \in Messages
          /\ responded[y.id] = <<Made(y)>> /\ Made(y) \in MadeResponse /\ Made(y).id = y.id
      BY <2>3, <2>4, ConstantsAssumption
      DEF AtDown, Outgoing, OutletRequest, OutletResponse, Answers, Made, MadeResponse
    <2>6. ASSUME call[y.id] = "waiting", call' = [call EXCEPT ![y.id] = "answered"],
                 answer' = [answer EXCEPT ![y.id] = y]
          PROVE  Contract!Answer(y.id, Made(y))
      <3>1. PICK m \in Messages : m = y.id
        BY <2>5
      <3>2. /\ call'[m] = "answered" /\ answer'[m] = y
            /\ \A n \in Messages : n # m => call'[n] = call[n] /\ answer'[n] = answer[n]
        BY <2>6, <3>1 DEF MeshInv, CallerInv
      <3>3. Phases[m] = "open" /\ Phases' = [Phases EXCEPT ![m] = "answered"]
        BY <2>6, <3>1, <3>2 DEF Phases, PhaseOf
      <3>4. Answered' = [Answered EXCEPT ![m] = Made(y)]
        BY <2>5, <3>2 DEF Answered, AnswerOf, Made
      <3>5. Issued' = Issued /\ Made(y) \in Issued
        <4>1. <<Made(y)>> # <<>> /\ <<Made(y)>>[1] = Made(y)
          OBVIOUS
        <4> QED
          BY <2>3, <2>5, <4>1 DEF Issued
      <3> QED
        BY <2>5, <3>1, <3>3, <3>4, <3>5
        DEF Contract!Answer, Phases, PhaseOf, Answered, AnswerOf, Issued
    <2>7. CASE UNCHANGED <<call, answer>>
      BY <1>1, <2>3, <2>7
    <2> QED
      BY <2>2, <2>5, <2>6, <2>7 DEF Contract!Next, MadeResponse
  <1>6. ASSUME NEW p \in Portals, Client(p)
        PROVE  Contract!Next \/ UNCHANGED Contract!vars
    <2>1. CASE Ignore(p) \/ ReceiveRequest(p)
      BY <1>1, <2>1 DEF Ignore, ReceiveRequest, clientVars
    <2>2. ASSUME NEW m \in Messages, NEW request \in Asked, Ask(p, m, request)
          PROVE  Contract!Next
      BY <1>3, <2>2 DEF Contract!Next
    <2> QED
      BY <1>5, <1>6, <2>1, <2>2 DEF Client
  <1>7. ASSUME NEW p \in Portals, TakeRequest(p)
        PROVE  Contract!Next \/ UNCHANGED Contract!vars
    <2>1. PICK m : m = Head(up[p]).id
      OBVIOUS
    <2>2. UNCHANGED <<sent, call, answer>>
          /\ (UNCHANGED responded \/ Responds([from |-> Key(p), id |-> m, signal |-> "Error"]))
      BY <1>7, <2>1, Zenon DEF TakeRequest, clientVars
    <2>3. m \in Messages
      <3>1. Head(up[p]) \in AtUp(p)
        BY <1>7, HeadTailProperties, LenProperties, Zenon DEF TakeRequest, MeshInv, PlacesInv, UpInv
      <3> QED
        BY <1>7, <2>1, <3>1, Zenon DEF TakeRequest, AtUp, InletFrame
    <2>4. [from |-> Key(p), id |-> m, signal |-> "Error"] \in MadeResponse
      BY <2>3 DEF MadeResponse, Identifier, Signal
    <2> QED
      BY <1>1, <1>2, <2>2, <2>4
  <1>8. ASSUME NEW h \in handling, Handle(h)
        PROVE  Contract!Next \/ UNCHANGED Contract!vars
    <2>1. h \in Handling
      BY DEF MeshInv, PlacesInv, ClientsInv
    <2>2. \A signal \in {"Reply", "Error"} :
            [from |-> Key(h.at), id |-> h.request.id, signal |-> signal] \in MadeResponse
      BY <2>1 DEF Handling, OutletRequest, MadeResponse, Identifier, Signal
    <2>3. /\ UNCHANGED <<sent, call, answer>>
          /\ \/ UNCHANGED responded
             \/ \E signal \in {"Reply", "Error"} :
                  Responds([from |-> Key(h.at), id |-> h.request.id, signal |-> signal])
      BY <1>8 DEF Handle
    <2> QED
      BY <1>1, <1>2, <2>2, <2>3
  <1>9. CASE Host
    BY <1>1, <1>9 DEF Host, Select, MessageOut, MessageIn, clientVars
  <1>10. ASSUME NEW t \in tasks, NEW signal \in Signal, Respond(t, signal), UNCHANGED clientVars
         PROVE  Contract!Next
    <2>1. t.request \in MeshRequest
      BY DEF MeshInv, PlacesInv, RouterInv, AtRouter, Task
    <2>2. [from |-> t.request.to, id |-> t.request.id, signal |-> signal] \in MadeResponse
      BY <2>1 DEF MadeResponse, MeshRequest
    <2>3. /\ Responds([from |-> t.request.to, id |-> t.request.id, signal |-> signal])
          /\ UNCHANGED <<sent, call, answer>>
      BY <1>10 DEF Respond, clientVars
    <2> QED
      BY <1>2, <2>2, <2>3
  <1>11. ASSUME NEW t \in tasks, AskInfos(t) \/ RespondStubs(t) \/ RouteResource(t) \/ RouteExt(t)
         PROVE  Contract!Next \/ UNCHANGED Contract!vars
    <2>1. CASE AskInfos(t) \/ RouteExt(t)
      BY <1>1, <2>1 DEF AskInfos, RouteExt, clientVars
    <2>2. CASE RespondStubs(t)
      BY <1>10, <2>2 DEF RespondStubs, Signal
    <2>3. CASE RouteResource(t)
      BY <1>1, <1>10, <2>3 DEF RouteResource, Signal, clientVars
    <2> QED
      BY <1>11, <2>1, <2>2, <2>3
  <1>12. CASE UNCHANGED vars
    BY <1>1, <1>12 DEF vars, clientVars
  <1>13. ASSUME NEW p \in Portals, TakeResponse(p)
         PROVE  Contract!Next \/ UNCHANGED Contract!vars
    BY <1>1, <1>13 DEF TakeResponse, clientVars
  <1>14. ASSUME NEW m \in Messages, TimesOut(m)
         PROVE  Contract!Next
    BY <1>4, <1>14 DEF Contract!Next
  <1> QED
    BY <1>6, <1>7, <1>8, <1>9, <1>11, <1>12, <1>13, <1>14 DEF Next, Router

\* From one client through the host to the other and back, an exchange is one
\* of ExchangeContract: it ends once at most, and its answer is a response that
\* was made to it after it was asked.
THEOREM MeshImplementsContract == Spec => ContractSpec
  <1>1. Init => Contract!Init
    <2> SUFFICES ASSUME Init PROVE Contract!Init
      OBVIOUS
    <2>1. Phases = [m \in Messages |-> "idle"]
      BY DEF Init, Phases, PhaseOf
    <2>2. Answered = [m \in Messages |-> None]
      BY DEF Init, Answered, AnswerOf
    <2>3. Issued = {}
      BY DEF Init, Issued
    <2> QED
      BY <2>1, <2>2, <2>3 DEF Contract!Init, Phases, PhaseOf, Answered, AnswerOf, Issued
  <1>2. MeshInv /\ MeshInv' /\ [Next]_vars => [Contract!Next]_(Contract!vars)
    BY ContractStep
  <1> QED
    BY <1>1, <1>2, MeshInvariant, PTL DEF Spec, ContractSpec, Contract!Spec
=============================================================================
