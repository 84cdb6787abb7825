---------------------------- MODULE ServerPortal ----------------------------
(***************************************************************************)
(* resource-mesh-portal-api-server: one Portal and the tasks around it.    *)
(*                                                                         *)
(*   reader --inlet--> pump --calls--> portal task --mux-----> muxer       *)
(*                            ^              |                             *)
(*                          owner           +------outlet--> writer        *)
(*                            +---------------------^                      *)
(*                                                                         *)
(* The reader and the writer are the tcp-server's; the owner of the Portal *)
(* is the muxer or the embedding program.  Every channel is bounded, every *)
(* task runs on its own thread, and a channel closes when its receiver, or *)
(* the last of its senders, is dropped.  What init() does with the status  *)
(* is PortalInit.                                                          *)
(***************************************************************************)
EXTENDS Integers, Sequences

CONSTANTS
  Recipients,  \* identifiers a request may name
  Frames,      \* what the far end may send
  Exchanges,   \* calls of Portal::exchange, by exchange id
  InletCap,    \* 128 in the tcp-server
  CallCap,     \* 1024
  MuxCap,      \* 1024
  OutletCap,   \* 128 in the tcp-server
  MaxFrames,   \* bound: frames the far end sends
  MaxOut,      \* bound: frames for the far end made by the muxer
  MaxDirect    \* bound: frames its owner sends directly

ExchangeKind == {"None", "Notification", "RequestResponse"}
\* Log, Command, BinParcel and Close change nothing in the portal.
InletFrame ==
  [type : {"Inert", "Status"}] \cup [type : {"Response"}, id : STRING]
    \cup [type : {"Request"}, kind : ExchangeKind, to : Seq(Recipients)]
OutletFrame ==
  [type : {"Init", "Close", "Out"}] \cup [type : {"Error"}, n : 1..MaxFrames]

ASSUME ConstantsAssumption ==
  /\ Frames \subseteq InletFrame
  /\ {InletCap, CallCap, MuxCap, OutletCap} \subseteq Nat \ {0}
  /\ {MaxFrames, MaxOut, MaxDirect} \subseteq Nat

VARIABLES
  reader,     \* the task that reads the stream: "reading" or "ended"
  wire,       \* the frames it has read so far; a frame is known by its place here
  accepted,   \* history: how many of them the inlet has accepted
  inlet,      \* inlet_rx
  pump,       \* the task that turns frames into calls: "running" or "ended"
  hand,       \* the frame it has taken and not yet passed on
  calls,      \* call_rx
  task,       \* the portal task: "init", "running", "panicked", "ended"
  todo,       \* the sends it still has to do for the call in hand
  exchanges,  \* its table of oneshot senders
  exch,       \* how far each exchange() is
  mux,        \* mux_rx, a field of the Portal
  outlet,     \* outlet_rx
  writer,     \* the task that writes the stream: "writing" or "ended"
  published,  \* the statuses broadcast so far
  seen,       \* history: how many frames the portal task has received
  held,       \* the owner has not dropped the Portal
  made        \* frames made so far: by the muxer, and directly

inVars == <<reader, wire, accepted, inlet>>
pumpVars == <<pump, hand>>
taskVars == <<task, todo, exchanges, published, seen>>
outVars == <<outlet, writer>>
ownerVars == <<exch, held, made>>
vars == <<inVars, pumpVars, calls, taskVars, mux, outVars, ownerVars>>

\* What the portal task's sends put on the two channels.
Send ==
  [chan : {"mux"}, n : 1..MaxFrames, i : Nat \ {0}, to : Recipients]
    \cup [chan : {"outlet"}, frame : OutletFrame]
Call ==
  [call : {"FrameIn"}, n : 1..MaxFrames] \cup [call : {"FrameOut"}]
    \cup [call : {"Exchange"}, id : Exchanges]

TypeOK ==
  /\ reader \in {"reading", "ended"}
  /\ wire \in Seq(Frames) /\ Len(wire) <= MaxFrames
  /\ accepted \in 0..MaxFrames
  /\ inlet \in Seq(1..MaxFrames) /\ Len(inlet) <= InletCap
  /\ pump \in {"running", "ended"}
  /\ hand \in Seq(1..MaxFrames) /\ Len(hand) <= 1
  /\ calls \in Seq(Call) /\ Len(calls) <= CallCap
  /\ task \in {"init", "running", "panicked", "ended"}
  /\ todo \in Seq(Send)
  /\ exchanges \subseteq Exchanges
  /\ exch \in [Exchanges -> {"idle", "waiting", "answered", "failed", "dropped"}]
  /\ mux \in Seq(Send \cup [chan : {"remove"}]) /\ Len(mux) <= MuxCap
  /\ outlet \in Seq(OutletFrame) /\ Len(outlet) <= OutletCap
  /\ writer \in {"writing", "ended"}
  /\ published \in Seq(1..MaxFrames)
  /\ seen \in 0..MaxFrames
  /\ held \in BOOLEAN
  /\ made \in [{"muxer", "direct"} -> Nat]

Init ==
  /\ reader = "reading" /\ wire = <<>> /\ accepted = 0 /\ inlet = <<>>
  /\ pump = "running" /\ hand = <<>>
  /\ calls = <<>>
  /\ task = "init" /\ todo = <<>> /\ exchanges = {} /\ published = <<>> /\ seen = 0
  /\ exch = [e \in Exchanges |-> "idle"]
  /\ mux = <<>>
  /\ outlet = <<>> /\ writer = "writing"
  /\ held = TRUE
  /\ made = [by \in {"muxer", "direct"} |-> 0]

TaskOver == task \in {"panicked", "ended"}

-----------------------------------------------------------------------------
(* The stream: tcp-server's reader and writer. *)

\* Fault: the loss is logged and the reader goes on.
ReadFrameGoesOn(f) ==
  /\ reader = "reading"
  /\ Len(wire) < MaxFrames
  /\ wire' = Append(wire, f)
  /\ IF Len(inlet) < InletCap
       THEN accepted' = accepted + 1 /\ inlet' = Append(inlet, Len(wire'))
       ELSE UNCHANGED <<accepted, inlet>>
  /\ UNCHANGED <<reader, pumpVars, calls, taskVars, mux, outVars, ownerVars>>

\* The frame is read, then try_send: one that finds the channel full is lost,
\* and the reader ends for good.
ReadFrame(f) ==
  /\ reader = "reading"
  /\ Len(wire) < MaxFrames
  /\ wire' = Append(wire, f)
  /\ \/ /\ Len(inlet) < InletCap
        /\ inlet' = Append(inlet, Len(wire) + 1)
        /\ accepted' = accepted + 1
        /\ reader' = reader
     \/ /\ Len(inlet) = InletCap
        /\ reader' = "ended"
        /\ UNCHANGED <<accepted, inlet>>
  /\ UNCHANGED <<pumpVars, calls, taskVars, mux, outVars, ownerVars>>

Disconnect ==
  /\ reader = "reading"
  /\ reader' = "ended"
  /\ UNCHANGED <<wire, accepted, inlet, pumpVars, calls, taskVars, mux, outVars, ownerVars>>

WriteFrame ==
  /\ writer = "writing"
  /\ outlet # <<>>
  /\ outlet' = Tail(outlet)
  /\ UNCHANGED <<inVars, pumpVars, calls, taskVars, mux, writer, ownerVars>>

\* A write fails, or every sender of the outlet is gone: outlet_rx is dropped.
WriterEnds ==
  /\ writer = "writing"
  /\ outlet # <<>> \/ (TaskOver /\ ~held)
  /\ writer' = "ended"
  /\ outlet' = <<>>
  /\ UNCHANGED <<inVars, pumpVars, calls, taskVars, mux, ownerVars>>

-----------------------------------------------------------------------------
(* The pump. *)

PumpTake ==
  /\ hand = <<>>
  /\ inlet # <<>>
  /\ hand' = <<Head(inlet)>>
  /\ inlet' = Tail(inlet)
  /\ UNCHANGED <<reader, wire, accepted, pump, calls, taskVars, mux, outVars, ownerVars>>

\* Fault: no wait for room.
PumpSendUnbounded ==
  /\ hand # <<>>
  /\ calls' = IF TaskOver THEN calls ELSE Append(calls, [call |-> "FrameIn", n |-> hand[1]])
  /\ hand' = <<>>
  /\ UNCHANGED <<inVars, pump, taskVars, mux, outVars, ownerVars>>

\* send().await waits for room, without a timeout; once the portal task is
\* over it fails, the loss is logged and the pump goes on.
PumpSend ==
  /\ hand # <<>>
  /\ \/ /\ ~TaskOver
        /\ Len(calls) < CallCap
        /\ calls' = Append(calls, [call |-> "FrameIn", n |-> hand[1]])
     \/ /\ TaskOver
        /\ calls' = calls
  /\ hand' = <<>>
  /\ UNCHANGED <<inVars, pump, taskVars, mux, outVars, ownerVars>>

PumpEnds ==
  /\ pump = "running"
  /\ reader = "ended" /\ inlet = <<>> /\ hand = <<>>
  /\ pump' = "ended"
  /\ UNCHANGED <<inVars, hand, calls, taskVars, mux, outVars, ownerVars>>

-----------------------------------------------------------------------------
(* The portal task. *)

\* Fault: the task stops and its receiver lives on.
OverKeepsCalls(how) ==
  /\ task' = how
  /\ calls' = calls
  /\ todo' = <<>>
  /\ exchanges' = {}

\* What is left when the task returns or panics: its receiver and its table
\* are dropped, and with them every oneshot sender.
Over(how) ==
  /\ task' = how
  /\ calls' = <<>>
  /\ todo' = <<>>
  /\ exchanges' = {}

\* The Init frame goes out first; this send alone has no timeout.
TaskInit ==
  /\ task = "init"
  /\ \/ /\ writer = "writing"
        /\ Len(outlet) < OutletCap
        /\ outlet' = Append(outlet, [type |-> "Init"])
        /\ task' = "running"
        /\ UNCHANGED <<calls, todo, exchanges, mux>>
     \/ /\ writer = "ended"
        /\ Over("ended")
        /\ mux' = IF held /\ Len(mux) < MuxCap
                    THEN Append(mux, [chan |-> "remove"]) ELSE mux
        /\ outlet' = outlet
  /\ UNCHANGED <<inVars, pumpVars, published, seen, writer, ownerVars>>

\* The sends a request asks for.  A notification goes to each recipient in
\* turn; a request for a response must have exactly one.
SendsOf(n) ==
  LET f == wire[n]
      toMux == [i \in DOMAIN f.to |-> [chan |-> "mux", n |-> n, i |-> i, to |-> f.to[i]]]
  IN CASE f.kind = "None" -> <<>>
       [] f.kind = "Notification" -> toMux
       [] f.kind = "RequestResponse" /\ Len(f.to) = 1 -> toMux
       [] OTHER -> <<[chan |-> "outlet", frame |-> [type |-> "Error", n |-> n]]>>

\* A response whose exchange is unknown is logged; handing one to a caller
\* that has gone panics.
Respond(id) ==
  IF id \in exchanges
    THEN /\ exch' = [exch EXCEPT ![id] = IF @ = "waiting" THEN "answered" ELSE @]
         /\ IF exch[id] = "waiting"
              THEN /\ exchanges' = exchanges \ {id}
                   /\ calls' = Tail(calls)
                   /\ UNCHANGED <<task, todo>>
              ELSE Over("panicked")
    ELSE /\ calls' = Tail(calls)
         /\ UNCHANGED <<task, todo, exchanges, exch>>

TaskRecv ==
  /\ task = "running"
  /\ todo = <<>>
  /\ calls # <<>>
  /\ LET c == Head(calls) IN
       \/ /\ c.call = "FrameIn"
          /\ seen' = seen + 1
          /\ \/ /\ wire[c.n].type = "Request"
                /\ todo' = SendsOf(c.n)
                /\ calls' = Tail(calls)
                /\ UNCHANGED <<task, exchanges, exch, published>>
             \/ /\ wire[c.n].type = "Response"
                /\ Respond(wire[c.n].id)
                /\ UNCHANGED published
             \/ /\ wire[c.n].type = "Status"
                /\ published' = Append(published, c.n)
                /\ calls' = Tail(calls)
                /\ UNCHANGED <<task, todo, exchanges, exch>>
             \/ /\ wire[c.n].type = "Inert"
                /\ calls' = Tail(calls)
                /\ UNCHANGED <<task, todo, exchanges, exch, published>>
       \/ /\ c.call = "Exchange"
          /\ exchanges' = exchanges \cup {c.id}
          /\ calls' = Tail(calls)
          /\ UNCHANGED <<task, todo, exch, published, seen>>
       \/ /\ c.call = "FrameOut"
          /\ todo' = <<[chan |-> "outlet", frame |-> [type |-> "Out"]]>>
          /\ calls' = Tail(calls)
          /\ UNCHANGED <<task, exchanges, exch, published, seen>>
  /\ UNCHANGED <<inVars, pumpVars, mux, outVars, held, made>>

\* Fault: what was sent is sent again.
TaskSendAgain ==
  /\ todo # <<>>
  /\ Head(todo).chan = "mux" /\ held /\ Len(mux) < MuxCap
  /\ mux' = Append(mux, Head(todo))
  /\ UNCHANGED <<inVars, pumpVars, calls, taskVars, outVars, ownerVars>>

\* send_timeout: the send is done if there is room.
TaskSend ==
  /\ todo # <<>>
  /\ todo' = Tail(todo)
  /\ \/ /\ Head(todo).chan = "mux"
        /\ held /\ Len(mux) < MuxCap
        /\ mux' = Append(mux, Head(todo))
        /\ outlet' = outlet
     \/ /\ Head(todo).chan = "outlet"
        /\ writer = "writing" /\ Len(outlet) < OutletCap
        /\ outlet' = Append(outlet, Head(todo).frame)
        /\ mux' = mux
  /\ UNCHANGED <<inVars, pumpVars, calls, task, exchanges, published, seen, writer, ownerVars>>

\* Fault: send() in the place of send_timeout().
TaskSendFailsIfClosed ==
  /\ todo # <<>>
  /\ (Head(todo).chan = "mux" /\ ~held) \/ (Head(todo).chan = "outlet" /\ writer = "ended")
  /\ todo' = Tail(todo)
  /\ UNCHANGED <<inVars, pumpVars, calls, task, exchanges, published, seen, mux, outVars, ownerVars>>

\* Fault: a closed channel is taken for a full one and tried again.
TaskSendFailsIfFull ==
  /\ todo # <<>>
  /\ \/ Head(todo).chan = "mux" /\ Len(mux) = MuxCap
     \/ Head(todo).chan = "outlet" /\ Len(outlet) = OutletCap
  /\ todo' = Tail(todo)
  /\ UNCHANGED <<inVars, pumpVars, calls, task, exchanges, published, seen, mux, outVars, ownerVars>>

\* Otherwise it fails, at once if the channel is closed and after
\* frame_timeout if it stays full: it is logged and the task goes on.
TaskSendFails ==
  /\ todo # <<>>
  /\ \/ Head(todo).chan = "mux" /\ (~held \/ Len(mux) = MuxCap)
     \/ Head(todo).chan = "outlet" /\ (writer = "ended" \/ Len(outlet) = OutletCap)
  /\ todo' = Tail(todo)
  /\ UNCHANGED <<inVars, pumpVars, calls, task, exchanges, published, seen, mux, outVars, ownerVars>>

\* Both senders of the calls are gone.
TaskEnds ==
  /\ task = "running" /\ todo = <<>> /\ calls = <<>>
  /\ ~held /\ pump = "ended"
  /\ Over("ended")
  /\ UNCHANGED <<inVars, pumpVars, published, seen, mux, outVars, ownerVars>>

-----------------------------------------------------------------------------
(* The owner of the Portal, and the muxer. *)

\* Whoever takes from mux_rx.
TakeMux ==
  /\ held /\ mux # <<>>
  /\ mux' = Tail(mux)
  /\ UNCHANGED <<inVars, pumpVars, calls, taskVars, outVars, ownerVars>>

\* Fault: the frame goes past the portal task, as those of Portal::send do.
MuxFrameOutDirect ==
  /\ held /\ made["muxer"] < MaxOut
  /\ writer = "writing" /\ Len(outlet) < OutletCap
  /\ made' = [made EXCEPT !["muxer"] = @ + 1]
  /\ outlet' = Append(outlet, [type |-> "Out"])
  /\ UNCHANGED <<inVars, pumpVars, calls, taskVars, mux, writer, exch, held>>

\* The muxer's MessageOut: try_send, and the result is not looked at.
MuxFrameOut ==
  /\ held /\ made["muxer"] < MaxOut
  /\ made' = [made EXCEPT !["muxer"] = @ + 1]
  /\ calls' = IF ~TaskOver /\ Len(calls) < CallCap
                THEN Append(calls, [call |-> "FrameOut"]) ELSE calls
  /\ UNCHANGED <<inVars, pumpVars, taskVars, mux, outVars, exch, held>>

\* Portal::send and Portal::shutdown go past the portal task, straight to the
\* outlet.  A send that times out and a Close that finds no room change nothing.
SendDirect(type) ==
  /\ held /\ made["direct"] < MaxDirect
  /\ writer = "writing" /\ Len(outlet) < OutletCap
  /\ made' = [made EXCEPT !["direct"] = @ + 1]
  /\ outlet' = Append(outlet, [type |-> type])
  /\ UNCHANGED <<inVars, pumpVars, calls, taskVars, mux, writer, exch, held>>

\* Fault: that the channel had no room is not looked at.
ExchangeCallIgnores(e) ==
  /\ held /\ exch[e] = "idle"
  /\ calls' = IF ~TaskOver /\ Len(calls) < CallCap
                THEN Append(calls, [call |-> "Exchange", id |-> e]) ELSE calls
  /\ exch' = [exch EXCEPT ![e] = "waiting"]
  /\ UNCHANGED <<inVars, pumpVars, taskVars, mux, outVars, held, made>>

\* Portal::exchange hands its oneshot sender to the task.  The request itself
\* is sent nowhere, and the answer is awaited without a timeout.
ExchangeCall(e) ==
  /\ held /\ exch[e] = "idle"
  /\ \/ /\ ~TaskOver /\ Len(calls) < CallCap
        /\ calls' = Append(calls, [call |-> "Exchange", id |-> e])
        /\ exch' = [exch EXCEPT ![e] = "waiting"]
     \/ /\ TaskOver \/ Len(calls) = CallCap
        /\ exch' = [exch EXCEPT ![e] = "failed"]
        /\ calls' = calls
  /\ UNCHANGED <<inVars, pumpVars, taskVars, mux, outVars, held, made>>

\* Its oneshot sender still exists.
Pending(e) ==
  e \in exchanges \/ \E i \in DOMAIN calls : calls[i] = [call |-> "Exchange", id |-> e]

ExchangeFails(e) ==
  /\ exch[e] = "waiting" /\ ~Pending(e)
  /\ exch' = [exch EXCEPT ![e] = "failed"]
  /\ UNCHANGED <<inVars, pumpVars, calls, taskVars, mux, outVars, held, made>>

\* The caller drops the future of exchange().
ExchangeDropped(e) ==
  /\ exch[e] = "waiting"
  /\ exch' = [exch EXCEPT ![e] = "dropped"]
  /\ UNCHANGED <<inVars, pumpVars, calls, taskVars, mux, outVars, held, made>>

\* An exchange() borrows the Portal, so none is waiting.
DropPortal ==
  /\ held
  /\ \A e \in Exchanges : exch[e] # "waiting"
  /\ held' = FALSE
  /\ mux' = <<>>
  /\ UNCHANGED <<inVars, pumpVars, calls, taskVars, outVars, exch, made>>

-----------------------------------------------------------------------------
Pump == PumpTake \/ PumpSend \/ PumpEnds
Task == TaskInit \/ TaskRecv \/ TaskSend \/ TaskSendFails \/ TaskEnds

Next ==
  \/ \E f \in Frames : ReadFrame(f)
  \/ Disconnect
  \/ WriteFrame
  \/ WriterEnds
  \/ Pump
  \/ Task
  \/ TakeMux
  \/ MuxFrameOut
  \/ \E type \in {"Out", "Close"} : SendDirect(type)
  \/ \E e \in Exchanges : ExchangeCall(e) \/ ExchangeFails(e) \/ ExchangeDropped(e)
  \/ DropPortal

Spec == Init /\ [][Next]_vars

\* Tokio runs every task that can run and fires every timer.  The far end, the
\* muxer and the owner owe nothing.
FairSpec ==
  Spec /\ WF_vars(Pump) /\ WF_vars(Task) /\ \A e \in Exchanges : WF_vars(ExchangeFails(e))

-----------------------------------------------------------------------------
(* Properties. *)

\* Everything on its way from the stream to the muxer: where it is, the place
\* of its frame in the stream, and of its recipient in the frame.
Pipeline ==
  {[stage |-> 1, k |-> k, n |-> mux[k].n, i |-> mux[k].i] :
     k \in {j \in DOMAIN mux : mux[j].chan = "mux"}}
  \cup {[stage |-> 2, k |-> k, n |-> todo[k].n, i |-> todo[k].i] :
          k \in {j \in DOMAIN todo : todo[j].chan = "mux"}}
  \cup {[stage |-> 3, k |-> k, n |-> calls[k].n, i |-> 0] :
          k \in {j \in DOMAIN calls : calls[j].call = "FrameIn"}}
  \cup {[stage |-> 4, k |-> k, n |-> hand[k], i |-> 0] : k \in DOMAIN hand}
  \cup {[stage |-> 5, k |-> k, n |-> inlet[k], i |-> 0] : k \in DOMAIN inlet}

\* Requests reach the muxer in the order the stream brought them, a
\* notification's recipients in theirs, each at most once, whatever times out
\* on the way (reader, pump and portal task).
InOrder ==
  \A p, q \in Pipeline :
    p.stage < q.stage \/ (p.stage = q.stage /\ p.k < q.k)
      => p.n < q.n \/ (p.n = q.n /\ p.i < q.i)

\* A frame the reader has taken from the stream and the portal task has not
\* received.
Unseen(n) ==
  \/ \E i \in DOMAIN inlet : inlet[i] = n
  \/ \E i \in DOMAIN hand : hand[i] = n
  \/ \E i \in DOMAIN calls : calls[i].call = "FrameIn" /\ calls[i].n = n

\* What the portal task receives has no gap: the frames read after those it has
\* received are all on their way to it while it runs, but for one at most, the
\* last, which found the inlet full and ended the reader; and none comes twice.
LossEndsReading ==
  ~TaskOver =>
    \A n \in 1..Len(wire) :
      /\ Unseen(n) => n > seen
      /\ n > seen /\ ~Unseen(n) => n = Len(wire) /\ reader = "ended"

\* A caller of exchange() that waits has its sender in the table or on its
\* way there, unless the portal task is over; so it is not left waiting on
\* nothing, and a second response would find the table without it.
ExchangePending ==
  \A e \in Exchanges :
    /\ exch[e] = "waiting" => Pending(e) \/ TaskOver
    /\ exch[e] \in {"idle", "answered", "failed"} => ~Pending(e)

\* The far end's portal is created from the first frame, which must be Init
\* ("expected portal info.", PortalTcpClient::new).  Only the owner's own
\* frames, which Portal::send and Portal::shutdown put on the outlet past the
\* portal task, can be ahead of it; what the muxer sends cannot.
OnlyOwnerAheadOfInit == task = "init" => Len(outlet) <= made["direct"]

InFlight(n) == Unseen(n) \/ \E i \in DOMAIN todo : todo[i].chan = "mux" /\ todo[i].n = n

\* Every frame the inlet has accepted is dealt with even if neither the muxer nor the
\* far end ever takes anything: every send after the Init gives up in time.
EveryFrameHandled ==
  \A n \in 1..MaxFrames : InFlight(n) /\ task # "init" ~> ~InFlight(n)

\* Once the stream has ended and the Portal is dropped, its tasks end.
TasksEnd ==
  reader = "ended" /\ ~held /\ task # "init" ~> pump = "ended" /\ TaskOver

\* A caller of exchange() whose portal task is over does not wait on.
ExchangesEnd ==
  \A e \in Exchanges : exch[e] = "waiting" /\ TaskOver ~> exch[e] # "waiting"
=============================================================================
