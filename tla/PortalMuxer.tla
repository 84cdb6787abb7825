----------------------------- MODULE PortalMuxer -----------------------------
(***************************************************************************)
(* resource-mesh-portal-api-server: the PortalMuxer, the task that owns    *)
(* the Portals and passes messages between them and the Router.            *)
(*                                                                         *)
(* The task selects over the muxer's own channel and those of its portals, *)
(* of which it has none yet, handles the one call it gets, and ends: its   *)
(* body is not a loop.  So it starts from empty tables, and the two that   *)
(* translate addresses always agree with the table of portals; they are    *)
(* left out, and a portal stands for its own key and address.              *)
(***************************************************************************)
EXTENDS Integers, Sequences

CONSTANTS
  Portals,  \* the portals that may be added
  MuxCap    \* 1024 in the tcp-server

ASSUME MuxCapAssumption == MuxCap \in Nat \ {0}

VARIABLES
  muxer,    \* the task: "selecting", "handling", "ended"
  muxq,     \* mux_rx
  portals   \* the table

muxVars == <<muxer, muxq, portals>>

MuxCall ==
  [call : {"Add", "Remove"}, portal : Portals] \cup [call : {"Select", "MessageIn", "MessageOut"}]

MuxTypeOK ==
  /\ muxer \in {"selecting", "handling", "ended"}
  /\ muxq \in Seq(MuxCall) /\ Len(muxq) <= MuxCap
  /\ portals \subseteq Portals

MuxInit ==
  /\ muxer = "selecting"
  /\ muxq = <<>>
  /\ portals = {}

-----------------------------------------------------------------------------
\* A send on mux_tx.  It fails once the muxer has ended, and when the channel
\* is full and stays so; whoever sends decides what then.
MuxOpen == muxer # "ended" /\ Len(muxq) < MuxCap

PutMux(call) ==
  /\ MuxOpen
  /\ muxq' = Append(muxq, call)
  /\ UNCHANGED <<muxer, portals>>

\* Select answers with the infos of the portals there are, MessageIn goes to
\* the Router, MessageOut to the portal it names if there is one: with no
\* portal none of the three changes anything here.
MuxerHandles ==
  /\ muxer = "selecting"
  /\ muxq # <<>>
  /\ muxer' = "handling"
  /\ muxq' = Tail(muxq)
  /\ \/ /\ Head(muxq).call = "Add"
        /\ portals' = portals \cup {Head(muxq).portal}
     \/ /\ Head(muxq).call = "Remove"
        /\ portals' = portals \ {Head(muxq).portal}
     \/ /\ Head(muxq).call \in {"Select", "MessageIn", "MessageOut"}
        /\ portals' = portals

\* The task returns: its receiver and its portals are dropped.
MuxerEnds ==
  /\ muxer = "handling"
  /\ muxer' = "ended"
  /\ muxq' = <<>>
  /\ portals' = {}

MuxNext == MuxerHandles \/ MuxerEnds
=============================================================================
