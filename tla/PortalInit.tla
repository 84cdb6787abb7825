----------------------------- MODULE PortalInit -----------------------------
(***************************************************************************)
(* resource-mesh-portal-api-server: Portal::init.  The owner sends the     *)
(* Init frame and awaits the far end's Ready, which the portal task of     *)
(* ServerPortal broadcasts.  A task of its own listens to the broadcast    *)
(* and answers the owner through a oneshot channel.                        *)
(*                                                                         *)
(* init() takes &mut self, so one call runs at a time.                     *)
(***************************************************************************)
EXTENDS Integers, Sequences

CONSTANTS
  Statuses,     \* what the far end sets its status to, after Initializing
  RingCap,      \* statuses the broadcast channel keeps: 8
  Timed,        \* config.init_timeout > 0
  MaxStatuses,  \* bound: statuses the far end sends
  MaxCalls      \* bound: calls of init()

Status == {"Unknown", "Initializing", "Ready", "Panic", "Done"}

ASSUME ConstantsAssumption ==
  /\ Statuses \subseteq Status
  /\ RingCap \in Nat \ {0}
  /\ Timed \in BOOLEAN
  /\ MaxStatuses \in Nat /\ MaxCalls \in Nat

VARIABLES
  status,     \* Portal.status
  call,       \* the last call of init(): "none", "begun", "waiting", or how it ended
  calls,      \* calls made
  outlet,     \* frames init() put on the outlet
  published,  \* every status broadcast
  from,       \* the place in published from which the task listens
  next,       \* the place of the status it receives next
  waiter,     \* the task: "none", "first", "second", "over", "panicked"
  answer      \* the oneshot channel between the two: "none", "ok", "err", "lost"

callVars == <<status, call, calls, outlet>>
ringVars == <<published, from>>
taskVars == <<next, waiter, answer>>
vars == <<callVars, ringVars, taskVars>>

TypeOK ==
  /\ status \in {"None", "Initializing", "Panic"}
  /\ call \in {"none", "begun", "waiting", "ok", "failed", "unsent", "refused", "dropped"}
  /\ calls \in 0..MaxCalls
  /\ outlet \in Seq({"Init", "Close"})
  /\ published \in Seq(Status) /\ Len(published) <= MaxStatuses
  /\ from \in 1..(MaxStatuses + 1)
  /\ next \in from..(MaxStatuses + 1)
  /\ waiter \in {"none", "first", "second", "over", "panicked"}
  /\ answer \in {"none", "ok", "err", "lost"}

Init ==
  /\ status = "None" /\ call = "none" /\ calls = 0
  /\ outlet = <<>>
  /\ published = <<>> /\ from = 1 /\ next = 1
  /\ waiter = "none" /\ answer = "none"

\* The far end's portal announces that it initializes before all else; it was
\* created from the Init frame of the portal task, so it may do so at any time.
Publish(v) ==
  /\ Len(published) < MaxStatuses
  /\ published = <<>> => v = "Initializing"
  /\ published' = Append(published, v)
  /\ UNCHANGED <<callVars, from, taskVars>>

-----------------------------------------------------------------------------
(* Portal::init. *)

MayCall == call \notin {"begun", "waiting"} /\ calls < MaxCalls

InitRefused ==
  /\ MayCall /\ status # "None"
  /\ call' = "refused"
  /\ calls' = calls + 1
  /\ UNCHANGED <<status, outlet, ringVars, taskVars>>

\* Fault: the status is not looked at.
InitBeginsAgain ==
  /\ MayCall
  /\ status' = "Initializing"
  /\ calls' = calls + 1
  /\ outlet' = Append(outlet, "Init") /\ call' = "begun"
  /\ UNCHANGED <<ringVars, taskVars>>

\* try_send fails if the outlet is full or closed, and init() returns.
InitBegins ==
  /\ MayCall /\ status = "None"
  /\ status' = "Initializing"
  /\ calls' = calls + 1
  /\ \/ outlet' = Append(outlet, "Init") /\ call' = "begun"
     \/ outlet' = outlet /\ call' = "unsent"
  /\ UNCHANGED <<ringVars, taskVars>>

\* Fault: the receiver the Portal has held since it was made.
InitSubscribesStale ==
  /\ call = "begun"
  /\ call' = "waiting"
  /\ waiter' = "first"
  /\ from' = Len(published) + 1
  /\ next' = 1
  /\ UNCHANGED <<status, calls, outlet, published, answer>>

\* It subscribes after it sent, and spawns the task that listens.
InitSubscribes ==
  /\ call = "begun"
  /\ call' = "waiting"
  /\ waiter' = "first"
  /\ from' = Len(published) + 1
  /\ next' = from'
  /\ UNCHANGED <<status, calls, outlet, published, answer>>

\* The caller wakes up.  An error, and a task that has gone without a word,
\* make the portal panic; a Close is sent if there is room.
InitReturns ==
  /\ call = "waiting"
  /\ \/ /\ answer = "ok"
        /\ call' = "ok"
        /\ UNCHANGED <<status, outlet>>
     \/ /\ answer \in {"err", "lost"}
        /\ call' = "failed"
        /\ status' = "Panic"
        /\ outlet' \in {outlet, Append(outlet, "Close")}
  /\ UNCHANGED <<calls, ringVars, taskVars>>

\* The caller drops the future of init() while it awaits, answered or not.
InitDropped ==
  /\ call = "waiting"
  /\ call' = "dropped"
  /\ UNCHANGED <<status, calls, outlet, ringVars, taskVars>>

-----------------------------------------------------------------------------
(* The task that listens. *)

\* It answers through the oneshot channel, and is over.  With the caller gone
\* the send fails and expect() panics.
Answer(ok) ==
  \/ /\ call = "waiting"
     /\ answer' = IF ok THEN "ok" ELSE "err"
     /\ waiter' = "over"
  \/ /\ call # "waiting"
     /\ answer' = answer
     /\ waiter' = "panicked"

Arrived == next <= Len(published)

\* A listener that fell behind by more than the channel keeps gets an error.
Lagged == next + RingCap <= Len(published)

ListenLagged ==
  /\ waiter \in {"first", "second"}
  /\ Arrived /\ Lagged
  /\ Answer(FALSE)
  /\ UNCHANGED <<callVars, ringVars, next>>

\* The first status of each turn of the loop is not looked at.
ListenFirst ==
  /\ waiter = "first"
  /\ Arrived /\ ~Lagged
  /\ next' = next + 1
  /\ waiter' = "second"
  /\ UNCHANGED <<callVars, ringVars, answer>>

\* It alone is waited for with the timeout, which looks at the channel and then
\* at the clock.
ListenTimeout ==
  /\ waiter = "first"
  /\ Timed
  /\ Answer(FALSE)
  /\ UNCHANGED <<callVars, ringVars, next>>

\* Fault: any status but Panic will do.
ListenSecondAny ==
  /\ waiter = "second" /\ Arrived /\ ~Lagged
  /\ next' = next + 1
  /\ Answer(published[next] # "Panic")
  /\ UNCHANGED <<callVars, ringVars>>

\* Fault: Panic is ignored with the rest.
ListenSecondIgnoresPanic ==
  /\ waiter = "second" /\ Arrived /\ ~Lagged
  /\ next' = next + 1
  /\ IF published[next] = "Ready" THEN Answer(TRUE)
     ELSE waiter' = "first" /\ UNCHANGED answer
  /\ UNCHANGED <<callVars, ringVars>>

ListenSecond ==
  /\ waiter = "second"
  /\ Arrived /\ ~Lagged
  /\ next' = next + 1
  /\ \/ published[next] = "Ready" /\ Answer(TRUE)
     \/ published[next] = "Panic" /\ Answer(FALSE)
     \/ /\ published[next] \notin {"Ready", "Panic"}
        /\ waiter' = "first"
        /\ answer' = answer
  /\ UNCHANGED <<callVars, ringVars>>

\* The runtime it was spawned on goes, and it drops its sender.
ListenCancelled ==
  /\ waiter \in {"first", "second"}
  /\ waiter' = "over"
  /\ answer' = "lost"
  /\ UNCHANGED <<callVars, ringVars, next>>

Listen == ListenLagged \/ ListenFirst \/ ListenTimeout \/ ListenSecond

-----------------------------------------------------------------------------
Next ==
  \/ \E v \in Statuses \cup {"Initializing"} : Publish(v)
  \/ InitRefused
  \/ InitBegins
  \/ InitSubscribes
  \/ InitReturns
  \/ InitDropped
  \/ Listen
  \/ ListenCancelled

Spec == Init /\ [][Next]_vars

\* Tokio runs the tasks and fires the timer; the far end owes no status, and
\* nobody owes the end of the runtime.
FairSpec ==
  Spec /\ WF_vars(InitSubscribes) /\ WF_vars(InitReturns) /\ WF_vars(Listen)

-----------------------------------------------------------------------------
(* Properties. *)

\* init() returns Ok only for a Ready that came after it had sent the Init
\* frame and subscribed: not for an earlier one, nor for another status.
OkMeansReady ==
  call = "ok" => \E k \in from..(next - 1) : published[k] = "Ready"

\* However often init() is called, and however its calls end, it sends one
\* Init, and no Close but the one of the call that failed, after that Init.
InitSentOnce == outlet \in {<<>>, <<"Init">>, <<"Init", "Close">>}

\* Two statuses in a row that each settle the matter end the wait, wherever
\* the pairs of the listening loop fall and whatever the listener misses.
PairEndsInit ==
  call = "waiting" /\ (\E k \in from..(Len(published) - 1) :
                          published[k] \in {"Ready", "Panic"} /\ published[k+1] \in {"Ready", "Panic"})
    ~> call # "waiting"

\* "init timeout after {} seconds" (line 263): the wait is bounded.
InitEnds == call = "waiting" ~> call # "waiting"
=============================================================================
