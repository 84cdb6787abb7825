-------------------------- MODULE PortalInitProofs --------------------------
(***************************************************************************)
(* What TLAPS proves of PortalInit, for any statuses the far end sends,    *)
(* any capacity of the broadcast channel, with and without a timeout.      *)
(***************************************************************************)
EXTENDS PortalInit, TLAPS

\* The status of the portal tells what init() has sent, and who may listen:
\* only the call that found "None" gets past the refusal.
SentInv ==
  /\ status = "None" => outlet = <<>> /\ call = "none"
  /\ call \in {"begun", "waiting"} => outlet = <<"Init">>
  /\ InitSentOnce

\* The task has received a Ready since it subscribed.
Ready == \E k \in from..(next - 1) : published[k] = "Ready"

\* A task that has answered well has received a Ready before: so a caller that
\* wakes up to its answer has.  Nobody is answered before he waits.
ListenInv ==
  /\ next <= Len(published) + 1
  /\ answer = "ok" \/ call = "ok" => Ready
  /\ call \in {"none", "begun"} => answer = "none" /\ waiter = "none"

\* The inductive invariant (Portal::init and its task).
InitInv == TypeOK /\ SentInv /\ ListenInv

-----------------------------------------------------------------------------
\* The invariant holds of a new portal.
LEMMA InitInitInv == Init => InitInv
  BY ConstantsAssumption
  DEF Init, InitInv, TypeOK, SentInv, ListenInv, InitSentOnce

\* A sequence of one element, extended by another.
LEMMA AppendToOne ==
  ASSUME NEW S, NEW a \in S, NEW b \in S
  PROVE  Append(<<a>>, b) = <<a, b>>
  <1> DEFINE s == Append(<<a>>, b)
             t == <<a, b>>
  <1>1. <<a>> \in Seq(S) /\ Len(<<a>>) = 1 /\ <<a>>[1] = a
    OBVIOUS
  <1>2. s \in Seq(S) /\ Len(s) = 2 /\ s[1] = a /\ s[2] = b
    BY <1>1
  <1>3. t \in Seq(S) /\ Len(t) = 2 /\ t[1] = a /\ t[2] = b
    OBVIOUS
  <1>4. \A i \in 1..Len(s) : s[i] = t[i]
    BY <1>2, <1>3
  <1> HIDE DEF s, t
  <1>5. s = t
    BY <1>2, <1>3, <1>4
  <1> QED
    BY <1>5 DEF s, t

\* What the caller sends when it wakes up to a failure: its Close, if there is
\* room for it, follows the one Init.
LEMMA ReturnsKeeps ==
  ASSUME InitInv, InitReturns
  PROVE  /\ UNCHANGED <<calls, ringVars, taskVars>>
         /\ \/ answer = "ok" /\ call' = "ok" /\ UNCHANGED <<status, outlet>>
            \/ /\ call' = "failed" /\ status' = "Panic"
               /\ outlet' \in {<<"Init">>, <<"Init", "Close">>}
  <1>1. outlet = <<"Init">>
    BY DEF InitReturns, InitInv, SentInv
  <1>2. Append(outlet, "Close") = <<"Init", "Close">>
    <2>1. "Init" \in {"Init", "Close"} /\ "Close" \in {"Init", "Close"}
      OBVIOUS
    <2> QED
      BY <1>1, <2>1, AppendToOne
  <1> QED
    BY <1>1, <1>2 DEF InitReturns

\* What the task has received, it has received when it has received more.
LEMMA Wider ==
  ASSUME NEW a \in Int, NEW b \in Int, NEW c \in Int, b <= c, NEW k \in a..(b - 1)
  PROVE  k \in a..(c - 1)
  OBVIOUS

\* What the task does to the oneshot channel keeps the invariant: an answer that
\* all is well needs a Ready received by then.
LEMMA ListenKeeps ==
  ASSUME InitInv, UNCHANGED <<callVars, ringVars>>, waiter # "none",
         next' \in next..(Len(published) + 1), answer' = "ok" => answer = "ok" \/ Ready',
         waiter' \in {"none", "first", "second", "over", "panicked"},
         answer' \in {"none", "ok", "err", "lost"}
  PROVE  InitInv'
  <1>1. /\ from \in Int /\ next \in Int /\ Len(published) \in Int /\ next' \in Int
        /\ from <= next /\ next <= next' /\ next' <= Len(published) + 1
        /\ Len(published) <= MaxStatuses
    BY ConstantsAssumption DEF InitInv, TypeOK
  <1>2. next' \in from..(MaxStatuses + 1)
    BY <1>1, ConstantsAssumption
  <1>3. Ready => Ready'
    <2>1. from' = from /\ published' = published
      BY DEF ringVars
    <2>2. \A k \in from..(next - 1) : k \in from..(next' - 1)
      BY <1>1, Wider, Zenon
    <2>3. ASSUME Ready PROVE Ready'
      <3>1. PICK k \in from..(next - 1) : published[k] = "Ready"
        BY <2>3 DEF Ready
      <3>2. k \in from..(next' - 1)
        BY <2>2, <3>1, Zenon
      <3>3. published'[k] = "Ready"
        BY <2>1, <3>1
      <3>4. k \in from'..(next' - 1)
        BY <2>1, <3>2
      <3> QED
        BY <3>3, <3>4 DEF Ready
    <2> QED
      BY <2>3
  <1>4. TypeOK'
    BY <1>2 DEF InitInv, TypeOK, callVars, ringVars
  <1>5. SentInv'
    BY DEF InitInv, SentInv, InitSentOnce, callVars
  <1>6. ListenInv'
    <2>1. answer' = "ok" \/ call' = "ok" => Ready'
      BY <1>3 DEF InitInv, ListenInv, callVars
    <2>2. call' \notin {"none", "begun"}
      BY DEF InitInv, ListenInv, callVars
    <2>3. next' <= Len(published') + 1
      BY <1>1 DEF ringVars
    <2> QED
      BY <2>1, <2>2, <2>3 DEF ListenInv
  <1> QED
    BY <1>4, <1>5, <1>6 DEF InitInv

\* A failed answer keeps the invariant, wherever in the loop it is given.
LEMMA FailedAnswerInv ==
  ASSUME InitInv, waiter \in {"first", "second"}, Answer(FALSE),
         UNCHANGED <<callVars, ringVars>>, next' \in next..(Len(published) + 1)
  PROVE  InitInv'
  <1>1. /\ waiter' \in {"over", "panicked"}
        /\ answer' = "err" \/ answer' = answer
    BY DEF Answer
  <1>2. answer' \in {"none", "ok", "err", "lost"}
    BY <1>1 DEF InitInv, TypeOK
  <1> QED
    BY <1>1, <1>2, ListenKeeps

\* What the task receives has a place among the statuses that were sent.
LEMMA NextBounded ==
  ASSUME InitInv
  PROVE  /\ from \in Int /\ next \in Int /\ from <= next
         /\ next \in next..(Len(published) + 1)
         /\ Arrived => next + 1 \in next..(Len(published) + 1)
  BY ConstantsAssumption DEF InitInv, TypeOK, ListenInv, Arrived

-----------------------------------------------------------------------------
\* Every step of init(), of its task and of the far end keeps the invariant.
LEMMA InitStepInv == InitInv /\ [Next]_vars => InitInv'
  <1> SUFFICES ASSUME InitInv, [Next]_vars
               PROVE  InitInv'
    OBVIOUS
  <1>1. ASSUME NEW v \in Statuses \cup {"Initializing"}, Publish(v)
        PROVE  InitInv'
    <2>1. v \in Status
      BY ConstantsAssumption DEF Status
    <2>2. TypeOK'
      BY <1>1, <2>1, ConstantsAssumption DEF Publish, InitInv, TypeOK, callVars, taskVars
    <2>3. SentInv'
      BY <1>1 DEF Publish, InitInv, SentInv, InitSentOnce, callVars
    <2>4. Ready => Ready'
      <3>1. ASSUME Ready PROVE Ready'
        <4>1. PICK k \in from..(next - 1) : published[k] = "Ready"
          BY <3>1 DEF Ready
        <4>2. k \in 1..Len(published)
          <5>1. next - 1 <= Len(published)
            BY DEF InitInv, TypeOK, ListenInv
          <5> QED
            BY <4>1, <5>1 DEF InitInv, TypeOK
        <4>3. published'[k] = "Ready"
          BY <1>1, <2>1, <4>1, <4>2 DEF Publish, InitInv, TypeOK
        <4> QED
          BY <1>1, <4>1, <4>3 DEF Publish, Ready, taskVars
      <3> QED
        BY <3>1
    <2>5. (next <= Len(published) + 1)'
      BY <1>1, <2>1 DEF Publish, InitInv, TypeOK, ListenInv, taskVars
    <2>6. ListenInv'
      BY <1>1, <2>4, <2>5 DEF Publish, InitInv, ListenInv, callVars, taskVars
    <2> QED
      BY <2>2, <2>3, <2>6 DEF InitInv
  <1>2. CASE InitRefused
    <2>1. TypeOK'
      BY <1>2, ConstantsAssumption
      DEF InitRefused, MayCall, InitInv, TypeOK, ringVars, taskVars
    <2>2. SentInv'
      BY <1>2 DEF InitRefused, InitInv, SentInv, InitSentOnce
    <2>3. ListenInv'
      BY <1>2 DEF InitRefused, InitInv, ListenInv, Ready, ringVars, taskVars
    <2> QED
      BY <2>1, <2>2, <2>3 DEF InitInv
  <1>3. CASE InitBegins
    <2>1. Append(outlet, "Init") = <<"Init">>
      BY <1>3 DEF InitBegins, InitInv, SentInv
    <2>2. outlet' \in Seq({"Init", "Close"})
      BY <1>3, <2>1 DEF InitBegins, InitInv, TypeOK
    <2>3. TypeOK'
      BY <1>3, <2>2, ConstantsAssumption
      DEF InitBegins, MayCall, InitInv, TypeOK, ringVars, taskVars
    <2>4. outlet = <<>> /\ call = "none" /\ outlet' \in {<<>>, <<"Init">>}
      BY <1>3, <2>1 DEF InitBegins, InitInv, SentInv
    <2>5. SentInv'
      BY <1>3, <2>1, <2>4 DEF InitBegins, SentInv, InitSentOnce
    <2>6. ListenInv'
      BY <1>3, <2>4 DEF InitBegins, InitInv, ListenInv, ringVars, taskVars
    <2> QED
      BY <2>3, <2>5, <2>6 DEF InitInv
  <1>4. CASE InitSubscribes
    <2>1. TypeOK' /\ next' <= Len(published') + 1
      BY <1>4, ConstantsAssumption DEF InitSubscribes, InitInv, TypeOK
    <2>2. answer' = "none" /\ call' = "waiting"
      BY <1>4 DEF InitSubscribes, InitInv, ListenInv
    <2> QED
      BY <1>4, <2>1, <2>2 DEF InitSubscribes, InitInv, SentInv, ListenInv, InitSentOnce
  <1>5. CASE InitDropped
    <2>1. TypeOK'
      BY <1>5 DEF InitDropped, InitInv, TypeOK, ringVars, taskVars
    <2>2. SentInv'
      BY <1>5 DEF InitDropped, InitInv, SentInv, InitSentOnce
    <2>3. ListenInv'
      BY <1>5 DEF InitDropped, InitInv, ListenInv, Ready, ringVars, taskVars
    <2> QED
      BY <2>1, <2>2, <2>3 DEF InitInv
  <1>6. CASE InitReturns
    <2>1. outlet' \in Seq({"Init", "Close"})
      <3>1. <<"Init">> \in Seq({"Init", "Close"}) /\ <<"Init", "Close">> \in Seq({"Init", "Close"})
        OBVIOUS
      <3>2. outlet' \in {<<"Init">>, <<"Init", "Close">>} \/ outlet' = outlet
        BY <1>6, ReturnsKeeps
      <3>3. outlet \in Seq({"Init", "Close"})
        BY DEF InitInv, TypeOK
      <3> QED
        BY <3>1, <3>2, <3>3, Zenon
    <2>2. TypeOK'
      BY <1>6, <2>1, ReturnsKeeps DEF InitInv, TypeOK, ringVars, taskVars
    <2>3. SentInv'
      BY <1>6, ReturnsKeeps DEF InitReturns, InitInv, SentInv, InitSentOnce
    <2>4. ListenInv'
      BY <1>6, ReturnsKeeps DEF InitInv, ListenInv, Ready, ringVars, taskVars
    <2> QED
      BY <2>2, <2>3, <2>4 DEF InitInv
  <1>7. CASE ListenLagged
    BY <1>7, NextBounded, FailedAnswerInv DEF ListenLagged
  <1>8. CASE ListenFirst
    <2>1. next' = next + 1 /\ Arrived /\ waiter' = "second" /\ waiter # "none" /\ answer' = answer
      BY <1>8 DEF ListenFirst
    <2>2. answer' \in {"none", "ok", "err", "lost"}
      BY <2>1 DEF InitInv, TypeOK
    <2> QED
      BY <1>8, <2>1, <2>2, NextBounded, ListenKeeps DEF ListenFirst
  <1>9. CASE ListenTimeout
    BY <1>9, NextBounded, FailedAnswerInv DEF ListenTimeout
  <1>10. CASE ListenSecond
    <2>1. /\ waiter = "second" /\ Arrived /\ next' = next + 1
          /\ UNCHANGED <<callVars, ringVars>> /\ next' \in next..(Len(published) + 1)
      BY <1>10, NextBounded DEF ListenSecond
    <2>2. CASE published[next] = "Ready" /\ Answer(TRUE)
      <3>1. Ready'
        <4>1. next \in from..(next' - 1)
          BY <2>1, NextBounded
        <4>2. from' = from /\ published' = published
          BY <2>1 DEF ringVars
        <4> QED
          BY <2>2, <4>1, <4>2 DEF Ready
      <3>2. waiter' \in {"over", "panicked"} /\ answer' \in {"none", "ok", "err", "lost"}
        BY <2>2 DEF Answer, InitInv, TypeOK
      <3> QED
        BY <2>1, <3>1, <3>2, ListenKeeps
    <2>3. CASE published[next] = "Panic" /\ Answer(FALSE)
      BY <2>1, <2>3, FailedAnswerInv
    <2>4. CASE waiter' = "first" /\ answer' = answer
      <3>1. answer' \in {"none", "ok", "err", "lost"}
        BY <2>4 DEF InitInv, TypeOK
      <3> QED
        BY <2>1, <2>4, <3>1, ListenKeeps
    <2> QED
      BY <1>10, <2>2, <2>3, <2>4 DEF ListenSecond
  <1>11. CASE ListenCancelled
    BY <1>11, NextBounded, ListenKeeps DEF ListenCancelled
  <1>12. CASE UNCHANGED vars
    BY <1>12
    DEF vars, callVars, ringVars, taskVars, InitInv, TypeOK, SentInv, ListenInv, InitSentOnce, Ready
  <1> QED
    BY <1>1, <1>2, <1>3, <1>4, <1>5, <1>6, <1>7, <1>8, <1>9, <1>10, <1>11, <1>12 DEF Next, Listen

\* The invariant holds in every behaviour of Portal::init and its task.
THEOREM InitInvariant == Spec => []InitInv
  BY InitInitInv, InitStepInv, PTL DEF Spec

\* The variables of Portal::init keep their types.
THEOREM InitTypeCorrect == Spec => []TypeOK
  <1>1. InitInv => TypeOK
    BY DEF InitInv
  <1> QED
    BY <1>1, InitInvariant, PTL

\* init() returns Ok only for a Ready that came after it had subscribed,
\* whatever the far end sends, however late, and whatever the task missed.
THEOREM OkOnlyWhenReady == Spec => []OkMeansReady
  <1>1. InitInv => OkMeansReady
    BY DEF InitInv, ListenInv, OkMeansReady, Ready
  <1> QED
    BY <1>1, InitInvariant, PTL

\* However its calls end, init() puts one Init on the outlet, and one Close at
\* most, after it.
THEOREM OneInitSent == Spec => []InitSentOnce
  <1>1. InitInv => InitSentOnce
    BY DEF InitInv, SentInv
  <1> QED
    BY <1>1, InitInvariant, PTL
=============================================================================
