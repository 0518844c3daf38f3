----------------------------- MODULE GroupProofs -----------------------------
(***************************************************************************)
(* What is proved of Group for any members, coordinator threads and values: *)
(* its types; that a multicast reports as delivered only what was applied;  *)
(* that the view with the latest number is the current list of members; and *)
(* that, once the coordinator is quiet, its members agree on that list.     *)
(*                                                                          *)
(* The argument for the last two: a change of the list always leaves a      *)
(* thread that will announce it, and the view it announces is the latest    *)
(* until the next change.  Until a member has installed the latest view,    *)
(* some thread still owes it that view, or has given it up as failed and    *)
(* will remove it - which is a change again.                                *)
(***************************************************************************)
EXTENDS Group, NaturalsInduction, WellFoundedInduction, TLAPS

-----------------------------------------------------------------------------
(* The invariants                                                           *)

Working(t) == phase[t] \in {"snapshot", "send", "wait", "acked"}

\* What the types leave open: a thread at work has a payload, one that waits
\* has a target, only a loop under way has failed members, and a thread not
\* yet used has delivered nothing.
TaskInv ==
  \A t \in Tasks :
    /\ Working(t) => carries[t] \in Deliver \cup View
    /\ phase[t] \in {"wait", "acked"} => Left(t) # {}
    /\ failed[t] # {} => phase[t] \in {"send", "wait", "acked"}
    /\ phase[t] = "idle" => delivered[t] = {}

TypeInv == TypeOK /\ lostReplies \in Nat /\ TaskInv

\* What a multicast has reported was applied, and so was the delivery whose
\* acknowledgement its thread has yet to read.
Reported(t) ==
  carries[t].kind = "deliver" =>
    /\ \A m \in delivered[t] : <<m, carries[t].seq>> \in applied
    /\ phase[t] = "acked" => <<Target(t), carries[t].seq>> \in applied

\* With the GIL, no view is ever found newer and installed later.
SentInv == AtomicInstall => \A w \in wire : w.step = "sent"

\* No view has a number the coordinator has not given out, and nobody has
\* joined in a life it has not lived.
NumberInv ==
  /\ \A t \in Tasks : carries[t].kind = "view" => carries[t].id <= viewNo
  /\ \A w \in wire : w.msg.kind = "view" => w.msg.id <= viewNo
  /\ \A m \in Members : viewId[m] <= viewNo /\ joined[m] <= inc[m]

\* Some thread is about to announce a view.
Pending == \E t \in Tasks : phase[t] \in {"reply", "announce"}

\* The view with the latest number, wherever it is, lists the registered members.
AllLatest ==
  /\ \A t \in Tasks :
       carries[t].kind = "view" /\ carries[t].id = viewNo => carries[t].members = Registered
  /\ \A w \in wire :
       w.msg.kind = "view" /\ w.msg.id = viewNo => w.msg.members = Registered
  /\ \A m \in Members : viewId[m] = viewNo => view[m] = Registered
  /\ viewNo = 0 => Registered = {}

\* Thread t carries the latest view and has yet to deliver it to m.
Owes(t, m) ==
  /\ carries[t].kind = "view" /\ carries[t].id = viewNo
  /\ \/ phase[t] = "snapshot"
     \/ phase[t] \in {"send", "wait"} /\ m \in Left(t)
     \/ phase[t] = "acked" /\ m \in Left(t) /\ m # Target(t)

Here(m) == m \in Registered /\ alive[m] /\ joined[m] = inc[m]

\* A member that is here has the latest view, is owed it, or has been given up.
AllOwed ==
  \A m \in Members : Here(m) =>
    viewId[m] = viewNo \/ \E t \in Tasks : Owes(t, m) \/ m \in failed[t]

\* Both hold whenever nobody is about to announce a view.
AgreeInv == Pending \/ (AllLatest /\ AllOwed)

-----------------------------------------------------------------------------
(* Targets and payloads                                                     *)

\* A nonempty set of numbers has a least one.
LEMMA LeastExists ==
  ASSUME NEW S \in SUBSET Nat, S # {}
  PROVE  \E x \in S : \A y \in S : x <= y
<1>1. PICK x \in S : \A y \in S : <<y, x>> \notin OpToRel(<, Nat)
  BY WFMin, NatLessThanWellFounded, Zenon
<1>2. \A y \in S : ~(y < x)
  BY <1>1, Zenon DEF OpToRel
<1> QED  BY <1>2

\* The next target is one of those left.
LEMMA TargetLeft ==
  ASSUME NEW t \in Tasks, Left(t) # {}
  PROVE  Target(t) \in Left(t) /\ Target(t) \in Members
<1>1. Left(t) \in SUBSET Nat /\ Left(t) \subseteq Members
  BY GroupAssumption DEF Left
<1> HIDE DEF Left
<1>2. \E x \in Left(t) : \A y \in Left(t) : x <= y
  BY <1>1, LeastExists
<1>3. Target(t) \in Left(t)
  BY <1>2 DEF Target
<1> QED  BY <1>1, <1>3

\* A thread whose targets do not change keeps its next target.
LEMMA SameTarget ==
  ASSUME NEW t \in Tasks, targets'[t] = targets[t]
  PROVE  Left(t)' = Left(t) /\ Target(t)' = Target(t)
<1>1. Left(t)' = Left(t)
  BY DEF Left
<1>2. Target(t)' = CHOOSE m \in Left(t)' : \A n \in Left(t)' : m <= n
  BY DEF Target
<1> QED  BY <1>1, <1>2 DEF Target

\* What a multicast and a view consist of.
LEMMA DeliverFields ==
  ASSUME NEW p \in Deliver
  PROVE  p.kind = "deliver" /\ p.seq \in Nat /\ p.value \in Values
BY DEF Deliver

LEMMA ViewFields ==
  ASSUME NEW p \in View
  PROVE  p.kind = "view" /\ p.id \in Nat /\ p.members \in SUBSET Members
BY DEF View

\* The three kinds of payload are told apart by their kind.
LEMMA PayloadKinds ==
  ASSUME NEW p \in Payload
  PROVE  /\ p.kind = "deliver" <=> p \in Deliver
         /\ p.kind = "view" <=> p \in View
         /\ p.kind = "none" <=> p = NoPayload
<1>1. p \in Deliver \/ p \in View \/ p = NoPayload
  BY DEF Payload
<1>2. CASE p \in Deliver
  BY <1>2, DeliverFields, ViewFields DEF NoPayload
<1>3. CASE p \in View
  BY <1>3, DeliverFields, ViewFields DEF NoPayload
<1>4. CASE p = NoPayload
  BY <1>4, DeliverFields, ViewFields DEF NoPayload
<1> QED  BY <1>1, <1>2, <1>3, <1>4

-----------------------------------------------------------------------------
(* Types                                                                    *)

\* A failed delivery only moves on to the next target.
LEMMA MissTyped ==
  ASSUME TypeInv, NEW t \in Tasks, Left(t) # {}, Miss(t), Working(t),
         UNCHANGED <<coordVars, memberVars>>, wire' \subseteq Delivery, lostReplies' = lostReplies
  PROVE  TypeInv'
<1>1. Target(t) \in Members
  BY TargetLeft
<1>2. TypeOK'
  BY <1>1 DEF TypeInv, TypeOK, Miss, Goto, coordVars, memberVars, Phases
<1>3. TaskInv'
  <2> SUFFICES ASSUME NEW u \in Tasks
               PROVE  /\ Working(u)' => carries[u]' \in Deliver \cup View
                      /\ phase'[u] \in {"wait", "acked"} => Left(u)' # {}
                      /\ failed'[u] # {} => phase'[u] \in {"send", "wait", "acked"}
                      /\ phase'[u] = "idle" => delivered'[u] = {}
    BY DEF TaskInv
  <2>1. CASE u = t
    BY <2>1 DEF TypeInv, TypeOK, TaskInv, Miss, Goto, Working
  <2>2. CASE u # t
    BY <2>2, SameTarget DEF TypeInv, TypeOK, TaskInv, Miss, Goto, Working
  <2> QED  BY <2>1, <2>2
<1> QED  BY <1>2, <1>3 DEF TypeInv

\* An acknowledgement lets at most one thread go on.
LEMMA AckTyped ==
  ASSUME TypeInv, NEW w \in wire, Ack(w)
  PROVE  /\ wire' \subseteq Delivery /\ phase' \in [Tasks -> Phases] /\ TaskInv'
         /\ lostReplies' = lostReplies
<1>1. w \in Delivery /\ w.task \in Tasks
  BY DEF TypeInv, TypeOK, Delivery
<1>2. wire' \subseteq Delivery /\ phase' \in [Tasks -> Phases] /\ lostReplies' = lostReplies
  BY <1>1 DEF TypeInv, TypeOK, Ack, Phases, bounds
<1>3. TaskInv'
  <2> SUFFICES ASSUME NEW u \in Tasks
               PROVE  /\ Working(u)' => carries[u]' \in Deliver \cup View
                      /\ phase'[u] \in {"wait", "acked"} => Left(u)' # {}
                      /\ failed'[u] # {} => phase'[u] \in {"send", "wait", "acked"}
                      /\ phase'[u] = "idle" => delivered'[u] = {}
    BY DEF TaskInv
  <2>1. UNCHANGED <<carries, targets, failed, delivered>>
    BY DEF Ack
  <2>2. phase'[u] = phase[u] \/ (phase[u] = "wait" /\ phase'[u] = "acked")
    <3>1. phase \in [Tasks -> Phases]
      BY DEF TypeInv, TypeOK
    <3>2. phase' = [phase EXCEPT ![w.task] =
                      IF phase[w.task] = "wait" /\ Awaited(w.task, w) THEN "acked" ELSE phase[w.task]]
      BY DEF Ack
    <3> QED  BY <1>1, <3>1, <3>2
  <2> QED  BY <2>1, <2>2, SameTarget DEF TypeInv, TaskInv, Working
<1> QED  BY <1>2, <1>3

\* The member could be reached: the delivery is on the wire.
Sends(t) ==
  /\ wire' = wire \cup {[task |-> t, to |-> Target(t), inc |-> inc[Target(t)],
                         msg |-> carries[t], step |-> "sent"]}
  /\ Goto(t, "wait")
  /\ UNCHANGED <<carries, targets, failed, delivered, requester>>

\* What a thread of the coordinator does by itself.
LEMMA StepTyped ==
  ASSUME TypeInv, NEW t \in Tasks,
         Step(t) \/ ReplyFails(t) \/ Timeout(t)
  PROVE  TypeInv'
<1> USE DEF TypeInv, coordVars, memberVars, bounds
<1>1. CASE Announce(t)
  <2>1. Registered \in SUBSET Members
    BY DEF Registered
  <2>2. carries' \in [Tasks -> Payload] /\ carries'[t] \in View
    BY <1>1, <2>1 DEF Announce, TypeOK, Payload, View
  <2>3. TypeOK'
    BY <1>1, <2>2 DEF Announce, TypeOK, Goto, Phases
  <2>4. TaskInv'
    BY <1>1, <2>2, SameTarget DEF Announce, TaskInv, Goto, Working, TypeOK
  <2> QED  BY <1>1, <2>3, <2>4 DEF Announce
<1>2. CASE Snapshot(t)
  <2>1. TypeOK'
    BY <1>2 DEF Snapshot, TypeOK, Goto, Phases
  <2>2. TaskInv'
    BY <1>2, SameTarget DEF Snapshot, TaskInv, Goto, Working, TypeOK
  <2> QED  BY <1>2, <2>1, <2>2 DEF Snapshot
<1>3. CASE SendTo(t)
  <2>1. Target(t) \in Members /\ carries[t] \in Deliver \cup View
    BY <1>3, TargetLeft DEF SendTo, TaskInv, Working
  <2>2. CASE Miss(t) /\ UNCHANGED wire
    BY <1>3, <2>2, MissTyped DEF SendTo, TypeOK, Working
  <2>3. CASE Sends(t)
    <3>1. wire' \subseteq Delivery
      BY <2>1, <2>3 DEF Sends, TypeOK, Delivery
    <3>2. TypeOK'
      BY <1>3, <2>3, <3>1 DEF SendTo, Sends, TypeOK, Goto, Phases
    <3>3. TaskInv'
      BY <1>3, <2>3, SameTarget DEF SendTo, Sends, TaskInv, Goto, Working, TypeOK
    <3> QED  BY <1>3, <3>2, <3>3 DEF SendTo
  <2> QED  BY <1>3, <2>2, <2>3 DEF SendTo, Sends
<1>4. CASE AckRead(t)
  <2>1. Target(t) \in Members
    BY <1>4, TargetLeft DEF AckRead, TaskInv
  <2>2. TypeOK'
    BY <1>4, <2>1 DEF AckRead, TypeOK, Goto, Phases
  <2>3. TaskInv'
    BY <1>4, SameTarget DEF AckRead, TaskInv, Goto, Working, TypeOK
  <2> QED  BY <1>4, <2>2, <2>3 DEF AckRead
<1>5. CASE ConnectionLost(t) \/ Timeout(t)
  <2>1. Left(t) # {} /\ Working(t)
    BY <1>5 DEF ConnectionLost, Timeout, TaskInv, Working
  <2> QED  BY <1>5, <2>1, MissTyped DEF ConnectionLost, Timeout, TypeOK
<1>6. CASE EndFanout(t)
  <2>1. TypeOK'
    BY <1>6 DEF EndFanout, AfterLoop, TypeOK, Goto, Phases, Payload
  <2>2. TaskInv'
    BY <1>6, SameTarget DEF EndFanout, AfterLoop, TaskInv, Goto, Working, TypeOK
  <2> QED  BY <1>6, <2>1, <2>2 DEF EndFanout
<1>7. CASE ReplyFails(t)
  <2>1. TypeOK'
    BY <1>7 DEF ReplyFails, TypeOK, Goto, Phases
  <2>2. TaskInv'
    BY <1>7, SameTarget DEF ReplyFails, TaskInv, Goto, Working, TypeOK
  <2> QED  BY <1>7, <2>1, <2>2 DEF ReplyFails
<1> QED  BY <1>1, <1>2, <1>3, <1>4, <1>5, <1>6, <1>7 DEF Step

\* A request makes an unused thread the thread that serves it.
LEMMA RequestTyped ==
  ASSUME TypeInv, NEW t \in Tasks,
         \/ \E m \in Members : Join(m, t) \/ Leave(m, t)
         \/ \E v \in Values : Multicast(t, v)
  PROVE  TypeInv'
<1> USE DEF TypeInv, coordVars, memberVars, bounds
<1>1. ASSUME NEW m \in Members, Join(m, t) \/ Leave(m, t) PROVE TypeInv'
  <2>1. groups' \in [Members -> Nat] /\ joined' \in [Members -> Nat]
    <3>1. PortOf(m) \in Nat /\ inc[m] \in Nat
      BY DEF PortOf, TypeOK
    <3>2. CASE Join(m, t)
      BY <3>1, <3>2 DEF Join, TypeOK
    <3>3. CASE Leave(m, t)
      BY <3>3 DEF Leave, TypeOK
    <3> QED  BY <1>1, <3>2, <3>3
  <2>2. phase' \in [Tasks -> Phases]
    BY <1>1 DEF Join, Leave, TypeOK, Goto, Phases
  <2>3. TypeOK'
    BY <1>1, <2>1, <2>2 DEF Join, Leave, TypeOK
  <2>4. TaskInv'
    BY <1>1, SameTarget DEF Join, Leave, TaskInv, Goto, Working, TypeOK
  <2> QED  BY <1>1, <2>3, <2>4 DEF Join, Leave
<1>2. ASSUME NEW v \in Values, Multicast(t, v) PROVE TypeInv'
  <2>1. carries' \in [Tasks -> Payload] /\ carries'[t] \in Deliver
    BY <1>2 DEF Multicast, TypeOK, Payload, Deliver
  <2>2. TypeOK'
    BY <1>2, <2>1 DEF Multicast, TypeOK, Goto, Phases
  <2>3. TaskInv'
    BY <1>2, <2>1, SameTarget DEF Multicast, TaskInv, Goto, Working, TypeOK
  <2> QED  BY <1>2, <2>2, <2>3 DEF Multicast
<1> QED  BY <1>1, <1>2

\* A member handles a delivery, dies or is started again.
LEMMA MemberTyped ==
  ASSUME TypeInv,
         \/ \E w \in wire : Handle(w)
         \/ \E m \in Members : Crash(m) \/ Restart(m)
  PROVE  TypeInv'
<1> USE DEF TypeInv, coordVars, memberVars, bounds
<1>1. ASSUME NEW w \in wire, HandleDeliver(w) PROVE TypeInv'
  <2>1. w.to \in Members /\ w.msg \in Deliver
    BY <1>1, ViewFields DEF TypeOK, Delivery, HandleDeliver
  <2>2. w.msg.seq \in Nat /\ w.msg.value \in Values
    BY <2>1, DeliverFields
  <2>3. log' \in [Members -> SUBSET Nat] /\ state' \in [Members -> Values \cup {NoValue}]
    BY <1>1, <2>1, <2>2 DEF HandleDeliver, TypeOK
  <2>4. applied' \subseteq Members \X Nat
    BY <1>1, <2>1, <2>2 DEF HandleDeliver, TypeOK
  <2>5. Ack(w) /\ UNCHANGED <<viewId, view>>
    BY <1>1 DEF HandleDeliver
  <2>6. TypeOK'
    BY <2>3, <2>4, <2>5, AckTyped DEF TypeOK, Ack
  <2> QED  BY <2>5, <2>6, AckTyped DEF TypeOK
<1>2. ASSUME NEW w \in wire, HandleView(w) PROVE TypeInv'
  <2>1. w.to \in Members /\ w.msg \in View /\ w \in Delivery
    BY <1>2, DeliverFields DEF TypeOK, Delivery, HandleView
  <2>2. w.msg.id \in Nat /\ w.msg.members \in SUBSET Members
    BY <2>1, ViewFields
  <2>3. CASE Ack(w)
    <3>1. viewId' \in [Members -> Nat] /\ view' \in [Members -> SUBSET Members]
      BY <1>2, <2>1, <2>2, <2>3 DEF HandleView, Install, Ack, TypeOK
    <3>2. UNCHANGED <<log, state, applied>>
      BY <1>2, <2>3 DEF HandleView, Install
    <3>3. TypeOK'
      BY <2>3, <3>1, <3>2, AckTyped DEF TypeOK, Ack
    <3> QED  BY <2>3, <3>3, AckTyped DEF TypeOK
  <2>4. CASE ~Ack(w)
    <3>1. /\ wire' = (wire \ {w}) \cup {[w EXCEPT !.step = "checked"]}
          /\ UNCHANGED <<coordVars, taskVars, memberVars, bounds>>
      BY <1>2, <2>4 DEF HandleView, Install
    <3>2. [w EXCEPT !.step = "checked"] \in Delivery
      BY <2>1 DEF Delivery
    <3>3. TypeOK'
      BY <3>1, <3>2 DEF TypeOK, taskVars
    <3>4. TaskInv'
      BY <3>1, SameTarget DEF TaskInv, Working, taskVars
    <3> QED  BY <3>1, <3>3, <3>4
  <2> QED  BY <2>3, <2>4
<1>3. ASSUME NEW m \in Members, Crash(m) \/ Restart(m) PROVE TypeInv'
  <2>1. Crash(m) => TypeOK'
    BY DEF Crash, TypeOK, taskVars
  <2>2. ASSUME Restart(m) PROVE TypeOK'
    <3>0. alive' \in [Members -> BOOLEAN]
      BY <2>2 DEF Restart, TypeOK
    <3>1. inc' \in [Members -> Nat]
      <4>1. inc \in [Members -> Nat] /\ inc[m] + 1 \in Nat
        BY DEF TypeOK
      <4> QED  BY <2>2, <4>1 DEF Restart
    <3>2. viewId' \in [Members -> Nat] /\ view' \in [Members -> SUBSET Members]
      BY <2>2 DEF Restart, TypeOK
    <3>3. log' \in [Members -> SUBSET Nat]
      BY <2>2 DEF Restart, TypeOK
    <3>4. state' \in [Members -> Values \cup {NoValue}]
      BY <2>2 DEF Restart, TypeOK
    <3>5. UNCHANGED <<groups, seqNo, viewNo, phase, carries, targets, failed, delivered>>
      BY <2>2 DEF Restart, taskVars
    <3>6. UNCHANGED <<wire, joined, applied>>
      BY <2>2 DEF Restart
    <3> QED  BY <3>0, <3>1, <3>2, <3>3, <3>4, <3>5, <3>6 DEF TypeOK
  <2>3. TaskInv'
    BY <1>3, SameTarget DEF Crash, Restart, TaskInv, Working, taskVars
  <2> QED  BY <1>3, <2>1, <2>2, <2>3 DEF Crash, Restart
<1> QED  BY <1>1, <1>2, <1>3 DEF Handle

LEMMA InitTyped == Init => TypeInv
BY GroupAssumption DEF Init, TypeInv, TypeOK, TaskInv, NoTargets, Phases, Payload, Working

LEMMA StepTypeInv == TypeInv /\ [Next]_vars => TypeInv'
<1> SUFFICES ASSUME TypeInv, [Next]_vars PROVE TypeInv'
  OBVIOUS
<1>1. CASE UNCHANGED vars
  <2>1. TypeOK' /\ lostReplies' \in Nat
    BY <1>1 DEF vars, coordVars, taskVars, memberVars, bounds, TypeInv, TypeOK
  <2>2. TaskInv'
    BY <1>1, SameTarget DEF vars, taskVars, TypeInv, TaskInv, Working
  <2> QED  BY <2>1, <2>2 DEF TypeInv
<1>2. CASE Next
  BY <1>2, StepTyped, RequestTyped, MemberTyped DEF Next
<1> QED  BY <1>1, <1>2

\* The variables hold what the code can put in them.
THEOREM TypeCorrect == Spec => []TypeOK
<1>1. TypeInv => TypeOK
  BY DEF TypeInv
<1> QED  BY <1>1, InitTyped, StepTypeInv, PTL DEF Spec

-----------------------------------------------------------------------------
(* What a multicast reports                                                 *)

\* What a thread reports stays applied.
LEMMA ReportedKept ==
  ASSUME NEW t \in Tasks, Reported(t), applied \subseteq applied',
         carries'[t] = carries[t], targets'[t] = targets[t], delivered'[t] = delivered[t],
         phase'[t] = "acked" => phase[t] = "acked"
  PROVE  Reported(t)'
BY SameTarget DEF Reported

LEMMA StepReported ==
  ASSUME TypeInv, NEW t \in Tasks, Reported(t), Step(t) \/ ReplyFails(t) \/ Timeout(t)
  PROVE  Reported(t)'
<1> USE DEF TypeInv, TypeOK, Reported, Goto, memberVars
<1>1. CASE Announce(t)
  BY <1>1 DEF Announce
<1>2. CASE Snapshot(t) \/ ReplyFails(t)
  BY <1>2 DEF Snapshot, ReplyFails
<1>3. CASE SendTo(t)
  BY <1>3 DEF SendTo, Miss
<1>4. CASE AckRead(t)
  BY <1>4 DEF AckRead
<1>5. CASE ConnectionLost(t) \/ Timeout(t)
  BY <1>5 DEF ConnectionLost, Timeout, Miss
<1>6. CASE EndFanout(t)
  BY <1>6 DEF EndFanout, NoPayload
<1> QED  BY <1>1, <1>2, <1>3, <1>4, <1>5, <1>6 DEF Step

LEMMA RequestReported ==
  ASSUME TypeInv, NEW t \in Tasks, Reported(t),
         \/ \E m \in Members : Join(m, t) \/ Leave(m, t)
         \/ \E v \in Values : Multicast(t, v)
  PROVE  Reported(t)'
<1> USE DEF TypeInv, TypeOK, Reported, Goto, memberVars
<1>1. ASSUME NEW m \in Members, Join(m, t) \/ Leave(m, t) PROVE Reported(t)'
  BY <1>1 DEF Join, Leave
<1>2. ASSUME NEW v \in Values, Multicast(t, v) PROVE Reported(t)'
  <2>1. delivered'[t] = {} /\ phase'[t] = "snapshot"
    BY <1>2 DEF Multicast, TaskInv
  <2> QED  BY <2>1
<1> QED  BY <1>1, <1>2

\* A delivery is applied before it is acknowledged.
LEMMA MemberReported ==
  ASSUME TypeInv, NEW t \in Tasks, Reported(t),
         \/ \E w \in wire : Handle(w)
         \/ \E m \in Members : Crash(m) \/ Restart(m)
  PROVE  Reported(t)'
<1>0. phase \in [Tasks -> Phases]
  BY DEF TypeInv, TypeOK
<1>1. ASSUME NEW w \in wire, Handle(w) PROVE Reported(t)'
  <2>1. /\ applied \subseteq applied'
        /\ carries' = carries /\ targets' = targets /\ delivered' = delivered
    BY <1>1 DEF Handle, HandleDeliver, HandleView, Install, Ack, taskVars, memberVars
  <2>2. CASE phase'[t] = "acked" => phase[t] = "acked"
    BY <2>1, <2>2, ReportedKept
  <2>3. CASE phase'[t] = "acked" /\ phase[t] # "acked"
    <3>1. Ack(w)
      BY <1>1, <2>3 DEF Handle, HandleDeliver, HandleView, Install, taskVars
    <3>2. w.task \in Tasks
      BY DEF TypeInv, TypeOK, Delivery
    <3>3. w.task = t /\ Awaited(t, w)
      <4>1. phase' = [phase EXCEPT ![w.task] =
                       IF phase[w.task] = "wait" /\ Awaited(w.task, w) THEN "acked" ELSE phase[w.task]]
        BY <3>1 DEF Ack
      <4> QED  BY <1>0, <2>3, <3>2, <4>1
    <3>4. w.to = Target(t) /\ w.msg = carries[t]
      BY <3>3 DEF Awaited
    <3>5. CASE carries[t].kind = "deliver"
      <4>1. <<w.to, w.msg.seq>> \in applied'
        BY <1>1, <3>4, <3>5 DEF Handle, HandleDeliver, HandleView
      <4> QED  BY <2>1, <3>4, <4>1, SameTarget DEF Reported
    <3>6. CASE carries[t].kind # "deliver"
      BY <2>1, <3>6 DEF Reported
    <3> QED  BY <3>5, <3>6
  <2> QED  BY <2>2, <2>3
<1>2. ASSUME NEW m \in Members, Crash(m) \/ Restart(m) PROVE Reported(t)'
  BY <1>2, ReportedKept DEF Crash, Restart, taskVars
<1> QED  BY <1>1, <1>2

\* A thread does not touch what another one reports.
LEMMA OthersReported ==
  ASSUME TypeInv, NEW t \in Tasks, NEW u \in Tasks, u # t, Reported(u),
         \/ Step(t) \/ ReplyFails(t) \/ Timeout(t)
         \/ \E m \in Members : Join(m, t) \/ Leave(m, t)
         \/ \E v \in Values : Multicast(t, v)
  PROVE  Reported(u)'
<1>1. /\ applied' = applied
      /\ phase'[u] = phase[u] /\ carries'[u] = carries[u]
      /\ targets'[u] = targets[u] /\ delivered'[u] = delivered[u]
  <2> USE DEF TypeInv, TypeOK, Goto, memberVars
  <2>1. CASE Step(t)
    BY <2>1 DEF Step, Announce, Snapshot, SendTo, Miss, AckRead, ConnectionLost, EndFanout
  <2>2. CASE ReplyFails(t) \/ Timeout(t)
    BY <2>2 DEF ReplyFails, Timeout, Miss
  <2>3. ASSUME NEW m \in Members, Join(m, t) \/ Leave(m, t) PROVE <1>1!:
    BY <2>3 DEF Join, Leave
  <2>4. ASSUME NEW v \in Values, Multicast(t, v) PROVE <1>1!:
    BY <2>4 DEF Multicast
  <2> QED  BY <2>1, <2>2, <2>3, <2>4
<1> QED  BY <1>1, ReportedKept

LEMMA ReportInvariant ==
  Spec => [](TypeInv /\ \A t \in Tasks : Reported(t))
<1>1. Init => \A t \in Tasks : Reported(t)
  BY DEF Init, Reported, NoPayload
<1>2. TypeInv /\ (\A t \in Tasks : Reported(t)) /\ [Next]_vars => (\A t \in Tasks : Reported(t))'
  <2> SUFFICES ASSUME TypeInv, \A u \in Tasks : Reported(u), [Next]_vars, NEW t \in Tasks
               PROVE  Reported(t)'
    OBVIOUS
  <2>1. CASE UNCHANGED vars
    BY <2>1, ReportedKept DEF vars, taskVars, memberVars
  <2>2. ASSUME NEW u \in Tasks,
               \/ Step(u) \/ ReplyFails(u) \/ Timeout(u)
               \/ \E m \in Members : Join(m, u) \/ Leave(m, u)
               \/ \E v \in Values : Multicast(u, v)
        PROVE  Reported(t)'
    BY <2>2, StepReported, RequestReported, OthersReported
  <2>3. CASE \/ \E w \in wire : Handle(w)
             \/ \E m \in Members : Crash(m) \/ Restart(m)
    BY <2>3, MemberReported
  <2> QED  BY <2>1, <2>2, <2>3 DEF Next
<1> QED  BY <1>1, <1>2, InitTyped, StepTypeInv, PTL DEF Spec

\* A multicast reports in delivered_to only members that applied it.
THEOREM ReportsAreTrue == Spec => []DeliveredApplied
<1>1. (\A t \in Tasks : Reported(t)) => DeliveredApplied
  BY DEF DeliveredApplied, Reported
<1> QED  BY <1>1, ReportInvariant, PTL

-----------------------------------------------------------------------------
(* Where views come from                                                    *)

\* What the threads of the coordinator do, and what the members do.
TaskStep(t) ==
  \/ Step(t) \/ ReplyFails(t) \/ Timeout(t)
  \/ \E m \in Members : Join(m, t) \/ Leave(m, t)
  \/ \E v \in Values : Multicast(t, v)

MemberStep ==
  \/ \E w \in wire : Handle(w)
  \/ \E m \in Members : Crash(m) \/ Restart(m)

LEMMA NextSplits == Next <=> (\E t \in Tasks : TaskStep(t)) \/ MemberStep
BY DEF Next, TaskStep, MemberStep

\* A thread that announces a view takes the next number and the present members.
Announces(t) ==
  /\ phase[t] \in {"reply", "announce"} /\ phase'[t] = "snapshot"
  /\ viewNo' = viewNo + 1 /\ UNCHANGED groups
  /\ carries'[t] = [kind |-> "view", id |-> viewNo', members |-> Registered]

\* A thread changes its own phase and payload only; only announcing gives it a view.
MovesAlone(t) ==
  /\ UNCHANGED <<viewId, view>>
  /\ \/ Announces(t)
     \/ /\ viewNo' = viewNo
        /\ carries'[t] = carries[t] \/ carries'[t].kind # "view"
  /\ \A u \in Tasks : u # t => /\ phase'[u] = phase[u] /\ carries'[u] = carries[u]
                             /\ targets'[u] = targets[u] /\ failed'[u] = failed[u]

LEMMA TaskStepAlone ==
  ASSUME TypeInv, NEW t \in Tasks, TaskStep(t)
  PROVE  MovesAlone(t)
<1> USE DEF TypeInv, TypeOK, MovesAlone, Goto, memberVars, coordVars
<1>1. CASE Announce(t)
  BY <1>1 DEF Announce, Announces
<1>2. CASE Snapshot(t) \/ ReplyFails(t)
  BY <1>2 DEF Snapshot, ReplyFails
<1>3. CASE SendTo(t)
  BY <1>3 DEF SendTo, Miss
<1>4. CASE AckRead(t)
  BY <1>4 DEF AckRead
<1>5. CASE ConnectionLost(t) \/ Timeout(t)
  BY <1>5 DEF ConnectionLost, Timeout, Miss
<1>6. CASE EndFanout(t)
  BY <1>6 DEF EndFanout, NoPayload
<1>7. ASSUME NEW m \in Members, Join(m, t) \/ Leave(m, t) PROVE MovesAlone(t)
  BY <1>7 DEF Join, Leave
<1>8. ASSUME NEW v \in Values, Multicast(t, v) PROVE MovesAlone(t)
  BY <1>8 DEF Multicast
<1> QED  BY <1>1, <1>2, <1>3, <1>4, <1>5, <1>6, <1>7, <1>8 DEF TaskStep, Step

\* A view that a thread carries it carried before, or it announces it now.
LEMMA CarriesFrom ==
  ASSUME TypeInv, [Next]_vars, NEW u \in Tasks, carries'[u].kind = "view", carries'[u] # carries[u]
  PROVE  /\ viewNo' = viewNo + 1
         /\ carries'[u].id = viewNo' /\ carries'[u].members = Registered
<1>1. ~UNCHANGED vars
  BY DEF vars, taskVars
<1>2. ~MemberStep
  BY DEF MemberStep, Handle, HandleDeliver, HandleView, Install, Ack, Crash, Restart, taskVars
<1>3. PICK t \in Tasks : TaskStep(t)
  BY <1>1, <1>2, NextSplits
<1>4. MovesAlone(t) /\ u = t
  BY <1>3, TaskStepAlone DEF MovesAlone
<1>5. Announces(u)
  BY <1>4 DEF MovesAlone
<1> QED  BY <1>5 DEF Announces

\* What is on the wire was there, or is what a thread at work carries.
LEMMA WireFrom ==
  ASSUME TypeInv, [Next]_vars, NEW w \in wire'
  PROVE  \/ \E v \in wire : v.msg = w.msg /\ v.to = w.to
         \/ \E t \in Tasks : w.msg = carries[t]
<1>1. CASE UNCHANGED vars
  BY <1>1 DEF vars
<1>2. ASSUME NEW t \in Tasks, TaskStep(t)
      PROVE  wire' = wire \/ Sends(t)
  <2>1. CASE Step(t)
    BY <2>1 DEF Step, Announce, Snapshot, SendTo, Sends, AckRead, ConnectionLost, EndFanout
  <2>2. CASE ~Step(t)
    BY <1>2, <2>2 DEF TaskStep, ReplyFails, Timeout, Join, Leave, Multicast
  <2> QED  BY <2>1, <2>2
<1>3. ASSUME NEW t \in Tasks, Sends(t)
      PROVE  w \in wire \/ w.msg = carries[t]
  BY <1>3 DEF Sends
<1>4. ASSUME NEW v \in wire, Handle(v)
      PROVE  w \in wire \/ (w.msg = v.msg /\ w.to = v.to)
  <2>1. v \in Delivery
    BY DEF TypeInv, TypeOK
  <2>2. CASE Ack(v)
    BY <2>2 DEF Ack
  <2>3. CASE ~Ack(v)
    <3>1. wire' = (wire \ {v}) \cup {[v EXCEPT !.step = "checked"]}
      BY <1>4, <2>3 DEF Handle, HandleDeliver, HandleView, Install
    <3> QED  BY <2>1, <3>1 DEF Delivery
  <2> QED  BY <2>2, <2>3
<1>5. ASSUME NEW m \in Members, Crash(m) \/ Restart(m)
      PROVE  w \in wire
  BY <1>5 DEF Crash, Restart
<1>6. CASE MemberStep
  BY <1>4, <1>5, <1>6 DEF MemberStep
<1> QED  BY <1>1, <1>2, <1>3, <1>6, NextSplits

\* A member installs what it was sent, and with the GIL only what is newer; or
\* it starts again with the empty view.
ViewMoves(m) ==
  \/ viewId'[m] = viewId[m] /\ view'[m] = view[m]
  \/ viewId'[m] = 0 /\ view'[m] = {} /\ inc'[m] = inc[m] + 1
  \/ /\ \E w \in wire : /\ w.msg.kind = "view" /\ w.to = m
                       /\ viewId'[m] = w.msg.id /\ view'[m] = w.msg.members
     /\ AtomicInstall => viewId'[m] > viewId[m]

LEMMA InstalledFrom ==
  ASSUME TypeInv, SentInv, [Next]_vars, NEW m \in Members
  PROVE  ViewMoves(m)
<1> USE DEF TypeInv, TypeOK, ViewMoves
<1>1. ASSUME NEW w \in wire, HandleDeliver(w) PROVE ViewMoves(m)
  BY <1>1 DEF HandleDeliver
<1>2. ASSUME NEW w \in wire, HandleView(w) PROVE ViewMoves(m)
  <2>1. w.to \in Members
    BY DEF Delivery
  <2>2. CASE UNCHANGED <<viewId, view>>
    BY <2>2
  <2>3. CASE ~UNCHANGED <<viewId, view>>
    <3>0. Install(w)
      BY <1>2, <2>3 DEF HandleView, memberVars
    <3>1. AtomicInstall => w.msg.id > viewId[w.to]
      BY <1>2, <2>3 DEF HandleView, SentInv, Newer, memberVars
    <3>2. CASE m = w.to
      <4>1. w.msg.kind = "view" /\ viewId'[m] = w.msg.id /\ view'[m] = w.msg.members
        BY <1>2, <2>1, <3>0, <3>2 DEF Install, HandleView
      <4> QED  BY <3>1, <3>2, <4>1
    <3>3. CASE m # w.to
      BY <2>1, <3>0, <3>3 DEF Install
    <3> QED  BY <3>2, <3>3
  <2> QED  BY <2>2, <2>3
<1>3. ASSUME NEW n \in Members, Crash(n) PROVE ViewMoves(m)
  BY <1>3 DEF Crash
<1>4. ASSUME NEW n \in Members, Restart(n) PROVE ViewMoves(m)
  BY <1>4 DEF Restart
<1>5. ASSUME NEW t \in Tasks, TaskStep(t) PROVE ViewMoves(m)
  BY <1>5, TaskStepAlone DEF MovesAlone
<1>6. CASE UNCHANGED vars
  BY <1>6 DEF vars, memberVars
<1> QED  BY <1>1, <1>2, <1>3, <1>4, <1>5, <1>6, NextSplits DEF MemberStep, Handle

-----------------------------------------------------------------------------
(* The numbers of views                                                     *)

LEMMA StepSent == TypeInv /\ SentInv /\ [Next]_vars => SentInv'
<1> SUFFICES ASSUME TypeInv, SentInv, [Next]_vars, AtomicInstall, NEW w \in wire'
             PROVE  w.step = "sent"
  BY DEF SentInv
<1>1. \A v \in wire : v.step = "sent"
  BY DEF SentInv
<1>2. CASE UNCHANGED vars
  BY <1>1, <1>2 DEF vars
<1>3. ASSUME NEW t \in Tasks, TaskStep(t) PROVE w.step = "sent"
  <2>1. CASE Step(t)
    BY <1>1, <2>1 DEF Step, Announce, Snapshot, SendTo, AckRead, ConnectionLost, EndFanout
  <2>2. CASE ~Step(t)
    BY <1>1, <1>3, <2>2 DEF TaskStep, ReplyFails, Timeout, Join, Leave, Multicast
  <2> QED  BY <2>1, <2>2
<1>4. CASE MemberStep
  <2>1. ASSUME NEW v \in wire, Handle(v) PROVE wire' \subseteq wire
    BY <2>1 DEF Handle, HandleDeliver, HandleView, Install, Ack
  <2>2. ASSUME NEW m \in Members, Crash(m) \/ Restart(m) PROVE wire' \subseteq wire
    BY <2>2 DEF Crash, Restart
  <2> QED  BY <1>1, <1>4, <2>1, <2>2 DEF MemberStep
<1> QED  BY <1>2, <1>3, <1>4, NextSplits

\* A joined life has been lived.
LEMMA StepJoined ==
  ASSUME TypeInv, [Next]_vars, NEW m \in Members, joined[m] <= inc[m]
  PROVE  joined'[m] <= inc'[m]
<1> USE DEF TypeInv, TypeOK
<1>0. joined[m] \in Nat /\ inc[m] \in Nat
  OBVIOUS
<1>1. CASE UNCHANGED <<joined, inc>>
  BY <1>1
<1>2. ASSUME NEW t \in Tasks, NEW n \in Members, Join(n, t) \/ Leave(n, t)
      PROVE  joined'[m] <= inc'[m]
  <2>1. inc' = inc /\ joined' \in {[joined EXCEPT ![n] = inc[n]], [joined EXCEPT ![n] = 0]}
    BY <1>2 DEF Join, Leave
  <2>2. joined'[m] = joined[m] \/ joined'[m] = inc[m] \/ joined'[m] = 0
    BY <2>1
  <2> QED  BY <1>0, <2>1, <2>2
<1>3. ASSUME NEW n \in Members, Crash(n) \/ Restart(n) PROVE joined'[m] <= inc'[m]
  BY <1>0, <1>3 DEF Crash, Restart
<1>4. ASSUME NEW t \in Tasks, Step(t) \/ ReplyFails(t) \/ Timeout(t)
      PROVE  UNCHANGED <<joined, inc>>
  BY <1>4 DEF Step, Announce, Snapshot, SendTo, AckRead, ConnectionLost, EndFanout, ReplyFails,
              Timeout, memberVars
<1>5. ASSUME NEW t \in Tasks, NEW v \in Values, Multicast(t, v) PROVE UNCHANGED <<joined, inc>>
  BY <1>5 DEF Multicast, memberVars
<1>6. ASSUME NEW w \in wire, Handle(w) PROVE UNCHANGED <<joined, inc>>
  BY <1>6 DEF Handle, HandleDeliver, HandleView, Install, Ack, memberVars
<1>7. CASE UNCHANGED vars
  BY <1>7 DEF vars, memberVars
<1> QED  BY <1>1, <1>2, <1>3, <1>4, <1>5, <1>6, <1>7 DEF Next

LEMMA StepNumbers ==
  ASSUME TypeInv, SentInv, NumberInv, [Next]_vars
  PROVE  NumberInv'
<1>0. viewNo \in Nat
  BY DEF TypeInv, TypeOK
<1>1. viewNo' = viewNo \/ viewNo' = viewNo + 1
  <2>1. CASE UNCHANGED vars
    BY <2>1 DEF vars, coordVars
  <2>2. ASSUME NEW t \in Tasks, TaskStep(t) PROVE viewNo' = viewNo \/ viewNo' = viewNo + 1
    BY <2>2, TaskStepAlone DEF MovesAlone, Announces
  <2>3. CASE MemberStep
    BY <2>3 DEF MemberStep, Handle, HandleDeliver, HandleView, Install, Ack, Crash, Restart, coordVars
  <2> QED  BY <2>1, <2>2, <2>3, NextSplits
<1>2. ASSUME NEW u \in Tasks, carries'[u].kind = "view" PROVE carries'[u].id <= viewNo'
  <2>1. carries[u] \in Payload /\ (carries[u].kind = "view" => carries[u].id \in Nat)
    BY PayloadKinds, ViewFields DEF TypeInv, TypeOK
  <2>2. CASE carries'[u] = carries[u]
    BY <1>0, <1>1, <1>2, <2>1, <2>2 DEF NumberInv
  <2>3. CASE carries'[u] # carries[u]
    BY <1>0, <1>2, <2>3, CarriesFrom
  <2> QED  BY <2>2, <2>3
<1>3. ASSUME NEW w \in wire', w.msg.kind = "view" PROVE w.msg.id <= viewNo'
  <2>1. w.msg.id <= viewNo
    BY <1>3, WireFrom DEF NumberInv
  <2>2. w.msg.id \in Nat
    <3>1. ASSUME NEW v \in wire, v.msg = w.msg PROVE w.msg \in View
      BY <1>3, <3>1, DeliverFields DEF TypeInv, TypeOK, Delivery
    <3>2. ASSUME NEW t \in Tasks, w.msg = carries[t] PROVE w.msg \in View
      BY <1>3, <3>2, PayloadKinds DEF TypeInv, TypeOK
    <3> QED  BY <3>1, <3>2, WireFrom, ViewFields
  <2> QED  BY <1>0, <1>1, <2>1, <2>2
<1>4. ASSUME NEW m \in Members PROVE viewId'[m] <= viewNo'
  <2>1. viewId[m] <= viewNo /\ viewId[m] \in Nat /\ viewId'[m] \in Nat
    BY StepTypeInv DEF NumberInv, TypeInv, TypeOK
  <2>2. viewId'[m] <= viewNo
    <3>1. CASE viewId'[m] = viewId[m]
      BY <2>1, <3>1
    <3>2. CASE viewId'[m] # viewId[m]
      <4>1. viewId'[m] = 0 \/ \E w \in wire : w.msg.kind = "view" /\ viewId'[m] = w.msg.id
        BY <3>2, InstalledFrom DEF ViewMoves
      <4> QED  BY <1>0, <4>1 DEF NumberInv
    <3> QED  BY <3>1, <3>2
  <2> QED  BY <1>0, <1>1, <2>1, <2>2
<1>5. ASSUME NEW m \in Members PROVE joined'[m] <= inc'[m]
  BY StepJoined DEF NumberInv
<1> QED  BY <1>2, <1>3, <1>4, <1>5 DEF NumberInv

Numbered == TypeInv /\ SentInv /\ NumberInv

LEMMA NumberedInvariant == Spec => []Numbered
<1>1. Init => Numbered
  <2> SUFFICES ASSUME Init PROVE SentInv /\ NumberInv
    BY InitTyped DEF Numbered
  <2>1. SentInv
    BY DEF Init, SentInv
  <2>2. NumberInv
    BY DEF Init, NumberInv, NoPayload
  <2> QED  BY <2>1, <2>2
<1>2. Numbered /\ [Next]_vars => Numbered'
  BY StepTypeInv, StepSent, StepNumbers DEF Numbered
<1> QED  BY <1>1, <1>2, PTL DEF Spec

-----------------------------------------------------------------------------
(* Agreement                                                                *)

\* While nobody is about to announce a view, the members and the number of the
\* latest view stay as they are; and who is about to announce one does.
LEMMA PendingOrSame ==
  ASSUME TypeInv, MaxLostReplies = 0, [Next]_vars
  PROVE  \/ Pending'
         \/ \E t \in Tasks : Announces(t)
         \/ ~Pending /\ groups' = groups /\ viewNo' = viewNo
<1>0. /\ groups \in [Members -> Nat] /\ phase \in [Tasks -> Phases]
      /\ carries \in [Tasks -> Payload]
  BY DEF TypeInv, TypeOK
<1>1. CASE UNCHANGED vars
  BY <1>1 DEF vars, coordVars, taskVars, Pending
<1>2. CASE MemberStep
  <2>1. ASSUME NEW w \in wire, Ack(w) PROVE Pending => Pending'
    BY <1>0, <2>1 DEF Ack, Pending
  <2>2. Pending => Pending'
    BY <1>2, <2>1 DEF MemberStep, Handle, HandleDeliver, HandleView, Install, Crash, Restart,
                      taskVars, Pending
  <2>3. UNCHANGED coordVars
    BY <1>2 DEF MemberStep, Handle, HandleDeliver, HandleView, Install, Ack, Crash, Restart
  <2> QED  BY <2>2, <2>3 DEF coordVars
<1>3. ASSUME NEW t \in Tasks, TaskStep(t), ~Announces(t), ~Pending'
      PROVE  ~Pending /\ groups' = groups /\ viewNo' = viewNo
  <2>1. viewNo' = viewNo
    BY <1>3, TaskStepAlone DEF MovesAlone
  <2>2. phase[t] \notin {"reply", "announce"}
    <3>1. ~Announce(t)
      BY <1>0, <1>3 DEF Announce, Announces, Goto
    <3>2. ~ReplyFails(t)
      BY DEF ReplyFails, TypeInv
    <3> QED  BY <1>3, <3>1, <3>2
             DEF TaskStep, Step, Snapshot, SendTo, AckRead, ConnectionLost, EndFanout, Timeout,
                 Join, Leave, Multicast
  <2>3. ~Pending
    BY <1>3, <2>2, TaskStepAlone DEF MovesAlone, Pending
  <2>4. phase'[t] \notin {"reply", "announce"}
    BY <1>3 DEF Pending
  <2>5. CASE EndFanout(t)
    <3>1. failed[t] = {}
      BY <1>0, <2>4, <2>5 DEF EndFanout, AfterLoop, Goto
    <3>2. groups' = [m \in Members |-> groups[m]]
      BY <2>5, <3>1 DEF EndFanout
    <3> QED  BY <1>0, <2>1, <2>3, <3>2
  <2>6. CASE ~EndFanout(t)
    <3>1. ASSUME NEW m \in Members, Join(m, t) \/ Leave(m, t) PROVE FALSE
      BY <1>0, <2>4, <3>1 DEF Join, Leave, Goto
    <3>2. groups' = groups
      BY <1>3, <2>6, <3>1
         DEF TaskStep, Step, Announce, Snapshot, SendTo, AckRead, ConnectionLost, Timeout,
             ReplyFails, Multicast, coordVars
    <3> QED  BY <2>1, <2>3, <3>2
  <2> QED  BY <2>5, <2>6
<1> QED  BY <1>1, <1>2, <1>3, NextSplits

LEMMA StepLatest ==
  ASSUME Numbered, AgreeInv, MaxLostReplies = 0, AtomicInstall, [Next]_vars, ~Pending'
  PROVE  AllLatest'
<1>0. TypeInv /\ SentInv /\ NumberInv /\ viewNo \in Nat
  BY DEF Numbered, TypeInv, TypeOK
<1>1. /\ Registered' = Registered
      /\ viewNo' = viewNo + 1 \/ (viewNo' = viewNo /\ AllLatest)
  BY <1>0, PendingOrSame DEF Announces, AgreeInv, Registered
<1>2. ASSUME NEW t \in Tasks, carries'[t].kind = "view", carries'[t].id = viewNo'
      PROVE  carries'[t].members = Registered
  <2>1. CASE carries'[t] = carries[t]
    <3>1. carries[t].id <= viewNo
      BY <1>0, <1>2, <2>1 DEF NumberInv
    <3>2. viewNo' = viewNo /\ AllLatest
      BY <1>0, <1>1, <1>2, <2>1, <3>1
    <3> QED  BY <1>2, <2>1, <3>2 DEF AllLatest
  <2>2. CASE carries'[t] # carries[t]
    BY <1>0, <1>2, <2>2, CarriesFrom
  <2> QED  BY <2>1, <2>2
<1>3. ASSUME NEW w \in wire', w.msg.kind = "view", w.msg.id = viewNo'
      PROVE  w.msg.members = Registered
  <2>1. w.msg.id <= viewNo
    BY <1>0, <1>3, WireFrom DEF NumberInv
  <2>2. viewNo' = viewNo /\ AllLatest
    BY <1>0, <1>1, <1>3, <2>1
  <2> QED  BY <1>0, <1>3, <2>2, WireFrom DEF AllLatest
<1>4. ASSUME NEW m \in Members, viewId'[m] = viewNo' PROVE view'[m] = Registered
  <2>1. ViewMoves(m)
    BY <1>0, InstalledFrom
  <2>2. viewId'[m] <= viewNo
    BY <1>0, <2>1 DEF ViewMoves, NumberInv
  <2>3. viewNo' = viewNo /\ AllLatest
    BY <1>0, <1>1, <1>4, <2>2
  <2> QED  BY <1>4, <2>1, <2>3 DEF ViewMoves, AllLatest
<1>5. viewNo' = 0 => Registered = {}
  BY <1>0, <1>1 DEF AllLatest
<1> QED  BY <1>1, <1>2, <1>3, <1>4, <1>5 DEF AllLatest

\* Who is here was here before, in the same life, unless a view is about to be announced.
LEMMA HereBefore ==
  ASSUME Numbered, [Next]_vars, groups' = groups, ~Pending', NEW m \in Members, Here(m)'
  PROVE  Here(m) /\ inc'[m] = inc[m]
<1>0. /\ joined[m] <= inc[m] /\ joined[m] \in Nat /\ inc[m] \in Nat
      /\ inc \in [Members -> Nat] /\ alive \in [Members -> BOOLEAN] /\ phase \in [Tasks -> Phases]
  BY DEF Numbered, NumberInv, TypeInv, TypeOK
<1>1. m \in Registered /\ alive'[m] /\ joined'[m] = inc'[m]
  BY DEF Here, Registered
<1>2. CASE UNCHANGED <<alive, inc, joined>>
  BY <1>1, <1>2 DEF Here
<1>3. ASSUME NEW t \in Tasks, NEW n \in Members, Join(n, t) \/ Leave(n, t) PROVE FALSE
  BY <1>0, <1>3 DEF Join, Leave, Goto, Pending
<1>4. ASSUME NEW t \in Tasks, Step(t) \/ ReplyFails(t) \/ Timeout(t)
      PROVE  UNCHANGED <<alive, inc, joined>>
  BY <1>4 DEF Step, Announce, Snapshot, SendTo, AckRead, ConnectionLost, EndFanout, ReplyFails,
              Timeout, memberVars
<1>5. ASSUME NEW t \in Tasks, NEW v \in Values, Multicast(t, v)
      PROVE  UNCHANGED <<alive, inc, joined>>
  BY <1>5 DEF Multicast, memberVars
<1>6. ASSUME NEW w \in wire, Handle(w) PROVE UNCHANGED <<alive, inc, joined>>
  BY <1>6 DEF Handle, HandleDeliver, HandleView, Install, Ack, memberVars
<1>7. ASSUME NEW n \in Members, Crash(n) PROVE Here(m) /\ inc'[m] = inc[m]
  BY <1>0, <1>1, <1>7 DEF Crash, Here
<1>8. ASSUME NEW n \in Members, Restart(n) PROVE Here(m) /\ inc'[m] = inc[m]
  <2>1. n # m
    <3>1. joined' = joined /\ inc' = [inc EXCEPT ![n] = @ + 1]
      BY <1>8 DEF Restart
    <3> QED  BY <1>0, <1>1, <3>1
  <2> QED  BY <1>0, <1>1, <1>8, <2>1 DEF Restart, Here
<1>9. CASE UNCHANGED vars
  BY <1>2, <1>9 DEF vars, memberVars
<1> QED  BY <1>2, <1>3, <1>4, <1>5, <1>6, <1>7, <1>8, <1>9 DEF Next

\* A thread delivers what it owes, or gives the member up.
LEMMA TaskOwes ==
  ASSUME TypeInv, NEW t \in Tasks, TaskStep(t), viewNo' = viewNo, ~Announces(t),
         NEW u \in Tasks, NEW m \in Registered, Owes(u, m)
  PROVE  Owes(u, m)' \/ m \in failed'[u]
<1> USE DEF TypeInv, TypeOK
<1>1. CASE u # t
  BY <1>1, TaskStepAlone, SameTarget DEF MovesAlone, Owes
<1>2. CASE u = t
  <2>0. /\ carries[t].kind = "view" /\ carries[t].id = viewNo
        /\ \/ phase[t] = "snapshot"
           \/ phase[t] \in {"send", "wait"} /\ m \in Left(t)
           \/ phase[t] = "acked" /\ m \in Left(t) /\ m # Target(t)
    BY <1>2 DEF Owes
  <2>1. CASE Snapshot(t)
    <3>1. m \in Left(t)' /\ phase'[t] = "send" /\ carries' = carries
      BY <2>1 DEF Snapshot, Goto, Left, Registered
    <3> QED  BY <1>2, <2>0, <3>1 DEF Owes
  <2>2. ASSUME Miss(t), phase[t] # "snapshot" PROVE Owes(t, m)' \/ m \in failed'[t]
    <3>1. m \in Left(t) /\ Target(t) \in Members
      BY <2>0, <2>2, TargetLeft
    <3>2. /\ failed'[t] = failed[t] \cup {Target(t)} /\ phase'[t] = "send" /\ carries' = carries
          /\ targets'[t] = [targets[t] EXCEPT ![Target(t)] = 0]
      BY <2>2 DEF Miss, Goto
    <3>3. CASE m # Target(t)
      <4>1. m \in Left(t)'
        BY <3>1, <3>2, <3>3 DEF Left
      <4> QED  BY <2>0, <3>2, <4>1 DEF Owes
    <3> QED  BY <3>2, <3>3
  <2>3. CASE SendTo(t)
    <3>1. CASE Miss(t)
      BY <1>2, <2>2, <2>3, <3>1 DEF SendTo
    <3>2. CASE ~Miss(t)
      <4>1. carries' = carries /\ targets' = targets /\ phase'[t] = "wait" /\ m \in Left(t)
        BY <2>0, <2>3, <3>2 DEF SendTo, Goto
      <4> QED  BY <1>2, <2>0, <4>1, SameTarget DEF Owes
    <3> QED  BY <3>1, <3>2
  <2>4. CASE AckRead(t)
    <3>1. /\ m \in Left(t) /\ m # Target(t) /\ Target(t) \in Members
          /\ phase'[t] = "send" /\ carries' = carries
          /\ targets'[t] = [targets[t] EXCEPT ![Target(t)] = 0]
      BY <2>0, <2>4, TargetLeft DEF AckRead, Goto
    <3>2. m \in Left(t)'
      BY <3>1 DEF Left
    <3> QED  BY <1>2, <2>0, <3>1, <3>2 DEF Owes
  <2>5. CASE ConnectionLost(t) \/ Timeout(t)
    BY <1>2, <2>2, <2>5 DEF ConnectionLost, Timeout
  <2>6. ~EndFanout(t) /\ ~Announce(t) /\ ~ReplyFails(t)
    BY <2>0 DEF EndFanout, Announce, ReplyFails
  <2>7. /\ ~\E n \in Members : Join(n, t) \/ Leave(n, t)
        /\ ~\E v \in Values : Multicast(t, v)
    BY <2>0 DEF Join, Leave, Multicast
  <2> QED  BY <2>1, <2>3, <2>4, <2>5, <2>6, <2>7 DEF TaskStep, Step
<1> QED  BY <1>1, <1>2

\* A member that acknowledges the latest view has installed it.
LEMMA MemberOwes ==
  ASSUME Numbered, MemberStep, NEW u \in Tasks, NEW m \in Members, Owes(u, m)
  PROVE  Owes(u, m)' \/ viewId'[m] = viewNo
<1>0. /\ phase \in [Tasks -> Phases] /\ viewId \in [Members -> Nat] /\ viewNo \in Nat
      /\ viewId[m] <= viewNo /\ wire \subseteq Delivery
  BY DEF Numbered, NumberInv, TypeInv, TypeOK
<1>1. viewNo' = viewNo /\ carries' = carries /\ targets' = targets
  BY DEF MemberStep, Handle, HandleDeliver, HandleView, Install, Ack, Crash, Restart, taskVars,
         coordVars
<1>2. Left(u)' = Left(u) /\ Target(u)' = Target(u)
  BY <1>1, SameTarget
<1>3. CASE phase'[u] = phase[u]
  BY <1>1, <1>2, <1>3 DEF Owes
<1>4. CASE phase'[u] # phase[u]
  <2>1. PICK w \in wire : Handle(w) /\ Ack(w)
    BY <1>4 DEF MemberStep, Handle, HandleDeliver, HandleView, Install, Crash, Restart, taskVars
  <2>2. w.task \in Tasks /\ w.to \in Members
    BY <1>0 DEF Delivery
  <2>3. phase' = [phase EXCEPT ![w.task] =
                    IF phase[w.task] = "wait" /\ Awaited(w.task, w) THEN "acked" ELSE phase[w.task]]
    BY <2>1 DEF Ack
  <2>4. w.task = u /\ phase[u] = "wait" /\ phase'[u] = "acked" /\ Awaited(u, w)
    BY <1>0, <1>4, <2>2, <2>3
  <2>5. m \in Left(u) /\ carries[u].kind = "view" /\ carries[u].id = viewNo
    BY <2>4 DEF Owes
  <2>6. CASE m # Target(u)
    BY <1>1, <1>2, <2>4, <2>5, <2>6 DEF Owes
  <2>7. CASE m = Target(u)
    <3>1. w.to = m /\ w.msg.kind = "view" /\ w.msg.id = viewNo
      BY <2>4, <2>5, <2>7 DEF Awaited
    <3>2. HandleView(w)
      BY <2>1, <3>1 DEF Handle, HandleDeliver
    <3>3. \/ ~Newer(w) /\ viewId' = viewId
          \/ Install(w)
          \/ wire' = (wire \ {w}) \cup {[w EXCEPT !.step = "checked"]} /\ UNCHANGED taskVars
      BY <3>2 DEF HandleView
    <3>4. ~UNCHANGED taskVars
      BY <1>4 DEF taskVars
    <3>5. CASE ~Newer(w) /\ viewId' = viewId
      BY <1>0, <3>1, <3>5 DEF Newer
    <3>6. CASE Install(w)
      BY <1>0, <2>2, <3>1, <3>6 DEF Install
    <3> QED  BY <3>3, <3>4, <3>5, <3>6
  <2> QED  BY <2>6, <2>7
<1> QED  BY <1>3, <1>4

\* A member that was given up stays so until the thread announces its removal.
LEMMA FailedKept ==
  ASSUME TypeInv, [Next]_vars, ~Pending', NEW u \in Tasks, NEW m \in failed[u]
  PROVE  m \in failed'[u]
<1>0. phase[u] \in {"send", "wait", "acked"} /\ failed[u] # {}
  BY DEF TypeInv, TaskInv
<1>1. CASE UNCHANGED vars
  BY <1>1 DEF vars, taskVars
<1>2. CASE MemberStep
  BY <1>2 DEF MemberStep, Handle, HandleDeliver, HandleView, Install, Ack, Crash, Restart, taskVars
<1>3. ASSUME NEW t \in Tasks, TaskStep(t), t # u PROVE m \in failed'[u]
  BY <1>3, TaskStepAlone DEF MovesAlone
<1>4. CASE TaskStep(u)
  <2> USE DEF TypeInv, TypeOK
  <2>1. CASE SendTo(u) \/ ConnectionLost(u) \/ Timeout(u)
    BY <2>1 DEF SendTo, ConnectionLost, Timeout, Miss
  <2>2. CASE AckRead(u)
    BY <2>2 DEF AckRead
  <2>3. ~EndFanout(u)
    BY <1>0 DEF EndFanout, AfterLoop, Goto, Pending
  <2> QED  BY <1>0, <1>4, <2>1, <2>2, <2>3
           DEF TaskStep, Step, Announce, Snapshot, ReplyFails, Join, Leave, Multicast
<1> QED  BY <1>1, <1>2, <1>3, <1>4, NextSplits

LEMMA StepOwed ==
  ASSUME Numbered, AgreeInv, MaxLostReplies = 0, AtomicInstall, [Next]_vars, ~Pending'
  PROVE  AllOwed'
<1>0. TypeInv /\ SentInv /\ NumberInv
  BY DEF Numbered
<1>1. CASE \E t \in Tasks : Announces(t)
  BY <1>1 DEF AllOwed, Owes, Announces
<1>2. CASE ~\E t \in Tasks : Announces(t)
  <2>1. groups' = groups /\ viewNo' = viewNo /\ AllOwed
    BY <1>0, <1>2, PendingOrSame DEF AgreeInv
  <2> SUFFICES ASSUME NEW m \in Members, Here(m)'
               PROVE  viewId'[m] = viewNo \/ \E t \in Tasks : Owes(t, m)' \/ m \in failed'[t]
    BY <2>1 DEF AllOwed
  <2>2. Here(m) /\ inc'[m] = inc[m] /\ inc[m] \in Nat
    BY <2>1, HereBefore DEF TypeInv, TypeOK, Numbered
  <2>3. CASE viewId[m] = viewNo
    <3>1. /\ viewId[m] \in Nat /\ viewId'[m] \in Nat /\ viewNo \in Nat
          /\ viewId'[m] <= viewNo
          /\ viewId'[m] = viewId[m] \/ viewId'[m] > viewId[m]
      <4>1. /\ viewId'[m] <= viewNo /\ viewId'[m] \in Nat /\ viewId[m] \in Nat
            /\ viewNo \in Nat
        BY <1>0, <2>1, StepNumbers, StepTypeInv DEF NumberInv, TypeInv, TypeOK
      <4> QED  BY <1>0, <2>2, <4>1, InstalledFrom DEF ViewMoves
    <3> QED  BY <2>3, <3>1
  <2>4. ASSUME NEW u \in Tasks, Owes(u, m) 
        PROVE  viewId'[m] = viewNo \/ \E t \in Tasks : Owes(t, m)' \/ m \in failed'[t]
    <3>1. m \in Registered
      BY <2>2 DEF Here
    <3>2. ASSUME NEW t \in Tasks, TaskStep(t) PROVE Owes(u, m)' \/ m \in failed'[u]
      BY <1>0, <1>2, <2>1, <2>4, <3>1, <3>2, TaskOwes
    <3>3. CASE MemberStep
      BY <2>4, <3>3, MemberOwes
    <3>4. CASE UNCHANGED vars
      <4>1. UNCHANGED <<carries, phase, targets, viewNo>>
        BY <3>4 DEF vars, coordVars, taskVars
      <4>2. Owes(u, m)'
        BY <2>4, <4>1, SameTarget DEF Owes
      <4> QED  BY <4>2
    <3> QED  BY <3>2, <3>3, <3>4, NextSplits
  <2>5. ASSUME NEW u \in Tasks, m \in failed[u] PROVE m \in failed'[u]
    BY <1>0, <2>5, FailedKept
  <2> QED  BY <2>1, <2>2, <2>3, <2>4, <2>5 DEF AllOwed
<1> QED  BY <1>1, <1>2

LEMMA StepAgree ==
  ASSUME MaxLostReplies = 0, AtomicInstall
  PROVE  Numbered /\ AgreeInv /\ [Next]_vars => AgreeInv'
BY StepLatest, StepOwed DEF AgreeInv

\* When nobody is at work, nobody is owed a view and nobody has been given up.
LEMMA AgreeQuiet == Numbered /\ AgreeInv => QuietAgreement
<1> SUFFICES ASSUME Numbered, AgreeInv, Quiet, NEW m \in Registered,
                    alive[m], joined[m] = inc[m]
             PROVE  view[m] = Registered
  BY DEF QuietAgreement
<1>1. \A t \in Tasks : phase[t] \in {"idle", "done"}
  BY DEF Quiet
<1>2. AllLatest /\ AllOwed
  BY <1>1 DEF AgreeInv, Pending
<1>3. \A t \in Tasks : ~Owes(t, m)
  BY <1>1 DEF Owes
<1>4. \A t \in Tasks : m \notin failed[t]
  BY <1>1 DEF Numbered, TypeInv, TaskInv
<1>5. m \in Members /\ viewId[m] = viewNo
  BY <1>2, <1>3, <1>4 DEF AllOwed, Here, Registered
<1> QED  BY <1>2, <1>5 DEF AllLatest

\* The two facts the theorems rest on hold throughout.
LEMMA AgreeInvariant ==
  ASSUME MaxLostReplies = 0, AtomicInstall
  PROVE  Spec => [](Numbered /\ AgreeInv)
<1>1. Init => AgreeInv
  <2> SUFFICES ASSUME Init PROVE AllLatest /\ AllOwed
    BY DEF AgreeInv
  <2>1. Registered = {}
    BY DEF Init, Registered, NoTargets
  <2> QED  BY <2>1 DEF Init, AllLatest, AllOwed, Here, NoPayload
<1> QED  BY <1>1, NumberedInvariant, StepAgree, PTL DEF Spec

\* Number and list are taken together: with the GIL, and when no reply to a join
\* or leave is lost, a member that has installed the latest number has the list
\* as it is, unless a change is yet to be announced - whatever older views and
\* multicasts are still being delivered, and whoever they will remove.
THEOREM LatestViewIsCurrent ==
  ASSUME MaxLostReplies = 0, AtomicInstall
  PROVE  Spec => []LatestIsCurrent
<1>1. AgreeInv => LatestIsCurrent
  BY DEF AgreeInv, Pending, AllLatest, LatestIsCurrent, Announced
<1> QED  BY <1>1, AgreeInvariant, PTL

\* Every membership change is announced: with the GIL, and when no reply to a
\* join or leave is lost, the members that are here agree on the list of
\* members whenever the coordinator is quiet.
THEOREM MembersAgree ==
  ASSUME MaxLostReplies = 0, AtomicInstall
  PROVE  Spec => []QuietAgreement
<1> QED  BY AgreeInvariant, AgreeQuiet, PTL
=============================================================================
