-------------------------------- MODULE Group --------------------------------
(***************************************************************************)
(* Group communication, src/communication/group.py: a coordinator keeps the *)
(* members of a group, delivers each multicast to them one after the other, *)
(* removes those it cannot reach and announces every change as a numbered   *)
(* view.  One group is modelled; the multicasts carry the availability of   *)
(* one property, which replica_handler (services.py) stores.                *)
(*                                                                          *)
(* Every multicast, and every announcement of a view, runs on a thread of   *)
(* the coordinator (a task); only the accesses to groups are locked.        *)
(***************************************************************************)
EXTENDS Naturals, FiniteSets

CONSTANTS
  Members,        \* names; numbers, because a fan-out goes in sorted order
  Tasks,          \* coordinator threads, each used once
  Values,         \* what a multicast can say about the property
  NoValue,        \* a replica that was told nothing
  FixedPorts,     \* a restarted member listens on its old port (run.py)
  AtomicInstall,  \* TRUE: CPython with the GIL; FALSE: free-threaded CPython
  MaxMulticasts,
  MaxFaults,      \* bound: late acknowledgements and crashes
  MaxLostReplies  \* bound: replies to a join or leave that cannot be sent

ASSUME GroupAssumption ==
  /\ Members \subseteq Nat
  /\ NoValue \notin Values
  /\ FixedPorts \in BOOLEAN /\ AtomicInstall \in BOOLEAN
  /\ MaxMulticasts \in Nat /\ MaxFaults \in Nat /\ MaxLostReplies \in Nat

VARIABLES
  \* coordinator
  groups,     \* self.groups[group]: member -> port, 0 if it is not a member
  seqNo,      \* self._seq
  viewNo,     \* self._view
  phase,      \* where each thread stands
  carries,    \* the payload of its current _fanout
  targets,    \* the members it has still to deliver to, with their ports
  failed,     \* of the current _fanout
  delivered,  \* "delivered_to" of its multicast
  requester,  \* <<member, incarnation>> of the join or leave it answers
  \* the wire: deliveries that were sent and not yet handled
  wire,
  \* members
  alive, inc,       \* the process runs; how often it was started
  viewId, view,     \* the installed view
  log,              \* self.delivered, as the set of sequence numbers
  state,            \* self.state of the property
  \* history: not in the code
  joined,     \* the incarnation that joined last, 0 after a leave
  applied,    \* <<m, seq>> once any incarnation of m applied seq
  \* bounds
  faults, lostReplies

coordVars  == <<groups, seqNo, viewNo>>
taskVars   == <<phase, carries, targets, failed, delivered, requester>>
memberVars == <<alive, inc, viewId, view, log, state, joined, applied>>
bounds     == <<faults, lostReplies>>
vars       == <<coordVars, taskVars, wire, memberVars, bounds>>

Phases   == {"idle", "reply", "announce", "snapshot", "send", "wait", "acked", "done"}
Deliver  == [kind : {"deliver"}, seq : Nat, value : Values]
View     == [kind : {"view"}, id : Nat, members : SUBSET Members]
NoPayload == [kind |-> "none"]
Payload  == Deliver \cup View \cup {NoPayload}
\* A delivery under way; "checked" is a view found newer, about to be installed.
Delivery == [task : Tasks, to : Members, inc : Nat, msg : Deliver \cup View,
             step : {"sent", "checked"}]

\* Seeded fault: a view lists the ports of the members, not their names.
Registered_Ports == {groups[m] : m \in {n \in Members : groups[n] # 0}}

Registered == {m \in Members : groups[m] # 0}
NoTargets  == [m \in Members |-> 0]

Init ==
  /\ groups = NoTargets /\ seqNo = 0 /\ viewNo = 0
  /\ phase = [t \in Tasks |-> "idle"]
  /\ carries = [t \in Tasks |-> NoPayload]
  /\ targets = [t \in Tasks |-> NoTargets]
  /\ failed = [t \in Tasks |-> {}]
  /\ delivered = [t \in Tasks |-> {}]
  /\ requester = [t \in Tasks |-> <<0, 0>>]
  /\ wire = {}
  /\ alive = [m \in Members |-> TRUE] /\ inc = [m \in Members |-> 1]
  /\ viewId = [m \in Members |-> 0] /\ view = [m \in Members |-> {}]
  /\ log = [m \in Members |-> {}] /\ state = [m \in Members |-> NoValue]
  /\ joined = [m \in Members |-> 0] /\ applied = {}
  /\ faults = 0 /\ lostReplies = 0

-----------------------------------------------------------------------------
(* Requests to the coordinator                                              *)

Goto(t, p) == phase' = [phase EXCEPT ![t] = p]

\* Every process has a port of its own, unless it is started with a fixed one.
PortOf(m) == IF FixedPorts THEN 1 ELSE inc[m]

\* group.join: the member is entered under the lock; the reply follows.
Join(m, t) ==
  /\ phase[t] = "idle"
  /\ alive[m] /\ joined[m] # inc[m]
  /\ groups' = [groups EXCEPT ![m] = PortOf(m)]
  /\ joined' = [joined EXCEPT ![m] = inc[m]]
  /\ requester' = [requester EXCEPT ![t] = <<m, inc[m]>>]
  /\ Goto(t, "reply")
  /\ UNCHANGED <<seqNo, viewNo, carries, targets, failed, delivered, wire,
                 alive, inc, viewId, view, log, state, applied, bounds>>

\* group.leave
Leave(m, t) ==
  /\ phase[t] = "idle"
  /\ alive[m] /\ joined[m] = inc[m]
  /\ groups' = [groups EXCEPT ![m] = 0]
  /\ joined' = [joined EXCEPT ![m] = 0]
  /\ requester' = [requester EXCEPT ![t] = <<m, inc[m]>>]
  /\ Goto(t, "reply")
  /\ UNCHANGED <<seqNo, viewNo, carries, targets, failed, delivered, wire,
                 alive, inc, viewId, view, log, state, applied, bounds>>

\* The requester is gone and send_message raises: the thread that would have
\* announced the view is never started.
ReplyFails(t) ==
  /\ phase[t] = "reply"
  /\ LET m == requester[t][1] IN ~(alive[m] /\ inc[m] = requester[t][2])
  /\ lostReplies < MaxLostReplies
  /\ lostReplies' = lostReplies + 1
  /\ Goto(t, "done")
  /\ requester' = [requester EXCEPT ![t] = <<0, 0>>]
  /\ UNCHANGED <<coordVars, carries, targets, failed, delivered, wire, memberVars,
                 faults>>

\* group.multicast
Multicast(t, v) ==
  /\ phase[t] = "idle"
  /\ seqNo < MaxMulticasts
  /\ seqNo' = seqNo + 1
  /\ carries' = [carries EXCEPT ![t] = [kind |-> "deliver", seq |-> seqNo', value |-> v]]
  /\ Goto(t, "snapshot")
  /\ UNCHANGED <<groups, viewNo, targets, failed, delivered, requester, wire,
                 memberVars, bounds>>

-----------------------------------------------------------------------------
(* _announce_view and _fanout                                               *)

\* The thread started once the reply to a join or leave is sent, or the thread
\* that removed members, takes the id and the members of a view under one lock.
Announce(t) ==
  /\ phase[t] \in {"reply", "announce"}
  /\ viewNo' = viewNo + 1
  /\ carries' = [carries EXCEPT ![t] = [kind |-> "view", id |-> viewNo', members |-> Registered]]
  /\ requester' = [requester EXCEPT ![t] = <<0, 0>>]
  /\ Goto(t, "snapshot")
  /\ UNCHANGED <<groups, seqNo, targets, failed, delivered, wire, memberVars, bounds>>

\* targets = dict(self.groups[group]), under the lock again
Snapshot(t) ==
  /\ phase[t] = "snapshot"
  /\ targets' = [targets EXCEPT ![t] = groups]
  /\ failed' = [failed EXCEPT ![t] = {}]
  /\ Goto(t, "send")
  /\ UNCHANGED <<coordVars, carries, delivered, requester, wire, memberVars, bounds>>

Left(t) == {m \in Members : targets[t][m] # 0}
\* for member, addr in sorted(targets.items())
Target(t) == CHOOSE m \in Left(t) : \A n \in Left(t) : m <= n

\* Seeded fault: a delivery that got no ack is reported as delivered.
Miss_Counted(t) ==
  /\ failed' = [failed EXCEPT ![t] = @ \cup {Target(t)}]
  /\ delivered' = [delivered EXCEPT ![t] = @ \cup {Target(t)}]
  /\ targets' = [targets EXCEPT ![t][Target(t)] = 0]
  /\ Goto(t, "send")
  /\ UNCHANGED <<carries, requester>>

\* _deliver returned False for the current target.
Miss(t) ==
  /\ failed' = [failed EXCEPT ![t] = @ \cup {Target(t)}]
  /\ targets' = [targets EXCEPT ![t][Target(t)] = 0]
  /\ Goto(t, "send")
  /\ UNCHANGED <<carries, delivered, requester>>

\* connect and send_message
SendTo(t) ==
  /\ phase[t] = "send" /\ Left(t) # {}
  /\ LET m == Target(t)
         reachable == alive[m] /\ PortOf(m) = targets[t][m] IN
     \/ /\ reachable
        /\ wire' = wire \cup {[task |-> t, to |-> m, inc |-> inc[m], msg |-> carries[t],
                               step |-> "sent"]}
        /\ Goto(t, "wait")
        /\ UNCHANGED <<carries, targets, failed, delivered, requester>>
     \/ ~reachable /\ Miss(t) /\ UNCHANGED wire
  /\ UNCHANGED <<coordVars, memberVars, bounds>>

\* The delivery a task waits for.
Awaited(t, w) == w.task = t /\ w.to = Target(t) /\ w.msg = carries[t]

\* The member's ack is read.
AckRead(t) ==
  /\ phase[t] = "acked"
  /\ delivered' = [delivered EXCEPT ![t] =
                     IF carries[t].kind = "deliver" THEN @ \cup {Target(t)} ELSE @]
  /\ targets' = [targets EXCEPT ![t][Target(t)] = 0]
  /\ Goto(t, "send")
  /\ UNCHANGED <<coordVars, carries, failed, requester, wire, memberVars, bounds>>

\* Seeded fault: the socket has no timeout and its end is not noticed.
ConnectionLost_Unnoticed(t) == FALSE

\* The connection closes without an ack: the member died.
ConnectionLost(t) ==
  /\ \/ phase[t] = "wait" /\ \A w \in wire : ~Awaited(t, w)
     \/ phase[t] = "acked" /\ ~(alive[Target(t)] /\ PortOf(Target(t)) = targets[t][Target(t)])
  /\ Miss(t)
  /\ UNCHANGED <<coordVars, wire, memberVars, bounds>>

\* No ack within 3 seconds: the delivery may still be handled, later.
Timeout(t) ==
  /\ phase[t] \in {"wait", "acked"}
  /\ faults < MaxFaults
  /\ faults' = faults + 1
  /\ Miss(t)
  /\ UNCHANGED <<coordVars, wire, memberVars, lostReplies>>

\* Seeded fault: members are removed without a word.
AfterLoop_Silent(t) == "done"

\* if failed: self._announce_view(group)
AfterLoop(t) == IF failed[t] # {} THEN "announce" ELSE "done"

\* The loop is over: remove those that failed and announce the view, or return.
\* (The lists are the reply's; the model has no further use for them.)
EndFanout(t) ==
  /\ phase[t] = "send" /\ Left(t) = {}
  /\ groups' = [m \in Members |-> IF m \in failed[t] THEN 0 ELSE groups[m]]
  /\ Goto(t, AfterLoop(t))
  /\ failed' = [failed EXCEPT ![t] = {}]
  /\ carries' = [carries EXCEPT ![t] = NoPayload]
  /\ delivered' = [delivered EXCEPT ![t] = {}]
  /\ UNCHANGED <<seqNo, viewNo, targets, requester, wire, memberVars, bounds>>

-----------------------------------------------------------------------------
(* GroupMember                                                              *)

\* The delivery is handled and acknowledged, if anybody still waits.
Ack(w) ==
  /\ wire' = wire \ {w}
  /\ phase' = [phase EXCEPT ![w.task] =
                 IF @ = "wait" /\ Awaited(w.task, w) THEN "acked" ELSE @]
  /\ UNCHANGED <<coordVars, carries, targets, failed, delivered, requester, bounds,
                 alive, inc, joined>>

\* group.deliver: self.delivered, then replica_handler
HandleDeliver(w) ==
  /\ w.msg.kind = "deliver"
  /\ log' = [log EXCEPT ![w.to] = @ \cup {w.msg.seq}]
  /\ state' = [state EXCEPT ![w.to] = w.msg.value]
  /\ applied' = applied \cup {<<w.to, w.msg.seq>>}
  /\ Ack(w)
  /\ UNCHANGED <<viewId, view>>

\* Seeded fault: any view is installed.
Newer_Always(w) == TRUE

\* if body["view_id"] > self.view_id
Newer(w) == w.msg.id > viewId[w.to]

Install(w) ==
  /\ viewId' = [viewId EXCEPT ![w.to] = w.msg.id]
  /\ view' = [view EXCEPT ![w.to] = w.msg.members]
  /\ Ack(w)
  /\ UNCHANGED <<log, state, applied>>

\* group.view
HandleView(w) ==
  /\ w.msg.kind = "view"
  /\ \/ /\ w.step = "sent" /\ ~Newer(w)
        /\ Ack(w)
        /\ UNCHANGED <<viewId, view, log, state, applied>>
     \/ AtomicInstall /\ Newer(w) /\ Install(w)
     \/ /\ ~AtomicInstall /\ w.step = "sent" /\ Newer(w)
        /\ wire' = (wire \ {w}) \cup {[w EXCEPT !.step = "checked"]}
        /\ UNCHANGED <<coordVars, taskVars, memberVars, bounds>>
     \/ w.step = "checked" /\ Install(w)

Handle(w) == HandleDeliver(w) \/ HandleView(w)

\* The process is killed; what it had not handled is lost.
Crash(m) ==
  /\ alive[m] /\ faults < MaxFaults
  /\ faults' = faults + 1
  /\ alive' = [alive EXCEPT ![m] = FALSE]
  /\ wire' = {w \in wire : w.to # m}
  /\ UNCHANGED <<coordVars, taskVars, inc, viewId, view, log, state, joined, applied,
                 lostReplies>>

\* It is started again, empty; it joins with an action of its own.
Restart(m) ==
  /\ ~alive[m]
  /\ alive' = [alive EXCEPT ![m] = TRUE]
  /\ inc' = [inc EXCEPT ![m] = @ + 1]
  /\ viewId' = [viewId EXCEPT ![m] = 0] /\ view' = [view EXCEPT ![m] = {}]
  /\ log' = [log EXCEPT ![m] = {}] /\ state' = [state EXCEPT ![m] = NoValue]
  /\ UNCHANGED <<coordVars, taskVars, wire, joined, applied, bounds>>

-----------------------------------------------------------------------------
\* A step of a coordinator thread that needs no new timeout.
Step(t) ==
  \/ Announce(t) \/ Snapshot(t) \/ SendTo(t) \/ AckRead(t)
  \/ ConnectionLost(t) \/ EndFanout(t)

Next ==
  \/ \E t \in Tasks :
       \/ Step(t) \/ ReplyFails(t) \/ Timeout(t)
       \/ \E m \in Members : Join(m, t) \/ Leave(m, t)
       \/ \E v \in Values : Multicast(t, v)
  \/ \E w \in wire : Handle(w)
  \/ \E m \in Members : Crash(m) \/ Restart(m)

Spec == Init /\ [][Next]_vars

\* Threads run, on the coordinator and on the members.
Fairness ==
  /\ \A t \in Tasks : WF_vars(Step(t))
  /\ WF_vars(\E w \in wire : Handle(w))

FairSpec == Spec /\ Fairness

-----------------------------------------------------------------------------
(* Properties                                                               *)

\* The variables hold what the code can put in them.
TypeOK ==
  /\ groups \in [Members -> Nat]
  /\ seqNo \in Nat /\ viewNo \in Nat
  /\ phase \in [Tasks -> Phases]
  /\ carries \in [Tasks -> Payload]
  /\ targets \in [Tasks -> [Members -> Nat]]
  /\ failed \in [Tasks -> SUBSET Members]
  /\ delivered \in [Tasks -> SUBSET Members]
  /\ wire \subseteq Delivery
  /\ alive \in [Members -> BOOLEAN] /\ inc \in [Members -> Nat]
  /\ viewId \in [Members -> Nat] /\ view \in [Members -> SUBSET Members]
  /\ log \in [Members -> SUBSET Nat] /\ state \in [Members -> Values \cup {NoValue}]
  /\ joined \in [Members -> Nat]
  /\ applied \subseteq Members \X Nat

\* No coordinator thread is at work and nothing is on the wire.
Quiet == wire = {} /\ \A t \in Tasks : phase[t] \in {"idle", "done"}

\* "every membership change is announced": once the coordinator is quiet, every
\* member that joined and is registered has installed the current member list,
\* though joins, leaves, removals and their views overlapped and were reordered.
QuietAgreement ==
  Quiet => \A m \in Registered :
             alive[m] /\ joined[m] = inc[m] => view[m] = Registered

\* No thread is about to announce a change of the members.
Announced == \A t \in Tasks : phase[t] \notin {"reply", "announce"}

\* "view id and member list are taken atomically" (group.py:74): a member that has
\* installed the highest number given out has the list as it is now, unless a change
\* is yet to be announced.  This is not only when all is quiet: fan-outs of older
\* views and multicasts that are about to remove members may be under way.
LatestIsCurrent ==
  Announced => \A m \in Members : viewId[m] = viewNo => view[m] = Registered

\* A multicast reports in delivered_to only members that applied it.
DeliveredApplied ==
  \A t \in Tasks :
    carries[t].kind = "deliver" =>
      \A m \in delivered[t] : <<m, carries[t].seq>> \in applied

\* Every multicast and every announcement ends, whoever dies on the way.
FanoutEnds ==
  \A t \in Tasks : phase[t] \in {"reply", "snapshot"} ~> phase[t] = "done"

\* "keep every property replica consistent" (services.py:129): once quiet, the
\* replicas that applied the same multicasts hold the same availability.  Not
\* every multicast says "taken": demo.py:111 frees a property.
ReplicasAgree ==
  Quiet => \A m, n \in Registered :
             alive[m] /\ alive[n] /\ log[m] = log[n] => state[m] = state[n]

\* A member only ever installs a newer view: refuted where the check and the
\* install of group.py:149 may be interleaved.
ViewMonotonic ==
  [][\A m \in Members : inc'[m] = inc[m] => viewId'[m] >= viewId[m]]_vars

\* A member that crashed, was started again and has joined is in the group, if
\* nothing else ever failed: refuted, since a fan-out that works on a snapshot of
\* before the crash removes it by its name (group.py:68).
RejoinedStays ==
  Quiet => \A m \in Members :
             alive[m] /\ joined[m] = inc[m] /\ inc[m] = faults + 1 => m \in Registered
=============================================================================
