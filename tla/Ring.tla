-------------------------------- MODULE Ring ---------------------------------
(***************************************************************************)
(* The ring overlay, src/communication/ring.py: peers join, leave, crash,   *)
(* restart and repair the ring around a crash; keys are stored at their     *)
(* owner and copied to its successor.  lookup.py and p2p_catalog.py find    *)
(* the owner hop by hop.  A peer is named by its position, a key too.       *)
(*                                                                          *)
(* An operation runs on one thread that calls other peers and waits; their  *)
(* handlers call further peers.  todo[t] lists what is left of operation t, *)
(* its innermost call first: "do" what, "at" whom, called "by" whom.  A     *)
(* step is one locked section of a handler, with the request that led to    *)
(* it.  A call to a dead peer, or of a dead one, fails: made with _try it   *)
(* is skipped, made with _call it ends the operation.                       *)
(***************************************************************************)
EXTENDS KeyRing, Sublists
LOCAL INSTANCE SequencesExt

CONSTANTS
  Peers, Keys,      \* positions on the ring
  First,            \* the peer that starts the ring
  SuccLen,          \* SUCC_LIST
  Tasks,            \* operations that can be under way at once
  Calm,             \* operators wait for the ring to settle, see Ready
  MaxHops,          \* MAX_HOPS
  \* bounds; MaxFaults is one on leaves, crashes and suspicions together
  MaxPuts, MaxJoins, MaxRestarts, MaxLeaves, MaxCrashes, MaxSuspicions, MaxFaults

ASSUME RingAssumption ==
  /\ Peers \subseteq Slots /\ Keys \subseteq Slots /\ First \in Peers
  /\ SuccLen \in Nat \ {0}
  /\ Calm \in BOOLEAN /\ MaxHops \in Nat
  /\ {MaxPuts, MaxJoins, MaxRestarts, MaxLeaves, MaxCrashes, MaxSuspicions, MaxFaults} \subseteq Nat

VARIABLES
  up,        \* the process listens
  pred,      \* self.pred
  succs,     \* self.succs
  data,      \* self.data: key -> version, 0 if absent
  replicas,  \* self.replicas
  todo,      \* what is left of each operation
  \* history: not in the code
  member,    \* peers whose join returned and that have not left
  acked,     \* key -> the newest version whose put returned
  staleRead, \* a get returned less than was acknowledged when it began
  stores,    \* how many values were stored; the count is the version of the last
  \* bounds
  puts, joins, restarts, leaves, crashes, suspicions

peerVars == <<up, pred, succs, data, replicas>>
hist     == <<member, acked, staleRead, stores>>
bounds   == <<puts, joins, restarts, leaves, crashes, suspicions>>
vars     == <<peerVars, todo, hist, bounds>>

Empty == [k \in Keys |-> 0]

\* old.update(new)
Merge(old, new) == [k \in Keys |-> IF new[k] # 0 THEN new[k] ELSE old[k]]

\* Seeded fault: the list is stored as it comes.
SetSuccs_AsIs(n, list) ==
  IF list = <<>> THEN <<n>> ELSE SubSeq(list, 1, IF Len(list) < SuccLen THEN Len(list) ELSE SuccLen)

\* self.succs = ...: no duplicates, never myself unless I am alone.
SetSuccs(n, list) ==
  LET first == {i \in DOMAIN list : list[i] # n /\ \A j \in 1 .. i - 1 : list[j] # list[i]}
      out == Picked(list, first)
  IN  IF out = <<>> THEN <<n>> ELSE SubSeq(out, 1, IF Len(out) < SuccLen THEN Len(out) ELSE SuccLen)

Succ(n) == succs[n][1]

Init ==
  /\ up = [p \in Peers |-> TRUE]
  /\ pred = [p \in Peers |-> p]
  /\ succs = [p \in Peers |-> <<p>>]
  /\ data = [p \in Peers |-> Empty]
  /\ replicas = [p \in Peers |-> Empty]
  /\ todo = [t \in Tasks |-> <<>>]
  /\ member = {First}
  /\ acked = Empty
  /\ staleRead = FALSE /\ stores = 0
  /\ puts = 0 /\ joins = 0 /\ restarts = 0 /\ leaves = 0 /\ crashes = 0 /\ suspicions = 0

-----------------------------------------------------------------------------
(* Starting an operation                                                    *)

Live == {p \in member : up[p]}

\* Every pointer is what it is on a ring of the live peers.
Linked ==
  \A p \in Live : pred[p] = PredIn(p, Live) /\ Succ(p) = SuccessorsIn(p, Live, 1)[1]
\* Every successor list, too.
Settled == Linked /\ \A p \in Live : succs[p] = SuccessorsIn(p, Live, SuccLen)

\* What an operation is shows in the instruction it ends with.
Beating(i) == i.do \in {"beat", "refresh", "trim", "repair"}
Reading(i) == i.do \in {"find", "lookup", "fetch"} /\ i.next \in {"fetch", "value"}
Putting(i) == i.do \in {"store", "ack"} \/ (i.do \in {"find", "lookup"} /\ i.next = "store")
UnderWay == {Last(todo[t]) : t \in {u \in Tasks : todo[u] # <<>>}}

\* The demos and tests join, leave and put one at a time, on a linked ring, and
\* stop a peer only once stabilize() rounds have settled the successor lists;
\* nothing in ring.py asks for it.  Heartbeats and reads run whenever they like.
Ready == Calm => Linked /\ \A i \in UnderWay : Beating(i) \/ Reading(i)
CrashReady == Calm => Settled /\ \A i \in UnderWay : Putting(i) \/ Reading(i)
Quiet == UnderWay = {}
FaultLeft == leaves + crashes + suspicions < MaxFaults

Call(what, at, by) == [do |-> what, at |-> at, by |-> by]
Find(at, by, kid, next) ==
  [do |-> "find", at |-> at, by |-> by, kid |-> kid, next |-> next, via |-> {by}, hops |-> 0,
   floor |-> IF next \in {"fetch", "value"} THEN acked[kid] ELSE 0]
Lookup(p, kid, next) == [Find(p, p, kid, next) EXCEPT !.do = "lookup"]

Start(t, p, calls) ==
  /\ todo[t] = <<>> /\ up[p]
  /\ todo' = [todo EXCEPT ![t] = calls]

\* join: find the position through a bootstrap peer, then join_at.
Join(t, p, b) ==
  /\ p \notin member /\ b \in Live /\ joins < MaxJoins
  /\ \A u \in Tasks : \A i \in DOMAIN todo[u] : todo[u][i].by # p
  /\ Start(t, p, <<Find(b, p, p, "joinAt")>>)
  /\ Ready
  /\ joins' = joins + 1
  /\ UNCHANGED <<peerVars, hist, puts, restarts, leaves, crashes, suspicions>>

\* A peer joins, beats and leaves on one thread: p2p_catalog.py.  The call that
\* ends a join is its _replicate; no other operation ends with one.
Busy(p) ==
  \E t \in Tasks : \E i \in DOMAIN todo[t] :
    \/ /\ todo[t][i].at = p
       /\ todo[t][i].do \in {"beat", "refresh", "trim", "repair", "leave", "reset", "stop"}
    \/ /\ todo[t][i].by = p /\ i = Len(todo[t])
       /\ todo[t][i].do \in {"push", "snap", "replicate"}

\* leave.  The last peer stays: without it there is no ring to speak of.
Leave(t, p) ==
  /\ p \in Live /\ Live # {p} /\ leaves < MaxLeaves /\ FaultLeft
  /\ Start(t, p, <<Call("leave", p, p)>>)
  /\ ~Busy(p)
  /\ Ready
  /\ leaves' = leaves + 1
  /\ UNCHANGED <<peerVars, hist, puts, joins, restarts, crashes, suspicions>>

\* stabilize, one heartbeat round, whatever else is under way
Stabilize(t, p) ==
  /\ p \in Live /\ ~Busy(p)
  /\ Start(t, p, <<Call("beat", p, p)>>)
  /\ UNCHANGED <<peerVars, hist, bounds>>

\* put and get: find the owner, then store or fetch there.
Put(t, p, k) ==
  /\ Start(t, p, <<Find(p, p, k, "store")>>)
  /\ Ready /\ p \in Live /\ puts < MaxPuts
  /\ puts' = puts + 1
  /\ UNCHANGED <<peerVars, hist, joins, restarts, leaves, crashes, suspicions>>

Get(t, p, k) ==
  /\ Start(t, p, <<Find(p, p, k, "fetch")>>)
  /\ (Calm => Linked) /\ p \in Live
  /\ UNCHANGED <<peerVars, hist, bounds>>

\* What is published: one listing, or all of them.
Listings ==
  {<<k>> : k \in Keys}
  \cup {ks \in [1 .. Cardinality(Keys) -> Keys] : \A i, j \in DOMAIN ks : i < j => ks[i] < ks[j]}

\* publish_listings of the listings ks, one put_routed after the other: a
\* lookup, then the store at the peer that answered.
Publish(t, p, ks) ==
  /\ Start(t, p, [j \in 1 .. Len(ks) |-> Lookup(p, ks[j], "store")])
  /\ Ready /\ p \in Live /\ puts + Len(ks) <= MaxPuts
  /\ puts' = puts + Len(ks)
  /\ UNCHANGED <<peerVars, hist, joins, restarts, leaves, crashes, suspicions>>

\* discover_listing: a client asks any peer to look a listing up.
Discover(t, p, k) ==
  /\ Start(t, p, <<Lookup(p, k, "value")>>)
  /\ (Calm => Linked) /\ p \in Live
  /\ UNCHANGED <<peerVars, hist, bounds>>

\* The process of p dies.
Crash(p) ==
  /\ p \in Live /\ Live # {p} /\ crashes < MaxCrashes /\ FaultLeft
  /\ CrashReady
  /\ crashes' = crashes + 1
  /\ up' = [up EXCEPT ![p] = FALSE]
  /\ UNCHANGED <<pred, succs, data, replicas, todo, hist, puts, joins, restarts, leaves, suspicions>>

\* p, which crashed or left, is started again under its name, once the calls of
\* its last process have failed; it has yet to join.
Restart(p) ==
  /\ ~up[p] /\ restarts < MaxRestarts
  /\ \A t \in Tasks : \A i \in DOMAIN todo[t] : p \notin {todo[t][i].at, todo[t][i].by}
  /\ (Calm => Settled)
  /\ restarts' = restarts + 1
  /\ up' = [up EXCEPT ![p] = TRUE]
  /\ pred' = [pred EXCEPT ![p] = p]
  /\ succs' = [succs EXCEPT ![p] = <<p>>]
  /\ data' = [data EXCEPT ![p] = Empty]
  /\ replicas' = [replicas EXCEPT ![p] = Empty]
  /\ member' = member \ {p}
  /\ UNCHANGED <<todo, acked, staleRead, stores, puts, joins, leaves, crashes, suspicions>>

-----------------------------------------------------------------------------
(* The steps of an operation.  i is its first instruction.                  *)

\* What follows i: the calls that i makes, then the rest of the operation.
Then(t, calls) == todo' = [todo EXCEPT ![t] = calls \o Tail(@)]

\* _replicate at n: one instruction that takes the snapshot.
Push(n) == Call("push", n, n)

\* Calls made with _try.
Tried == {"push", "snap", "replicate", "setSucc", "setPred", "takeData"}
Reached(i) == up[i.at] /\ up[i.by]

\* The operation raises.  A peer whose join() raises does not start.
Raise(t, i) ==
  /\ todo' = [todo EXCEPT ![t] = <<>>]
  /\ up' = IF i.do = "settle" \/ (i.do \in {"find", "joinAt"} /\ i.next = "joinAt")
           THEN [up EXCEPT ![i.by] = FALSE] ELSE up

\* NET_ERRORS: the peer called is down (or the caller is, and nothing follows).
Fail(t, i) ==
  /\ ~Reached(i)
  /\ IF i.do \in Tried THEN todo' = [todo EXCEPT ![t] = Tail(@)] /\ UNCHANGED up
                      ELSE Raise(t, i)
  /\ UNCHANGED <<pred, succs, data, replicas, hist, bounds>>

\* _find: answer with the successor, or ask it.  The answer goes back along the
\* peers that asked, and the operation goes on at the peer found.
FindStep(t, i) ==
  /\ i.do = "find"
  /\ LET s == Succ(i.at)
         found == s = i.at \/ Between(i.kid, i.at, s)
         answered == \A v \in i.via : up[v]
         taken == i.next = "joinAt" /\ s = i.by
         on == [i EXCEPT !.do = i.next, !.at = s, !.via = {}]
         ask == [i EXCEPT !.at = s, !.via = @ \cup {i.at}]
     IN  \/ found /\ answered /\ ~taken /\ Then(t, <<on>>) /\ UNCHANGED up
         \/ found /\ (~answered \/ taken) /\ Raise(t, i)
         \/ ~found /\ Then(t, <<ask>>) /\ UNCHANGED up
  /\ UNCHANGED <<pred, succs, data, replicas, hist, bounds>>

\* Seeded fault: a peer answers although another one is responsible.
Responsible_Any(n, kid) == TRUE

\* responsible_for(kid), or alone
Responsible(n, kid) == IsResponsible(kid, pred[n], n) \/ Succ(n) = n

\* _h_lookup: answer with the value, or ask the next hop.  put_routed stores at
\* the peer that answered.
LookupStep(t, i) ==
  /\ i.do = "lookup"
  /\ LET answered == \A v \in i.via : up[v]
         store == [i EXCEPT !.do = "store", !.via = {}, !.hops = 0]
         ask == [i EXCEPT !.at = NextHop(i.kid, i.at, succs[i.at]), !.via = @ \cup {i.at}, !.hops = @ + 1]
     IN  IF Responsible(i.at, i.kid) /\ answered
         THEN /\ Then(t, IF i.next = "store" THEN <<store>> ELSE <<>>)
              /\ staleRead' = (staleRead \/ (i.next = "value" /\ data[i.at][i.kid] < i.floor))
              /\ UNCHANGED up
         ELSE /\ IF Responsible(i.at, i.kid) \/ i.hops >= MaxHops THEN Raise(t, i)
                 ELSE Then(t, <<ask>>) /\ UNCHANGED up
              /\ UNCHANGED staleRead
  /\ UNCHANGED <<pred, succs, data, replicas, member, acked, stores, bounds>>

\* _h_join_at: give the joiner its keys and slot it in before me.
JoinAtStep(t, i) ==
  /\ i.do = "joinAt"
  /\ LET s == i.at
         p == i.by
         old == pred[s]
         moved == [k \in Keys |-> IF Between(k, old, p) THEN data[s][k] ELSE 0]
         link == IF old = s THEN Push(s)
                 ELSE [do |-> "setSucc", at |-> old, by |-> s, peer |-> p, drop |-> {}]
         settle == [do |-> "settle", at |-> s, by |-> p, old |-> old, moved |-> moved]
     IN  /\ data' = [data EXCEPT ![s] = [k \in Keys |-> IF Between(k, old, p) THEN 0 ELSE @[k]]]
         /\ replicas' = [replicas EXCEPT ![s] = moved]
         /\ pred' = [pred EXCEPT ![s] = p]
         /\ succs' = IF old = s THEN [succs EXCEPT ![s] = SetSuccs(s, <<p>>)] ELSE succs
         /\ Then(t, <<link, settle>>)
  /\ UNCHANGED <<up, hist, bounds>>

\* Seeded fault: the joiner ignores the keys it is given.
Received_Nothing(p, moved) == data[p]

Received(p, moved) == Merge(data[p], moved)

\* The joiner takes its place; the call of its successor has returned.
SettleStep(t, i) ==
  /\ i.do = "settle"
  /\ succs' = [succs EXCEPT ![i.by] = SetSuccs(i.by, <<i.at>>)]
  /\ pred' = [pred EXCEPT ![i.by] = i.old]
  /\ data' = [data EXCEPT ![i.by] = Received(i.by, i.moved)]
  /\ member' = member \cup {i.by}
  /\ Then(t, <<Push(i.by)>>)
  /\ UNCHANGED <<up, replicas, acked, staleRead, stores, bounds>>

\* leave: hand the keys over and link the neighbours, then forget everything.
LeaveStep(t, i) ==
  /\ i.do = "leave"
  /\ LET p == i.at
         s == Succ(p)
         hand == [do |-> "takeData", at |-> s, by |-> p, given |-> data[p]]
         back == [do |-> "setPred", at |-> s, by |-> p, peer |-> pred[p], promote |-> FALSE]
         forth == [do |-> "setSucc", at |-> pred[p], by |-> p, peer |-> s, drop |-> {p}]
         calls == IF s = p THEN <<>> ELSE IF pred[p] = p THEN <<hand, back>> ELSE <<hand, back, forth>>
     IN  Then(t, Append(calls, Call("reset", p, p)))
  /\ UNCHANGED <<peerVars, hist, bounds>>

ResetStep(t, i) ==
  /\ i.do = "reset"
  /\ pred' = [pred EXCEPT ![i.at] = i.at]
  /\ succs' = [succs EXCEPT ![i.at] = <<i.at>>]
  /\ data' = [data EXCEPT ![i.at] = Empty]
  /\ replicas' = [replicas EXCEPT ![i.at] = Empty]
  /\ member' = member \ {i.at}
  /\ Then(t, <<Call("stop", i.at, i.at)>>)
  /\ UNCHANGED <<up, acked, staleRead, stores, bounds>>

\* stop, which every caller of leave() calls next: the process listens no more.
StopStep(t, i) ==
  /\ i.do = "stop"
  /\ up' = [up EXCEPT ![i.at] = FALSE]
  /\ Then(t, <<>>)
  /\ UNCHANGED <<pred, succs, data, replicas, hist, bounds>>

TakeDataStep(t, i) ==
  /\ i.do = "takeData"
  /\ data' = [data EXCEPT ![i.at] = Merge(@, i.given)]
  /\ Then(t, <<Push(i.at)>>)
  /\ UNCHANGED <<up, pred, succs, replicas, hist, bounds>>

\* Seeded fault: the replica is kept as a replica.
Promote_Skipped(n) == UNCHANGED <<data, replicas>>

\* self.data.update(self.replicas); self.replicas = {}
Promote(n) ==
  /\ data' = [data EXCEPT ![n] = Merge(@, replicas[n])]
  /\ replicas' = [replicas EXCEPT ![n] = Empty]

SetPredStep(t, i) ==
  /\ i.do = "setPred"
  /\ pred' = [pred EXCEPT ![i.at] = i.peer]
  /\ IF i.promote THEN Promote(i.at) /\ Then(t, <<Push(i.at)>>)
                  ELSE UNCHANGED <<data, replicas>> /\ Then(t, <<>>)
  /\ UNCHANGED <<up, succs, hist, bounds>>

\* Seeded fault: the new successor gets no copy of the keys.
CopyOn_Never(n) == <<>>

\* self._replicate()
CopyOn(n) == <<Push(n)>>

\* The list of n without the peers of drop.
Others(n, drop) == Picked(succs[n], {j \in DOMAIN succs[n] : succs[n][j] \notin drop})

SetSuccStep(t, i) ==
  /\ i.do = "setSucc"
  /\ succs' = [succs EXCEPT ![i.at] = SetSuccs(i.at, <<i.peer>> \o Others(i.at, i.drop))]
  /\ Then(t, CopyOn(i.at))
  /\ UNCHANGED <<up, pred, data, replicas, hist, bounds>>

\* _replicate: read the successor, take a snapshot, send it.
PushStep(t, i) ==
  /\ i.do = "push"
  /\ Then(t, IF Succ(i.at) = i.at THEN <<>>
             ELSE <<[do |-> "snap", at |-> i.at, by |-> i.at, to |-> Succ(i.at)]>>)
  /\ UNCHANGED <<peerVars, hist, bounds>>

SnapStep(t, i) ==
  /\ i.do = "snap"
  /\ Then(t, <<[do |-> "replicate", at |-> i.to, by |-> i.at, given |-> data[i.at]]>>)
  /\ UNCHANGED <<peerVars, hist, bounds>>

ReplicateStep(t, i) ==
  /\ i.do = "replicate"
  /\ replicas' = [replicas EXCEPT ![i.at] = i.given]
  /\ Then(t, <<>>)
  /\ UNCHANGED <<up, pred, succs, data, hist, bounds>>

\* Seeded fault: the list is that of the successor, which does not name itself.
Heard_Alone(s) == succs[s]

\* The list a live successor s makes for the peer that pinged it.
Heard(s) == <<s>> \o succs[s]

\* The loop of stabilize: ping the successor.  A live one that is too slow is
\* taken for dead at most MaxSuspicions times.
Ping(t, i) ==
  /\ i.do = "beat"
  /\ LET s == Succ(i.at)
     IN  \/ /\ s = i.at
            /\ Then(t, <<>>)
            /\ UNCHANGED suspicions
         \/ /\ s # i.at /\ up[s]
            /\ Then(t, <<[do |-> "refresh", at |-> i.at, by |-> i.at, list |-> Heard(s)]>>)
            /\ UNCHANGED suspicions
         \/ /\ s # i.at /\ ~up[s]
            /\ Then(t, <<Call("repair", i.at, i.at)>>)
            /\ UNCHANGED suspicions
         \/ /\ s # i.at /\ up[s] /\ suspicions < MaxSuspicions /\ FaultLeft
            /\ suspicions' = suspicions + 1
            /\ Then(t, <<Call("repair", i.at, i.at)>>)
  /\ UNCHANGED <<peerVars, hist, puts, joins, restarts, leaves, crashes>>

RefreshStep(t, i) ==
  /\ i.do = "refresh"
  /\ LET new == SetSuccs(i.at, i.list)
     IN  /\ succs' = [succs EXCEPT ![i.at] = new]
         /\ Then(t, <<[do |-> "trim", at |-> i.at, by |-> i.at, succ |-> i.list[1], rest |-> Tail(new)]>>)
  /\ UNCHANGED <<up, pred, data, replicas, hist, bounds>>

\* Seeded fault: the other entries are not pinged.
Answering_All(list) == list

Answering(list) == Picked(list, {j \in DOMAIN list : up[list[j]]})

\* The pings of the other entries, and the list without those that fail.
TrimStep(t, i) ==
  /\ i.do = "trim"
  /\ succs' = [succs EXCEPT ![i.at] =
                 SetSuccs(i.at, <<i.succ>> \o Answering(i.rest))]
  /\ Then(t, <<>>)
  /\ UNCHANGED <<up, pred, data, replicas, hist, bounds>>

\* Seeded faults: the dead successor stays; the whole list goes.
WithoutFirst_Keeps(p) == succs[p]
WithoutFirst_Clears(p) == <<p>>

WithoutFirst(p) == SetSuccs(p, Tail(succs[p]))

\* Drop the dead successor; link to the next one, or be alone; ping again.
RepairStep(t, i) ==
  /\ i.do = "repair"
  /\ LET p == i.at
         new == WithoutFirst(p)
         link == [do |-> "setPred", at |-> new[1], by |-> p, peer |-> p, promote |-> TRUE]
         beat == Call("beat", p, p)
     IN  /\ succs' = [succs EXCEPT ![p] = new]
         /\ \/ /\ new[1] = p
               /\ pred' = [pred EXCEPT ![p] = p]
               /\ Promote(p)
               /\ Then(t, <<beat>>)
            \/ /\ new[1] # p
               /\ Then(t, <<link, Push(p), beat>>)
               /\ UNCHANGED <<pred, data, replicas>>
  /\ UNCHANGED <<up, hist, bounds>>

\* _h_store at the owner
StoreStep(t, i) ==
  /\ i.do = "store"
  /\ stores' = stores + 1
  /\ data' = [data EXCEPT ![i.at][i.kid] = stores']
  /\ Then(t, <<Push(i.at), [do |-> "ack", at |-> i.at, by |-> i.by, kid |-> i.kid, version |-> stores']>>)
  /\ UNCHANGED <<up, pred, succs, replicas, member, acked, staleRead, bounds>>

\* put returns.
AckStep(t, i) ==
  /\ i.do = "ack"
  /\ acked' = [acked EXCEPT ![i.kid] = IF i.version > @ THEN i.version ELSE @]
  /\ Then(t, <<>>)
  /\ UNCHANGED <<peerVars, member, staleRead, stores, bounds>>

\* _h_fetch at the owner; get returns.
FetchStep(t, i) ==
  /\ i.do = "fetch"
  /\ staleRead' = (staleRead \/ data[i.at][i.kid] < i.floor)
  /\ Then(t, <<>>)
  /\ UNCHANGED <<peerVars, member, acked, stores, bounds>>

Step(t) ==
  /\ todo[t] # <<>>
  /\ LET i == todo[t][1]
     IN  \/ Fail(t, i)
         \/ /\ Reached(i)
            /\ \/ FindStep(t, i)    \/ LookupStep(t, i)
               \/ JoinAtStep(t, i)   \/ SettleStep(t, i)
               \/ LeaveStep(t, i)   \/ ResetStep(t, i)    \/ StopStep(t, i)
               \/ TakeDataStep(t, i)
               \/ SetPredStep(t, i) \/ SetSuccStep(t, i)  \/ PushStep(t, i)
               \/ SnapStep(t, i)    \/ ReplicateStep(t, i)
               \/ Ping(t, i)        \/ RefreshStep(t, i)  \/ TrimStep(t, i)
               \/ RepairStep(t, i)
               \/ StoreStep(t, i)   \/ AckStep(t, i)      \/ FetchStep(t, i)

Next ==
  \/ \E t \in Tasks :
       \/ Step(t)
       \/ \E p \in Peers : \/ \E b \in Peers : Join(t, p, b)
                          \/ Leave(t, p) \/ Stabilize(t, p)
                          \/ \E k \in Keys : Put(t, p, k) \/ Get(t, p, k) \/ Discover(t, p, k)
                          \/ \E ks \in Listings : Publish(t, p, ks)
  \/ \E p \in Peers : Crash(p) \/ Restart(p)

Spec == Init /\ [][Next]_vars

\* Every thread runs on, and every peer heartbeats for ever: p2p_catalog.py
\* calls stabilize() in a loop on a thread of each peer.  The slots of Tasks are
\* the model's own limit, so a peer is given one again and again.
FairSpec ==
  /\ Spec
  /\ \A t \in Tasks : WF_vars(Step(t))
  /\ \A p \in Peers : SF_vars(\E t \in Tasks : Stabilize(t, p))

-----------------------------------------------------------------------------
(* Properties                                                               *)

Values == [Keys -> 0 .. stores]

\* What _set_succs leaves: up to SuccLen other peers, none of them twice, or
\* the peer itself when it knows no other.
SuccLists(p) ==
  {<<p>>} \cup {list \in Seq(Peers \ {p}) :
                  Len(list) \in 1 .. SuccLen /\ \A i, j \in DOMAIN list : list[i] = list[j] => i = j}

\* A search asks on with one and the same record, until it is what it searched for.
Searches ==
  {c \in [do : {"find", "lookup", "joinAt", "store", "fetch"}, at : Peers, by : Peers, kid : Slots,
          next : {"joinAt", "store", "fetch", "value"}, via : SUBSET Peers, hops : Nat, floor : Nat] :
     /\ c.next # "joinAt" => c.kid \in Keys
     /\ c.do \in {"find", "lookup"} \/ c.do = c.next
     /\ c.do = "find" => c.next # "value"
     /\ c.do = "lookup" => c.next \in {"store", "value"}}

Instructions ==
  Searches
  \cup [do : {"leave", "reset", "stop", "push", "beat", "repair"}, at : Peers, by : Peers]
  \cup [do : {"settle"}, at : Peers, by : Peers, old : Peers, moved : Values]
  \cup [do : {"takeData", "replicate"}, at : Peers, by : Peers, given : Values]
  \cup [do : {"setPred"}, at : Peers, by : Peers, peer : Peers, promote : BOOLEAN]
  \cup [do : {"setSucc"}, at : Peers, by : Peers, peer : Peers, drop : SUBSET Peers]
  \cup [do : {"snap"}, at : Peers, by : Peers, to : Peers]
  \cup [do : {"refresh"}, at : Peers, by : Peers, list : Seq(Peers) \ {<<>>}]
  \cup [do : {"trim"}, at : Peers, by : Peers, succ : Peers, rest : Seq(Peers)]
  \cup [do : {"ack"}, at : Peers, by : Peers, kid : Keys, version : 0 .. stores]

TypeOK ==
  /\ up \in [Peers -> BOOLEAN] /\ pred \in [Peers -> Peers]
  /\ succs \in [Peers -> Seq(Peers)] /\ \A p \in Peers : succs[p] \in SuccLists(p)
  /\ data \in [Peers -> Values] /\ replicas \in [Peers -> Values]
  /\ todo \in [Tasks -> Seq(Instructions)]
  /\ member \subseteq Peers
  /\ acked \in Values /\ stores \in Nat /\ staleRead \in BOOLEAN

Owner(k) == ResponsibleId(k, Live)

\* "Every peer is somebody's successor, so this alone detects every crash"
\* (ring.py:174).
SomebodysSuccessor ==
  Quiet => \A p \in Live : Live # {p} => \E q \in member \ {p} : Succ(q) = p

\* Once the ring has settled, the owner of a key holds a value no older than the
\* newest one whose put returned: no join, leave or crash lost it.  A crash
\* leaves it only in the replica at the next peer, which must have been made in
\* time and promoted (ring.py:7 "so one crash loses no data").
NoLoss == Settled => \A k \in Keys : data[Owner(k)][k] >= acked[k]

\* Whenever nobody is working on a settled ring of two or more, every key is held
\* by a second peer: the owner's successor has a copy as new as the owner's.
\* This is what the next crash relies on (ring.py:5-7).
ReplicaCovers ==
  Settled /\ Quiet /\ Cardinality(Live) > 1 =>
    \A k \in Keys : replicas[Succ(Owner(k))][k] = data[Owner(k)][k]

\* A get returns no value older than one whose put had returned when it began
\* (ring.py:209).  Not kept when a read and a join are under way together.
ReadsSeeAcked == ~staleRead

\* One crash never leaves a peer without a next hop (ring.py:36): of its
\* successor list some entry other than itself is alive.
HasNextHop ==
  \A p \in Live : Live # {p} => \E i \in DOMAIN succs[p] : up[succs[p][i]] /\ succs[p][i] # p

\* Heartbeats alone bring every pointer back to the ring of the live peers
\* (ring.py:174 "this alone detects every crash").
Heals == ~Settled ~> Settled

\* Where the successor pointers lead from p.
Way(p) ==
  LET at[n \in 0 .. Cardinality(Peers)] == IF n = 0 THEN p ELSE Succ(at[n - 1])
  IN  {at[n] : n \in DOMAIN at}

\* Joins and heartbeats that overlap in any way leave no second ring: as long as nobody
\* leaves, crashes or is taken for dead, the successor pointers of all peers lead to
\* one and the same place, although two joins at once overwrite each other's links.
OneRing ==
  Quiet /\ leaves + crashes + suspicions = 0 => \E x \in Live : \A p \in Live : x \in Way(p)

\* Every operation comes to an end, whatever crashes under way and whatever ring
\* the others leave behind: stabilize()'s loop runs out of dead successors, and a
\* search that walks the ring does not walk in circles (ring.py:119-123, 180-202).
OperationsEnd == \A t \in Tasks : todo[t] # <<>> ~> todo[t] = <<>>
=============================================================================
