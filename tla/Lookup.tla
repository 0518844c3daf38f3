------------------------------- MODULE Lookup --------------------------------
(***************************************************************************)
(* One LOOKUP (src/communication/lookup.py) on a settled ring: the request  *)
(* goes from peer to peer until one is responsible for the key.  The ring,  *)
(* the key and the peer it starts from are any.                             *)
(***************************************************************************)
EXTENDS KeyRing

CONSTANTS
  SuccLen,   \* SUCC_LIST: entries of a successor list
  MaxHops    \* MAX_HOPS

ASSUME LookupAssumption == SuccLen \in Nat \ {0} /\ MaxHops \in Nat

VARIABLES
  peers,   \* the positions of the peers
  kid,     \* the key's position
  at,      \* the peer that holds the request
  hops,    \* how often it was forwarded
  status   \* "routing", "answered" or "error"

vars == <<peers, kid, at, hops, status>>

Init ==
  /\ peers \in SUBSET Slots \ {{}}
  /\ kid \in Slots
  /\ at \in peers
  /\ hops = 0
  /\ status = "routing"

\* Seeded fault: a peer that knows a successor does not look at itself.
Answers_Successor ==
  Between(kid, at, SuccessorsIn(at, peers, SuccLen)[1])

\* responsible_for(kid), or alone
Answers == IsResponsible(kid, PredIn(at, peers), at) \/ peers = {at}

\* found or not, the peer answers
Answer ==
  /\ status = "routing" /\ Answers
  /\ status' = "answered"
  /\ UNCHANGED <<peers, kid, at, hops>>

\* Seeded fault: the hop limit does not stop a request.
HopLeft_Always == TRUE

HopLeft == hops < MaxHops

\* Seeded fault: nobody raises at the limit.
GiveUp_Never == FALSE

GiveUp ==
  /\ status = "routing" /\ ~Answers /\ ~HopLeft
  /\ status' = "error"
  /\ UNCHANGED <<peers, kid, at, hops>>

Forward ==
  /\ status = "routing" /\ ~Answers /\ HopLeft
  /\ at' = NextHop(kid, at, SuccessorsIn(at, peers, SuccLen))
  /\ hops' = hops + 1
  /\ UNCHANGED <<peers, kid, status>>

Next == Answer \/ GiveUp \/ Forward

Spec == Init /\ [][Next]_vars
FairSpec == Spec /\ WF_vars(Next)

-----------------------------------------------------------------------------
\* The variables hold what the code can put in them.
TypeOK ==
  /\ peers \subseteq Slots /\ at \in peers /\ kid \in Slots
  /\ hops \in 0 .. MaxHops
  /\ status \in {"routing", "answered", "error"}

\* Exactly one peer of a settled ring finds itself responsible for a key, from
\* its predecessor alone, and it is the one the successor rule names
\* (tests/test_keymap.py tries one ring of five peers).
OneOwner ==
  {p \in peers : IsResponsible(kid, PredIn(p, peers), p)} = {ResponsibleId(kid, peers)}

\* The peer that answers is the one responsible_id names.
AnsweredByOwner ==
  status = "answered" => at = ResponsibleId(kid, peers)

\* No peer sits on the slot just before the key.
NoPeerBeforeKey == (kid + RingSize - 1) % RingSize \notin peers

\* Unless a peer sits just before the key, a lookup takes at most one hop per
\* other peer and so never runs into MAX_HOPS.
HopsBounded ==
  NoPeerBeforeKey => hops < Cardinality(peers) /\ status # "error"

\* "the farthest entry of its successor list that does not pass the key": a hop
\* before the owner comes closer to the key.
NeverPasses ==
  [][at' # at /\ at' # ResponsibleId(kid, peers) => Distance(at', kid) < Distance(at, kid)]_vars

\* That holds of every hop but those from a peer just before the key.
ComesCloser ==
  [][/\ at # (kid + RingSize - 1) % RingSize
     /\ at' # at /\ at' # ResponsibleId(kid, peers)
     => Distance(at', kid) < Distance(at, kid)]_vars

\* Every lookup ends.
LookupEnds == <>(status # "routing")
=============================================================================
