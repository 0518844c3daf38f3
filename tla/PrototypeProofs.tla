--------------------------- MODULE PrototypeProofs ---------------------------
(***************************************************************************)
(* Theorems about the Milestone 1 services, for any clients, requests and   *)
(* stock: what a client reads is about its own request, and a service ends  *)
(* only through a request it, or one it depends on, cannot read.            *)
(*                                                                          *)
(* A service works for one caller at a time, so what the services know of   *)
(* a request is spread over three places: who is served, who has asked the  *)
(* service below, and what it was told.  The invariant ties them together:  *)
(* a connection is in one place once (OnceInv), the place its caller chose  *)
(* (PlaceInv), a service that asked still serves the one it asks for        *)
(* (AskedInv), and what it was told is about that one's property (ReplyInv).*)
(***************************************************************************)
EXTENDS Prototype, TLAPS
LOCAL INSTANCE SequencesExt

TypeInv ==
  /\ phase \in [Clients -> {"new", "connected", "sent", "gone", "deaf", "done"}]
  /\ request \in [Clients -> Request]
  /\ answer \in [Clients -> Answers \cup {None}]
  /\ receipt \in [Clients -> Nat]
  /\ up \in [Services -> BOOLEAN]
  /\ backlog \in [Services -> Seq(Callers)]
  /\ serving \in [Services -> Callers \cup {Nobody}]
  /\ asked \in [Services -> BOOLEAN]
  /\ reply \in [Services -> Answers \cup {None}]
  /\ payments \in Seq([client : Clients, prop : Ids])

\* The callers whose connections s has, accepted or not.
At(s) == {x \in Callers : x = serving[s] \/ \E i \in DOMAIN backlog[s] : backlog[s][i] = x}

\* A connection is in the backlog once, and no more when it is served.
OnceInv ==
  \A s \in Services :
    /\ \A i, j \in DOMAIN backlog[s] : backlog[s][i] = backlog[s][j] => i = j
    /\ \A i \in DOMAIN backlog[s] : backlog[s][i] # serving[s]

\* A client is where it connected to and has no answer; a service is at the one below
\* it and waits.
PlaceInv ==
  \A s \in Services : \A x \in At(s) :
    /\ x \in Clients  => request[x].to = s /\ phase[x] \in {"connected", "sent", "gone", "deaf"}
    /\ x \in Services => x # "property" /\ Below(x) = s /\ asked[x] /\ reply[x] = None

\* A service that asked the one below serves the caller it asks for.
AskedInv ==
  \A s \in Services :
    /\ asked[s] =>
         /\ s # "property" /\ serving[s] \in Callers
         /\ serving[s] \in Clients =>
              phase[serving[s]] \in {"sent", "deaf"} /\ request[serving[s]].kind = "ok"
    /\ reply[s] # None => asked[s]

\* What a service was told is true of the property that its caller asks about.
ReplyInv ==
  /\ \A s \in Services : reply[s] = "closed" => ~up[Below(s)]
  /\ reply["reservation"] = "success" => Prop("reservation") \in DOMAIN Stock
  /\ reply["reservation"] = "error"   => Prop("reservation") = Unknown
  /\ reply["payment"] = "accepted" =>
       Prop("payment") \in DOMAIN Stock /\ Stock[Prop("payment")].available
  /\ reply["payment"] = "rejected" =>
       Prop("payment") = Unknown \/ ~Stock[Prop("payment")].available

\* Nobody has an answer or a receipt before it was served.
ReceiptInv ==
  \A c \in Clients :
    /\ phase[c] = "new" => answer[c] = None /\ receipt[c] = 0
    /\ \A s \in Services : c \in At(s) => receipt[c] = 0

Shape == TypeInv /\ OnceInv /\ PlaceInv /\ AskedInv
Inv == Shape /\ ReplyInv /\ ReceiptInv

\* What AnswersFit says of one client, and NoCollateral of one service.
Fits(c) ==
  /\ answer[c] = "accepted" =>
       request[c].prop \in DOMAIN Stock /\ Stock[request[c].prop].available
  /\ answer[c] = "rejected" =>
       request[c].prop = Unknown \/ ~Stock[request[c].prop].available
  /\ answer[c] = "failed" =>
       \/ request[c].prop = Unknown \/ request[c].card = "0000"
       \/ Stock[request[c].prop] # [available |-> TRUE, priced |-> TRUE]
  /\ answer[c] = "success" /\ Reads(c, "payment") => receipt[c] \in DOMAIN payments

Explained(s) ==
  \E c \in Clients :
    /\ phase[c] \in {"done", "deaf"}
    /\ request[c].to \in Behind(s)
    /\ request[c].kind \in IF request[c].to = "payment" THEN {"unreadable"} ELSE {"garbage", "partial"}

Good == Inv /\ AnswersFit /\ NoCollateral

-----------------------------------------------------------------------------
(* Who is where, and how an append, an accept and an answer change it.       *)

LEMMA Elements ==
  ASSUME NEW S, NEW q \in Seq(S), NEW i \in DOMAIN q
  PROVE  q[i] \in S /\ i \in Nat \ {0}
OBVIOUS

\* A connection appended to a backlog it was not in.
LEMMA Joins ==
  ASSUME TypeInv, OnceInv, NEW s \in Services, NEW x \in Callers, x \notin At(s),
         backlog' = [backlog EXCEPT ![s] = Append(@, x)], serving' = serving
  PROVE  /\ OnceInv'
         /\ \A t \in Services : At(t)' = IF t = s THEN At(t) \cup {x} ELSE At(t)
<1> DEFINE b == backlog[s]
<1>1. b \in Seq(Callers) /\ Len(b) \in Nat /\ DOMAIN b = 1 .. Len(b)
  BY DEF TypeInv
<1>2. /\ DOMAIN Append(b, x) = 1 .. (Len(b) + 1)
      /\ \A i \in DOMAIN b : Append(b, x)[i] = b[i]
      /\ Append(b, x)[Len(b) + 1] = x
  BY <1>1
<1>3. /\ backlog'[s] = Append(b, x)
      /\ \A t \in Services : t # s => backlog'[t] = backlog[t]
  BY DEF TypeInv
<1> HIDE DEF b
<1>4. b = backlog[s]
  BY DEF b
<1>5. \A i \in DOMAIN b : b[i] # x /\ x # serving[s]
  BY <1>4 DEF At
<1>6. \A i \in DOMAIN Append(b, x) : i \in DOMAIN b \/ i = Len(b) + 1
  BY <1>1, <1>2
<1>7. OnceInv'
  BY <1>1, <1>2, <1>3, <1>4, <1>5, <1>6 DEF OnceInv, At
<1>8. At(s)' = At(s) \cup {x}
  BY <1>1, <1>2, <1>3, <1>4, <1>6 DEF At
<1>9. \A t \in Services : t # s => At(t)' = At(t)
  BY <1>3 DEF At
<1> QED
  BY <1>7, <1>8, <1>9

\* accept takes the oldest connection; nobody comes or goes.
LEMMA Accepted ==
  ASSUME TypeInv, OnceInv, NEW s \in Services, Accept(s)
  PROVE  OnceInv' /\ \A t \in Services : At(t)' = At(t)
<1> DEFINE b == backlog[s]
<1>1. b \in Seq(Callers) /\ b # <<>>
  BY DEF TypeInv, Accept
<1>2. Len(b) \in Nat /\ Len(b) # 0 /\ DOMAIN b = 1 .. Len(b)
  BY <1>1
<1>3. /\ DOMAIN Tail(b) = 1 .. (Len(b) - 1)
      /\ \A i \in DOMAIN Tail(b) : i + 1 \in DOMAIN b /\ Tail(b)[i] = b[i + 1]
      /\ Head(b) = b[1] /\ 1 \in DOMAIN b
  BY <1>1, <1>2
<1>4. /\ backlog'[s] = Tail(b) /\ serving'[s] = b[1] /\ serving[s] = Nobody
      /\ \A t \in Services : t # s => backlog'[t] = backlog[t] /\ serving'[t] = serving[t]
  BY <1>3 DEF TypeInv, Accept
<1> HIDE DEF b
<1>5. b = backlog[s]
  BY DEF b
<1>6. \A i \in DOMAIN b : i = 1 \/ (i - 1 \in DOMAIN Tail(b) /\ b[i] = Tail(b)[i - 1])
  BY <1>2, <1>3
<1>7. \A i, j \in DOMAIN b : b[i] = b[j] => i = j
  BY <1>5 DEF OnceInv
<1>8. \A i, j \in DOMAIN Tail(b) : Tail(b)[i] = Tail(b)[j] => i = j
  BY <1>2, <1>3, <1>7
<1>9. \A i \in DOMAIN Tail(b) : Tail(b)[i] # b[1]
  BY <1>2, <1>3, <1>7
<1>10. OnceInv'
  BY <1>4, <1>8, <1>9 DEF OnceInv
<1>11. At(s)' = {x \in Callers : x = b[1] \/ \E i \in DOMAIN Tail(b) : Tail(b)[i] = x}
  BY <1>4 DEF At
<1>12. At(s) = {x \in Callers : \E i \in DOMAIN b : b[i] = x}
  BY <1>4, <1>5, PrototypeAssumption DEF At
<1>13. At(s)' = At(s)
  BY ZenonT(40), <1>3, <1>6, <1>11, <1>12
<1>14. \A t \in Services : t # s => At(t)' = At(t)
  BY <1>4 DEF At
<1> QED
  BY <1>10, <1>13, <1>14

\* The connection that was served ends.
LEMMA Served ==
  ASSUME TypeInv, OnceInv, NEW s \in Services, backlog' = backlog,
         serving' = [serving EXCEPT ![s] = Nobody]
  PROVE  /\ OnceInv'
         /\ \A t \in Services : At(t)' = IF t = s THEN At(t) \ {serving[s]} ELSE At(t)
<1>1. serving'[s] = Nobody /\ \A t \in Services : t # s => serving'[t] = serving[t]
  BY DEF TypeInv
<1>2. \A t \in Services : \A i \in DOMAIN backlog[t] : backlog[t][i] \in Callers
  BY DEF TypeInv
<1>3. Nobody \notin Callers
  BY PrototypeAssumption
<1>4. OnceInv'
  BY <1>1, <1>2, <1>3 DEF OnceInv
<1>5. At(s)' = At(s) \ {serving[s]}
  BY <1>1, <1>3 DEF OnceInv, At
<1>6. \A t \in Services : t # s => At(t)' = At(t)
  BY <1>1 DEF At
<1> QED
  BY <1>4, <1>5, <1>6

\* All connections of a process end with it.
LEMMA AllEnd ==
  ASSUME TypeInv, OnceInv, NEW s \in Services, Die(s)
  PROVE  /\ OnceInv'
         /\ \A t \in Services : At(t)' = IF t = s THEN {} ELSE At(t)
         /\ \A x \in Callers : x \in {serving[s]} \cup ToSet(backlog[s]) <=> x \in At(s)
<1>1. /\ serving'[s] = Nobody /\ backlog'[s] = <<>> /\ DOMAIN backlog'[s] = {}
      /\ \A t \in Services : t # s => serving'[t] = serving[t] /\ backlog'[t] = backlog[t]
  BY DEF TypeInv, Die
<1>2. Nobody \notin Callers
  BY PrototypeAssumption
<1>3. OnceInv'
  BY <1>1 DEF OnceInv
<1>4. At(s)' = {}
  BY <1>1, <1>2 DEF At
<1>5. \A t \in Services : t # s => At(t)' = At(t)
  BY <1>1 DEF At
<1>6. \A x \in Callers : x \in {serving[s]} \cup ToSet(backlog[s]) <=> x \in At(s)
  BY DEF At, ToSet
<1> QED
  BY <1>3, <1>4, <1>5, <1>6
-----------------------------------------------------------------------------
(* Whose request a service works for.                                        *)

LEMMA Distinct ==
  /\ Services = {"payment", "reservation", "property"}
  /\ Callers = Clients \cup Services /\ Clients \cap Services = {} /\ Nobody \notin Callers
  /\ Below("payment") = "reservation" /\ Below("reservation") = "property"
  /\ Below("property") = "property" /\ \A s \in Services : Below(s) \in Services
BY PrototypeAssumption DEF Services, Callers, Below

LEMMA Whose ==
  ASSUME Shape
  PROVE  /\ \A s \in Services : serving[s] \in Callers => serving[s] \in At(s)
         /\ serving["payment"] \in Callers => serving["payment"] \in Clients
         /\ \A s \in Services : serving[s] \in Clients => Prop(s) = request[serving[s]].prop
         /\ serving["reservation"] = "payment" =>
              /\ serving["payment"] \in Clients
              /\ Prop("reservation") = request[serving["payment"]].prop
         /\ serving["property"] = "reservation" =>
              asked["reservation"] /\ Prop("property") = Prop("reservation")
         /\ serving["property"] # "payment" /\ serving["property"] # "property"
         /\ serving["reservation"] \in {"payment", Nobody} \cup Clients
         /\ \A s \in Services : serving[s] \in Callers => Prop(s) \in Ids
<1> USE Distinct
<1>1. \A s \in Services : serving[s] \in Callers => serving[s] \in At(s)
  BY DEF At
<1>2. \A s, t \in Services : serving[s] = t => t # "property" /\ Below(t) = s /\ asked[t]
  BY <1>1 DEF Shape, PlaceInv
<1>3. \A s \in Services : serving[s] \in Callers \cup {Nobody}
  BY DEF Shape, TypeInv
<1>4. serving["payment"] \in Callers => serving["payment"] \in Clients
  BY <1>2, <1>3
<1>5. \A s \in Services : asked[s] => serving[s] \in Callers
  BY DEF Shape, AskedInv
<1>6. \A c \in Clients : Client(c) = c
  BY DEF Client, CallerOf
<1>7. \A s \in Services : serving[s] \in Clients => Prop(s) = request[serving[s]].prop
  BY <1>6 DEF Prop
<1>8. serving["reservation"] = "payment" =>
              /\ serving["payment"] \in Clients
              /\ Prop("reservation") = request[serving["payment"]].prop
  BY <1>2, <1>4, <1>5 DEF Prop, Client, CallerOf
<1>9. /\ serving["property"] # "payment" /\ serving["property"] # "property"
      /\ serving["reservation"] \in {"payment", Nobody} \cup Clients
  BY <1>2, <1>3
<1>10. ASSUME serving["property"] = "reservation"
       PROVE  asked["reservation"] /\ Prop("property") = Prop("reservation")
  <2>1. asked["reservation"] /\ serving["reservation"] \in {"payment"} \cup Clients
    BY <1>2, <1>5, <1>9, <1>10
  <2>2. Prop("property") = request[CallerOf(serving["reservation"])].prop
    BY <1>10 DEF Prop, Client, CallerOf
  <2>3. CASE serving["reservation"] = "payment"
    BY <1>8, <2>1, <2>2, <2>3 DEF CallerOf
  <2>4. CASE serving["reservation"] \in Clients
    BY <1>7, <2>1, <2>2, <2>4 DEF CallerOf
  <2> QED
    BY <2>1, <2>3, <2>4
<1>11. \A c \in Clients : request[c].prop \in Ids
  BY DEF Shape, TypeInv, Request
<1>12. \A s \in Services : serving[s] \in Callers => Prop(s) \in Ids
  <2>1. \A s \in Services : serving[s] \in Clients => Prop(s) \in Ids
    BY <1>7, <1>11
  <2>2. serving["reservation"] \in Callers => Prop("reservation") \in Ids
    BY <1>8, <1>9, <1>11, <2>1
  <2>3. serving["property"] \in Callers => Prop("property") \in Ids
    BY <1>5, <1>9, <1>10, <2>1, <2>2
  <2> QED
    BY <1>4, <2>1, <2>2, <2>3
<1> QED
  BY <1>1, <1>4, <1>7, <1>8, <1>9, <1>10, <1>12

\* While a service waits for the one below, the property in question stays the same.
LEMMA PropStays ==
  ASSUME Shape, Shape',
         \A t \in Services : asked[t] /\ asked'[t] => serving'[t] = serving[t],
         \A c \in Clients, t \in Services : c \in At(t) => request'[c] = request[c],
         NEW s \in Services, asked[s], asked'[s]
  PROVE  Prop(s)' = Prop(s)
<1> USE Distinct
<1>1. serving'[s] = serving[s] /\ serving[s] \in Callers /\ s # "property"
  BY DEF Shape, AskedInv
<1>2. CASE serving[s] \in Clients
  <2>1. Prop(s) = request[serving[s]].prop /\ serving[s] \in At(s)
    BY <1>1, <1>2, Whose
  <2>2. Prop(s)' = request'[serving[s]].prop
    BY <1>1, <1>2 DEF Prop, Client, CallerOf
  <2> QED
    BY <1>2, <2>1, <2>2
<1>3. CASE serving[s] \in Services
  <2>1. s = "reservation" /\ serving[s] = "payment"
    BY <1>1, <1>3, Whose
  <2>2. asked["payment"] /\ serving["payment"] \in Clients
    BY <1>1, <2>1, Whose DEF Shape, PlaceInv
  <2>3. asked'["payment"]
    BY <1>1, <2>1 DEF Shape, PlaceInv, At
  <2>4. serving'["payment"] = serving["payment"] /\ serving["payment"] \in At("payment")
    BY <2>2, <2>3, Whose
  <2>5. Prop(s)' = request'[serving["payment"]].prop
    BY <1>1, <2>1, <2>2, <2>4 DEF Prop, Client, CallerOf
  <2>6. Prop(s) = request[serving["payment"]].prop
    BY <2>1, Whose
  <2> QED
    BY <2>2, <2>4, <2>5, <2>6
<1> QED
  BY <1>1, <1>2, <1>3
-----------------------------------------------------------------------------
(* Types.                                                                    *)

LEMMA Told ==
  ASSUME TypeInv, NEW s \in Services, NEW cs, NEW a \in Answers, Tell(s, cs, a)
  PROVE  /\ phase' \in [Clients -> {"new", "connected", "sent", "gone", "deaf", "done"}]
         /\ answer' \in [Clients -> Answers \cup {None}]
         /\ reply' \in [Services -> Answers \cup {None}]
         /\ \A c \in Clients :
              IF c \in cs /\ phase[c] \in {"connected", "sent"}
              THEN phase'[c] = "done" /\ answer'[c] = a
              ELSE phase'[c] = phase[c] /\ answer'[c] = answer[c]
         /\ \A t \in Services :
              reply'[t] = IF t \in cs THEN a ELSE IF t = s THEN None ELSE reply[t]
BY DEF TypeInv, Tell

LEMMA TypeRespond ==
  ASSUME TypeInv, NEW s \in Services, NEW a \in Answers, Respond(s, a),
         receipt' \in [Clients -> Nat], payments' \in Seq([client : Clients, prop : Ids])
  PROVE  TypeInv'
<1>1. Tell(s, {serving[s]}, a)
  BY DEF Respond
<1>2. /\ phase' \in [Clients -> {"new", "connected", "sent", "gone", "deaf", "done"}]
      /\ answer' \in [Clients -> Answers \cup {None}]
      /\ reply' \in [Services -> Answers \cup {None}]
  BY <1>1, Told
<1>3. serving' \in [Services -> Callers \cup {Nobody}] /\ asked' \in [Services -> BOOLEAN]
  BY DEF TypeInv, Respond
<1>4. request' = request /\ up' = up /\ backlog' = backlog
  BY DEF Respond
<1> QED
  BY <1>2, <1>3, <1>4 DEF TypeInv

LEMMA TypeDie ==
  ASSUME TypeInv, NEW s \in Services, Die(s)
  PROVE  TypeInv'
<1>1. Tell(s, {serving[s]} \cup ToSet(backlog[s]), "closed") /\ "closed" \in Answers
  BY DEF Die, Answers
<1>2. /\ phase' \in [Clients -> {"new", "connected", "sent", "gone", "deaf", "done"}]
      /\ answer' \in [Clients -> Answers \cup {None}]
      /\ reply' \in [Services -> Answers \cup {None}]
  BY <1>1, Told
<1>3. /\ serving' \in [Services -> Callers \cup {Nobody}] /\ asked' \in [Services -> BOOLEAN]
      /\ up' \in [Services -> BOOLEAN] /\ backlog' \in [Services -> Seq(Callers)]
  BY DEF TypeInv, Die
<1>4. request' = request /\ receipt' = receipt /\ payments' = payments
  BY DEF Die
<1> QED
  BY <1>2, <1>3, <1>4 DEF TypeInv

LEMMA TypeClient ==
  ASSUME TypeInv, NEW c \in Clients,
         (\E q \in Requests[c] : Connect(c, q)) \/ SendRequest(c) \/ LeaveEarly(c)
  PROVE  TypeInv'
<1>1. ASSUME NEW q \in Requests[c], Connect(c, q) PROVE TypeInv'
  <2>1. q \in Request /\ q.to \in Services
    BY PrototypeAssumption DEF Request
  <2>2. c \in Callers
    BY Distinct
  <2>3. phase' \in [Clients -> {"new", "connected", "sent", "gone", "deaf", "done"}]
    BY ZenonT(40), <1>1 DEF TypeInv, Connect
  <2>4. request' \in [Clients -> Request]
    BY <1>1, <2>1 DEF TypeInv, Connect
  <2>5. answer' \in [Clients -> Answers \cup {None}]
    BY <1>1 DEF TypeInv, Connect, Answers
  <2>6. backlog' \in [Services -> Seq(Callers)]
    <3>1. Append(backlog[q.to], c) \in Seq(Callers)
      BY <2>1, <2>2 DEF TypeInv
    <3> QED
      BY <1>1, <2>1, <3>1 DEF TypeInv, Connect
  <2>7. UNCHANGED <<receipt, up, serving, asked, reply, payments>>
    BY <1>1 DEF Connect
  <2> QED
    BY <2>3, <2>4, <2>5, <2>6, <2>7 DEF TypeInv
<1>2. CASE SendRequest(c)
  BY <1>2 DEF TypeInv, SendRequest, serverVars
<1>3. CASE LeaveEarly(c)
  BY <1>3 DEF TypeInv, LeaveEarly, serverVars
<1> QED
  BY <1>1, <1>2, <1>3

LEMMA TypeServer ==
  ASSUME Shape, NEW s \in Services, Handle(s)
  PROVE  TypeInv'
<1> USE DEF Shape
<1>1. CASE Accept(s)
  <2>1. backlog[s] \in Seq(Callers) /\ backlog[s] # <<>>
    BY <1>1 DEF TypeInv, Accept
  <2>2. Head(backlog[s]) \in Callers /\ Tail(backlog[s]) \in Seq(Callers)
    BY <2>1
  <2>3. serving' \in [Services -> Callers \cup {Nobody}]
    BY <1>1, <2>2 DEF TypeInv, Accept
  <2>4. backlog' \in [Services -> Seq(Callers)]
    BY <1>1, <2>2 DEF TypeInv, Accept
  <2>5. UNCHANGED <<clientVars, up, asked, reply, payments>>
    BY <1>1 DEF Accept
  <2> QED
    BY <2>3, <2>4, <2>5 DEF TypeInv, clientVars
<1>2. CASE ReadNothing(s)
  BY <1>2 DEF TypeInv, ReadNothing, clientVars
<1>3. CASE RaisesAtOnce(s)
  BY <1>3, TypeDie DEF RaisesAtOnce
<1>4. CASE Ask(s)
  <2>1. CASE Die(s)
    BY <2>1, TypeDie
  <2>2. CASE ~Die(s)
    <3>1. /\ backlog' = [backlog EXCEPT ![Below(s)] = Append(@, s)]
          /\ asked' = [asked EXCEPT ![s] = TRUE]
          /\ UNCHANGED <<clientVars, up, serving, reply, payments>>
      BY <1>4, <2>2 DEF Ask
    <3>2. Append(backlog[Below(s)], s) \in Seq(Callers)
      BY Distinct DEF TypeInv
    <3>3. backlog' \in [Services -> Seq(Callers)] /\ asked' \in [Services -> BOOLEAN]
      BY <3>1, <3>2 DEF TypeInv
    <3> QED
      BY <3>1, <3>3 DEF TypeInv, clientVars
  <2> QED
    BY <2>1, <2>2
<1>5. CASE AnsweredByNothing(s)
  BY <1>5, TypeDie DEF AnsweredByNothing
<1>6. CASE s = "property" /\ PropertyHandles
  <2>1. receipt' = receipt /\ payments' = payments
    BY <1>6 DEF PropertyHandles
  <2>2. \E a \in Answers : Respond("property", a)
    BY <1>6 DEF PropertyHandles, Answers
  <2> QED
    BY <1>6, <2>1, <2>2, TypeRespond DEF TypeInv
<1>7. CASE s = "reservation" /\ ReservationHandles
  <2>1. receipt' = receipt /\ payments' = payments
    BY <1>7 DEF ReservationHandles
  <2>2. \E a \in Answers : Respond("reservation", a)
    BY <1>7 DEF ReservationHandles, Answers
  <2> QED
    BY <1>7, <2>1, <2>2, TypeRespond DEF TypeInv
<1>8. CASE s = "payment" /\ PaymentAnswers
  <2>1. receipt' = receipt /\ payments' = payments
    BY <1>8 DEF PaymentAnswers
  <2>2. \E a \in Answers : Respond("payment", a)
    BY <1>8 DEF PaymentAnswers, Answers
  <2> QED
    BY <1>8, <2>1, <2>2, TypeRespond DEF TypeInv
<1>9. CASE s = "payment" /\ PaymentHandles
  <2> DEFINE c == serving["payment"]
             p == Prop("payment")
  <2>1. asked["payment"]
    BY <1>9 DEF PaymentHandles, AskedInv, None
  <2>2. c \in Clients /\ p \in Ids
    BY <1>9, <2>1, Whose DEF AskedInv
  <2> HIDE DEF p
  <2>3. Append(payments, [client |-> c, prop |-> p]) \in Seq([client : Clients, prop : Ids])
    BY <2>2 DEF TypeInv
  <2>4. [receipt EXCEPT ![c] = Len(payments) + 1] \in [Clients -> Nat]
    BY <2>2 DEF TypeInv
  <2>5. /\ receipt' \in [Clients -> Nat]
        /\ payments' \in Seq([client : Clients, prop : Ids])
        /\ \E a \in Answers : Respond("payment", a)
    BY <1>9, <2>3, <2>4 DEF PaymentHandles, TypeInv, Answers, p
  <2> QED
    BY <1>9, <2>5, TypeRespond DEF TypeInv
<1> QED
  BY <1>1, <1>2, <1>3, <1>4, <1>5, <1>6, <1>7, <1>8, <1>9 DEF Handle
-----------------------------------------------------------------------------
(* The steps keep the shape of the waiting and what was told.                *)

\* What was told stays true while the services that were told go on waiting.
LEMMA ToldStays ==
  ASSUME Shape, ReplyInv, Shape',
         \A t \in Services : asked[t] /\ asked'[t] => serving'[t] = serving[t],
         \A c \in Clients, t \in Services : c \in At(t) => request'[c] = request[c],
         NEW s \in {"payment", "reservation"}, reply'[s] = reply[s]
  PROVE  /\ s = "reservation" =>
              /\ reply'[s] = "success" => Prop(s)' \in DOMAIN Stock
              /\ reply'[s] = "error"   => Prop(s)' = Unknown
         /\ s = "payment" =>
              /\ reply'[s] = "accepted" => Prop(s)' \in DOMAIN Stock /\ Stock[Prop(s)'].available
              /\ reply'[s] = "rejected" => Prop(s)' = Unknown \/ ~Stock[Prop(s)'].available
<1>1. CASE reply[s] = None
  BY <1>1 DEF None
<1>2. CASE reply[s] # None
  <2>1. asked[s] /\ asked'[s] /\ s \in Services
    BY <1>2, Distinct DEF Shape, AskedInv
  <2>2. Prop(s)' = Prop(s)
    BY <2>1, PropStays
  <2> QED
    BY <2>2 DEF ReplyInv
<1> QED
  BY <1>1, <1>2

\* Nobody is in two places.
LEMMA OnePlace ==
  ASSUME Shape
  PROVE  \A s, t \in Services : \A x \in At(s) : x \in At(t) => s = t
BY Distinct DEF Shape, PlaceInv, At

LEMMA RespondKeeps ==
  ASSUME Shape, ReplyInv, TypeInv', NEW s \in Services, NEW a \in Answers, a # "closed",
         Respond(s, a), serving[s] \in Callers, ~asked[s] \/ reply[s] # None,
         serving[s] = "reservation" =>
           /\ a = "success" => Prop(s) \in DOMAIN Stock
           /\ a = "error"   => Prop(s) = Unknown,
         serving[s] = "payment" =>
           /\ a = "accepted" => Prop(s) \in DOMAIN Stock /\ Stock[Prop(s)].available
           /\ a = "rejected" => Prop(s) = Unknown \/ ~Stock[Prop(s)].available
  PROVE  /\ Shape' /\ ReplyInv'
         /\ \A t \in Services : At(t)' = IF t = s THEN At(t) \ {serving[s]} ELSE At(t)
<1> USE Distinct
<1>1. /\ Tell(s, {serving[s]}, a) /\ backlog' = backlog /\ up' = up /\ request' = request
      /\ serving' = [serving EXCEPT ![s] = Nobody]
      /\ asked' = [asked EXCEPT ![s] = FALSE]
  BY DEF Respond
<1>2. OnceInv' /\ \A t \in Services : At(t)' = IF t = s THEN At(t) \ {serving[s]} ELSE At(t)
  BY <1>1, Served DEF Shape
<1>3. /\ \A c \in Clients : c # serving[s] => phase'[c] = phase[c]
      /\ \A t \in Services :
           reply'[t] = IF t = serving[s] THEN a ELSE IF t = s THEN None ELSE reply[t]
  BY <1>1, Told DEF Shape
<1>4. /\ \A t \in Services : t # s => asked'[t] = asked[t] /\ serving'[t] = serving[t]
      /\ asked'[s] = FALSE
  BY <1>1 DEF Shape, TypeInv
<1>5. serving[s] \in At(s) /\ serving[s] # s
  BY Whose DEF Shape, PlaceInv
<1>6. PlaceInv'
  <2> SUFFICES ASSUME NEW t \in Services, NEW x \in At(t)'
               PROVE  /\ x \in Clients  => request'[x].to = t
                                           /\ phase'[x] \in {"connected", "sent", "gone", "deaf"}
                      /\ x \in Services => x # "property" /\ Below(x) = t
                                           /\ asked'[x] /\ reply'[x] = None
    BY DEF PlaceInv, Below
  <2>1. x \in At(t) /\ x # serving[s]
    BY <1>2, <1>5, OnePlace
  <2>2. x \in Services => x # s
    BY <2>1 DEF Shape, PlaceInv
  <2> QED
    BY <1>1, <1>3, <1>4, <2>1, <2>2 DEF Shape, PlaceInv
<1>7. AskedInv'
  <2> SUFFICES ASSUME NEW t \in Services
               PROVE  /\ asked'[t] =>
                           /\ t # "property" /\ serving'[t] \in Callers
                           /\ serving'[t] \in Clients =>
                                phase'[serving'[t]] \in {"sent", "deaf"}
                                /\ request'[serving'[t]].kind = "ok"
                      /\ reply'[t] # None => asked'[t]
    BY DEF AskedInv
  <2>1. ASSUME asked'[t]
        PROVE  /\ t # "property" /\ serving'[t] \in Callers
               /\ serving'[t] \in Clients =>
                    phase'[serving'[t]] \in {"sent", "deaf"} /\ request'[serving'[t]].kind = "ok"
    <3>1. t # s /\ asked[t] /\ serving'[t] = serving[t]
      BY <1>4, <2>1
    <3>2. serving[t] \in Callers => serving[t] # serving[s]
      BY <1>5, <3>1, OnePlace, Whose
    <3> QED
      BY <1>1, <1>3, <3>1, <3>2 DEF Shape, AskedInv
  <2>2. ASSUME reply'[t] # None
        PROVE  asked'[t]
    <3>1. CASE t = serving[s]
      BY <1>4, <1>5, <3>1 DEF Shape, PlaceInv
    <3>2. CASE t # serving[s]
      BY <1>3, <1>4, <2>2, <3>2 DEF Shape, AskedInv
    <3> QED
      BY <3>1, <3>2
  <2> QED
    BY <2>1, <2>2
<1>8. Shape'
  BY <1>2, <1>6, <1>7 DEF Shape
<1>9. \A t \in Services : asked[t] /\ asked'[t] => serving'[t] = serving[t]
  BY <1>4
<1>10. \A c \in Clients, t \in Services : c \in At(t) => request'[c] = request[c]
  BY <1>1
<1>11. \A t \in Services : reply'[t] = "closed" => ~up'[Below(t)]
  BY <1>1, <1>3 DEF ReplyInv, None
<1>12. /\ reply'["reservation"] = "success" => Prop("reservation")' \in DOMAIN Stock
       /\ reply'["reservation"] = "error"   => Prop("reservation")' = Unknown
  <2>1. CASE serving[s] = "reservation"
    <3>1. s = "property" /\ asked["reservation"] /\ Prop(s) = Prop("reservation")
      BY <1>5, <2>1, Whose DEF Shape, PlaceInv
    <3>2. asked'["reservation"] /\ reply'["reservation"] = a
      BY <1>3, <1>4, <2>1, <3>1
    <3>3. Prop("reservation")' = Prop("reservation")
      BY <1>8, <1>9, <1>10, <3>1, <3>2, PropStays
    <3> QED
      BY <2>1, <3>1, <3>2, <3>3
  <2>2. CASE serving[s] # "reservation" /\ s # "reservation"
    <3>1. reply'["reservation"] = reply["reservation"]
      BY <1>3, <2>2
    <3> QED
      BY <1>8, <1>9, <1>10, <3>1, ToldStays
  <2>3. CASE serving[s] # "reservation" /\ s = "reservation"
    BY <1>3, <2>3 DEF None
  <2> QED
    BY <2>1, <2>2, <2>3
<1>13. /\ reply'["payment"] = "accepted" =>
            Prop("payment")' \in DOMAIN Stock /\ Stock[Prop("payment")'].available
       /\ reply'["payment"] = "rejected" =>
            Prop("payment")' = Unknown \/ ~Stock[Prop("payment")'].available
  <2>1. CASE serving[s] = "payment"
    <3>1. s = "reservation" /\ asked["payment"] /\ serving["payment"] \in Clients
          /\ Prop(s) = request[serving["payment"]].prop
      BY <1>5, <2>1, Whose DEF Shape, PlaceInv
    <3>2. Prop("payment") = Prop(s)
      BY <3>1, Whose
    <3>3. asked'["payment"] /\ reply'["payment"] = a
      BY <1>3, <1>4, <2>1, <3>1
    <3>4. Prop("payment")' = Prop("payment")
      BY <1>8, <1>9, <1>10, <3>1, <3>3, PropStays
    <3> QED
      BY <2>1, <3>2, <3>3, <3>4
  <2>2. CASE serving[s] # "payment" /\ s # "payment"
    <3>1. reply'["payment"] = reply["payment"]
      BY <1>3, <2>2
    <3> QED
      BY <1>8, <1>9, <1>10, <3>1, ToldStays
  <2>3. CASE serving[s] # "payment" /\ s = "payment"
    BY <1>3, <2>3 DEF None
  <2> QED
    BY <2>1, <2>2, <2>3
<1>14. ReplyInv'
  BY <1>11, <1>12, <1>13 DEF ReplyInv, Below
<1> QED
  BY <1>2, <1>8, <1>14
\* The end of a process that waits for nobody.
LEMMA DieKeeps ==
  ASSUME Shape, ReplyInv, TypeInv', NEW s \in Services, Die(s), ~asked[s] \/ reply[s] # None
  PROVE  /\ Shape' /\ ReplyInv'
         /\ \A t \in Services : At(t)' = IF t = s THEN {} ELSE At(t)
<1> USE Distinct
<1> DEFINE cs == {serving[s]} \cup ToSet(backlog[s])
<1>1. /\ Tell(s, cs, "closed") /\ request' = request /\ "closed" \in Answers
      /\ up' = [up EXCEPT ![s] = FALSE]
      /\ serving' = [serving EXCEPT ![s] = Nobody]
      /\ asked' = [asked EXCEPT ![s] = FALSE]
  BY DEF Die, Answers
<1>2. /\ OnceInv' /\ \A t \in Services : At(t)' = IF t = s THEN {} ELSE At(t)
      /\ \A x \in Callers : x \in cs <=> x \in At(s)
  BY AllEnd DEF Shape
<1> HIDE DEF cs
<1>3. /\ \A c \in Clients : c \notin At(s) => phase'[c] = phase[c]
      /\ \A t \in Services :
           reply'[t] = IF t \in At(s) THEN "closed" ELSE IF t = s THEN None ELSE reply[t]
  BY <1>1, <1>2, Told DEF Shape
<1>4. /\ \A t \in Services : t # s => asked'[t] = asked[t] /\ serving'[t] = serving[t]
      /\ asked'[s] = FALSE /\ up'[s] = FALSE
      /\ \A t \in Services : up'[t] => up[t]
  BY <1>1 DEF Shape, TypeInv
<1>5. s \notin At(s)
  BY DEF Shape, PlaceInv
<1>6. PlaceInv'
  <2> SUFFICES ASSUME NEW t \in Services, NEW x \in At(t)'
               PROVE  /\ x \in Clients  => request'[x].to = t
                                           /\ phase'[x] \in {"connected", "sent", "gone", "deaf"}
                      /\ x \in Services => x # "property" /\ Below(x) = t
                                           /\ asked'[x] /\ reply'[x] = None
    BY DEF PlaceInv, Below
  <2>1. x \in At(t) /\ x \notin At(s)
    BY <1>2, OnePlace
  <2>2. x \in Services => x # s
    BY <2>1 DEF Shape, PlaceInv
  <2> QED
    BY <1>1, <1>3, <1>4, <2>1, <2>2 DEF Shape, PlaceInv
<1>7. AskedInv'
  <2> SUFFICES ASSUME NEW t \in Services
               PROVE  /\ asked'[t] =>
                           /\ t # "property" /\ serving'[t] \in Callers
                           /\ serving'[t] \in Clients =>
                                phase'[serving'[t]] \in {"sent", "deaf"}
                                /\ request'[serving'[t]].kind = "ok"
                      /\ reply'[t] # None => asked'[t]
    BY DEF AskedInv
  <2>1. ASSUME asked'[t]
        PROVE  /\ t # "property" /\ serving'[t] \in Callers
               /\ serving'[t] \in Clients =>
                    phase'[serving'[t]] \in {"sent", "deaf"} /\ request'[serving'[t]].kind = "ok"
    <3>1. t # s /\ asked[t] /\ serving'[t] = serving[t]
      BY <1>4, <2>1
    <3>2. serving[t] \in Callers => serving[t] \notin At(s)
      BY <3>1, OnePlace, Whose
    <3> QED
      BY <1>1, <1>3, <3>1, <3>2 DEF Shape, AskedInv
  <2>2. ASSUME reply'[t] # None
        PROVE  asked'[t]
    <3>1. CASE t \in At(s)
      BY <1>4, <1>5, <3>1 DEF Shape, PlaceInv
    <3>2. CASE t \notin At(s)
      BY <1>3, <1>4, <2>2, <3>2 DEF Shape, AskedInv
    <3> QED
      BY <3>1, <3>2
  <2> QED
    BY <2>1, <2>2
<1>8. Shape'
  BY <1>2, <1>6, <1>7 DEF Shape
<1>9. \A t \in Services : asked[t] /\ asked'[t] => serving'[t] = serving[t]
  BY <1>4
<1>10. \A c \in Clients, t \in Services : c \in At(t) => request'[c] = request[c]
  BY <1>1
<1>11. \A t \in Services : reply'[t] = "closed" => ~up'[Below(t)]
  <2> SUFFICES ASSUME NEW t \in Services, reply'[t] = "closed"
               PROVE  ~up'[Below(t)]
    OBVIOUS
  <2>1. CASE t \in At(s)
    BY <1>4, <2>1 DEF Shape, PlaceInv
  <2>2. CASE t \notin At(s)
    <3>1. reply[t] = "closed"
      BY <1>3, <2>2 DEF None
    <3> QED
      BY <1>4, <3>1 DEF ReplyInv
  <2> QED
    BY <2>1, <2>2
<1>12. ASSUME NEW t \in {"payment", "reservation"}
       PROVE  reply'[t] = reply[t] \/ reply'[t] \in {"closed", None}
  BY <1>3
<1>13. /\ reply'["reservation"] = "success" => Prop("reservation")' \in DOMAIN Stock
       /\ reply'["reservation"] = "error"   => Prop("reservation")' = Unknown
  <2>1. CASE reply'["reservation"] = reply["reservation"]
    BY <1>8, <1>9, <1>10, <2>1, ToldStays
  <2>2. CASE reply'["reservation"] \in {"closed", None}
    BY <2>2 DEF None
  <2> QED
    BY <1>12, <2>1, <2>2
<1>14. /\ reply'["payment"] = "accepted" =>
            Prop("payment")' \in DOMAIN Stock /\ Stock[Prop("payment")'].available
       /\ reply'["payment"] = "rejected" =>
            Prop("payment")' = Unknown \/ ~Stock[Prop("payment")'].available
  <2>1. CASE reply'["payment"] = reply["payment"]
    BY <1>8, <1>9, <1>10, <2>1, ToldStays
  <2>2. CASE reply'["payment"] \in {"closed", None}
    BY <2>2 DEF None
  <2> QED
    BY <1>12, <2>1, <2>2
<1>15. ReplyInv'
  BY <1>11, <1>13, <1>14 DEF ReplyInv, Below
<1> QED
  BY <1>2, <1>8, <1>15

\* A step that answers nobody.
LEMMA SilentKeeps ==
  ASSUME Shape, ReplyInv, TypeInv', OnceInv', up' = up, reply' = reply,
         \A t \in Services : asked[t] => asked'[t] /\ serving'[t] = serving[t],
         \A c \in Clients, t \in Services : c \in At(t)' =>
           /\ request'[c].to = t
           /\ phase'[c] \in {"connected", "sent", "gone", "deaf"},
         \A c \in Clients, t \in Services : c \in At(t) =>
           /\ request'[c] = request[c]
           /\ phase[c] \in {"sent", "deaf"} => phase'[c] \in {"sent", "deaf"},
         \A x, t \in Services : x \in At(t)' =>
           x \in At(t) \/ (x # "property" /\ Below(x) = t /\ asked'[x] /\ reply[x] = None),
         \A t \in Services : asked'[t] /\ ~asked[t] =>
           /\ t # "property" /\ serving'[t] \in Callers
           /\ serving'[t] \in Clients =>
                phase'[serving'[t]] \in {"sent", "deaf"} /\ request'[serving'[t]].kind = "ok"
  PROVE  Shape' /\ ReplyInv'
<1> USE Distinct
<1>1. PlaceInv'
  <2> SUFFICES ASSUME NEW t \in Services, NEW x \in At(t)'
               PROVE  /\ x \in Clients  => request'[x].to = t
                                           /\ phase'[x] \in {"connected", "sent", "gone", "deaf"}
                      /\ x \in Services => x # "property" /\ Below(x) = t
                                           /\ asked'[x] /\ reply'[x] = None
    BY DEF PlaceInv, Below
  <2>1. CASE x \in Clients
    BY <2>1
  <2>2. CASE x \in Services
    BY <2>2 DEF Shape, PlaceInv
  <2> QED
    BY <2>1, <2>2 DEF At
<1>2. AskedInv'
  <2> SUFFICES ASSUME NEW t \in Services
               PROVE  /\ asked'[t] =>
                           /\ t # "property" /\ serving'[t] \in Callers
                           /\ serving'[t] \in Clients =>
                                phase'[serving'[t]] \in {"sent", "deaf"}
                                /\ request'[serving'[t]].kind = "ok"
                      /\ reply'[t] # None => asked'[t]
    BY DEF AskedInv
  <2>1. CASE asked[t]
    BY <2>1, Whose DEF Shape, AskedInv
  <2>2. CASE ~asked[t]
    BY <2>2 DEF Shape, AskedInv
  <2> QED
    BY <2>1, <2>2
<1>3. Shape'
  BY <1>1, <1>2 DEF Shape
<1>4. /\ reply'["reservation"] = "success" => Prop("reservation")' \in DOMAIN Stock
      /\ reply'["reservation"] = "error"   => Prop("reservation")' = Unknown
  BY <1>3, ToldStays
<1>5. /\ reply'["payment"] = "accepted" =>
           Prop("payment")' \in DOMAIN Stock /\ Stock[Prop("payment")'].available
      /\ reply'["payment"] = "rejected" =>
           Prop("payment")' = Unknown \/ ~Stock[Prop("payment")'].available
  BY <1>3, ToldStays
<1> QED
  BY <1>3, <1>4, <1>5 DEF ReplyInv, Below
-----------------------------------------------------------------------------
(* The steps keep the answers true and the ends explained.                   *)

\* A step that writes no payment, and gives right answers, if any, to clients that
\* were waiting for one.
LEMMA Quietly ==
  ASSUME Good, Shape', ReplyInv', payments' = payments, receipt' = receipt,
         \A c \in Clients : phase[c] # "new" => request'[c] = request[c] /\ phase'[c] # "new",
         \A c \in Clients : phase'[c] = "new" => answer'[c] = answer[c],
         \A c \in Clients : phase[c] \in {"done", "deaf"} => phase'[c] = phase[c],
         \A c \in Clients : answer'[c] # answer[c] =>
           Fits(c)' /\ (phase[c] = "new" \/ \E s \in Services : c \in At(s)),
         \A c \in Clients, s \in Services : c \in At(s)' => c \in At(s) \/ phase[c] = "new",
         \A s \in Services : ~up'[s] => ~up[s] \/ Explained(s)'
  PROVE  Good'
<1>1. ReceiptInv'
  BY DEF Good, Inv, ReceiptInv, At
<1>2. ASSUME NEW c \in Clients PROVE Fits(c)'
  <2>1. CASE answer'[c] = answer[c] /\ phase[c] = "new"
    BY <2>1 DEF Good, Inv, ReceiptInv, Fits, None
  <2>2. CASE answer'[c] = answer[c] /\ phase[c] # "new"
    <3>1. Fits(c)
      BY DEF Good, AnswersFit, Fits
    <3> QED
      BY <2>2, <3>1 DEF Fits, Reads
  <2>3. CASE answer'[c] # answer[c]
    BY <2>3
  <2> QED
    BY <2>1, <2>2, <2>3
<1>3. ASSUME NEW i \in DOMAIN payments
      PROVE  LET c == payments[i].client IN
             /\ c \in Clients /\ request'[c] = request[c] /\ answer'[c] = answer[c]
             /\ phase[c] = "deaf" => phase'[c] = "deaf"
  <2> DEFINE c == payments[i].client
  <2>1. c \in Clients /\ i \in Nat \ {0}
    <3>1. payments \in Seq([client : Clients, prop : Ids])
      BY DEF Good, Inv, Shape, TypeInv
    <3>2. i \in Nat \ {0} /\ payments[i] \in [client : Clients, prop : Ids]
      BY <3>1, Elements
    <3> QED
      BY <3>2
  <2>2. receipt[c] = i
    BY DEF Good, AnswersFit
  <2> HIDE DEF c
  <2>3. phase[c] # "new" /\ \A s \in Services : c \notin At(s)
    BY <2>1, <2>2 DEF Good, Inv, ReceiptInv
  <2>4. request'[c] = request[c] /\ answer'[c] = answer[c]
        /\ (phase[c] = "deaf" => phase'[c] = "deaf")
    BY <2>1, <2>3
  <2> QED
    BY <2>1, <2>4 DEF c
<1>4. ASSUME NEW i \in DOMAIN payments
      PROVE  LET c == payments[i].client IN
             /\ receipt[c] = i
             /\ Reads(c, "payment")' /\ payments[i].prop = request'[c].prop
             /\ payments[i].prop \in DOMAIN Stock
             /\ Stock[payments[i].prop] = [available |-> TRUE, priced |-> TRUE]
             /\ request'[c].card # "0000"
             /\ answer'[c] = "success" \/ phase'[c] = "deaf"
  BY <1>3 DEF Good, AnswersFit, Reads
<1>5. AnswersFit'
  BY <1>2, <1>4 DEF AnswersFit, Fits, Reads
<1>6. NoCollateral'
  <2> SUFFICES ASSUME NEW s \in Services, ~up[s]
               PROVE  Explained(s)'
    BY DEF NoCollateral, Explained, Behind
  <2>1. PICK c \in Clients :
          /\ phase[c] \in {"done", "deaf"}
          /\ request[c].to \in Behind(s)
          /\ request[c].kind \in IF request[c].to = "payment" THEN {"unreadable"}
                                 ELSE {"garbage", "partial"}
    BY DEF Good, NoCollateral
  <2>2. phase'[c] \in {"done", "deaf"} /\ request'[c] = request[c]
    BY <2>1
  <2> QED
    BY <2>1, <2>2 DEF Explained, Behind
<1> QED
  BY <1>1, <1>5, <1>6 DEF Good, Inv

LEMMA ConnectStep ==
  ASSUME Good, TypeInv', NEW c \in Clients, NEW q \in Requests[c], Connect(c, q)
  PROVE  Good'
<1> USE Distinct
<1>1. q \in Request /\ q.to \in Services /\ phase[c] = "new" /\ c \in Callers
  BY PrototypeAssumption DEF Connect, Request
<1>2. \A s \in Services : c \notin At(s)
  BY <1>1 DEF Good, Inv, Shape, PlaceInv
<1>3. /\ request'[c] = q /\ \A d \in Clients : d # c => request'[d] = request[d]
      /\ phase'[c] = IF up[q.to] THEN "connected" ELSE "done"
      /\ \A d \in Clients : d # c => phase'[d] = phase[d] /\ answer'[d] = answer[d]
      /\ answer'[c] = IF up[q.to] THEN answer[c] ELSE "closed"
      /\ receipt' = receipt /\ up' = up /\ serving' = serving /\ asked' = asked
      /\ reply' = reply /\ payments' = payments
  BY <1>1 DEF Connect, Good, Inv, Shape, TypeInv
<1>4. /\ OnceInv'
      /\ \A s \in Services : At(s)' = IF s = q.to /\ up[q.to] THEN At(s) \cup {c} ELSE At(s)
  <2>1. CASE up[q.to]
    <3>1. backlog' = [backlog EXCEPT ![q.to] = Append(@, c)]
      BY <2>1 DEF Connect
    <3> QED
      BY <1>1, <1>2, <1>3, <2>1, <3>1, Joins DEF Good, Inv, Shape
  <2>2. CASE ~up[q.to]
    <3>1. backlog' = backlog
      BY <2>2 DEF Connect
    <3> QED
      BY <1>3, <2>2, <3>1 DEF Good, Inv, Shape, OnceInv, At
  <2> QED
    BY <2>1, <2>2
<1>5. \A d \in Clients, s \in Services : d \in At(s)' =>
        request'[d].to = s /\ phase'[d] \in {"connected", "sent", "gone", "deaf"}
  BY <1>1, <1>2, <1>3, <1>4 DEF Good, Inv, Shape, PlaceInv
<1>6. \A d \in Clients, s \in Services : d \in At(s) =>
        /\ request'[d] = request[d]
        /\ phase[d] \in {"sent", "deaf"} => phase'[d] \in {"sent", "deaf"}
  BY <1>2, <1>3
<1>7. \A x, s \in Services : x \in At(s)' => x \in At(s)
  BY <1>4
<1>8. Shape' /\ ReplyInv'
  BY <1>3, <1>4, <1>5, <1>6, <1>7, SilentKeeps DEF Good, Inv
<1>9. ASSUME answer'[c] # answer[c] PROVE Fits(c)'
  BY <1>3, <1>9 DEF Fits
<1>10. \A d \in Clients : phase[d] # "new" => request'[d] = request[d] /\ phase'[d] # "new"
  BY <1>1, <1>3
<1>11. \A d \in Clients : phase'[d] = "new" => answer'[d] = answer[d]
  BY <1>3
<1>12. \A d \in Clients : phase[d] \in {"done", "deaf"} => phase'[d] = phase[d]
  BY <1>1, <1>3
<1>13. \A d \in Clients : answer'[d] # answer[d] =>
         Fits(d)' /\ (phase[d] = "new" \/ \E s \in Services : d \in At(s))
  BY <1>1, <1>3, <1>9
<1>14. \A d \in Clients, s \in Services : d \in At(s)' => d \in At(s) \/ phase[d] = "new"
  BY <1>1, <1>4
<1> QED
  BY <1>3, <1>8, <1>10, <1>11, <1>12, <1>13, <1>14, Quietly
LEMMA SendOrLeaveStep ==
  ASSUME Good, TypeInv', NEW c \in Clients, SendRequest(c) \/ LeaveEarly(c)
  PROVE  Good'
<1>1. /\ request' = request /\ answer' = answer /\ receipt' = receipt /\ payments' = payments
      /\ up' = up /\ backlog' = backlog /\ serving' = serving /\ asked' = asked /\ reply' = reply
  BY DEF SendRequest, LeaveEarly, serverVars
<1>2. /\ phase[c] \in {"connected", "sent"} /\ phase'[c] \in {"sent", "gone", "deaf"}
      /\ phase[c] = "sent" => phase'[c] = "deaf"
      /\ \A d \in Clients : d # c => phase'[d] = phase[d]
  BY DEF SendRequest, LeaveEarly, Good, Inv, Shape, TypeInv
<1>3. OnceInv' /\ \A s \in Services : At(s)' = At(s)
  BY <1>1 DEF Good, Inv, Shape, OnceInv, At
<1>4. \A d \in Clients, s \in Services : d \in At(s)' =>
        request'[d].to = s /\ phase'[d] \in {"connected", "sent", "gone", "deaf"}
  BY <1>1, <1>2, <1>3 DEF Good, Inv, Shape, PlaceInv
<1>5. Shape' /\ ReplyInv'
  BY <1>1, <1>2, <1>3, <1>4, SilentKeeps DEF Good, Inv
<1>6. \A d \in Clients : phase[d] # "new" => request'[d] = request[d] /\ phase'[d] # "new"
  BY <1>1, <1>2
<1>7. \A d \in Clients : phase[d] \in {"done", "deaf"} => phase'[d] = phase[d]
  BY <1>2
<1> QED
  BY <1>1, <1>3, <1>5, <1>6, <1>7, Quietly

LEMMA AcceptStep ==
  ASSUME Good, TypeInv', NEW s \in Services, Accept(s)
  PROVE  Good'
<1>1. /\ request' = request /\ answer' = answer /\ receipt' = receipt /\ payments' = payments
      /\ phase' = phase /\ up' = up /\ asked' = asked /\ reply' = reply /\ serving[s] = Nobody
  BY DEF Accept, clientVars
<1>2. OnceInv' /\ \A t \in Services : At(t)' = At(t)
  BY Accepted DEF Good, Inv, Shape
<1>3. \A t \in Services : t # s => serving'[t] = serving[t]
  BY DEF Accept, Good, Inv, Shape, TypeInv
<1>4. ~asked[s]
  BY <1>1, Distinct DEF Good, Inv, Shape, AskedInv
<1>5. \A d \in Clients, t \in Services : d \in At(t)' =>
        request'[d].to = t /\ phase'[d] \in {"connected", "sent", "gone", "deaf"}
  BY <1>1, <1>2 DEF Good, Inv, Shape, PlaceInv
<1>6. Shape' /\ ReplyInv'
  BY <1>1, <1>2, <1>3, <1>4, <1>5, SilentKeeps DEF Good, Inv
<1> QED
  BY <1>1, <1>2, <1>6, Quietly

LEMMA ReadNothingStep ==
  ASSUME Good, TypeInv', NEW s \in Services, ReadNothing(s)
  PROVE  Good'
<1>1. /\ request' = request /\ answer' = answer /\ receipt' = receipt /\ payments' = payments
      /\ phase' = phase /\ up' = up /\ asked' = asked /\ reply' = reply /\ backlog' = backlog
      /\ serving' = [serving EXCEPT ![s] = Nobody]
      /\ serving[s] \in Clients /\ phase[serving[s]] = "gone"
  BY DEF ReadNothing, clientVars
<1>2. OnceInv' /\ \A t \in Services : At(t)' = IF t = s THEN At(t) \ {serving[s]} ELSE At(t)
  BY <1>1, Served DEF Good, Inv, Shape
<1>3. \A t \in Services : t # s => serving'[t] = serving[t]
  BY <1>1 DEF Good, Inv, Shape, TypeInv
<1>4. ~asked[s]
  BY <1>1 DEF Good, Inv, Shape, AskedInv
<1>5. \A d \in Clients, t \in Services : d \in At(t)' =>
        request'[d].to = t /\ phase'[d] \in {"connected", "sent", "gone", "deaf"}
  BY <1>1, <1>2 DEF Good, Inv, Shape, PlaceInv
<1>6. Shape' /\ ReplyInv'
  BY <1>1, <1>2, <1>3, <1>4, <1>5, SilentKeeps DEF Good, Inv
<1> QED
  BY <1>1, <1>2, <1>6, Quietly

\* request_reservation, check_property: the service joins the callers of the one below.
LEMMA AskStep ==
  ASSUME Good, TypeInv', NEW s \in Services, Ask(s), ~Die(s)
  PROVE  Good'
<1> USE Distinct
<1>1. /\ request' = request /\ answer' = answer /\ receipt' = receipt /\ payments' = payments
      /\ phase' = phase /\ up' = up /\ reply' = reply /\ serving' = serving
      /\ backlog' = [backlog EXCEPT ![Below(s)] = Append(@, s)]
      /\ asked' = [asked EXCEPT ![s] = TRUE]
      /\ ~asked[s] /\ serving[s] # Nobody /\ Kind(s) = "ok" /\ s # "property"
      /\ serving[s] \in Clients => phase[serving[s]] \in {"sent", "deaf"}
  BY DEF Ask, HasRead, clientVars
<1>2. \A t \in Services : s \notin At(t)
  BY <1>1 DEF Good, Inv, Shape, PlaceInv
<1>3. /\ OnceInv'
      /\ \A t \in Services : At(t)' = IF t = Below(s) THEN At(t) \cup {s} ELSE At(t)
  <2>1. Below(s) \in Services /\ s \in Callers
    OBVIOUS
  <2> QED
    BY <1>1, <1>2, <2>1, Joins DEF Good, Inv, Shape
<1>4. /\ asked'[s] /\ \A t \in Services : t # s => asked'[t] = asked[t]
      /\ reply[s] = None
  BY <1>1 DEF Good, Inv, Shape, TypeInv, AskedInv
<1>5. /\ serving[s] \in Callers
      /\ serving[s] \in Clients => request[serving[s]].kind = "ok"
  BY <1>1 DEF Kind, Good, Inv, Shape, TypeInv
<1>6. \A d \in Clients, t \in Services : d \in At(t)' =>
        request'[d].to = t /\ phase'[d] \in {"connected", "sent", "gone", "deaf"}
  BY <1>1, <1>3 DEF Good, Inv, Shape, PlaceInv
<1>7. \A x, t \in Services : x \in At(t)' =>
        x \in At(t) \/ (x # "property" /\ Below(x) = t /\ asked'[x] /\ reply[x] = None)
  BY <1>1, <1>3, <1>4
<1>8. \A t \in Services : asked'[t] /\ ~asked[t] =>
        /\ t # "property" /\ serving'[t] \in Callers
        /\ serving'[t] \in Clients =>
             phase'[serving'[t]] \in {"sent", "deaf"} /\ request'[serving'[t]].kind = "ok"
  BY <1>1, <1>4, <1>5
<1>9. Shape' /\ ReplyInv'
  BY <1>1, <1>3, <1>4, <1>6, <1>7, <1>8, SilentKeeps DEF Good, Inv
<1>10. \A d \in Clients, t \in Services : d \in At(t)' => d \in At(t)
  BY <1>3
<1> QED
  BY <1>1, <1>9, <1>10, Quietly
\* A process that ends tells its callers nothing that could be wrong.
LEMMA DieStep ==
  ASSUME Good, TypeInv', NEW s \in Services, Die(s), ~asked[s] \/ reply[s] # None,
         Explained(s)'
  PROVE  Good'
<1>1. /\ request' = request /\ receipt' = receipt /\ payments' = payments
      /\ Tell(s, {serving[s]} \cup ToSet(backlog[s]), "closed") /\ "closed" \in Answers
      /\ \A t \in Services : t # s => up'[t] = up[t]
  BY DEF Die, Answers, Good, Inv, Shape, TypeInv
<1>2. /\ Shape' /\ ReplyInv'
      /\ \A t \in Services : At(t)' = IF t = s THEN {} ELSE At(t)
  BY DieKeeps DEF Good, Inv
<1>3. \A c \in Clients :
        IF c \in At(s) /\ phase[c] \in {"connected", "sent"}
        THEN phase'[c] = "done" /\ answer'[c] = "closed"
        ELSE phase'[c] = phase[c] /\ answer'[c] = answer[c]
  BY <1>1, Told, AllEnd, Distinct DEF Good, Inv, Shape
<1>4. \A c \in Clients : phase[c] # "new" => request'[c] = request[c] /\ phase'[c] # "new"
  BY <1>1, <1>3
<1>5. \A c \in Clients : phase'[c] = "new" => answer'[c] = answer[c]
  BY <1>3
<1>6. \A c \in Clients : phase[c] \in {"done", "deaf"} => phase'[c] = phase[c]
  BY <1>3
<1>7. \A c \in Clients : answer'[c] # answer[c] =>
        Fits(c)' /\ (phase[c] = "new" \/ \E t \in Services : c \in At(t))
  BY <1>3 DEF Fits
<1>8. \A c \in Clients, t \in Services : c \in At(t)' => c \in At(t) \/ phase[c] = "new"
  BY <1>2
<1>9. \A t \in Services : ~up'[t] => ~up[t] \/ Explained(t)'
  BY <1>1
<1> QED
  BY <1>1, <1>2, <1>4, <1>5, <1>6, <1>7, <1>8, <1>9, Quietly

\* Whatever explains the end of the service below explains the end of this one.
LEMMA FromBelow ==
  ASSUME Good, TypeInv', NEW s \in Services, s # "property", ~up[Below(s)], Die(s)
  PROVE  Explained(s)'
<1>1. Below(s) \in Services /\ Behind(Below(s)) \subseteq Behind(s)
  BY Distinct DEF Behind
<1>2. PICK c \in Clients :
        /\ phase[c] \in {"done", "deaf"}
        /\ request[c].to \in Behind(Below(s))
        /\ request[c].kind \in IF request[c].to = "payment" THEN {"unreadable"}
                               ELSE {"garbage", "partial"}
  BY <1>1 DEF Good, NoCollateral
<1>3. request' = request /\ phase'[c] = phase[c]
  BY <1>2 DEF Die, Tell, Good, Inv, Shape, TypeInv
<1>4. Behind(s)' = Behind(s)
  BY DEF Behind
<1> QED
  BY <1>1, <1>2, <1>3, <1>4 DEF Explained

LEMMA EndStep ==
  ASSUME Good, TypeInv', NEW s \in Services,
         RaisesAtOnce(s) \/ (Ask(s) /\ Die(s)) \/ AnsweredByNothing(s)
  PROVE  Good'
<1>1. CASE RaisesAtOnce(s)
  <2>1. ~asked[s] /\ Die(s) /\ serving[s] # Nobody /\ Fatal(s)
        /\ (serving[s] \in Clients => phase[serving[s]] \in {"sent", "deaf"})
    BY <1>1 DEF RaisesAtOnce, HasRead
  <2>2. /\ serving[s] \in Clients /\ s \in Behind(s)
        /\ request[serving[s]].kind \in IF s = "payment" THEN {"unreadable"}
                                        ELSE {"garbage", "partial"}
    BY <2>1, Distinct DEF Fatal, Kind, Behind, Good, Inv, Shape, TypeInv
  <2>3. request[serving[s]].to = s
    BY <2>2, Distinct DEF Good, Inv, Shape, PlaceInv, At
  <2>4. phase'[serving[s]] \in {"done", "deaf"} /\ request' = request
    BY <2>1, <2>2 DEF Die, Tell
  <2>5. Explained(s)'
    BY <2>2, <2>3, <2>4 DEF Explained, Behind
  <2> QED
    BY <2>1, <2>5, DieStep
<1>2. CASE Ask(s) /\ Die(s)
  <2>1. s # "property" /\ ~asked[s]
    BY <1>2 DEF Ask, HasRead
  <2>2. ~up[Below(s)]
    <3>1. up'[s] = FALSE
      BY <1>2 DEF Die, Good, Inv, Shape, TypeInv
    <3>2. up[s]
      BY <1>2 DEF Ask, HasRead
    <3> QED
      BY <1>2, <3>1, <3>2 DEF Ask
  <2> QED
    BY <1>2, <2>1, <2>2, FromBelow, DieStep
<1>3. CASE AnsweredByNothing(s)
  <2>1. Die(s) /\ asked[s] /\ reply[s] = "closed"
    BY <1>3 DEF AnsweredByNothing
  <2>2. s # "property" /\ ~up[Below(s)] /\ reply[s] # None
    BY <2>1 DEF Good, Inv, Shape, AskedInv, ReplyInv, None
  <2> QED
    BY <2>1, <2>2, FromBelow, DieStep
<1> QED
  BY <1>1, <1>2, <1>3

\* An answer that is true of the property in question, to a service or to a client.
LEMMA RespondStep ==
  ASSUME Good, TypeInv', NEW s \in Services, NEW a \in Answers, a # "closed",
         Respond(s, a), serving[s] \in Callers, ~asked[s] \/ reply[s] # None,
         receipt' = receipt, payments' = payments,
         serving[s] = "reservation" =>
           /\ a = "success" => Prop(s) \in DOMAIN Stock
           /\ a = "error"   => Prop(s) = Unknown,
         a = "accepted" => Prop(s) \in DOMAIN Stock /\ Stock[Prop(s)].available,
         a = "rejected" => Prop(s) = Unknown \/ ~Stock[Prop(s)].available,
         a = "failed" =>
           \/ Prop(s) = Unknown \/ request[serving[s]].card = "0000"
           \/ Stock[Prop(s)] # [available |-> TRUE, priced |-> TRUE],
         a = "success" /\ s = "payment" => request[serving[s]].kind # "ok"
  PROVE  Good'
<1>1. /\ request' = request /\ up' = up /\ Tell(s, {serving[s]}, a)
  BY DEF Respond
<1>2. /\ Shape' /\ ReplyInv'
      /\ \A t \in Services : At(t)' = IF t = s THEN At(t) \ {serving[s]} ELSE At(t)
  BY RespondKeeps DEF Good, Inv
<1>3. \A c \in Clients :
        IF c = serving[s] /\ phase[c] \in {"connected", "sent"}
        THEN phase'[c] = "done" /\ answer'[c] = a
        ELSE phase'[c] = phase[c] /\ answer'[c] = answer[c]
  BY <1>1, Told DEF Good, Inv, Shape
<1>4. serving[s] \in At(s) /\ (serving[s] \in Clients => Prop(s) = request[serving[s]].prop)
  BY Whose DEF Good, Inv
<1>5. ASSUME NEW c \in Clients, answer'[c] # answer[c] PROVE Fits(c)' /\ c \in At(s)
  <2>1. c = serving[s] /\ answer'[c] = a /\ c \in At(s)
    BY <1>3, <1>4, <1>5
  <2>2. Prop(s) = request'[c].prop /\ request'[c].to = s
    BY <1>1, <1>4, <2>1 DEF Good, Inv, Shape, PlaceInv
  <2>3. Fits(c)'
    BY <1>1, <2>1, <2>2 DEF Fits, Reads
  <2> QED
    BY <2>1, <2>3
<1>6. \A c \in Clients : phase[c] # "new" => request'[c] = request[c] /\ phase'[c] # "new"
  BY <1>1, <1>3
<1>7. \A c \in Clients : phase'[c] = "new" => answer'[c] = answer[c]
  BY <1>3
<1>8. \A c \in Clients : phase[c] \in {"done", "deaf"} => phase'[c] = phase[c]
  BY <1>3
<1>9. \A c \in Clients : answer'[c] # answer[c] =>
        Fits(c)' /\ (phase[c] = "new" \/ \E t \in Services : c \in At(t))
  BY <1>5
<1>10. \A c \in Clients, t \in Services : c \in At(t)' => c \in At(t) \/ phase[c] = "new"
  BY <1>2
<1> QED
  BY <1>1, <1>2, <1>6, <1>7, <1>8, <1>9, <1>10, Quietly
LEMMA PropertyStep ==
  ASSUME Good, TypeInv', PropertyHandles
  PROVE  Good'
<1> USE Distinct
<1>1. ~asked["property"] /\ serving["property"] \in Callers
  BY DEF PropertyHandles, HasRead, Good, Inv, Shape, TypeInv
<1>2. Prop("property") \in Ids
  BY <1>1, Whose DEF Good, Inv
<1>3. PICK a \in {"success", "error"} :
        /\ Respond("property", a)
        /\ a = "success" => Prop("property") \in DOMAIN Stock
        /\ a = "error"   => Prop("property") = Unknown
  BY <1>2 DEF PropertyHandles, Ids
<1>4. receipt' = receipt /\ payments' = payments /\ a \in Answers
  BY DEF PropertyHandles, Answers
<1> QED
  BY <1>1, <1>3, <1>4, RespondStep

LEMMA ReservationStep ==
  ASSUME Good, TypeInv', ReservationHandles
  PROVE  Good'
<1> USE Distinct
<1>1. reply["reservation"] # None /\ asked["reservation"] /\ serving["reservation"] \in Callers
  BY DEF ReservationHandles, None, Good, Inv, Shape, AskedInv
<1>2. serving["reservation"] # "reservation"
  BY <1>1, Whose DEF Good, Inv
<1>3. PICK a \in {"accepted", "rejected"} :
        /\ Respond("reservation", a)
        /\ a = "accepted" =>
             Prop("reservation") \in DOMAIN Stock /\ Stock[Prop("reservation")].available
        /\ a = "rejected" =>
             Prop("reservation") = Unknown \/ ~Stock[Prop("reservation")].available
  BY DEF ReservationHandles, Accepts, Good, Inv, ReplyInv
<1>4. receipt' = receipt /\ payments' = payments /\ a \in Answers
  BY DEF ReservationHandles, Answers
<1> QED
  BY <1>1, <1>2, <1>3, <1>4, RespondStep

LEMMA PaymentOtherStep ==
  ASSUME Good, TypeInv', PaymentAnswers
  PROVE  Good'
<1> USE Distinct
<1>1. ~asked["payment"] /\ serving["payment"] \in Callers /\ Kind("payment") # "ok"
  BY DEF PaymentAnswers, HasRead, Good, Inv, Shape, TypeInv
<1>2. serving["payment"] \in Clients /\ request[serving["payment"]].kind # "ok"
  BY <1>1, Whose DEF Kind, Good, Inv
<1>3. PICK a \in {"success", "error"} : Respond("payment", a)
  BY DEF PaymentAnswers
<1>4. receipt' = receipt /\ payments' = payments /\ a \in Answers
  BY DEF PaymentAnswers, Answers
<1> QED
  BY <1>1, <1>2, <1>3, <1>4, RespondStep

\* process_payment: no payment, or one payment for the client and property in question.
LEMMA PaymentStep ==
  ASSUME Good, TypeInv', PaymentHandles
  PROVE  Good'
<1> USE Distinct
<1>0. PICK c, p : c = serving["payment"] /\ p = Prop("payment")
  OBVIOUS
<1>1. reply["payment"] # None /\ asked["payment"] /\ c \in Callers
  BY <1>0 DEF PaymentHandles, None, Good, Inv, Shape, AskedInv
<1>2. /\ c \in Clients /\ c \in At("payment") /\ p = request[c].prop
      /\ phase[c] \in {"sent", "deaf"} /\ request[c].kind = "ok" /\ request[c].to = "payment"
  BY <1>0, <1>1, Whose DEF Good, Inv, Shape, AskedInv, PlaceInv
<1>3. /\ reply["payment"] = "accepted" => p \in DOMAIN Stock /\ Stock[p].available
      /\ reply["payment"] = "rejected" => p = Unknown \/ ~Stock[p].available
      /\ reply["payment"] \in {"accepted", "rejected"}
  BY <1>0 DEF PaymentHandles, Good, Inv, ReplyInv
<1>4. ASSUME Respond("payment", "failed"), UNCHANGED <<payments, receipt>>,
             ~(reply["payment"] = "accepted" /\ Stock[p].priced /\ request[c].card # "0000")
      PROVE  Good'
  <2>1. p = Unknown \/ request[c].card = "0000"
        \/ Stock[p] # [available |-> TRUE, priced |-> TRUE]
    BY <1>3, <1>4
  <2>2. serving["payment"] = c /\ Prop("payment") = p /\ "failed" \in Answers
    BY <1>0 DEF Answers
  <2> QED
    BY <1>1, <1>2, <1>4, <2>1, <2>2, RespondStep
<1>5. ASSUME reply["payment"] = "accepted", Stock[p].priced, request[c].card # "0000",
             Respond("payment", "success"),
             payments' = Append(payments, [client |-> c, prop |-> p]),
             receipt' = [receipt EXCEPT ![c] = Len(payments) + 1]
      PROVE  Good'
  <2>1. p \in DOMAIN Stock /\ Stock[p] = [available |-> TRUE, priced |-> TRUE]
    <3>1. p \in DOMAIN Stock /\ Stock[p].available
      BY <1>3, <1>5
    <3>2. Stock[p] \in [available : BOOLEAN, priced : BOOLEAN]
      BY <3>1, PrototypeAssumption
    <3> QED
      BY <1>5, <3>1, <3>2
  <2>2. serving["payment"] = c /\ "success" \in Answers
    BY <1>0 DEF Answers
  <2>3. /\ Shape' /\ ReplyInv'
        /\ \A t \in Services : At(t)' = IF t = "payment" THEN At(t) \ {c} ELSE At(t)
    BY <1>1, <1>2, <1>5, <2>2, RespondKeeps DEF Good, Inv
  <2>4. /\ request' = request /\ up' = up /\ Tell("payment", {c}, "success")
    BY <1>5, <2>2 DEF Respond
  <2>5. /\ phase'[c] = IF phase[c] = "sent" THEN "done" ELSE "deaf"
        /\ phase[c] = "sent" => answer'[c] = "success"
        /\ \A d \in Clients : d # c => phase'[d] = phase[d] /\ answer'[d] = answer[d]
        /\ answer'[c] \in {answer[c], "success"}
    BY <1>2, <2>2, <2>4, Told DEF Good, Inv, Shape
  <2>6. \A d \in Clients : receipt'[d] = IF d = c THEN Len(payments) + 1 ELSE receipt[d]
    BY <1>2, <1>5 DEF Good, Inv, Shape, TypeInv
  <2>7. \A t \in Services : c \notin At(t)'
    BY <1>2, <2>3, OnePlace DEF Good, Inv
  <2>8. ReceiptInv'
    <3> SUFFICES ASSUME NEW d \in Clients
                 PROVE  /\ phase'[d] = "new" => answer'[d] = None /\ receipt'[d] = 0
                        /\ \A s \in Services : d \in At(s)' => receipt'[d] = 0
      BY DEF ReceiptInv
    <3>1. CASE d = c
      BY <2>5, <2>7, <3>1
    <3>2. CASE d # c
      BY <2>3, <2>5, <2>6, <3>2 DEF Good, Inv, ReceiptInv
    <3> QED
      BY <3>1, <3>2
  <2>9. payments \in Seq([client : Clients, prop : Ids]) /\ Len(payments) \in Nat
    BY DEF Good, Inv, Shape, TypeInv
  <2>10. DOMAIN payments = 1 .. Len(payments)
    BY <2>9
  <2>11. /\ DOMAIN payments' = 1 .. (Len(payments) + 1)
         /\ \A i \in DOMAIN payments : payments'[i] = payments[i]
         /\ payments'[Len(payments) + 1] = [client |-> c, prop |-> p]
    <3> DEFINE r == [client |-> c, prop |-> p]
    <3>1. r \in [client : Clients, prop : Ids]
      <4>1. p \in Ids
        BY <2>1 DEF Ids
      <4> QED
        BY <1>2, <4>1
    <3> HIDE DEF r
    <3>2. payments' = Append(payments, r)
      BY <1>5 DEF r
    <3>3. /\ DOMAIN payments' = 1 .. (Len(payments) + 1)
          /\ \A i \in 1 .. Len(payments) : payments'[i] = payments[i]
          /\ payments'[Len(payments) + 1] = r
      BY <2>9, <3>1, <3>2
    <3> QED
      BY <2>10, <3>3 DEF r
  <2>12. ASSUME NEW d \in Clients PROVE Fits(d)'
    <3>1. Fits(d)
      BY DEF Good, AnswersFit, Fits
    <3>2. CASE d = c
      <4>1. /\ request'[c] = request[c] /\ request[c].to = "payment"
            /\ answer'[c] \in {answer[c], "success"}
        BY <1>2, <2>4, <2>5
      <4>2. receipt'[c] \in DOMAIN payments'
        BY <1>2, <2>6, <2>9, <2>11
      <4> QED
        BY <3>1, <3>2, <4>1, <4>2 DEF Fits
    <3>3. CASE d # c
      BY <2>4, <2>5, <2>6, <2>9, <2>10, <2>11, <3>1, <3>3 DEF Fits, Reads
    <3> QED
      BY <3>2, <3>3
  <2>13. ASSUME NEW i \in DOMAIN payments'
         PROVE  LET d == payments'[i].client IN
                /\ receipt'[d] = i
                /\ request'[d].to = "payment" /\ request'[d].kind = "ok"
                /\ payments'[i].prop = request'[d].prop
                /\ payments'[i].prop \in DOMAIN Stock
                /\ Stock[payments'[i].prop] = [available |-> TRUE, priced |-> TRUE]
                /\ request'[d].card # "0000"
                /\ answer'[d] = "success" \/ phase'[d] = "deaf"
    <3>1. CASE i = Len(payments) + 1
      <4>1. payments'[i].client = c /\ payments'[i].prop = p /\ i = receipt'[c]
        BY <1>2, <2>6, <2>11, <3>1
      <4>2. /\ request'[c].to = "payment" /\ request'[c].kind = "ok"
            /\ p = request'[c].prop
            /\ request'[c].card # "0000"
        BY <1>2, <1>5, <2>4
      <4>3. answer'[c] = "success" \/ phase'[c] = "deaf"
        BY <1>2, <2>5
      <4> QED
        BY <2>1, <4>1, <4>2, <4>3
    <3>2. CASE i \in DOMAIN payments
      <4>0. PICK d : d = payments[i].client
        OBVIOUS
      <4>1. d \in Clients /\ i \in Nat \ {0}
        <5> DEFINE S == [client : Clients, prop : Ids]
        <5>1. payments \in Seq(S)
          BY <2>9
        <5>2. i \in Nat \ {0} /\ payments[i] \in S
          <6> HIDE DEF S
          <6> QED
            BY <3>2, <5>1, Elements
        <5> QED
          BY <4>0, <5>2
      <4>2. /\ receipt[d] = i
            /\ request[d].to = "payment" /\ request[d].kind = "ok"
            /\ payments[i].prop = request[d].prop
            /\ payments[i].prop \in DOMAIN Stock
            /\ Stock[payments[i].prop] = [available |-> TRUE, priced |-> TRUE]
            /\ request[d].card # "0000"
            /\ answer[d] = "success" \/ phase[d] = "deaf"
        BY <3>2, <4>0 DEF Good, AnswersFit, Reads
      <4>3. d # c
        BY <1>2, <4>1, <4>2 DEF Good, Inv, ReceiptInv
      <4>4. /\ receipt'[d] = i
            /\ answer'[d] = "success" \/ phase'[d] = "deaf"
        BY <2>4, <2>5, <2>6, <4>1, <4>2, <4>3
      <4>5. payments'[i] = payments[i] /\ payments[i].client = d
        BY <2>11, <3>2, <4>0
      <4> QED
        BY <2>4, <4>2, <4>4, <4>5
    <3> QED
      BY <2>9, <2>10, <2>11, <3>1, <3>2
  <2>14. AnswersFit'
    BY <2>12, <2>13 DEF AnswersFit, Fits, Reads
  <2>15. NoCollateral'
    <3> SUFFICES ASSUME NEW s \in Services, ~up[s]
                 PROVE  Explained(s)'
      BY <2>4 DEF NoCollateral, Explained, Behind
    <3>1. PICK d \in Clients :
            /\ phase[d] \in {"done", "deaf"}
            /\ request[d].to \in Behind(s)
            /\ request[d].kind \in IF request[d].to = "payment" THEN {"unreadable"}
                                   ELSE {"garbage", "partial"}
      BY DEF Good, NoCollateral
    <3>2. phase'[d] \in {"done", "deaf"}
      BY <1>2, <2>5, <3>1
    <3> QED
      BY <2>4, <3>1, <3>2 DEF Explained, Behind
  <2> QED
    BY <2>3, <2>8, <2>14, <2>15 DEF Good, Inv
<1> QED
  BY <1>0, <1>4, <1>5 DEF PaymentHandles

-----------------------------------------------------------------------------
(* The theorems.                                                             *)

LEMMA GoodInit == Init => Good
<1> SUFFICES ASSUME Init PROVE Good
  OBVIOUS
<1> USE Distinct
<1>1. TypeInv
  <2>1. [to |-> "property", kind |-> "ok", prop |-> Unknown, card |-> "good"] \in Request
    BY DEF Request, Kinds, Ids, Cards
  <2>2. <<>> \in Seq(Callers) /\ <<>> \in Seq([client : Clients, prop : Ids])
    OBVIOUS
  <2>3. request \in [Clients -> Request] /\ backlog \in [Services -> Seq(Callers)]
    BY <2>1, <2>2 DEF Init
  <2> QED
    BY <2>2, <2>3 DEF Init, TypeInv
<1>2. \A s \in Services : At(s) = {} /\ DOMAIN backlog[s] = {}
  BY DEF Init, At
<1>3. Shape
  BY <1>1, <1>2 DEF Init, Shape, OnceInv, PlaceInv, AskedInv
<1>4. ReplyInv /\ ReceiptInv
  BY <1>2 DEF Init, ReplyInv, ReceiptInv, None
<1>5. AnswersFit
  BY DEF Init, AnswersFit, None
<1>6. NoCollateral
  BY DEF Init, NoCollateral
<1> QED
  BY <1>3, <1>4, <1>5, <1>6 DEF Good, Inv

LEMMA GoodStep == Good /\ [Next]_vars => Good'
<1> SUFFICES ASSUME Good, [Next]_vars PROVE Good'
  OBVIOUS
<1>1. TypeInv /\ Shape
  BY DEF Good, Inv, Shape
<1>2. ASSUME NEW c \in Clients,
             (\E q \in Requests[c] : Connect(c, q)) \/ SendRequest(c) \/ LeaveEarly(c)
      PROVE  Good'
  <2>1. TypeInv'
    BY <1>1, <1>2, TypeClient
  <2> QED
    BY <1>2, <2>1, ConnectStep, SendOrLeaveStep
<1>3. ASSUME NEW s \in Services, Handle(s)
      PROVE  Good'
  <2>1. TypeInv'
    BY <1>1, <1>3, TypeServer
  <2>2. CASE Accept(s) \/ ReadNothing(s)
    BY <2>1, <2>2, AcceptStep, ReadNothingStep
  <2>3. CASE RaisesAtOnce(s) \/ Ask(s) \/ AnsweredByNothing(s)
    BY <2>1, <2>3, EndStep, AskStep
  <2>4. CASE s = "property" /\ PropertyHandles
    BY <2>1, <2>4, PropertyStep
  <2>5. CASE s = "reservation" /\ ReservationHandles
    BY <2>1, <2>5, ReservationStep
  <2>6. CASE s = "payment" /\ (PaymentAnswers \/ PaymentHandles)
    BY <2>1, <2>6, PaymentOtherStep, PaymentStep
  <2> QED
    BY <1>3, <2>2, <2>3, <2>4, <2>5, <2>6 DEF Handle
<1>4. CASE UNCHANGED vars
  <2>1. /\ phase' = phase /\ request' = request /\ answer' = answer /\ receipt' = receipt
        /\ up' = up /\ backlog' = backlog /\ serving' = serving /\ asked' = asked
        /\ reply' = reply /\ payments' = payments
    BY <1>4 DEF vars, clientVars, serverVars
  <2>2. Shape' /\ ReplyInv' /\ ReceiptInv'
    <3>1. \A t : At(t)' = At(t) /\ Prop(t)' = Prop(t)
      BY <2>1 DEF At, Prop, Client, CallerOf
    <3>2. Shape'
      BY <2>1, <3>1 DEF Good, Inv, Shape, TypeInv, OnceInv, PlaceInv, AskedInv
    <3>3. ReplyInv' /\ ReceiptInv'
      BY <2>1, <3>1 DEF Good, Inv, ReplyInv, ReceiptInv
    <3> QED
      BY <3>2, <3>3
  <2>3. AnswersFit' /\ NoCollateral'
    BY <2>1 DEF Good, AnswersFit, NoCollateral, Reads
  <2> QED
    BY <2>2, <2>3 DEF Good, Inv
<1> QED
  BY <1>2, <1>3, <1>4 DEF Next

\* The structure of the waiting, in every reachable state: a connection is in one place
\* once, and whoever waits for a service below still serves the caller it asks for.
THEOREM ChainHolds == Spec => []Inv
<1>1. Spec => []Good
  BY GoodInit, GoodStep, PTL DEF Spec
<1>2. Good => Inv
  BY DEF Good
<1> QED
  BY <1>1, <1>2, PTL

\* What a client of the Milestone 1 services reads is true of its own request, and every
\* payment has its one receipt, for any clients, requests and stock.
THEOREM AnswersAreOwn == Spec => []AnswersFit
<1>1. Spec => []Good
  BY GoodInit, GoodStep, PTL DEF Spec
<1>2. Good => AnswersFit
  BY DEF Good
<1> QED
  BY <1>1, <1>2, PTL

\* A service ends only through a request, sent by a client to it or to one it depends on,
\* that the receiver cannot read.
THEOREM EndsExplained == Spec => []NoCollateral
<1>1. Spec => []Good
  BY GoodInit, GoodStep, PTL DEF Spec
<1>2. Good => NoCollateral
  BY DEF Good
<1> QED
  BY <1>1, <1>2, PTL
=============================================================================
