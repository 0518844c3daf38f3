------------------------------ MODULE Prototype ------------------------------
(***************************************************************************)
(* The Milestone 1 services, src/payment-service, src/reservation-service   *)
(* and src/property-service: three processes, each with ONE thread that     *)
(* accepts a connection, reads a request, asks the service below it on a    *)
(* new connection, answers and accepts the next.  Nothing catches what a    *)
(* handler raises: the process ends, and its callers meet a closed          *)
(* connection.  A service that calls another is a caller like a client.     *)
(***************************************************************************)
EXTENDS Naturals, Sequences
LOCAL INSTANCE SequencesExt

CONSTANTS
  Clients,
  Requests,   \* what each of them may send
  Stock,      \* data/properties.json: a function from ids to [available, priced]
  Unknown,    \* an id that is not in it
  Nobody

Services == {"payment", "reservation", "property"}
Callers  == Clients \cup Services
Ids      == DOMAIN Stock \cup {Unknown}
Cards    == {"good", "0000"}

\* "garbage" is text that is not JSON, "partial" has no property_id, "list" is
\* list_payments, "other" an action that is unknown, "unreadable" what only raises in
\* the payment service: bytes that are not UTF-8, JSON that is not an object, or a
\* payment whose property_id or nights is no number.
Kinds(s) == IF s = "payment" THEN {"ok", "garbage", "partial", "list", "other", "unreadable"}
            ELSE {"ok", "garbage", "partial"}
Request == UNION {[to : {s}, kind : Kinds(s), prop : Ids, card : Cards] : s \in Services}

ASSUME PrototypeAssumption ==
  /\ Stock \in [DOMAIN Stock -> [available : BOOLEAN, priced : BOOLEAN]]
  /\ Unknown \notin DOMAIN Stock
  /\ Requests \in [Clients -> SUBSET Request]
  /\ Clients \cap Services = {} /\ Nobody \notin Callers

Answers == {"success", "failed", "error", "accepted", "rejected", "closed"}
None == "none"

VARIABLES
  phase,      \* of each client: "new", "connected", "sent", "gone" (left before it
              \* sent anything), "deaf" (left after), "done"
  request,    \* what it asks for
  answer,     \* what each client read; of a payment, receipt is its payment_id
  receipt,
  up,         \* the process runs
  backlog,    \* connections not yet accepted
  serving,    \* the caller whose connection is handled
  asked,      \* the handler has sent its request to the service below
  reply,      \* what it was answered
  payments    \* PAYMENTS

clientVars == <<phase, request, answer, receipt>>
serverVars == <<up, backlog, serving, asked, reply>>
vars == <<clientVars, serverVars, payments>>

Init ==
  /\ phase = [c \in Clients |-> "new"]
  /\ request = [c \in Clients |-> [to |-> "property", kind |-> "ok", prop |-> Unknown, card |-> "good"]]
  /\ answer = [c \in Clients |-> None] /\ receipt = [c \in Clients |-> 0]
  /\ up = [s \in Services |-> TRUE]
  /\ backlog = [s \in Services |-> <<>>]
  /\ serving = [s \in Services |-> Nobody]
  /\ asked = [s \in Services |-> FALSE] /\ reply = [s \in Services |-> None]
  /\ payments = <<>>

-----------------------------------------------------------------------------
(* Clients                                                                  *)

\* connect: the kernel accepts for a process that runs, and refuses otherwise.
Connect(c, q) ==
  /\ phase[c] = "new"
  /\ request' = [request EXCEPT ![c] = q]
  /\ LET s == q.to IN
     IF up[s]
     THEN /\ backlog' = [backlog EXCEPT ![s] = Append(@, c)]
          /\ phase' = [phase EXCEPT ![c] = "connected"]
          /\ UNCHANGED answer
     ELSE /\ phase' = [phase EXCEPT ![c] = "done"]
          /\ answer' = [answer EXCEPT ![c] = "closed"]
          /\ UNCHANGED backlog
  /\ UNCHANGED <<receipt, up, serving, asked, reply, payments>>

\* sendall of the request
SendRequest(c) ==
  /\ phase[c] = "connected"
  /\ phase' = [phase EXCEPT ![c] = "sent"]
  /\ UNCHANGED <<request, answer, receipt, serverVars, payments>>

\* The client dies, before or after it sent its request.
LeaveEarly(c) ==
  /\ phase[c] \in {"connected", "sent"}
  /\ phase' = [phase EXCEPT ![c] = IF @ = "sent" THEN "deaf" ELSE "gone"]
  /\ UNCHANGED <<request, answer, receipt, serverVars, payments>>

-----------------------------------------------------------------------------
(* The server loops                                                         *)

\* server_socket.accept()
Accept(s) ==
  /\ up[s] /\ serving[s] = Nobody /\ backlog[s] # <<>>
  /\ serving' = [serving EXCEPT ![s] = Head(backlog[s])]
  /\ backlog' = [backlog EXCEPT ![s] = Tail(@)]
  /\ UNCHANGED <<clientVars, up, asked, reply, payments>>

\* The connections of s with the callers in cs end; they read a, if they still read.
Tell(s, cs, a) ==
  /\ phase' = [c \in Clients |->
                 IF c \in cs /\ phase[c] \in {"connected", "sent"} THEN "done" ELSE phase[c]]
  /\ answer' = [c \in Clients |->
                 IF c \in cs /\ phase[c] \in {"connected", "sent"} THEN a ELSE answer[c]]
  /\ reply' = [t \in Services |-> IF t \in cs THEN a ELSE IF t = s THEN None ELSE reply[t]]

\* sendall of the answer; the connection is closed and the handler returns.
Respond(s, a) ==
  /\ Tell(s, {serving[s]}, a)
  /\ serving' = [serving EXCEPT ![s] = Nobody]
  /\ asked' = [asked EXCEPT ![s] = FALSE]
  /\ UNCHANGED <<request, up, backlog>>

\* An exception leaves main: the kernel closes every connection of the process.
Die(s) ==
  /\ up' = [up EXCEPT ![s] = FALSE]
  /\ Tell(s, {serving[s]} \cup ToSet(backlog[s]), "closed")
  /\ serving' = [serving EXCEPT ![s] = Nobody]
  /\ backlog' = [backlog EXCEPT ![s] = <<>>]
  /\ asked' = [asked EXCEPT ![s] = FALSE]
  /\ UNCHANGED <<request, receipt, payments>>

\* Seeded fault: the reservation service has its own port for PROPERTY_PORT.
Below_Itself(s) == "reservation"

Below(s) == IF s = "payment" THEN "reservation" ELSE "property"

\* The client whose request, passed on from service to service, s is handling.
CallerOf(caller) == IF caller \in Services THEN serving[caller] ELSE caller
Client(caller) == CallerOf(CallerOf(caller))

Prop(s) == request[Client(serving[s])].prop
Kind(s) == IF serving[s] \in Services THEN "ok" ELSE request[serving[s]].kind

\* connection.recv has returned.
HasRead(s) == /\ up[s] /\ serving[s] # Nobody /\ ~asked[s]
              /\ serving[s] \in Clients => phase[serving[s]] \in {"sent", "deaf"}

\* connection.recv returns nothing.
ReadNothing(s) ==
  /\ up[s] /\ serving[s] \in Clients /\ phase[serving[s]] = "gone"
  /\ serving' = [serving EXCEPT ![s] = Nobody]
  /\ UNCHANGED <<clientVars, up, backlog, asked, reply, payments>>

\* Seeded fault: JSONDecodeError is not caught in the payment service either.
Fatal_Uncaught(s) ==
  IF s = "payment" THEN Kind(s) \in {"unreadable", "garbage"} ELSE Kind(s) \in {"garbage", "partial"}

\* decode, json.loads, request.get, request["property_id"] or int() raises, and
\* JSONDecodeError is not caught outside the payment service.
Fatal(s) ==
  IF s = "payment" THEN Kind(s) = "unreadable" ELSE Kind(s) \in {"garbage", "partial"}

RaisesAtOnce(s) == HasRead(s) /\ Fatal(s) /\ Die(s)

\* request_reservation, check_property: connect and sendall
Ask(s) ==
  /\ HasRead(s) /\ ~Fatal(s) /\ Kind(s) = "ok" /\ s # "property"
  /\ \/ /\ up[Below(s)]
        /\ backlog' = [backlog EXCEPT ![Below(s)] = Append(@, s)]
        /\ asked' = [asked EXCEPT ![s] = TRUE]
        /\ UNCHANGED <<clientVars, up, serving, reply, payments>>
     \/ ~up[Below(s)] /\ Die(s)

\* The service below closed the connection: json.loads of nothing raises.
AnsweredByNothing(s) == up[s] /\ asked[s] /\ reply[s] = "closed" /\ Die(s)

\* property_service handle_client: find_property
PropertyHandles ==
  /\ HasRead("property") /\ ~Fatal("property")
  /\ Respond("property", IF Prop("property") \in DOMAIN Stock THEN "success" ELSE "error")
  /\ UNCHANGED <<receipt, payments>>

\* Seeded fault: only the status of the property service is looked at.
Accepts_Listed(a, p) == a = "success"

\* The property was found and is available.
Accepts(a, p) == a = "success" /\ Stock[p].available

ReservationHandles ==
  /\ up["reservation"] /\ reply["reservation"] \in {"success", "error"}
  /\ Respond("reservation",
             IF Accepts(reply["reservation"], Prop("reservation")) THEN "accepted" ELSE "rejected")
  /\ UNCHANGED <<receipt, payments>>

\* dispatch and handle_client answer what is not a payment.
PaymentAnswers ==
  /\ HasRead("payment") /\ ~Fatal("payment") /\ Kind("payment") # "ok"
  /\ Respond("payment", IF Kind("payment") = "list" THEN "success" ELSE "error")
  /\ UNCHANGED <<receipt, payments>>

\* process_payment after the reservation service has answered
PaymentHandles ==
  LET c == serving["payment"]
      p == Prop("payment")
  IN  /\ up["payment"] /\ reply["payment"] \in {"accepted", "rejected"}
      /\ IF reply["payment"] = "accepted" /\ Stock[p].priced /\ request[c].card # "0000"
         THEN /\ Respond("payment", "success")
              /\ payments' = Append(payments, [client |-> c, prop |-> p])
              /\ receipt' = [receipt EXCEPT ![c] = Len(payments) + 1]
         ELSE Respond("payment", "failed") /\ UNCHANGED <<payments, receipt>>

Handle(s) ==
  \/ Accept(s) \/ ReadNothing(s) \/ RaisesAtOnce(s) \/ Ask(s) \/ AnsweredByNothing(s)
  \/ s = "property" /\ PropertyHandles
  \/ s = "reservation" /\ ReservationHandles
  \/ s = "payment" /\ (PaymentAnswers \/ PaymentHandles)

Next ==
  \/ \E c \in Clients : (\E q \in Requests[c] : Connect(c, q)) \/ SendRequest(c) \/ LeaveEarly(c)
  \/ \E s \in Services : Handle(s)

Spec == Init /\ [][Next]_vars

\* The three processes run on, and a client that connected sends its request.
FairSpec ==
  /\ Spec
  /\ \A s \in Services : WF_vars(Handle(s))
  /\ \A c \in Clients : WF_vars(SendRequest(c))

-----------------------------------------------------------------------------
(* Properties                                                               *)

Reads(c, s) == request[c].to = s /\ request[c].kind = "ok"

\* What a client reads is about its own request, whichever requests wait in the
\* three queues: a reservation is accepted exactly if the property is
\* available, a payment succeeds exactly if it is, has a price, and the card is
\* good, and every success has one receipt, numbered by its place, which is
\* for that client and that property.
AnswersFit ==
  /\ \A c \in Clients :
       /\ answer[c] = "accepted" =>
            request[c].prop \in DOMAIN Stock /\ Stock[request[c].prop].available
       /\ answer[c] = "rejected" =>
            request[c].prop = Unknown \/ ~Stock[request[c].prop].available
       /\ answer[c] = "failed" =>
            \/ request[c].prop = Unknown \/ request[c].card = "0000"
            \/ Stock[request[c].prop] # [available |-> TRUE, priced |-> TRUE]
       /\ answer[c] = "success" /\ Reads(c, "payment") =>
            receipt[c] \in DOMAIN payments
  /\ \A i \in DOMAIN payments :
       LET c == payments[i].client IN
       /\ receipt[c] = i
       /\ Reads(c, "payment") /\ payments[i].prop = request[c].prop
       /\ payments[i].prop \in DOMAIN Stock
       /\ Stock[payments[i].prop] = [available |-> TRUE, priced |-> TRUE]
       /\ request[c].card # "0000"
       /\ answer[c] = "success" \/ phase[c] = "deaf"

Behind(s) == CASE s = "payment" -> Services [] s = "reservation" -> Services \ {"payment"} [] OTHER -> {s}

\* A service ends only through a request that it, or a service it depends on,
\* got from a client and cannot read: never through one that was passed on to
\* it, through a client that leaves, or through a request the payment service
\* answers with an error.
NoCollateral ==
  \A s \in Services : ~up[s] =>
    \E c \in Clients :
      /\ phase[c] \in {"done", "deaf"}
      /\ request[c].to \in Behind(s)
      /\ request[c].kind \in IF request[c].to = "payment" THEN {"unreadable"} ELSE {"garbage", "partial"}

\* A property is paid for once (payment_service.py:36).
PaidOnce == \A i, j \in DOMAIN payments : payments[i].prop = payments[j].prop => i = j

\* A client that connected gets an answer or a closed connection, unless it
\* leaves: the chain of blocking single-threaded services does not wait in a circle.
ClientsEnd == \A c \in Clients : phase[c] = "connected" ~> phase[c] \in {"done", "gone", "deaf"}
=============================================================================
