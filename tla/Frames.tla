------------------------------- MODULE Frames --------------------------------
(***************************************************************************)
(* One direction of a connection, src/communication/transport.py: frames of *)
(* a length, a format and a body are written to a stream of bytes, which    *)
(* arrives in pieces of any size and may be cut anywhere; the loop of       *)
(* FramedServer (server.py) puts the frames together again.                 *)
(* A byte is <<part, position, number of the frame it belongs to>>; what it *)
(* says is what that frame says.                                            *)
(***************************************************************************)
EXTENDS Naturals, Sequences

CONSTANTS
  Outbox,       \* the k-th message sent is one of Outbox[k], records of fmt, size, body
  HeaderSize,   \* HEADER.size
  MaxFrame      \* MAX_FRAME

ASSUME FramesAssumption ==
  /\ HeaderSize \in Nat \ {0} /\ MaxFrame \in Nat
  /\ \A k \in DOMAIN Outbox : \A m \in Outbox[k] : m.size \in Nat \ {0}

VARIABLES
  sent,     \* the messages sent so far: their format, size and body
  stream,   \* bytes on the way
  cut,      \* the sender closed the connection, or died
  lost,     \* bytes were lost by that
  part,     \* what recv_message reads: "length", "format" or "body"
  buf,      \* buf of _recv_exact
  length, fmt,
  got,      \* handed to unmarshal() and handle(): the body of which frame, in which format
  status    \* of the server's loop: "open", "closed", or "raised"

reader == <<part, buf, length, fmt, got, status>>
vars == <<sent, stream, cut, lost, reader>>

Init ==
  /\ sent = <<>> /\ stream = <<>> /\ cut = FALSE /\ lost = FALSE
  /\ part = "length" /\ buf = <<>> /\ length = 0 /\ fmt = "none"
  /\ got = <<>> /\ status = "open"

\* The bytes of a part of message m, sent as frame k.
PartSize(p, m) == CASE p = "length" -> HeaderSize [] p = "format" -> 1 [] p = "body" -> m.size
Bytes(p, m, k) == [j \in 1 .. PartSize(p, m) |-> <<p, j, k>>]
Frame(m, k) == Bytes("length", m, k) \o Bytes("format", m, k) \o Bytes("body", m, k)

\* send_message: sendall of header, format and body
Send(m) ==
  /\ ~cut /\ status = "open"
  /\ sent' = Append(sent, m)
  /\ stream' = stream \o Frame(m, Len(sent'))
  /\ UNCHANGED <<cut, lost, reader>>

\* The sender closes the connection or dies; of its last bytes some may be lost.
Cut(n) ==
  /\ ~cut /\ cut' = TRUE
  /\ n \in 0 .. Len(stream)
  /\ stream' = SubSeq(stream, 1, n)
  /\ lost' = (n < Len(stream))
  /\ UNCHANGED <<sent, reader>>

\* Seeded fault: the length is taken to cover the format, too.
Wanted_WithFormat == CASE part = "length" -> HeaderSize [] part = "format" -> 1 [] part = "body" -> length + 1

\* What _recv_exact is called for.
Wanted == CASE part = "length" -> HeaderSize [] part = "format" -> 1 [] part = "body" -> length

\* Seeded fault: one recv() is taken for all of it.
Complete_OneRecv == buf # <<>>

Complete == Len(buf) = Wanted

\* sock.recv
Recv(n) ==
  /\ status = "open" /\ ~Complete
  /\ n \in 1 .. Len(stream) /\ Len(buf) + n <= Wanted
  /\ buf' = buf \o SubSeq(stream, 1, n)
  /\ stream' = SubSeq(stream, n + 1, Len(stream))
  /\ UNCHANGED <<sent, cut, lost, part, length, fmt, got, status>>

\* recv returns nothing: ConnectionClosed, and the loop ends.
RecvNothing ==
  /\ status = "open" /\ ~Complete /\ stream = <<>> /\ cut
  /\ status' = "closed"
  /\ UNCHANGED <<sent, stream, cut, lost, part, buf, length, fmt, got>>

\* The frame whose part this is; 0 for bytes that mean nothing.
Whose ==
  LET whole == {k \in DOMAIN sent : buf = Bytes(part, sent[k], k)}
  IN  IF whole = {} THEN 0 ELSE CHOOSE k \in whole : TRUE

\* A frame that is too large raises, and nobody catches it.
ReadHeader ==
  /\ status = "open" /\ Complete /\ part = "length"
  /\ length' = IF Whose = 0 THEN MaxFrame + 1 ELSE sent[Whose].size
  /\ status' = IF length' > MaxFrame THEN "raised" ELSE "open"
  /\ part' = "format" /\ buf' = <<>>
  /\ UNCHANGED <<sent, stream, cut, lost, fmt, got>>

\* So does a byte that is not in FORMAT_CODES.
ReadFormat ==
  /\ status = "open" /\ Complete /\ part = "format"
  /\ fmt' = IF Whose = 0 THEN "none" ELSE sent[Whose].fmt
  /\ status' = IF Whose = 0 THEN "raised" ELSE "open"
  /\ part' = "body" /\ buf' = <<>>
  /\ UNCHANGED <<sent, stream, cut, lost, length, got>>

\* Seeded fault: every message is unmarshalled in the format of the first.
HandOver_FirstFormat ==
  Append(got, [frame |-> Whose, fmt |-> IF got = <<>> THEN fmt ELSE got[1].fmt])

\* unmarshal, then handle() of the message
HandOver == Append(got, [frame |-> Whose, fmt |-> fmt])

ReadBody ==
  /\ status = "open" /\ Complete /\ part = "body"
  /\ got' = HandOver
  /\ part' = "length" /\ buf' = <<>>
  /\ UNCHANGED <<sent, stream, cut, lost, length, fmt, status>>

Read1 == \/ \E n \in 1 .. Len(stream) : Recv(n)
         \/ RecvNothing \/ ReadHeader \/ ReadFormat \/ ReadBody

Next ==
  \/ Read1
  \/ \E n \in 0 .. Len(stream) : Cut(n)
  \/ \E k \in DOMAIN Outbox : k = Len(sent) + 1 /\ \E m \in Outbox[k] : Send(m)

Spec == Init /\ [][Next]_vars

\* The server's thread runs on.
FairSpec == Spec /\ WF_vars(Read1)

-----------------------------------------------------------------------------
(* Properties                                                               *)

\* The k-th body handed over is the k-th sent, with the format it was sent in,
\* however the stream was chopped up: nothing is skipped, repeated or mixed.
InStep ==
  /\ Len(got) <= Len(sent)
  /\ \A k \in DOMAIN got : got[k].frame = k /\ got[k].fmt = sent[k].fmt

\* The loop ends by itself only before a frame that is too large, and otherwise
\* only when the sender has gone; every frame that came whole was handed over.
EndsClean ==
  /\ status = "raised" => Len(got) < Len(sent) /\ sent[Len(got) + 1].size > MaxFrame
  /\ status = "closed" => cut /\ (~lost => Len(got) = Len(sent))

\* What was sent is handed over, unless the connection is cut or refused.
Arrives ==
  \A k \in DOMAIN Outbox :
    Len(sent) >= k ~> Len(got) >= k \/ cut \/ status = "raised"
=============================================================================
