---------------------------- MODULE FramesProofs -----------------------------
(***************************************************************************)
(* Theorems about the framing of messages, for any messages, sizes and      *)
(* lengths of the header, however the stream is chopped up and wherever it  *)
(* is cut.                                                                  *)
(*                                                                          *)
(* The stream is followed byte by byte: each byte determines the next one   *)
(* (After, StreamInv), and the first byte of the stream is the one that the *)
(* reader is due to get (Due, ReaderInv).  So what it reads in one go is    *)
(* always a whole part of the frame whose turn it is.                       *)
(***************************************************************************)
EXTENDS Frames, NaturalsInduction, WellFoundedInduction, TLAPS

Message == UNION {Outbox[k] : k \in DOMAIN Outbox}
Fmts == {m.fmt : m \in Message} \cup {"none"}
Parts == {"length", "format", "body"}
Byte == Parts \X (Nat \ {0}) \X (Nat \ {0})

TypeInv ==
  /\ sent \in Seq(Message)
  /\ stream \in Seq(Byte) /\ buf \in Seq(Byte)
  /\ cut \in BOOLEAN /\ lost \in BOOLEAN /\ (lost => cut)
  /\ part \in Parts /\ length \in Nat /\ fmt \in Fmts
  /\ got \in Seq([frame : Nat, fmt : Fmts])
  /\ status \in {"open", "closed", "raised"}

\* The byte is one of a frame that was sent.
Valid(s, b) == b[3] \in DOMAIN s /\ b[2] \in 1 .. PartSize(b[1], s[b[3]])

\* The byte that is sent next after b.
After(s, b) ==
  IF b[2] < PartSize(b[1], s[b[3]]) THEN <<b[1], b[2] + 1, b[3]>>
  ELSE IF b[1] = "length" THEN <<"format", 1, b[3]>>
  ELSE IF b[1] = "format" THEN <<"body", 1, b[3]>>
  ELSE <<"length", 1, b[3] + 1>>

\* The bytes q are in the order they were sent in.
InLine(s, q) ==
  /\ \A i \in DOMAIN q : Valid(s, q[i])
  /\ \A i, j \in DOMAIN q : j = i + 1 => q[j] = After(s, q[i])

StreamInv ==
  /\ InLine(sent, stream)
  /\ ~lost /\ stream # <<>> => stream[Len(stream)] = <<"body", sent[Len(sent)].size, Len(sent)>>

\* The frame being read.
Turn == Len(got) + 1

\* The byte to be received next.
Due == IF Len(buf) < Wanted THEN <<part, Len(buf) + 1, Turn>> ELSE After(sent, <<part, Len(buf), Turn>>)

ReaderInv ==
  status = "open" =>
    /\ part # "length" \/ buf # <<>> => Turn \in DOMAIN sent
    /\ \A i \in DOMAIN buf : buf[i] = <<part, i, Turn>>
    /\ Len(buf) <= Wanted
    /\ part # "length" => length = sent[Turn].size /\ length <= MaxFrame
    /\ part = "body" => fmt = sent[Turn].fmt
    /\ stream # <<>> => stream[1] = Due
    /\ stream = <<>> /\ ~lost =>
         \/ part = "length" /\ buf = <<>> /\ Turn = Len(sent) + 1
         \/ part = "body" /\ Complete /\ Turn = Len(sent)

Inv == TypeInv /\ StreamInv /\ ReaderInv /\ InStep /\ EndsClean

-----------------------------------------------------------------------------
(* Messages, parts and frames.                                               *)

LEMMA Sizes ==
  /\ HeaderSize \in Nat \ {0} /\ MaxFrame \in Nat
  /\ \A m \in Message : m.size \in Nat \ {0} /\ m.fmt \in Fmts
BY FramesAssumption DEF Message, Fmts

LEMMA PartSizes ==
  ASSUME NEW m \in Message, NEW p \in Parts
  PROVE  /\ PartSize(p, m) \in Nat \ {0}
         /\ PartSize("length", m) = HeaderSize
         /\ PartSize("format", m) = 1 /\ PartSize("body", m) = m.size
BY Sizes DEF PartSize, Parts

\* Two runs of bytes in a row.
LEMMA InARow ==
  ASSUME NEW a \in Seq(Byte), NEW b \in Seq(Byte)
  PROVE  /\ a \o b \in Seq(Byte) /\ Len(a \o b) = Len(a) + Len(b)
         /\ \A i \in 1 .. Len(a) : (a \o b)[i] = a[i]
         /\ \A i \in 1 .. Len(b) : (a \o b)[Len(a) + i] = b[i]
OBVIOUS

\* The bytes of a frame, one by one.
LEMMA FrameIs ==
  ASSUME NEW m \in Message, NEW k \in Nat \ {0}
  PROVE  LET f == Frame(m, k) IN
         /\ f \in Seq(Byte) /\ Len(f) = HeaderSize + 1 + m.size
         /\ \A i \in 1 .. HeaderSize : f[i] = <<"length", i, k>>
         /\ f[HeaderSize + 1] = <<"format", 1, k>>
         /\ \A i \in 1 .. m.size : f[HeaderSize + 1 + i] = <<"body", i, k>>
<1> DEFINE a == [j \in 1 .. HeaderSize |-> <<"length", j, k>>]
           b == [j \in 1 .. 1 |-> <<"format", j, k>>]
           c == [j \in 1 .. m.size |-> <<"body", j, k>>]
<1>1. HeaderSize \in Nat \ {0} /\ m.size \in Nat \ {0}
  BY Sizes
<1>2. Frame(m, k) = a \o b \o c
  BY DEF Frame, Bytes, PartSize
<1>3. /\ a \in Seq(Byte) /\ Len(a) = HeaderSize
      /\ \A i \in 1 .. HeaderSize : a[i] = <<"length", i, k>>
  BY <1>1 DEF Byte, Parts
<1>4. b \in Seq(Byte) /\ Len(b) = 1 /\ b[1] = <<"format", 1, k>>
  <2>1. \A j \in 1 .. 1 : <<"format", j, k>> \in Byte
    BY DEF Byte, Parts
  <2>2. b \in [1 .. 1 -> Byte] /\ 1 \in Nat
    BY <2>1
  <2>3. b \in Seq(Byte) /\ Len(b) = 1
    BY <2>2
  <2> QED
    BY <2>3
<1>5. /\ c \in Seq(Byte) /\ Len(c) = m.size
      /\ \A i \in 1 .. m.size : c[i] = <<"body", i, k>>
  BY SMTT(30), <1>1 DEF Byte, Parts
<1> HIDE DEF a, b, c
<1>6. /\ a \o b \in Seq(Byte) /\ Len(a \o b) = HeaderSize + 1
      /\ \A i \in 1 .. HeaderSize : (a \o b)[i] = a[i]
      /\ (a \o b)[HeaderSize + 1] = b[1]
  <2>1. 1 \in 1 .. Len(b)
    BY <1>4
  <2>2. /\ a \o b \in Seq(Byte) /\ Len(a \o b) = Len(a) + Len(b)
        /\ \A i \in 1 .. Len(a) : (a \o b)[i] = a[i]
        /\ \A i \in 1 .. Len(b) : (a \o b)[Len(a) + i] = b[i]
    BY <1>3, <1>4, InARow
  <2> QED
    BY <1>3, <1>4, <2>1, <2>2
<1>7. /\ (a \o b) \o c \in Seq(Byte) /\ Len((a \o b) \o c) = HeaderSize + 1 + m.size
      /\ \A i \in 1 .. HeaderSize + 1 : ((a \o b) \o c)[i] = (a \o b)[i]
      /\ \A i \in 1 .. m.size : ((a \o b) \o c)[HeaderSize + 1 + i] = c[i]
  <2> DEFINE ab == a \o b
  <2>1. ab \in Seq(Byte) /\ Len(ab) = HeaderSize + 1
    BY <1>6
  <2> HIDE DEF ab
  <2>2. /\ ab \o c \in Seq(Byte) /\ Len(ab \o c) = Len(ab) + Len(c)
        /\ \A i \in 1 .. Len(ab) : (ab \o c)[i] = ab[i]
        /\ \A i \in 1 .. Len(c) : (ab \o c)[Len(ab) + i] = c[i]
    BY <1>5, <2>1, InARow
  <2> QED
    BY <1>5, <2>1, <2>2 DEF ab
<1>8. HeaderSize + 1 \in 1 .. HeaderSize + 1 /\ \A i \in 1 .. HeaderSize : i \in 1 .. HeaderSize + 1
  BY <1>1
<1> DEFINE f == (a \o b) \o c
<1>9. f \in Seq(Byte) /\ Len(f) = HeaderSize + 1 + m.size
  BY <1>7
<1>10. \A i \in 1 .. HeaderSize : f[i] = <<"length", i, k>>
  BY <1>3, <1>6, <1>7, <1>8
<1>11. f[HeaderSize + 1] = <<"format", 1, k>>
  BY <1>4, <1>6, <1>7, <1>8
<1>12. \A i \in 1 .. m.size : f[HeaderSize + 1 + i] = <<"body", i, k>>
  BY <1>5, <1>7
<1> HIDE DEF f
<1>13. Frame(m, k) = f
  BY <1>2 DEF f
<1> QED
  BY <1>9, <1>10, <1>11, <1>12, <1>13

\* A frame is in line, whatever was sent before it.
LEMMA FrameInLine ==
  ASSUME NEW s \in Seq(Message), s # <<>>
  PROVE  InLine(s, Frame(s[Len(s)], Len(s)))
<1> DEFINE k == Len(s)
           m == s[Len(s)]
           f == Frame(m, k)
           H == HeaderSize
<1>1. k \in Nat \ {0} /\ k \in DOMAIN s /\ m \in Message
  OBVIOUS
<1>2. H \in Nat \ {0} /\ m.size \in Nat \ {0}
  BY <1>1, Sizes
<1>3. /\ DOMAIN f = 1 .. H + 1 + m.size
      /\ \A i \in 1 .. H : f[i] = <<"length", i, k>>
      /\ f[H + 1] = <<"format", 1, k>>
      /\ \A i \in 1 .. m.size : f[H + 1 + i] = <<"body", i, k>>
  BY <1>1, FrameIs
<1>4. PartSize("length", s[k]) = H /\ PartSize("format", s[k]) = 1 /\ PartSize("body", s[k]) = m.size
  BY DEF PartSize
<1> HIDE DEF f, H
<1>5. ASSUME NEW i \in DOMAIN f
      PROVE  \/ i \in 1 .. H /\ f[i] = <<"length", i, k>>
             \/ i = H + 1 /\ f[i] = <<"format", 1, k>>
             \/ i - H - 1 \in 1 .. m.size /\ f[i] = <<"body", i - H - 1, k>>
  <2>1. i \in 1 .. H \/ i = H + 1 \/ i - H - 1 \in 1 .. m.size
    BY <1>2, <1>3
  <2>2. ASSUME i - H - 1 \in 1 .. m.size PROVE f[i] = <<"body", i - H - 1, k>>
    <3>1. H + 1 + (i - H - 1) = i
      <4>1. i \in Int /\ H \in Int
        BY <1>2, <1>3
      <4> QED
        BY <4>1
    <3> QED
      BY <1>3, <2>2, <3>1
  <2> QED
    BY <1>3, <2>1, <2>2
<1>6. ASSUME NEW i \in DOMAIN f PROVE Valid(s, f[i])
  <2>1. CASE i \in 1 .. H /\ f[i] = <<"length", i, k>>
    BY <1>1, <1>4, <2>1 DEF Valid
  <2>2. CASE i = H + 1 /\ f[i] = <<"format", 1, k>>
    BY <1>1, <1>4, <2>2 DEF Valid
  <2>3. CASE i - H - 1 \in 1 .. m.size /\ f[i] = <<"body", i - H - 1, k>>
    BY <1>1, <1>4, <2>3 DEF Valid
  <2> QED
    BY <1>5, <2>1, <2>2, <2>3
<1>7. ASSUME NEW i \in DOMAIN f, NEW j \in DOMAIN f, j = i + 1 PROVE f[j] = After(s, f[i])
  <2>0. i \in Int /\ H \in Int /\ m.size \in Int
    BY <1>2, <1>3
  <2>1. CASE i \in 1 .. H /\ f[i] = <<"length", i, k>>
    <3>1. After(s, f[i]) = IF i < H THEN <<"length", i + 1, k>> ELSE <<"format", 1, k>>
      BY <1>4, <2>1 DEF After
    <3>2. CASE i < H
      <4>1. j \in 1 .. H
        BY <1>7, <2>0, <2>1, <3>2
      <4> QED
        BY <1>3, <1>7, <3>1, <3>2, <4>1
    <3>3. CASE ~(i < H)
      <4>1. j = H + 1
        BY <1>7, <2>0, <2>1, <3>3
      <4> QED
        BY <1>3, <3>1, <3>3, <4>1
    <3> QED
      BY <3>2, <3>3
  <2>2. CASE i = H + 1 /\ f[i] = <<"format", 1, k>>
    <3>1. After(s, f[i]) = <<"body", 1, k>>
      BY <1>4, <2>2 DEF After
    <3>2. j = H + 1 + 1 /\ 1 \in 1 .. m.size
      BY <1>2, <1>7, <2>0, <2>2
    <3> QED
      BY <1>3, <3>1, <3>2
  <2>3. CASE i - H - 1 \in 1 .. m.size /\ f[i] = <<"body", i - H - 1, k>>
    <3>1. i < H + 1 + m.size
      BY <1>3, <1>7, <2>0
    <3>2. i - H - 1 < m.size /\ i - H - 1 + 1 = j - H - 1 /\ j - H - 1 \in 1 .. m.size
      BY <1>7, <2>0, <2>3, <3>1
    <3>3. After(s, f[i]) = <<"body", i - H - 1 + 1, k>>
      BY <1>4, <2>3, <3>2 DEF After
    <3>4. H + 1 + (j - H - 1) = j
      BY <1>7, <2>0
    <3> QED
      BY <1>3, <3>2, <3>3, <3>4
  <2> QED
    BY <1>5, <2>1, <2>2, <2>3
<1> QED
  BY <1>6, <1>7 DEF InLine, f

\* A message sent later changes nothing about the earlier frames.
LEMMA StillInLine ==
  ASSUME NEW s \in Seq(Message), NEW m \in Message, NEW b, Valid(s, b)
  PROVE  Valid(Append(s, m), b) /\ After(Append(s, m), b) = After(s, b)
<1>1. b[3] \in DOMAIN s /\ b[3] \in DOMAIN Append(s, m) /\ Append(s, m)[b[3]] = s[b[3]]
  BY DEF Valid
<1> QED
  BY <1>1 DEF Valid, After

\* In what is in line, a run of bytes of one part is that of one frame.
LEMMA RunIs ==
  ASSUME NEW s \in Seq(Message), NEW q \in Seq(Byte), InLine(s, q),
         NEW p \in Parts, NEW k \in DOMAIN s, NEW d \in Nat, NEW n \in 1 .. Len(q),
         d + n <= PartSize(p, s[k]), q[1] = <<p, d + 1, k>>
  PROVE  \A i \in 1 .. n : q[i] = <<p, d + i, k>>
<1> DEFINE bad == {i \in 1 .. n : q[i] # <<p, d + i, k>>}
<1> SUFFICES ASSUME bad # {} PROVE FALSE
  OBVIOUS
<1>1. bad \in SUBSET Nat
  OBVIOUS
<1>2. PICK x \in bad : \A y \in bad : <<y, x>> \notin OpToRel(<, Nat)
  BY <1>1, WFMin, NatLessThanWellFounded, Zenon
<1>3. \A y \in bad : ~(y < x)
  BY <1>1, <1>2, Zenon DEF OpToRel
<1>4. x \in 1 .. n /\ x # 1
  OBVIOUS
<1>5. x - 1 \in 1 .. n /\ x - 1 < x /\ x - 1 \in DOMAIN q /\ x \in DOMAIN q /\ x = (x - 1) + 1
  BY <1>4
<1>6. q[x - 1] = <<p, d + (x - 1), k>>
  BY <1>3, <1>5
<1>7. q[x] = After(s, q[x - 1])
  BY <1>5 DEF InLine
<1>8. s[k] \in Message /\ PartSize(p, s[k]) \in Nat
  BY PartSizes
<1>9. d + (x - 1) < PartSize(p, s[k]) /\ d + (x - 1) + 1 = d + x
  BY <1>4, <1>8
<1>10. After(s, q[x - 1]) = <<p, d + (x - 1) + 1, k>>
  BY <1>6, <1>9 DEF After
<1> QED
  BY <1>7, <1>9, <1>10

\* The two pieces of a run of bytes.
LEMMA Pieces ==
  ASSUME NEW q \in Seq(Byte), NEW n \in 0 .. Len(q)
  PROVE  /\ SubSeq(q, 1, n) \in Seq(Byte) /\ Len(SubSeq(q, 1, n)) = n
         /\ \A i \in 1 .. n : SubSeq(q, 1, n)[i] = q[i]
         /\ SubSeq(q, n + 1, Len(q)) \in Seq(Byte) /\ Len(SubSeq(q, n + 1, Len(q))) = Len(q) - n
         /\ \A i \in 1 .. Len(q) - n : SubSeq(q, n + 1, Len(q))[i] = q[n + i]
<1>1. \A i \in 1 .. Len(q) : q[i] \in Byte
  OBVIOUS
<1>2. /\ SubSeq(q, 1, n) = [i \in 1 .. n |-> q[i]]
      /\ SubSeq(q, n + 1, Len(q)) = [i \in 1 .. Len(q) - n |-> q[n + i]]
  OBVIOUS
<1>3. Len(q) - n \in Nat /\ n \in Nat /\ \A i \in 1 .. Len(q) - n : n + i \in 1 .. Len(q)
  OBVIOUS
<1> QED
  BY <1>1, <1>2, <1>3

LEMMA PiecesInLine ==
  ASSUME NEW s, NEW q \in Seq(Byte), InLine(s, q), NEW n \in 0 .. Len(q)
  PROVE  InLine(s, SubSeq(q, 1, n)) /\ InLine(s, SubSeq(q, n + 1, Len(q)))
<1> DEFINE a == SubSeq(q, 1, n)
           z == SubSeq(q, n + 1, Len(q))
<1>1. /\ DOMAIN a = 1 .. n /\ \A i \in 1 .. n : a[i] = q[i]
      /\ DOMAIN z = 1 .. Len(q) - n /\ \A i \in 1 .. Len(q) - n : z[i] = q[n + i]
  BY Pieces
<1> HIDE DEF a, z
<1>2. DOMAIN q = 1 .. Len(q) /\ Len(q) \in Nat /\ n \in Nat /\ n <= Len(q)
  OBVIOUS
<1>3. ASSUME NEW i \in DOMAIN a PROVE i \in DOMAIN q /\ Valid(s, a[i])
  BY <1>1, <1>2, <1>3 DEF InLine
<1>4. ASSUME NEW i \in DOMAIN a, NEW j \in DOMAIN a, j = i + 1 PROVE a[j] = After(s, a[i])
  BY <1>1, <1>2, <1>3, <1>4 DEF InLine
<1>5. ASSUME NEW i \in DOMAIN z PROVE n + i \in DOMAIN q /\ z[i] = q[n + i]
  BY <1>1, <1>2, <1>5
<1>6. ASSUME NEW i \in DOMAIN z PROVE Valid(s, z[i])
  BY <1>5 DEF InLine
<1>7. ASSUME NEW i \in DOMAIN z, NEW j \in DOMAIN z, j = i + 1 PROVE z[j] = After(s, z[i])
  <2>1. n + j = (n + i) + 1
    BY <1>1, <1>2, <1>7
  <2> QED
    BY <1>5, <2>1 DEF InLine
<1> QED
  BY <1>3, <1>4, <1>6, <1>7 DEF InLine, a, z

\* What is wanted is the part of the frame whose turn it is.
LEMMA WantedIs ==
  ASSUME Inv, status = "open", Turn \in DOMAIN sent
  PROVE  Wanted = PartSize(part, sent[Turn]) /\ Wanted \in Nat \ {0} /\ sent[Turn] \in Message
<1>1. sent[Turn] \in Message /\ part \in Parts
  BY DEF Inv, TypeInv
<1>2. part # "length" => length = sent[Turn].size
  BY DEF Inv, ReaderInv
<1> QED
  BY <1>1, <1>2, PartSizes DEF Wanted, PartSize, Parts

LEMMA Counts ==
  ASSUME TypeInv
  PROVE  /\ Turn \in Nat \ {0} /\ Len(got) \in Nat /\ Len(sent) \in Nat /\ DOMAIN sent = 1 .. Len(sent)
         /\ Len(buf) \in Nat /\ DOMAIN buf = 1 .. Len(buf)
         /\ Len(stream) \in Nat /\ DOMAIN stream = 1 .. Len(stream)
         /\ stream # <<>> => 1 \in DOMAIN stream /\ Len(stream) \in DOMAIN stream
         /\ (stream = <<>> <=> Len(stream) = 0) /\ (buf = <<>> <=> Len(buf) = 0)
BY DEF TypeInv, Turn

-----------------------------------------------------------------------------
(* The invariant.                                                            *)

LEMMA InitInv == Init => Inv
<1> SUFFICES ASSUME Init PROVE Inv
  OBVIOUS
<1> USE DEF Init
<1>1. TypeInv
  <2>1. \A S : <<>> \in Seq(S)
    OBVIOUS
  <2>2. "none" \in Fmts /\ "length" \in Parts
    BY DEF Fmts, Parts
  <2> QED
    BY <2>1, <2>2, Zenon DEF TypeInv
<1>2. StreamInv
  BY DEF StreamInv, InLine
<1>3. ReaderInv
  BY Sizes DEF ReaderInv, Turn, Wanted, Complete
<1>4. InStep /\ EndsClean
  BY DEF InStep, EndsClean
<1> QED
  BY <1>1, <1>2, <1>3, <1>4 DEF Inv

LEMMA RecvInv ==
  ASSUME Inv, NEW n \in 1 .. Len(stream), Recv(n)
  PROVE  Inv'
<1> DEFINE d == Len(buf)
           k == Turn
           w == Wanted
<1>1. TypeInv /\ StreamInv /\ ReaderInv /\ status = "open" /\ UNCHANGED <<sent, cut, lost, part, length, fmt, got, status>>
  BY DEF Inv, Recv
<1>2. /\ k \in Nat \ {0} /\ d \in Nat /\ Len(stream) \in Nat /\ DOMAIN stream = 1 .. Len(stream)
      /\ stream # <<>> /\ stream \in Seq(Byte) /\ part \in Parts /\ sent \in Seq(Message)
  BY <1>1, Counts DEF TypeInv
<1>3. Len(buf) <= Wanted /\ Len(buf) # Wanted /\ Len(buf) + n <= Wanted /\ stream[1] = Due
  BY <1>1, <1>2 DEF ReaderInv, Recv, Complete
<1>4. w \in Nat
  BY <1>1, Sizes DEF TypeInv, Wanted, Parts
<1>5. stream[1] = <<part, d + 1, k>>
  BY <1>2, <1>3, <1>4 DEF Due
<1>6. k \in DOMAIN sent
  BY <1>1, <1>2, <1>5, Counts DEF StreamInv, InLine, Valid
<1>7. w = PartSize(part, sent[k])
  BY <1>1, <1>6, WantedIs
<1> HIDE DEF d, k, w
<1>8. \A i \in 1 .. n : stream[i] = <<part, d + i, k>>
  BY ZenonT(40), <1>1, <1>2, <1>3, <1>5, <1>6, <1>7, RunIs DEF StreamInv, d, w
<1>9. /\ SubSeq(stream, 1, n) \in Seq(Byte) /\ Len(SubSeq(stream, 1, n)) = n
      /\ \A i \in 1 .. n : SubSeq(stream, 1, n)[i] = stream[i]
      /\ stream' \in Seq(Byte) /\ Len(stream') = Len(stream) - n
      /\ \A i \in 1 .. Len(stream) - n : stream'[i] = stream[n + i]
      /\ InLine(sent, stream')
  <2>1. n \in 0 .. Len(stream) /\ stream' = SubSeq(stream, n + 1, Len(stream))
    BY <1>2 DEF Recv
  <2>2. InLine(sent, stream)
    BY <1>1 DEF StreamInv
  <2> QED
    BY <1>2, <2>1, <2>2, Pieces, PiecesInLine
<1>10. /\ buf' \in Seq(Byte) /\ Len(buf') = d + n
       /\ \A i \in 1 .. d : buf'[i] = buf[i]
       /\ \A i \in 1 .. n : buf'[d + i] = stream[i]
  <2>1. buf' = buf \o SubSeq(stream, 1, n) /\ buf \in Seq(Byte)
    BY <1>1 DEF Recv, TypeInv
  <2> QED
    BY <1>9, <2>1, InARow DEF d
<1>11. TypeInv'
  BY <1>1, <1>9, <1>10 DEF TypeInv
<1>12. ASSUME stream' # <<>>
       PROVE  /\ n + 1 \in 1 .. Len(stream) /\ n \in 1 .. Len(stream)
              /\ stream'[1] = After(sent, stream[n])
              /\ stream'[Len(stream')] = stream[Len(stream)]
  <2>1. Len(stream') # 0 /\ Len(stream') \in Nat
    BY <1>9, <1>12
  <2>a. Len(stream) \in Nat /\ Len(stream') = Len(stream) - n /\ n \in 1 .. Len(stream)
    BY <1>2, <1>9
  <2>2. n + 1 \in 1 .. Len(stream) /\ n \in 1 .. Len(stream) /\ 1 \in 1 .. Len(stream) - n
        /\ Len(stream') \in 1 .. Len(stream) - n /\ n + Len(stream') = Len(stream)
    BY <2>1, <2>a
  <2>3. stream[n + 1] = After(sent, stream[n])
    BY <1>1, <1>2, <2>2 DEF StreamInv, InLine
  <2> QED
    BY <1>9, <2>2, <2>3
<1>13. StreamInv'
  BY <1>1, <1>2, <1>9, <1>12 DEF StreamInv
<1>14. Turn' = k /\ Wanted' = w
  BY <1>1 DEF Turn, Wanted, k, w
<1>15. stream' # <<>> => stream'[1] = Due'
  <2> SUFFICES ASSUME stream' # <<>> PROVE stream'[1] = Due'
    OBVIOUS
  <2>1. stream'[1] = After(sent, <<part, d + n, k>>)
    BY <1>8, <1>12
  <2>2. After(sent, <<part, d + n, k>>) =
          IF d + n < w THEN <<part, d + n + 1, k>> ELSE After(sent, <<part, d + n, k>>)
    BY <1>7 DEF After
  <2>3. Due' = IF d + n < w THEN <<part, d + n + 1, k>> ELSE After(sent, <<part, d + n, k>>)
    BY <1>1, <1>10, <1>14 DEF Due
  <2> QED
    BY <2>1, <2>2, <2>3
<1>16. stream' = <<>> /\ ~lost => part = "body" /\ d + n = w /\ k = Len(sent)
  <2> SUFFICES ASSUME stream' = <<>>, ~lost PROVE part = "body" /\ d + n = w /\ k = Len(sent)
    OBVIOUS
  <2>1. Len(stream') = 0
    OBVIOUS
  <2>2. n = Len(stream)
    <3>1. Len(stream) \in Nat /\ Len(stream') = Len(stream) - n /\ n \in 1 .. Len(stream)
      BY <1>2, <1>9
    <3> QED
      BY <2>1, <3>1
  <2>3. stream[n] = <<"body", sent[Len(sent)].size, Len(sent)>> /\ stream[n] = <<part, d + n, k>>
    BY <1>1, <1>2, <1>8, <2>2 DEF StreamInv
  <2> QED
    BY <1>7, <2>3 DEF PartSize
<1>17. \A i \in DOMAIN buf' : buf'[i] = <<part, i, k>>
  <2> SUFFICES ASSUME NEW i \in DOMAIN buf' PROVE buf'[i] = <<part, i, k>>
    OBVIOUS
  <2>1. i \in 1 .. d + n
    BY <1>10
  <2>2. CASE i \in 1 .. d
    BY <1>1, <1>10, <2>2, Counts DEF ReaderInv, d, k
  <2>3. CASE i \notin 1 .. d
    <3>1. i - d \in 1 .. n /\ d + (i - d) = i
      BY <1>2, <2>1, <2>3 DEF d
    <3> QED
      BY <1>8, <1>10, <3>1
  <2> QED
    BY <2>2, <2>3
<1>18. d + n <= w
  BY <1>3 DEF d, w
<1>19. ReaderInv'
  BY <1>1, <1>6, <1>10, <1>14, <1>15, <1>16, <1>17, <1>18 DEF ReaderInv, Complete, k
<1>20. InStep' /\ EndsClean'
  BY <1>1 DEF Inv, InStep, EndsClean
<1> QED
  BY <1>11, <1>13, <1>19, <1>20 DEF Inv

\* A part that is complete is that of the frame whose turn it is.
LEMMA WhoseIs ==
  ASSUME Inv, status = "open", Complete
  PROVE  Whose = Turn /\ Turn # 0 /\ Turn \in DOMAIN sent /\ Len(buf) = PartSize(part, sent[Turn])
<1>1. TypeInv /\ ReaderInv
  BY DEF Inv
<1>2. Turn \in DOMAIN sent
  <2>1. CASE part = "length"
    <3>1. Len(buf) = HeaderSize
      BY <2>1 DEF Complete, Wanted
    <3>2. buf # <<>>
      BY <1>1, <3>1, Sizes, Counts
    <3> QED
      BY <1>1, <3>2 DEF ReaderInv
  <2>2. CASE part # "length"
    BY <1>1, <2>2 DEF ReaderInv
  <2> QED
    BY <2>1, <2>2
<1>3. /\ Len(buf) = PartSize(part, sent[Turn]) /\ Len(buf) \in Nat \ {0}
      /\ Turn \in Nat \ {0} /\ buf \in Seq(Byte) /\ DOMAIN buf = 1 .. Len(buf)
  BY <1>1, <1>2, WantedIs, Counts DEF Complete, TypeInv
<1>4. \A i \in DOMAIN buf : buf[i] = <<part, i, Turn>>
  BY <1>1 DEF ReaderInv
<1>5. buf = Bytes(part, sent[Turn], Turn)
  <2>1. buf = [i \in 1 .. Len(buf) |-> buf[i]]
    BY <1>3
  <2> QED
    BY <1>3, <1>4, <2>1 DEF Bytes
<1>6. ASSUME NEW k \in DOMAIN sent, buf = Bytes(part, sent[k], k) PROVE k = Turn
  <2>1. sent[k] \in Message /\ part \in Parts
    BY <1>1 DEF TypeInv
  <2>2. PartSize(part, sent[k]) \in Nat \ {0}
    BY <2>1, PartSizes
  <2>3. 1 \in 1 .. PartSize(part, sent[k])
    BY <2>2
  <2>4. buf[1] = <<part, 1, k>>
    BY <1>6, <2>3 DEF Bytes
  <2>5. buf[1] = <<part, 1, Turn>>
    BY <1>3, <1>4
  <2> QED
    BY <2>4, <2>5
<1>7. {k \in DOMAIN sent : buf = Bytes(part, sent[k], k)} = {Turn}
  BY <1>2, <1>5, <1>6
<1>8. Whose = CHOOSE k \in {Turn} : TRUE
  BY <1>7 DEF Whose
<1> QED
  BY <1>2, <1>3, <1>8

\* Once a part is complete, the byte that is due begins the next one.
LEMMA DueIs ==
  ASSUME Inv, status = "open", Complete, stream # <<>>
  PROVE  stream[1] = IF part = "length" THEN <<"format", 1, Turn>>
                     ELSE IF part = "format" THEN <<"body", 1, Turn>> ELSE <<"length", 1, Turn + 1>>
<1>1. stream[1] = Due /\ Len(buf) \in Nat
  BY Counts DEF Inv, ReaderInv
<1>2. ~(Len(buf) < Wanted)
  BY <1>1 DEF Complete
<1>3. Len(buf) = PartSize(part, sent[Turn])
  BY WhoseIs
<1> QED
  BY <1>1, <1>2, <1>3 DEF Due, After

LEMMA ReadHeaderInv ==
  ASSUME Inv, ReadHeader
  PROVE  Inv'
<1>1. /\ TypeInv /\ StreamInv /\ ReaderInv /\ status = "open" /\ Complete /\ part = "length"
      /\ UNCHANGED <<sent, stream, cut, lost, fmt, got>> /\ part' = "format" /\ buf' = <<>>
  BY DEF Inv, ReadHeader
<1>2. Whose = Turn /\ Turn # 0 /\ Turn \in DOMAIN sent
  BY <1>1, WhoseIs
<1>3. sent[Turn] \in Message /\ Len(sent) \in Nat /\ Turn \in Nat /\ DOMAIN sent = 1 .. Len(sent) /\ Turn = Len(got) + 1 /\ Len(got) \in Nat
  BY <1>1, <1>2, Counts DEF TypeInv, Turn
<1>4. length' = sent[Turn].size /\ length' \in Nat
  BY <1>2, <1>3, Sizes DEF ReadHeader
<1>5. status' = IF length' > MaxFrame THEN "raised" ELSE "open"
  BY DEF ReadHeader
<1>6. TypeInv'
  <2>1. \A S : <<>> \in Seq(S)
    OBVIOUS
  <2>2. buf' \in Seq(Byte)
    BY <1>1, <2>1
  <2> QED
    BY <1>1, <1>4, <1>5, <2>2 DEF TypeInv, Parts
<1>7. StreamInv'
  BY <1>1 DEF StreamInv
<1>8. Turn' = Turn /\ Wanted' = 1 /\ Len(buf') = 0
  BY <1>1 DEF Turn, Wanted
<1>9. stream # <<>> => stream[1] = <<"format", 1, Turn>>
  BY <1>1, DueIs
<1>10. Due' = <<"format", 1, Turn>>
  BY <1>1, <1>8 DEF Due
<1>11. stream # <<>> \/ lost
  <2>1. Len(buf) = HeaderSize
    BY <1>1 DEF Complete, Wanted
  <2>2. buf # <<>>
    BY <1>1, <2>1, Sizes, Counts
  <2> QED
    BY <1>1, <2>2 DEF ReaderInv
<1>12. status' = "open" => length' <= MaxFrame
  BY <1>4, <1>5, Sizes
<1>13. ReaderInv'
  <2> SUFFICES ASSUME status' = "open"
               PROVE  /\ part' # "length" \/ buf' # <<>> => Turn' \in DOMAIN sent'
                      /\ \A i \in DOMAIN buf' : buf'[i] = <<part', i, Turn'>>
                      /\ Len(buf') <= Wanted'
                      /\ part' # "length" => length' = sent'[Turn'].size /\ length' <= MaxFrame
                      /\ part' = "body" => fmt' = sent'[Turn'].fmt
                      /\ stream' # <<>> => stream'[1] = Due'
                      /\ stream' # <<>> \/ lost'
    BY DEF ReaderInv
  <2>1. \A i \in DOMAIN buf' : FALSE
    BY <1>1
  <2> QED
    BY <1>1, <1>2, <1>4, <1>8, <1>9, <1>10, <1>11, <1>12, <2>1
<1>14. InStep'
  BY <1>1 DEF Inv, InStep
<1>15. EndsClean'
  <2>1. status' = "raised" => sent[Len(got) + 1].size > MaxFrame
    BY <1>3, <1>4, <1>5
  <2>2. Len(got) < Len(sent)
    BY <1>2, <1>3
  <2> QED
    BY <1>1, <1>5, <2>1, <2>2 DEF EndsClean
<1> QED
  BY <1>6, <1>7, <1>13, <1>14, <1>15 DEF Inv

LEMMA ReadFormatInv ==
  ASSUME Inv, ReadFormat
  PROVE  Inv'
<1>1. /\ TypeInv /\ StreamInv /\ ReaderInv /\ status = "open" /\ Complete /\ part = "format"
      /\ UNCHANGED <<sent, stream, cut, lost, length, got>> /\ part' = "body" /\ buf' = <<>>
  BY DEF Inv, ReadFormat
<1>2. Whose = Turn /\ Turn # 0 /\ Turn \in DOMAIN sent
  BY <1>1, WhoseIs
<1>3. sent[Turn] \in Message /\ fmt' = sent[Turn].fmt /\ status' = "open"
  BY <1>1, <1>2 DEF TypeInv, ReadFormat
<1>4. fmt' \in Fmts /\ length = sent[Turn].size /\ length <= MaxFrame /\ length \in Nat \ {0}
  BY <1>1, <1>3, Sizes DEF ReaderInv
<1>5. TypeInv'
  <2>1. \A S : <<>> \in Seq(S)
    OBVIOUS
  <2>2. buf' \in Seq(Byte)
    BY <1>1, <2>1
  <2> QED
    BY <1>1, <1>3, <1>4, <2>2 DEF TypeInv, Parts
<1>6. StreamInv'
  BY <1>1 DEF StreamInv
<1>7. Turn' = Turn /\ Wanted' = length /\ Len(buf') = 0
  BY <1>1 DEF Turn, Wanted
<1>8. stream # <<>> => stream[1] = <<"body", 1, Turn>>
  BY <1>1, DueIs
<1>9. Due' = <<"body", 1, Turn>>
  BY <1>1, <1>4, <1>7 DEF Due
<1>10. stream # <<>> \/ lost
  BY <1>1 DEF ReaderInv
<1>11. ReaderInv'
  <2>1. \A i \in DOMAIN buf' : FALSE
    BY <1>1
  <2> QED
    BY <1>1, <1>2, <1>3, <1>4, <1>7, <1>8, <1>9, <1>10, <2>1 DEF ReaderInv
<1>12. InStep' /\ EndsClean'
  BY <1>1, <1>3 DEF Inv, InStep, EndsClean
<1> QED
  BY <1>5, <1>6, <1>11, <1>12 DEF Inv

LEMMA ReadBodyInv ==
  ASSUME Inv, ReadBody
  PROVE  Inv'
<1> DEFINE n == Len(got)
           h == [frame |-> Turn, fmt |-> fmt]
<1>1. /\ TypeInv /\ StreamInv /\ ReaderInv /\ status = "open" /\ Complete /\ part = "body"
      /\ UNCHANGED <<sent, stream, cut, lost, length, fmt, status>> /\ part' = "length" /\ buf' = <<>>
  BY DEF Inv, ReadBody
<1>2. Whose = Turn /\ Turn \in DOMAIN sent
  BY <1>1, WhoseIs
<1>3. got' = Append(got, h) /\ got \in Seq([frame : Nat, fmt : Fmts]) /\ fmt \in Fmts
  BY <1>1, <1>2 DEF ReadBody, HandOver, TypeInv
<1>4. /\ n \in Nat /\ Turn = n + 1 /\ Turn \in Nat /\ Len(sent) \in Nat
      /\ DOMAIN sent = 1 .. Len(sent) /\ DOMAIN got = 1 .. n
  BY <1>1, <1>3, Counts DEF Turn
<1>5. h \in [frame : Nat, fmt : Fmts]
  BY <1>3, <1>4
<1>6. /\ got' \in Seq([frame : Nat, fmt : Fmts]) /\ Len(got') = n + 1 /\ DOMAIN got' = 1 .. n + 1
      /\ \A i \in 1 .. n : got'[i] = got[i]
      /\ got'[n + 1] = h
  <2> HIDE DEF h
  <2> QED
    BY <1>3, <1>5
<1>7. TypeInv'
  <2>1. \A S : <<>> \in Seq(S)
    OBVIOUS
  <2>2. buf' \in Seq(Byte)
    BY <1>1, <2>1
  <2> HIDE DEF n, h
  <2> QED
    BY <1>1, <1>6, <2>2 DEF TypeInv, Parts
<1>8. StreamInv'
  BY <1>1 DEF StreamInv
<1>9. Turn' = Turn + 1 /\ Wanted' = HeaderSize /\ Len(buf') = 0
  BY <1>1, <1>4, <1>6 DEF Turn, Wanted
<1>10. stream # <<>> => stream[1] = <<"length", 1, Turn + 1>>
  BY <1>1, DueIs
<1>11. Due' = <<"length", 1, Turn + 1>>
  BY <1>1, <1>9, Sizes DEF Due
<1>12. stream = <<>> /\ ~lost => Turn = Len(sent)
  BY <1>1 DEF ReaderInv
<1>13. ReaderInv'
  <2>1. \A i \in DOMAIN buf' : FALSE
    BY <1>1
  <2>2. Len(buf') <= Wanted'
    BY <1>9, Sizes
  <2> QED
    BY <1>1, <1>9, <1>10, <1>11, <1>12, <2>1, <2>2 DEF ReaderInv
<1>14. fmt = sent[Turn].fmt
  BY <1>1 DEF ReaderInv
<1>15. InStep'
  <2>1. n + 1 <= Len(sent)
    BY <1>2, <1>4
  <2>2. ASSUME NEW k \in 1 .. n + 1
        PROVE  got'[k].frame = k /\ got'[k].fmt = sent[k].fmt
    <3>1. CASE k \in 1 .. n
      BY <1>4, <1>6, <3>1 DEF Inv, InStep
    <3>2. CASE k = n + 1
      BY <1>4, <1>6, <1>14, <3>2
    <3> QED
      BY <1>4, <3>1, <3>2
  <2> QED
    BY <1>1, <1>6, <2>1, <2>2 DEF InStep
<1>16. EndsClean'
  BY <1>1 DEF EndsClean
<1> QED
  BY <1>7, <1>8, <1>13, <1>15, <1>16 DEF Inv

LEMMA CutInv ==
  ASSUME Inv, NEW n \in 0 .. Len(stream), Cut(n)
  PROVE  Inv'
<1>1. /\ TypeInv /\ StreamInv /\ ReaderInv
      /\ UNCHANGED <<sent, part, buf, length, fmt, got, status>>
      /\ stream' = SubSeq(stream, 1, n) /\ lost' = (n < Len(stream)) /\ cut' = TRUE /\ cut = FALSE
  BY DEF Inv, Cut, reader, TypeInv
<1>2. lost = FALSE
  BY <1>1 DEF TypeInv
<1>3. /\ stream' \in Seq(Byte) /\ Len(stream') = n /\ n \in Nat /\ Len(stream) \in Nat
      /\ \A i \in 1 .. n : stream'[i] = stream[i]
      /\ stream \in Seq(Byte)
  BY <1>1, Pieces DEF TypeInv
<1>4. InLine(sent, stream')
  BY <1>1, <1>3, PiecesInLine DEF StreamInv
<1>5. TypeInv'
  BY <1>1, <1>3 DEF TypeInv
<1>6. ~lost' => stream' = stream
  <2> SUFFICES ASSUME ~(n < Len(stream)) PROVE stream' = stream
    BY <1>1
  <2>1. Len(stream') = Len(stream) /\ \A i \in 1 .. Len(stream) : stream'[i] = stream[i]
    BY <1>3
  <2>2. /\ stream' = [i \in 1 .. Len(stream') |-> stream'[i]]
        /\ stream = [i \in 1 .. Len(stream) |-> stream[i]]
    BY <1>3
  <2> QED
    BY <2>1, <2>2
<1>7. StreamInv'
  BY <1>1, <1>2, <1>4, <1>6 DEF StreamInv
<1>8. Turn' = Turn /\ Wanted' = Wanted /\ Due' = Due
  BY <1>1 DEF Turn, Wanted, Due
<1>9. stream' # <<>> => stream # <<>> /\ stream'[1] = stream[1]
  <2> SUFFICES ASSUME stream' # <<>> PROVE stream # <<>> /\ stream'[1] = stream[1]
    OBVIOUS
  <2>1. n # 0
    BY <1>3
  <2>2. 1 \in 1 .. n
    BY <1>3, <2>1
  <2> QED
    BY <1>3, <2>1, <2>2
<1>10. ReaderInv'
  BY <1>1, <1>2, <1>6, <1>8, <1>9 DEF ReaderInv, Complete
<1>11. InStep' /\ EndsClean'
  BY <1>1 DEF Inv, InStep, EndsClean
<1> QED
  BY <1>5, <1>7, <1>10, <1>11 DEF Inv

LEMMA RecvNothingInv ==
  ASSUME Inv, RecvNothing
  PROVE  Inv'
<1>1. /\ TypeInv /\ StreamInv /\ ReaderInv /\ status = "open" /\ ~Complete /\ stream = <<>> /\ cut
      /\ UNCHANGED <<sent, stream, cut, lost, part, buf, length, fmt, got>> /\ status' = "closed"
  BY DEF Inv, RecvNothing
<1>2. TypeInv' /\ StreamInv' /\ ReaderInv' /\ InStep'
  BY <1>1 DEF Inv, TypeInv, StreamInv, ReaderInv, InStep
<1>3. ~lost => Turn = Len(sent) + 1
  BY <1>1 DEF ReaderInv
<1>4. ~lost => Len(got) = Len(sent)
  <2>1. Turn = Len(got) + 1 /\ Len(got) \in Nat /\ Len(sent) \in Nat
    BY <1>1, Counts DEF Turn
  <2> QED
    BY <1>3, <2>1
<1> QED
  BY <1>1, <1>2, <1>4 DEF Inv, EndsClean

LEMMA SendInv ==
  ASSUME Inv, NEW m \in Message, Send(m)
  PROVE  Inv'
<1> DEFINE k == Len(sent) + 1
           f == Frame(m, k)
           L == Len(stream)
           H == HeaderSize
<1>1. /\ TypeInv /\ StreamInv /\ ReaderInv /\ status = "open" /\ ~cut /\ ~lost
      /\ UNCHANGED <<cut, lost, part, buf, length, fmt, got, status>>
      /\ sent' = Append(sent, m)
  BY DEF Inv, Send, reader, TypeInv
<1>2. /\ sent \in Seq(Message) /\ stream \in Seq(Byte) /\ L \in Nat /\ DOMAIN stream = 1 .. L
      /\ Len(sent) \in Nat /\ DOMAIN sent = 1 .. Len(sent) /\ k \in Nat \ {0}
      /\ Turn \in Nat \ {0} /\ Len(got) \in Nat
  BY <1>1, Counts DEF TypeInv
<1>3. /\ sent' \in Seq(Message) /\ Len(sent') = k /\ DOMAIN sent' = 1 .. k /\ sent' # <<>>
      /\ sent'[k] = m /\ \A i \in DOMAIN sent : sent'[i] = sent[i]
  BY <1>1, <1>2
<1>4. stream' = stream \o f
  BY <1>3 DEF Send
<1>5. /\ f \in Seq(Byte) /\ Len(f) = H + 1 + m.size /\ H \in Nat \ {0} /\ m.size \in Nat \ {0}
      /\ f[1] = <<"length", 1, k>> /\ f[H + 1 + m.size] = <<"body", m.size, k>>
  <2>1. H \in Nat \ {0} /\ m.size \in Nat \ {0}
    BY Sizes
  <2>2. 1 \in 1 .. H /\ m.size \in 1 .. m.size
    BY <2>1
  <2> QED
    BY <1>2, <2>1, <2>2, FrameIs
<1>6. InLine(sent', f)
  BY <1>3, FrameInLine
<1> HIDE DEF f, H, L, k
<1>7. /\ stream' \in Seq(Byte) /\ Len(stream') = L + Len(f) /\ DOMAIN stream' = 1 .. L + Len(f)
      /\ \A i \in 1 .. L : stream'[i] = stream[i]
      /\ \A i \in 1 .. Len(f) : stream'[L + i] = f[i]
  <2>1. /\ stream \o f \in Seq(Byte) /\ Len(stream \o f) = Len(stream) + Len(f)
        /\ \A i \in 1 .. Len(stream) : (stream \o f)[i] = stream[i]
        /\ \A i \in 1 .. Len(f) : (stream \o f)[Len(stream) + i] = f[i]
    BY <1>2, <1>5, InARow
  <2> QED
    BY <1>4, <2>1 DEF L
<1>8. Len(f) \in Nat \ {0} /\ DOMAIN f = 1 .. Len(f) /\ 1 \in 1 .. Len(f) /\ Len(f) \in 1 .. Len(f)
  BY <1>5
<1>9. TypeInv'
  BY <1>1, <1>3, <1>7 DEF TypeInv
<1>10. ASSUME NEW i \in 1 .. L
       PROVE  Valid(sent, stream[i]) /\ Valid(sent', stream[i]) /\ After(sent', stream[i]) = After(sent, stream[i])
  <2>1. Valid(sent, stream[i])
    BY <1>1, <1>2 DEF StreamInv, InLine
  <2> QED
    BY <1>1, <1>2, <2>1, StillInLine
<1>11. L # 0 => After(sent', stream[L]) = <<"length", 1, k>>
  <2> SUFFICES ASSUME L # 0 PROVE After(sent', stream[L]) = <<"length", 1, k>>
    OBVIOUS
  <2>1. stream # <<>> /\ L \in 1 .. L
    BY <1>2 DEF L
  <2>2. stream[L] = <<"body", sent[Len(sent)].size, Len(sent)>>
    BY <1>1, <2>1 DEF StreamInv, L
  <2>3. After(sent, stream[L]) = <<"length", 1, Len(sent) + 1>>
    <3>1. PartSize("body", sent[Len(sent)]) = sent[Len(sent)].size
      BY DEF PartSize
    <3>2. sent[Len(sent)] \in Message
      <4>1. Valid(sent, stream[L])
        BY <1>10, <2>1
      <4>2. Len(sent) \in DOMAIN sent
        BY <2>2, <4>1 DEF Valid
      <4> QED
        BY <1>2, <4>2
    <3>3. ~(sent[Len(sent)].size < sent[Len(sent)].size)
      BY <3>2, Sizes
    <3> QED
      BY <2>2, <3>1, <3>3 DEF After
  <2> QED
    BY <1>10, <2>1, <2>3 DEF k
<1>12. ASSUME NEW i \in DOMAIN stream', ~(i \in 1 .. L)
       PROVE  i - L \in 1 .. Len(f) /\ stream'[i] = f[i - L]
  <2>1. i - L \in 1 .. Len(f) /\ L + (i - L) = i
    <3>1. i \in 1 .. L + Len(f)
      BY <1>7, <1>12
    <3>2. L \in Nat /\ Len(f) \in Nat
      BY <1>2, <1>8 DEF L
    <3> QED
      BY <1>12, <3>1, <3>2
  <2> QED
    BY <1>7, <2>1
<1>13. InLine(sent', stream')
  <2>1. ASSUME NEW i \in DOMAIN stream' PROVE Valid(sent', stream'[i])
    <3>1. CASE i \in 1 .. L
      BY <1>7, <1>10, <3>1
    <3>2. CASE ~(i \in 1 .. L)
      <4>1. i - L \in DOMAIN f /\ stream'[i] = f[i - L]
        BY <1>8, <1>12, <3>2
      <4> QED
        BY <1>6, <4>1 DEF InLine
    <3> QED
      BY <3>1, <3>2
  <2>2. ASSUME NEW i \in DOMAIN stream', NEW j \in DOMAIN stream', j = i + 1
        PROVE  stream'[j] = After(sent', stream'[i])
    <3>0. i \in Nat /\ i >= 1 /\ L \in Nat
      BY <1>2, <1>7, <1>8 DEF L
    <3>1. CASE j \in 1 .. L
      <4>1. i \in 1 .. L
        BY <2>2, <3>0, <3>1
      <4>2. stream[j] = After(sent, stream[i])
        BY <1>1, <1>2, <2>2, <3>1, <4>1 DEF StreamInv, InLine
      <4> QED
        BY <1>7, <1>10, <3>1, <4>1, <4>2
    <3>2. CASE ~(j \in 1 .. L) /\ i \in 1 .. L
      <4>1. i = L /\ j - L = 1 /\ L # 0
        BY <2>2, <3>0, <3>2
      <4>2. stream'[j] = <<"length", 1, k>>
        BY <1>5, <1>12, <3>2, <4>1
      <4> QED
        BY <1>7, <1>11, <3>2, <4>1, <4>2
    <3>3. CASE ~(j \in 1 .. L) /\ ~(i \in 1 .. L)
      <4>1. j - L = (i - L) + 1
        BY <2>2, <3>0
      <4>2. /\ i - L \in DOMAIN f /\ stream'[i] = f[i - L]
            /\ j - L \in DOMAIN f /\ stream'[j] = f[j - L]
        BY <1>8, <1>12, <3>3
      <4> QED
        BY <1>6, <4>1, <4>2 DEF InLine
    <3>4. j \in 1 .. L => i \in 1 .. L
      BY <2>2, <3>0
    <3> QED
      BY <3>1, <3>2, <3>3, <3>4
  <2> QED
    BY <2>1, <2>2 DEF InLine
<1>14. StreamInv'
  <2>1. stream'[L + Len(f)] = <<"body", m.size, k>>
    BY <1>5, <1>7, <1>8
  <2> QED
    BY <1>3, <1>7, <1>13, <2>1 DEF StreamInv
<1>15. Turn' = Turn /\ Wanted' = Wanted
  BY <1>1 DEF Turn, Wanted
<1>16. Turn \in DOMAIN sent => Turn \in DOMAIN sent' /\ sent'[Turn] = sent[Turn]
  BY <1>2, <1>3 DEF k
<1>17. stream' # <<>> /\ stream'[1] = IF L = 0 THEN <<"length", 1, k>> ELSE stream[1]
  <2>1. stream' # <<>>
    BY <1>2, <1>7, <1>8 DEF L
  <2>2. CASE L = 0
    BY <1>5, <1>7, <1>8, <2>1, <2>2
  <2>3. CASE L # 0
    <3>1. 1 \in 1 .. L
      BY <1>2, <2>3 DEF L
    <3> QED
      BY <1>7, <2>1, <2>3, <3>1
  <2> QED
    BY <2>1, <2>2, <2>3
<1>18. ASSUME Turn \in DOMAIN sent PROVE Due' = Due
  <2>1. After(sent', <<part, Len(buf), Turn>>) = After(sent, <<part, Len(buf), Turn>>)
    BY <1>16, <1>18 DEF After
  <2> QED
    BY <1>1, <1>15, <2>1 DEF Due
<1>19. stream'[1] = Due'
  <2>1. CASE L # 0
    <3>1. stream # <<>> /\ stream[1] = Due
      <4>1. stream # <<>>
        BY <1>1, <2>1, Counts DEF L
      <4> QED
        BY <1>1, <4>1 DEF ReaderInv
    <3>2. CASE Turn \in DOMAIN sent
      BY <1>17, <1>18, <2>1, <3>1, <3>2
    <3>3. CASE Turn \notin DOMAIN sent
      <4>1. part = "length" /\ buf = <<>>
        BY <1>1, <3>3 DEF ReaderInv
      <4>2. Len(buf) = 0 /\ Wanted = HeaderSize /\ 0 < HeaderSize
        BY <4>1, Sizes DEF Wanted
      <4>3. Due = <<"length", 1, Turn>> /\ Due' = <<"length", 1, Turn>>
        BY <1>1, <1>15, <4>1, <4>2 DEF Due
      <4> QED
        BY <1>17, <2>1, <3>1, <4>3
    <3> QED
      BY <3>2, <3>3
  <2>2. CASE L = 0
    <3>1. stream = <<>>
      BY <1>2, <2>2 DEF L
    <3>2. CASE part = "length" /\ buf = <<>> /\ Turn = Len(sent) + 1
      <4>1. Len(buf) = 0 /\ Wanted = HeaderSize /\ 0 < HeaderSize
        BY <3>2, Sizes DEF Wanted
      <4>2. Due' = <<"length", 1, k>>
        BY <1>1, <1>15, <3>2, <4>1 DEF Due, k
      <4> QED
        BY <1>17, <2>2, <4>2
    <3>3. CASE part = "body" /\ Complete /\ Turn = Len(sent)
      <4>1. Len(buf) = PartSize(part, sent[Turn]) /\ Turn \in DOMAIN sent /\ Len(buf) = Wanted
        BY <1>1, <3>3, WhoseIs DEF Complete
      <4>2. Len(buf) \in Nat
        BY <1>1, Counts
      <4>3. Due = <<"length", 1, k>>
        BY <3>3, <4>1, <4>2 DEF Due, After, k
      <4> QED
        BY <1>17, <1>18, <2>2, <4>1, <4>3
    <3> QED
      BY <1>1, <3>1, <3>2, <3>3 DEF ReaderInv
  <2> QED
    BY <2>1, <2>2
<1>20. ReaderInv'
  <2>1. part # "length" \/ buf # <<>> => Turn \in DOMAIN sent
    BY <1>1 DEF ReaderInv
  <2> QED
    BY <1>1, <1>15, <1>16, <1>17, <1>19, <2>1 DEF ReaderInv, Complete
<1>21. InStep'
  <2>1. ASSUME NEW i \in DOMAIN got PROVE i \in DOMAIN sent /\ got[i].frame = i /\ got[i].fmt = sent[i].fmt
    <3>1. DOMAIN got = 1 .. Len(got)
      BY <1>1 DEF TypeInv
    <3> QED
      BY <1>2, <2>1, <3>1 DEF Inv, InStep
  <2>2. Len(got) <= Len(sent) + 1
    BY <1>2 DEF Inv, InStep
  <2> QED
    BY <1>1, <1>3, <2>1, <2>2 DEF InStep, k
<1>22. EndsClean'
  BY <1>1 DEF EndsClean
<1> QED
  BY <1>9, <1>14, <1>20, <1>21, <1>22 DEF Inv

\* The stream stays in line and the reader in step with it, for any messages,
\* pieces and cuts (transport.py:29-54, server.py:30-42).
THEOREM FramesInvariant == Spec => []Inv
<1>1. Init => Inv
  BY InitInv
<1>2. Inv /\ [Next]_vars => Inv'
  <2>1. ASSUME Inv, Next PROVE Inv'
    <3>1. CASE \E n \in 1 .. Len(stream) : Recv(n)
      BY <2>1, <3>1, RecvInv
    <3>2. CASE RecvNothing
      BY <2>1, <3>2, RecvNothingInv
    <3>3. CASE ReadHeader
      BY <2>1, <3>3, ReadHeaderInv
    <3>4. CASE ReadFormat
      BY <2>1, <3>4, ReadFormatInv
    <3>5. CASE ReadBody
      BY <2>1, <3>5, ReadBodyInv
    <3>6. CASE \E n \in 0 .. Len(stream) : Cut(n)
      BY <2>1, <3>6, CutInv
    <3>7. CASE \E k \in DOMAIN Outbox : k = Len(sent) + 1 /\ \E m \in Outbox[k] : Send(m)
      BY <2>1, <3>7, SendInv DEF Message
    <3> QED
      BY <2>1, <3>1, <3>2, <3>3, <3>4, <3>5, <3>6, <3>7 DEF Next, Read1
  <2>2. ASSUME Inv, UNCHANGED vars PROVE Inv'
    <3>1. UNCHANGED <<sent, stream, cut, lost, part, buf, length, fmt, got, status>>
      BY <2>2 DEF vars, reader
    <3>2. TypeInv' /\ StreamInv' /\ InStep' /\ EndsClean'
      BY <2>2, <3>1 DEF Inv, TypeInv, StreamInv, InStep, EndsClean
    <3>3. Turn' = Turn /\ Wanted' = Wanted /\ Due' = Due /\ (Complete' <=> Complete)
      BY <3>1 DEF Turn, Wanted, Due, Complete
    <3>4. ReaderInv'
      BY <2>2, <3>1, <3>3 DEF Inv, ReaderInv
    <3> QED
      BY <3>2, <3>4 DEF Inv
  <2> QED
    BY <2>1, <2>2
<1> QED
  BY <1>1, <1>2, PTL DEF Spec

\* What recv_message hands over is what send_message was given, in order.
THEOREM FramesInStep == Spec => []InStep
<1>1. Inv => InStep
  BY DEF Inv
<1> QED
  BY <1>1, FramesInvariant, PTL

\* A loop that ends has handed over all that came whole (server.py:35-40).
THEOREM LoopEndsClean == Spec => []EndsClean
<1>1. Inv => EndsClean
  BY DEF Inv
<1> QED
  BY <1>1, FramesInvariant, PTL
=============================================================================
