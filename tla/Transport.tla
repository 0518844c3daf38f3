------------------------------ MODULE Transport ------------------------------
(***************************************************************************)
(* What a connection does to the values it carries: codec.py marshals them, *)
(* Frames carries the bodies, codec.py unmarshals what arrived.             *)
(***************************************************************************)
EXTENDS Frames, Codec
LOCAL INSTANCE FiniteSetsExt

\* The bytes of a body: atoms are short, what contains others is longer.
Size(v) ==
  CASE v[1] \in {"list", "tuple"} -> 1 + Len(v[2])
    [] v[1] = "dict" -> 1 + Cardinality(DOMAIN v[2])
    [] OTHER -> 1

\* What send_message makes of the payload v and the format f.
Message(v, f) ==
  [fmt |-> f, size |-> Size(v), body |-> Marshal(MakeEnvelope(v, <<"null">>), f), payload |-> v]

-----------------------------------------------------------------------------
(* Properties                                                               *)

\* What a value is to arrive as: tuples are lists and keys are strings, in both
\* formats; anything else is as it was.
RECURSIVE AsReceived(_)
AsReceived(v) ==
  CASE v[1] \in {"list", "tuple"} -> <<"list", [i \in DOMAIN v[2] |-> AsReceived(v[2][i])]>>
    [] v[1] = "dict" -> <<"dict", [k \in {<<"str", Str(q)>> : q \in DOMAIN v[2]} |->
                            AsReceived(v[2][CHOOSE q \in DOMAIN v[2] : Str(q) = k[2]])]>>
    [] OTHER -> v

\* What is handed over as the k-th message is the envelope sent as the k-th, type
\* for type, whatever its format and however the stream was chopped up (codec.py:17
\* "a typed, lossless mapping", transport.py:11).
Intact ==
  \A k \in DOMAIN got :
    /\ got[k].frame \in DOMAIN sent
    /\ Unmarshal(sent[got[k].frame].body, got[k].fmt)
         = AsReceived(MakeEnvelope(sent[k].payload, <<"null">>))
=============================================================================
