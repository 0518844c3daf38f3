-------------------------------- MODULE Codec --------------------------------
(***************************************************************************)
(* Marshalling, src/communication/codec.py: a Python value becomes a tree   *)
(* of XML elements, or a JSON text, and a value again.  A value is its type *)
(* and its content: <<"int", 1>>, <<"list", items>>, <<"dict", a function   *)
(* from keys to values>>; a key is a value, too.  The texts of the leaves   *)
(* are strings; quoting and escaping, which both libraries undo, are not    *)
(* modelled.                                                                *)
(***************************************************************************)
EXTENDS Integers, Sequences, TLC
LOCAL INSTANCE SequencesExt
LOCAL INSTANCE FiniteSetsExt

CONSTANTS Ints, Tenths   \* the integers, and the floats times ten, that occur

\* str(v), and repr(v) of a float
Str(v) ==
  CASE v[1] = "null"  -> "None"
    [] v[1] = "bool"  -> IF v[2] THEN "True" ELSE "False"
    [] v[1] = "int"   -> ToString(v[2])
    [] v[1] = "float" -> ToString(v[2] \div 10) \o "." \o ToString(v[2] % 10)
    [] v[1] = "str"   -> v[2]

\* int(text) and float(text), which raise for a text of another kind.
ParseInt(text) ==
  IF \E n \in Ints : ToString(n) = text
  THEN <<"int", CHOOSE n \in Ints : ToString(n) = text>> ELSE <<"raised">>
ParseFloat(text) ==
  IF \E n \in Tenths : Str(<<"float", n>>) = text
  THEN <<"float", CHOOSE n \in Tenths : Str(<<"float", n>>) = text>> ELSE <<"raised">>

\* A dict from the texts of its keys and its values: the last one counts.
Dict(names, values) ==
  <<"dict", [k \in {<<"str", name>> : name \in ToSet(names)} |->
               values[Max({i \in DOMAIN names : names[i] = k[2]})]]>>

-----------------------------------------------------------------------------
(* XML                                                                      *)

Element(t, text, kids) == [t |-> t, text |-> text, kids |-> kids]

\* Seeded fault: isinstance(value, int) is tried first, and True is an int.
XmlType_IntFirst(v) ==
  IF v[1] = "bool" THEN "int" ELSE IF v[1] = "tuple" THEN "list" ELSE v[1]

\* The attribute t
XmlType(v) == IF v[1] = "tuple" THEN "list" ELSE v[1]

\* The children of a dict are pairs of the attribute key and the value's element.
RECURSIVE ToXml(_)
ToXml(v) ==
  LET t == XmlType(v)
  IN  CASE t = "null" -> Element(t, "", <<>>)
        [] t = "bool" -> Element(t, IF v[2] THEN "true" ELSE "false", <<>>)
        [] t \in {"int", "float", "str"} -> Element(t, Str(v), <<>>)
        [] t = "dict" -> LET ks == SetToSeq(DOMAIN v[2])
                         IN  Element(t, "", [i \in DOMAIN ks |-> <<Str(ks[i]), ToXml(v[2][ks[i]])>>])
        [] t = "list" -> Element(t, "", [i \in DOMAIN v[2] |-> ToXml(v[2][i])])

\* An XML parser turns a carriage return in a text into a line feed.
Read(text) == IF text = "\r" THEN "\n" ELSE text

RECURSIVE FromXml(_)
FromXml(el) ==
  LET text == Read(el.text)
  IN  CASE el.t = "null"  -> <<"null">>
        [] el.t = "bool"  -> <<"bool", text = "true">>
        [] el.t = "int"   -> ParseInt(text)
        [] el.t = "float" -> ParseFloat(text)
        [] el.t = "str"   -> <<"str", text>>
        [] el.t = "dict"  -> Dict([i \in DOMAIN el.kids |-> el.kids[i][1]],
                                    [i \in DOMAIN el.kids |-> FromXml(el.kids[i][2])])
        [] el.t = "list"  -> <<"list", [i \in DOMAIN el.kids |-> FromXml(el.kids[i])]>>

-----------------------------------------------------------------------------
(* JSON                                                                     *)

\* json.dumps writes these keys in its own way.
JsonKey(k) ==
  CASE k[1] = "null" -> "null"
    [] k[1] = "bool" -> IF k[2] THEN "true" ELSE "false"
    [] OTHER -> Str(k)

RECURSIVE ToJson(_)
ToJson(v) ==
  CASE v[1] \in {"null", "bool"}  -> <<"literal", JsonKey(v)>>
    [] v[1] \in {"int", "float"}  -> <<"number", Str(v)>>
    [] v[1] = "str" -> <<"string", v[2]>>
    [] v[1] = "dict" -> LET ks == SetToSeq(DOMAIN v[2])
                        IN  <<"object", [i \in DOMAIN ks |-> <<JsonKey(ks[i]), ToJson(v[2][ks[i]])>>]>>
    [] v[1] \in {"list", "tuple"} -> <<"array", [i \in DOMAIN v[2] |-> ToJson(v[2][i])]>>

RECURSIVE FromJson(_)
FromJson(j) ==
  CASE j[1] = "literal" -> IF j[2] = "null" THEN <<"null">> ELSE <<"bool", j[2] = "true">>
    [] j[1] = "number"  -> IF ParseInt(j[2])[1] = "int" THEN ParseInt(j[2]) ELSE ParseFloat(j[2])
    [] j[1] = "string"  -> <<"str", j[2]>>
    [] j[1] = "object"  -> Dict([i \in DOMAIN j[2] |-> j[2][i][1]],
                                [i \in DOMAIN j[2] |-> FromJson(j[2][i][2])])
    [] j[1] = "array"   -> <<"list", [i \in DOMAIN j[2] |-> FromJson(j[2][i])]>>

-----------------------------------------------------------------------------
Formats == {"json", "xml"}

\* make_envelope, of its fields the payload and one that may be None
MakeEnvelope(payload, receiver) ==
  <<"dict", (<<"str", "payload">> :> payload) @@ (<<"str", "receiver">> :> receiver)>>

Marshal(v, fmt) == IF fmt = "json" THEN ToJson(v) ELSE ToXml(v)
Unmarshal(body, fmt) == IF fmt = "json" THEN FromJson(body) ELSE FromXml(body)
=============================================================================
