---------------------------- MODULE MCTransport ------------------------------
(***************************************************************************)
(* A first message of any value up to two levels deep, a second, which may  *)
(* be too large as the first may, and a third.                             *)
(***************************************************************************)
EXTENDS Transport

Atoms == {<<"null">>, <<"bool", TRUE>>, <<"bool", FALSE>>, <<"int", 0>>, <<"int", 1>>,
          <<"float", 10>>, <<"float", 5>>, <<"str", "">>, <<"str", "1">>, <<"str", "true">>}
Few   == {<<"bool", TRUE>>, <<"int", 1>>, <<"str", "1.0">>}
Keys  == {<<"str", "a">>, <<"int", 1>>}

Flat == Atoms
        \cup {<<"list", <<>>>>, <<"tuple", <<<<"bool", TRUE>>, <<"int", 1>>>>>>}
        \cup UNION {{<<"dict", d>> : d \in [K -> Few]} : K \in SUBSET Keys}
Deep == {<<"list", <<v>>>> : v \in Flat} \cup {<<"dict", (<<"str", "a">> :> v)>> : v \in Flat}

MCInts     == 0 .. 1
MCTenths   == {5, 10}
MCPayloads == <<Flat \cup Deep,
                {<<"str", "1">>, <<"list", <<<<"int", 1>>, <<"int", 0>>, <<"null">>>>>>},
                {<<"bool", FALSE>>}>>

MCOutbox == [k \in DOMAIN MCPayloads |-> {Message(v, f) : v \in MCPayloads[k], f \in Formats}]
=============================================================================
