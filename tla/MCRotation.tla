----------------------------- MODULE MCRotation -----------------------------
(* Three accounts at one provider and one at another, so that a provider's    *)
(* rotation and a pool across providers both run, with an operator who        *)
(* reorders, switches and marks accounts meanwhile.                            *)
EXTENDS Rotation

a == "a"
b == "b"
c == "c"
z == "z"
MCListed     == <<c, b, a, z>>       \* a was added first at its provider
MCProviders  == {"p", "q"}
MCProviderOf == [x \in {a, b, c, z} |-> IF x = z THEN "q" ELSE "p"]
MCReach      == {{"p"}, {"p", "q"}}
MCOrders     == {<<b>>, <<a, b, c>>}

\* The parts of lists that the modules work with are those the library selects.
ASSUME SelectIsSelectSeq ==
    \A list \in {MCListed, <<a, a, z>>, <<z>>, <<>>}, S \in SUBSET {a, b, c, z} :
        Select(list, S) = SelectSeq(list, LAMBDA x : x \in S)

=============================================================================
