------------------------------ MODULE MCMetadata ------------------------------
(* Checks of Metadata.tla: a small tree, and the documents of up to two       *)
(* members, whose values have up to two parts.                                *)
EXTENDS Metadata

MCListings ==
    <<>> :> <<Leaf("ami-id"), Category("0"), Leaf(""), Category("security-credentials"),
              Category("block")>>
    @@ <<"0">> :> <<Leaf("openssh")>> @@ <<"block">> :> <<Leaf("root")>>
MCTexts ==
    <<"ami-id">> :> <<"ami">> @@ <<"0", "openssh">> :> <<"key", "more">>
    @@ <<"block", "root">> :> <<>>

Keys == {"a", "zone", "sshKeys"}
Simples == {[null |-> TRUE], [leaf |-> <<"p", "x">>]}
Members(S) == [key : Keys, value : S]
Pairs(S) == {<<m.key, m.value>> : m \in Members(S)}
UpTo(S) == {<<>>} \cup {<<x>> : x \in S} \cup {<<x, y>> : x \in S, y \in S}
Containers == {[items |-> s] : s \in UpTo(Simples)} \cup {[members |-> s] : s \in UpTo(Pairs(Simples))}
Few == {[items |-> <<[null |-> TRUE], [leaf |-> <<"p", "x">>]>>],
        [members |-> <<<<"zone", [leaf |-> <<"p", "x">>]>>, <<"a", [null |-> TRUE]>>>>]}
MCDocuments ==
    {[members |-> <<<<k, v>>, m>>] : k \in Keys, v \in Simples \cup Containers,
                                     m \in Pairs(Simples \cup Few)}
        \cup {[members |-> s] : s \in UpTo(Pairs(Simples))}
        \cup {[items |-> <<[leaf |-> <<"x">>]>>], [leaf |-> <<"x">>]}
=============================================================================
