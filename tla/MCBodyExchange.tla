--------------------------- MODULE MCBodyExchange ---------------------------
(* Request bodies of every recipe under up to two adapters of their own,   *)
(* with an incidental response, and responses of every family under each   *)
(* limit, with an incidental request.                                      *)
EXTENDS BodyExchange

SomeHints == {Unknown, Exact(2), Hint(1, NoBound), Hint(0, 3), Hint(3, NoBound)}
SomeStages == {HintedBody(h) : h \in SomeHints \ {Unknown}} \cup {LimitedBody(b) : b \in {0, 2}}
SomeOwn == {<<>>} \cup {<<s>> : s \in SomeStages} \cup {<<s, t>> : s, t \in SomeStages}

Request(recipe, size, own, hint, limit) ==
    [recipe |-> recipe, size |-> size, own |-> own, hint |-> hint, limit |-> limit,
     family |-> "skip", responseLimit |-> 2]

RequestPlans ==
    {Request("bytes", n, <<>>, Unknown, l) : n \in {0, 3}, l \in {0, 2, NoBound}}
    \cup {Request("stream", 0, <<>>, h, l) : h \in SomeHints, l \in {0, 2, NoBound}}
    \cup {Request("oneShot", 0, o, Unknown, l) : o \in SomeOwn, l \in {2, NoBound}}
    \cup {Request("factory", 0, o, h, l) : o \in SomeOwn, h \in {Unknown, Exact(2)}, l \in {1, NoBound}}

ResponsePlans ==
    {[Request("bytes", 0, <<>>, Unknown, NoBound) EXCEPT !.family = f, !.responseLimit = l] :
         f \in Families, l \in {0, 2, NoBound}}

AllPlans == RequestPlans \cup ResponsePlans
=============================================================================
