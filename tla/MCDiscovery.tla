---------------------------- MODULE MCDiscovery ----------------------------
(***************************************************************************)
(* A few directories and documents for the runs of Discovery.              *)
(***************************************************************************)
EXTENDS Discovery

CONSTANTS Alice, alice, bob, amap,  \* Alice and alice fold together
          here, there

Names == {Alice, alice, bob, amap}
Three == Names \ {amap}

Sorted == [s \in Slugs |->
              CASE s = Alice -> 1 [] s = alice -> 2 [] s = amap -> 3 [] s = bob -> 4]
Folded == [s \in Slugs |-> IF s = Alice THEN alice ELSE s]

Explicit(edges) == [all |-> FALSE, edges |-> edges]
All == [all |-> TRUE, edges |-> {}]

Discovering(place, tasks, mail) ==
    [place |-> place, discovered |-> TRUE, domain |-> TRUE,
     names |-> {}, namespace |-> {}, tasks |-> tasks, mail |-> mail]

Authoring(names, namespace, tasks, mail) ==
    [place |-> here, discovered |-> FALSE, domain |-> TRUE,
     names |-> names, namespace |-> namespace, tasks |-> tasks, mail |-> mail]

Everybody == Discovering(here, All, Explicit({}))

\* alice may task bob, and once both are there they also exchange mail.
Clashing == Discovering(here, Explicit({<<bob, alice>>}),
                        Explicit({<<alice, bob>>, <<bob, AllowAny>>}))

Moved == Discovering(there, All, Explicit({}))

\* Three that may not be loaded, and one that may.
TwoCases == Authoring({alice, Alice}, {}, Explicit({}), All)
Impostor == Authoring({alice, amap}, {}, Explicit({}), All)
Doubled == Discovering(here, [all |-> TRUE, edges |-> {<<bob, alice>>}], Explicit({}))
Authored == Authoring({alice, bob}, {bob}, Explicit({}), All)

AllDocuments == {Everybody, Clashing, Moved, TwoCases, Impostor, Doubled, Authored}
FewDocuments == {Everybody, Clashing}
=============================================================================
