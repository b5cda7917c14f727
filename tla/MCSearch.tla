------------------------------- MODULE MCSearch -------------------------------
\* A small instance of Search: three requests, two of which spell a user differently.
EXTENDS Search, TLC

CONSTANTS r1, r2, r3, ann, Ann, bob, peerA, peerB, d1, c1

MCFold == (ann :> peerA) @@ (Ann :> peerA) @@ (bob :> peerB)
MCNameOf == (r1 :> ann) @@ (r2 :> Ann) @@ (r3 :> ann)
MCResultOf == [r \in {r1, r2, r3} |-> d1]
MCCoverOf == [r \in {r1, r2, r3} |-> c1]
Kinds(a, b, c) == (r1 :> a) @@ (r2 :> b) @@ (r3 :> c)
MCScenarios ==
  {[kinds |-> Kinds("artwork", "artwork", "ended"), events |-> {"cancel", "close"}],
   [kinds |-> Kinds("artwork", "preview", "ended"), events |-> {"found", "cancel"}],
   [kinds |-> Kinds("preview", "preview", "preview"), events |-> {"found", "cancel"}],
   [kinds |-> Kinds("search", "preview", "lookup"), events |-> {"found", "age"}],
   [kinds |-> Kinds("search", "ended", "ended"), events |-> {"close", "cancel"}]}
=============================================================================
