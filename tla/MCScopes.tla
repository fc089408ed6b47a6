------------------------------ MODULE MCScopes ------------------------------
(* Scopes on small instances.                                              *)
EXTENDS Scopes, TLC

\* Drafts that name a responsible user and a client, only a client (a scope created
\* from a client), or neither (the default draft).
Named == [content : Contents, responsible : Users, client : Clients]

ClientOnly == [content : Contents, responsible : {Nobody}, client : Clients]

Unnamed == [content : Contents, responsible : {Nobody}, client : {NoClient}]

AnyDraft == Named \cup ClientOnly \cup Unnamed

\* A draft that was archived comes back as one: the third status is reached.
OldRows == {LegacyRow(d, st) : d \in Named, st \in {"published", "archived"}}

Symmetry == Permutations(Workers) \cup Permutations(Ids) \cup Permutations(Users)
            \cup Permutations(Clients) \cup Permutations(Contents)
=============================================================================
