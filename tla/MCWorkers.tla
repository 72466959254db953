------------------------------ MODULE MCWorkers ------------------------------
(* Constants of the run of Workers; those of the directory view are MCDirView's. *)
EXTENDS Workers, MCDirView, TLC

CONSTANTS conflicted, merged, n1, n2, exact

\* Of the documents one is resolved.
MCDocument == {conflicted, merged}
MCResolved == {merged}

\* The best definition for n1 cannot be parsed.
MCCandidates == [n \in {n1, n2} |-> IF n = n1 THEN <<"bad", "c">> ELSE <<"c">>]
MCUnusable == {"bad"}

\* Trees of two names at most three deep, below a directory a that may be anything;
\* contents are blocks of characters, 0 is white space.
A == <<"a">>
B == <<"b">>
AA == <<"a", "a">>
AAA == <<"a", "a", "a">>
MCNames == {A, B, AA, AAA}
MCBytes == {<<1, 1>>, <<1, 2>>, <<1, 0>>, <<1>>}
Leaf(bytes) == [kind |-> "file", content |-> bytes, time |-> 0]
Node(kind) == [kind |-> kind, content |-> IF kind = "dir" THEN <<>> ELSE <<1>>, time |-> 0]
Only(nodes) == [p \in MCNames |-> IF p \in DOMAIN nodes THEN nodes[p] ELSE None]
InA(below) == Only(below @@ (A :> Node("dir")))
Under(node) == InA((AA :> Node("dir")) @@ (AAA :> node))

MCSubtrees ==
  {Only(<<>>), InA(<<>>)} \union {InA(AA :> Leaf(bytes)) : bytes \in {<<1, 1>>, <<1, 2>>}}
  \union {InA(AA :> Node("dir")), Under(Leaf(<<1, 1>>)), Under(Node("dir"))}
  \union {Only(A :> Leaf(bytes)) : bytes \in {<<1, 1>>, <<1, 2>>, <<1>>}}
  \union {Only(A :> Node(kind)) : kind \in {"link", "device"}}
MCTrees ==
  {[left |-> l, right |-> [t EXCEPT ![B] = extra]] :
     l \in MCSubtrees, t \in MCSubtrees, extra \in {None, Leaf(<<1, 1>>)}}
  \union {[left |-> [l EXCEPT ![B] = Leaf(<<1, 1>>)], right |-> [l EXCEPT ![B] = Leaf(<<1, 1>>)]] :
            l \in MCSubtrees}
MCOptions ==
  {[normalized |-> FALSE, largest |-> 2, excluded |-> {}],
   [normalized |-> TRUE, largest |-> 1, excluded |-> {"b"}],
   [normalized |-> TRUE, largest |-> 2, excluded |-> {}]}

\* Two conflicts; the replacement of the second is too large to be shown.
MCPolicy == [replay |-> {1, 2}, conservative |-> {1}]
=============================================================================
