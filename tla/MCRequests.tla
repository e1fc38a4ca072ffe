----------------------------- MODULE MCRequests -----------------------------
(* Model-checking instance of Requests.                                    *)
EXTENDS Requests, TLC

CONSTANTS u1, o1, o2, k1, k2, a, x, y

\* root is "a" and u1 "a|x", keys "x|y" and "y": the replay keys of root with the
\* first and of u1 with the second are one.
MCUserText == (Root :> <<a>>) @@ (u1 :> <<a, Bar, x>>)
MCKeyText == (k1 :> <<x, Bar, y>>) @@ (k2 :> <<y>>)

MCPath ==
    [o \in Operations |->
        <<[route |-> o.kind]>> \o
            CASE o.kind \in {"issue", "delete"} -> <<o.org>>
              [] o.kind = "user" -> <<>>
              [] o.kind = "token" -> MCUserText[o.id]]

MCBody == [o \in Operations |-> <<o>>]

MCPieces == {a, x, y, Bar} \cup Orgs \cup Operations
              \cup [route : {"issue", "delete", "user", "token"}]

\* Make an admin confined to one org, or a viewer; mint a token confined to it,
\* under either key; issue on the other org, and delete it.
MCCalls ==
    {[op |-> [kind |-> "issue", org |-> o2], key |-> k2],
     [op |-> [kind |-> "delete", org |-> o2], key |-> k2],
     [op |-> [kind |-> "user", id |-> u1, role |-> "admin", orgs |-> {o1}], key |-> k2],
     [op |-> [kind |-> "user", id |-> u1, role |-> "viewer", orgs |-> {}], key |-> k2],
     [op |-> [kind |-> "token", id |-> Root, orgs |-> {o1}], key |-> k1],
     [op |-> [kind |-> "token", id |-> Root, orgs |-> {o1}], key |-> k2]}

Symmetry == Permutations(Reqs)
=============================================================================
