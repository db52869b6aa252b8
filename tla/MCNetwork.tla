------------------------------ MODULE MCNetwork ------------------------------
(* The sets of specs the runs of Network let users submit. *)
EXTENDS Network

CONSTANTS a, b, chain, cloud

L(names, want) == [i \in DOMAIN names |-> [name |-> names[i], want |-> want]]
S(clusters, rest, want) ==
    [clusters |-> L(clusters, want), rest |-> L(rest, want)]

ClusterNames == {a, b}
OtherNames == {chain}
OnlyA == {a}

\* One or two clusters, with a chain, with nothing and with a Cloud.
Growing == {S(<<a>>, <<chain>>, 1), S(<<a, b>>, <<>>, 1), S(<<b>>, <<cloud>>, 1)}
===============================================================================
