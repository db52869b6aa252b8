------------------------------ MODULE MCWorkload ------------------------------
(* The specs the runs of Workload let users submit. *)
EXTENDS Workload

S(k, sides, ingress, scaled, genesis) ==
    [kind |-> k, replicas |-> 1, web |-> 1, sides |-> sides,
     ingress |-> ingress, scaled |-> scaled, genesis |-> genesis]

\* Two of each kind: an edit adds and removes children, sides and brands.
EveryKind == {S("Indexer", 0, FALSE, FALSE, FALSE),
              S("Indexer", 0, TRUE, FALSE, FALSE),
              S("Explorer", 0, FALSE, FALSE, FALSE),
              S("Explorer", 1, TRUE, FALSE, FALSE),
              S("Gateway", 0, FALSE, FALSE, FALSE),
              S("Gateway", 0, TRUE, FALSE, FALSE),
              S("Bridge", 0, FALSE, FALSE, FALSE),
              S("Bridge", 1, TRUE, FALSE, FALSE),
              S("Chain", 0, FALSE, FALSE, FALSE),
              S("Chain", 0, FALSE, FALSE, TRUE),
              S("Cloud", 0, FALSE, TRUE, FALSE),
              S("Cloud", 1, FALSE, FALSE, FALSE)}

\* What there is to read is, to a Gateway, three chains, two of them nameless.
Listed == [s \in Sources |-> <<[name |-> "", id |-> "a"], [name |-> "", id |-> "b"],
                               [name |-> "zoo", id |-> "c"]>>]
===============================================================================
