---------------------------- MODULE MCNodeCluster ----------------------------
(* The sets of specs the runs of NodeCluster let users submit. *)
EXTENDS NodeCluster

A(proto, replicas, config, perPod, snapshot) ==
    [proto |-> proto, replicas |-> replicas, config |-> config,
     perPod |-> perPod, snapshot |-> snapshot]

\* A second spec drops children of the first, and one has no driver.
EditedSpecs == {A("lux", 1, TRUE, TRUE, FALSE),
                A("ethereum", 1, FALSE, FALSE, TRUE),
                A("substrate", 1, FALSE, FALSE, FALSE)}

\* Two nodes, whose health is polled; and a single one.
LuxPair == {A("lux", 2, FALSE, FALSE, FALSE)}
OneNode == {A("lux", 1, FALSE, FALSE, FALSE)}
===============================================================================
