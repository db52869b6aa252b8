------------------------------- MODULE MCWiring -------------------------------
(* The resources the runs of Wiring let users submit. *)
EXTENDS Wiring

Mine == [name |-> <<"mine">>, team |-> <<"core">>]
MyInstance == [instance |-> <<"mine">>]
TheLabels == {NoLabels, Mine, MyInstance}

\* A NodeCluster with no option taken, or with all of them and labels of its own.
N(protocol, role, rpc, all) ==
  [protocol |-> protocol, role |-> role, rpc |-> rpc,
   p2p |-> IF all THEN 7001 ELSE 0, metrics |-> IF all THEN 7002 ELSE 0,
   additional |-> If(all, {[name |-> "extra", port |-> 7003]}),
   keys |-> all, plugins |-> all, chains |-> all, config |-> FALSE, restore |-> all,
   userListens |-> {IF rpc = 0 THEN 8545 ELSE rpc},
   replicas |-> IF all THEN 2 ELSE 1, perPod |-> all,
   labels |-> IF all THEN Mine ELSE NoLabels]

NodeClusters ==
  {N(p, "validator", 0, FALSE) : p \in Protocols \union {"substrate"}}
    \union {N(p, "archive", 7000, TRUE) : p \in Protocols}
    \union {N(p, "fullnode", 7000, FALSE) : p \in {"lux", "cosmos"}}

Ingress(first, tls) ==
  [hosts |-> {<<first, "lux", "network">>, <<"www", first, "lux", "network">>,
              <<first, "zoo", "ngo">>}, tls |-> tls]

Indexers ==
  {[port |-> 0, storage |-> FALSE, restore |-> FALSE, ingress |-> <<>>],
   [port |-> 0, storage |-> TRUE, restore |-> TRUE, ingress |-> Ingress("index", TRUE)],
   [port |-> 8080, storage |-> FALSE, restore |-> FALSE, ingress |-> Ingress("index", FALSE)]}

Gateways ==
  {[autoRoutes |-> FALSE, indexers |-> {}, ingress |-> <<>>],
   [autoRoutes |-> TRUE, indexers |-> {TheIndexer}, ingress |-> Ingress("gate", TRUE)]}

\* Explorers and Bridges.
Fronteds(host) ==
  {[front |-> front, ingress |-> ingress] :
     front \in BOOLEAN, ingress \in {<<>>, Ingress(host, TRUE)}}

Brand(name, domain) == [name |-> name, domain |-> domain]
Scaled == [enabled |-> TRUE, min |-> 0, max |-> 4]
Unscaled == [enabled |-> FALSE, min |-> 0, max |-> 0]

Clouds ==
  {[brands |-> {Brand("lux", <<"web3", "lux", "network">>)}, labels |-> NoLabels,
    targets |-> <<>>, hpa |-> Unscaled, web |-> Scaled, ingress |-> <<>>],
   [brands |-> {Brand("lux", <<"web3", "lux", "network">>), Brand("zoo", <<"web3", "zoo", "ngo">>)},
    labels |-> MyInstance, targets |-> <<"lux", "zoo">>,
    hpa |-> Scaled, web |-> Unscaled, ingress |-> [tls |-> TRUE]]}

AllSpecs ==
  [NodeCluster |-> NodeClusters, Indexer |-> Indexers, Gateway |-> Gateways,
   Explorer |-> Fronteds("scan"), Bridge |-> Fronteds("bridge"), Cloud |-> Clouds]

\* Everything that reads the NodeCluster, with it or before it; and the others.
AllStacks == {{"NodeCluster", "Indexer", "Gateway"}, {"Indexer", "Gateway"},
              {"Indexer", "Explorer"}, {"Bridge", "Cloud"}}

Listed == {[id |-> "c", primary |-> TRUE], [id |-> "s", primary |-> FALSE],
           [id |-> "", primary |-> FALSE]}

PodOrdinals == <<"0", "1", "2">>

OneStack == {{"NodeCluster", "Indexer"}}
RoutedStack == {{"Indexer", "Gateway"}}
===============================================================================
