------------------------------ MODULE Protocols ------------------------------
(***************************************************************************)
(* The protocol drivers (src/internal/protocol): what each one makes of    *)
(* the spec of a NodeCluster.  A driver answers with                       *)
(*   ports    the default ports, by name, and the additional ones          *)
(*   rpc      the port its health and readiness endpoints name             *)
(*   command  the process its command line starts: the ports it listens    *)
(*            on and the directories its flags name                        *)
(*   script   whether it is a script kept in a ConfigMap                   *)
(*   mounts   what the container mounts, as <<volume, path>>               *)
(*   volumes  the pod's volumes beside the claim of the template           *)
(*   init     the init containers, by name, each with what it mounts       *)
(*   resources  what it recommends: <<cpu, memory in GiB>> requested and   *)
(*            as limits, and GiB of storage                                *)
(* Flags without a port or a path, the environment, images and the names   *)
(* of endpoints are left out: nothing below tells them apart.              *)
(* Of a spec they read its protocol, its role and its ports (0 is a port   *)
(* not given), and whether it has staking keys, plugins, chains, a config  *)
(* of its own, and a restore; userListens is what a command of the user's  *)
(* own listens on.                                                         *)
(***************************************************************************)
EXTENDS Integers

OrDefault(port, default) == IF port > 0 THEN port ELSE default

If(condition, set) == IF condition THEN set ELSE {}

Data == <<"data", "/data">>

RestoreContainer(s) == If(s.restore, {[name |-> "seed-restore", mounts |-> {Data}]})

(***************************************************************************)
(* lux.go: luxd, started directly or by startup.sh from the ConfigMap.     *)
(***************************************************************************)
LuxPorts == [rpc |-> 9650, p2p |-> 9651, metrics |-> 9090, additional |-> {}]

LuxNeedsConfigMap(s) == s.chains \/ s.config

LuxCommand(s) ==
  [listens |-> {OrDefault(s.rpc, LuxPorts.rpc), OrDefault(s.p2p, LuxPorts.p2p)},
   paths |-> {"/data"} \union If(s.keys, {"/staking"}) \union If(s.plugins, {"/plugins"})]

\* The script copies what else the ConfigMap holds, and ends in the same flags.
LuxStartupScript(s) == LuxCommand(s)

LuxBuildCommand(s) ==
  IF LuxNeedsConfigMap(s) THEN [listens |-> {}, paths |-> {"/configs"}] ELSE LuxCommand(s)

LuxVolumes(s) ==
  If(s.keys, {"staking-keys"}) \union If(s.plugins, {"plugins"})
    \union If(LuxNeedsConfigMap(s), {"config"})

\* A bug: the staking keys are not mounted.
LuxMountsNoKeys(s) ==
  {Data} \union If(s.plugins, {<<"plugins", "/plugins">>})
    \union If(LuxNeedsConfigMap(s), {<<"config", "/configs">>})

LuxMounts(s) ==
  {Data} \union If(s.keys, {<<"staking-keys", "/staking">>})
    \union If(s.plugins, {<<"plugins", "/plugins">>})
    \union If(LuxNeedsConfigMap(s), {<<"config", "/configs">>})

\* It copies the virtual machines of the spec's image into the volume.
PluginContainer == [name |-> "init-plugins", mounts |-> {<<"plugins", "/plugins">>}]

LuxInitContainers(s) == If(s.plugins, {PluginContainer}) \union RestoreContainer(s)

LuxResources(role) ==
  IF role = "archive"
    THEN [requests |-> <<4, 8>>, limits |-> <<8, 16>>, storage |-> 500]
    ELSE [requests |-> <<2, 4>>, limits |-> <<4, 8>>,
          storage |-> IF role = "fullnode" THEN 200 ELSE 100]

LuxDriver(s) ==
  [ports |-> LuxPorts, rpc |-> OrDefault(s.rpc, LuxPorts.rpc),
   command |-> LuxBuildCommand(s), script |-> LuxNeedsConfigMap(s),
   mounts |-> LuxMounts(s), volumes |-> LuxVolumes(s),
   init |-> LuxInitContainers(s), resources |-> LuxResources(s.role)]

(***************************************************************************)
(* The drivers whose command line is fixed but for its ports.              *)
(***************************************************************************)
\* ethereum.go: reth.
EthereumDriver(s) ==
  LET ports == [rpc |-> 8545, p2p |-> 30303, metrics |-> 9090,
                additional |-> {[name |-> "authrpc", port |-> 8551]}]
      rpc == OrDefault(s.rpc, ports.rpc)
  IN  [ports |-> ports, rpc |-> rpc, script |-> FALSE,
       command |-> [listens |-> {rpc, 8551, OrDefault(s.p2p, ports.p2p),
                                 OrDefault(s.metrics, ports.metrics)},
                    paths |-> {"/data"}],
       mounts |-> {Data}, volumes |-> {}, init |-> RestoreContainer(s),
       resources |-> IF s.role = "archive"
                       THEN [requests |-> <<8, 32>>, limits |-> <<16, 64>>, storage |-> 14 * 1024]
                       ELSE [requests |-> <<4, 16>>, limits |-> <<8, 32>>, storage |-> 2 * 1024]]

\* bitcoin.go: bitcoind.
BitcoinDriver(s) ==
  LET ports == [rpc |-> 8332, p2p |-> 8333, metrics |-> 9090, additional |-> {}]
      rpc == OrDefault(s.rpc, ports.rpc)
  IN  [ports |-> ports, rpc |-> rpc, script |-> FALSE,
       command |-> [listens |-> {rpc, OrDefault(s.p2p, ports.p2p)}, paths |-> {"/data"}],
       mounts |-> {Data}, volumes |-> {}, init |-> {},
       resources |-> IF s.role = "archive"
                       THEN [requests |-> <<4, 8>>, limits |-> <<8, 16>>, storage |-> 600]
                       ELSE [requests |-> <<2, 4>>, limits |-> <<4, 8>>, storage |-> 600]]

\* cosmos.go: gaiad, whose gRPC and API ports are fixed.
CosmosDriver(s) ==
  LET ports == [rpc |-> 26657, p2p |-> 26656, metrics |-> 9090,
                additional |-> {[name |-> "api", port |-> 1317]}]
      rpc == OrDefault(s.rpc, ports.rpc)
  IN  [ports |-> ports, rpc |-> rpc, script |-> FALSE,
       command |-> [listens |-> {rpc, OrDefault(s.p2p, ports.p2p), 9090, 1317},
                    paths |-> {"/data"}],
       mounts |-> {Data}, volumes |-> {}, init |-> {},
       resources |->
         [requests |-> CASE s.role = "archive" -> <<8, 32>>
                         [] s.role = "validator" -> <<4, 32>>
                         [] OTHER -> <<4, 16>>,
          limits |-> CASE s.role = "archive" -> <<16, 64>>
                       [] s.role = "validator" -> <<8, 64>>
                       [] OTHER -> <<8, 32>>,
          storage |-> IF s.role = "archive" THEN 2 * 1024 ELSE 500]]

\* solana.go: agave-validator.
SolanaResources(role) ==
  IF role = "fullnode"
    THEN [requests |-> <<16, 128>>, limits |-> <<24, 256>>, storage |-> 2 * 1024]
    ELSE [requests |-> <<24, 256>>, limits |-> <<32, 512>>,
          storage |-> IF role = "archive" THEN 4 * 1024 ELSE 2 * 1024]

\* Its peers use the fixed range 8000-8020, and its
\* identity is read from /keys whether or not a secret is mounted there.
SolanaDriver(s) ==
  LET ports == [rpc |-> 8899, p2p |-> 8001, metrics |-> 9090,
                additional |-> {[name |-> "gossip", port |-> 8000]}]
      rpc == OrDefault(s.rpc, ports.rpc)
  IN  [ports |-> ports, rpc |-> rpc, script |-> FALSE,
       command |-> [listens |-> {rpc} \union 8000 .. 8020, paths |-> {"/data", "/keys"}],
       mounts |-> {Data} \union If(s.keys, {<<"keys", "/keys">>}),
       volumes |-> If(s.keys, {"keys"}),
       init |-> {[name |-> "init-dirs", mounts |-> {Data}]},
       resources |-> SolanaResources(s.role)]

\* generic.go: the user's own command, which listens where the user says.
GenericDriver(s) ==
  LET ports == [rpc |-> 8545, p2p |-> 30303, metrics |-> 9090, additional |-> {}]
  IN  [ports |-> ports, script |-> FALSE,
       rpc |-> IF s.rpc = 0 THEN ports.rpc ELSE s.rpc,
       command |-> [listens |-> s.userListens, paths |-> {}],
       mounts |-> {Data}, volumes |-> {}, init |-> {},
       resources |-> [requests |-> <<1, 2>>, limits |-> <<2, 4>>, storage |-> 50]]

\* registry.go: the drivers by name.
Protocols == {"lux", "ethereum", "bitcoin", "cosmos", "solana", "generic"}

Driver(s) ==
  CASE s.protocol = "lux" -> LuxDriver(s)
    [] s.protocol = "ethereum" -> EthereumDriver(s)
    [] s.protocol = "bitcoin" -> BitcoinDriver(s)
    [] s.protocol = "cosmos" -> CosmosDriver(s)
    [] s.protocol = "solana" -> SolanaDriver(s)
    [] s.protocol = "generic" -> GenericDriver(s)
=============================================================================
