------------------------------ MODULE NodeVolume ------------------------------
(***************************************************************************)
(* The data volume of one lux node, and the containers that fill it before *)
(* the node runs: seed-restore (seedRestoreInitContainer of the lux        *)
(* driver), then rlp-import (buildRLPImportInitContainer), then the node.  *)
(* The volume outlives the pod; a pod that comes back runs the containers  *)
(* from the first one, a container that fails is run again.                *)
(*                                                                         *)
(* The C-chain is abstracted to its height, a file to whether it is        *)
(* missing, cut short or whole, and a restored volume to whether the       *)
(* archive was unpacked to its end.                                        *)
(***************************************************************************)
EXTENDS Integers

CONSTANTS
    Options,      \* combinations of spec.seedRestore and spec.rlpImport
    SeedHeight,   \* the height of the chain in the seed archive
    FileHeight,   \* the height of the chain in the whole RLP file
    Tip,          \* the height of the network
    MinHeight,    \* spec.rlpImport.minHeight
    MaxFaults     \* evictions, failed calls and downloads cut short

\* restore is the restore policy, "Off" when there is no seedRestore; archive,
\* whether its source is an object store; ownMarker, whether its markerPath
\* is not the default one; parts, the part files of the RLP file, 1 when it is
\* a single file; clears, whether a C-chain ID is given.
OptionType == [restore : {"Off", "Never", "IfEmpty", "Always"},
               archive : BOOLEAN, ownMarker : BOOLEAN,
               import : BOOLEAN, parts : 1..2, clears : BOOLEAN]

ASSUME VolumeAssumption ==
    /\ Options \subseteq OptionType
    /\ Tip \in Nat
    /\ SeedHeight \in 1..Tip
    /\ FileHeight \in 1..Tip
    /\ MinHeight \in Nat
    /\ MaxFaults \in Nat

Threshold == IF MinHeight <= 0 THEN 1 ELSE MinHeight

VARIABLES
    opts,      \* the options of the cluster's spec
    height,    \* of the C-chain on the volume
    torn,      \* an archive was unpacked in part over the volume
    restored,  \* the seed-restore marker is on the volume
    imported,  \* the rlp-import marker is on the volume
    file,      \* the RLP file on the volume
    pc,        \* the step the pod is at
    got,       \* the part files rlp-import has been through, and how they came
    faults     \* faults so far

chain == <<height, torn>>
markers == <<restored, imported>>
vars == <<opts, height, torn, restored, imported, file, pc, got, faults>>

Files == {"missing", "short", "whole"}
Steps == {"seed", "unpacked", "import", "download", "have", "temporary",
          "rpc", "stop", "node"}

TypeOK ==
    /\ opts \in Options
    /\ height \in 0..Tip
    /\ torn \in BOOLEAN
    /\ restored \in BOOLEAN
    /\ imported \in BOOLEAN
    /\ file \in Files
    /\ pc \in Steps
    /\ got \in [parts : 0..2, best : Files, worst : Files]
    /\ faults \in 0..MaxFaults

\* No part file yet: best and worst say how the parts so far have come.
NoParts == [parts |-> 0, best |-> "missing", worst |-> "whole"]

\* A new volume, or one of a node that ran before these options were given.
Init ==
    /\ opts \in Options
    /\ height \in {0, Tip}
    /\ torn = FALSE
    /\ restored = FALSE
    /\ imported = FALSE
    /\ file = "missing"
    /\ pc = "seed"
    /\ got = NoParts
    /\ faults = 0

Fault == faults < MaxFaults /\ faults' = faults + 1

-------------------------------------------------------------------------------
(* seed-restore.                                                           *)

Restores == \/ opts.restore = "Always"
            \/ opts.restore = "IfEmpty" /\ ~restored

SkipRestore ==
    /\ pc = "seed"
    /\ ~Restores
    /\ pc' = "import"
    /\ UNCHANGED <<opts, chain, markers, file, got, faults>>

\* The archive is streamed into tar.
Unpack ==
    /\ pc = "seed"
    /\ Restores
    /\ opts.archive
    /\ height' = SeedHeight
    /\ torn' = FALSE
    /\ pc' = "unpacked"
    /\ UNCHANGED <<opts, markers, file, got, faults>>

UnpackErrorIgnored ==
    /\ pc = "seed"
    /\ Restores
    /\ opts.archive
    /\ Fault
    /\ torn' = TRUE
    /\ pc' = "unpacked"
    /\ UNCHANGED <<opts, height, markers, file, got>>

\* The stream ends early: tar fails, and the script with it.
UnpackFails ==
    /\ pc = "seed"
    /\ Restores
    /\ opts.archive
    /\ Fault
    /\ torn' = TRUE
    /\ UNCHANGED <<opts, height, markers, file, pc, got>>

UnsupportedFails ==
    /\ pc = "seed"
    /\ Restores
    /\ ~opts.archive
    /\ UNCHANGED vars

\* The other sources are only marked.
UnpackNothing ==
    /\ pc = "seed"
    /\ Restores
    /\ ~opts.archive
    /\ pc' = "unpacked"
    /\ UNCHANGED <<opts, chain, markers, file, got, faults>>

MarkRestored ==
    /\ pc = "unpacked"
    /\ restored' = TRUE
    /\ pc' = "import"
    /\ UNCHANGED <<opts, chain, imported, file, got, faults>>

-------------------------------------------------------------------------------
(* rlp-import.                                                             *)

BlindToSeed == FALSE

\* The seeds it knows of leave the default marker.
SeenSeeded == restored /\ ~opts.ownMarker

NoImport ==
    /\ pc = "import"
    /\ ~opts.import \/ imported
    /\ pc' = "node"
    /\ UNCHANGED <<opts, chain, markers, file, got, faults>>

SkipSeeded ==
    /\ pc = "import"
    /\ opts.import /\ ~imported
    /\ SeenSeeded
    /\ imported' = TRUE
    /\ pc' = "node"
    /\ UNCHANGED <<opts, chain, restored, file, got, faults>>

StartImportAgain ==
    /\ pc = "import"
    /\ opts.import
    /\ ~SeenSeeded
    /\ got' = NoParts
    /\ pc' = IF file = "missing" THEN "download" ELSE "have"
    /\ UNCHANGED <<opts, chain, markers, file, faults>>

StartImport ==
    /\ pc = "import"
    /\ opts.import /\ ~imported
    /\ ~SeenSeeded
    /\ got' = NoParts
    /\ pc' = IF file = "missing" THEN "download" ELSE "have"
    /\ UNCHANGED <<opts, chain, markers, file, faults>>

\* A part file arrives; curl retries, and an error is ignored.  A part that an
\* earlier run left, and that this one fails to fetch, is as good as fetched.
Rank(f) == CASE f = "missing" -> 0 [] f = "short" -> 1 [] OTHER -> 2

WithPart(f) ==
    [parts |-> got.parts + 1,
     best |-> IF Rank(f) > Rank(got.best) THEN f ELSE got.best,
     worst |-> IF Rank(f) < Rank(got.worst) THEN f ELSE got.worst]

DownloadOneMore ==
    /\ pc = "download"
    /\ got.parts <= opts.parts
    /\ got' = WithPart("whole")
    /\ UNCHANGED <<opts, chain, markers, file, pc, faults>>

DownloadPart ==
    /\ pc = "download"
    /\ got.parts < opts.parts
    /\ got' = WithPart("whole")
    /\ UNCHANGED <<opts, chain, markers, file, pc, faults>>

DownloadCut ==
    /\ pc = "download"
    /\ got.parts < opts.parts
    /\ Fault
    /\ \E f \in {"missing", "short"} : got' = WithPart(f)
    /\ UNCHANGED <<opts, chain, markers, file, pc>>

\* The file is what has arrived of it, or the parts one after the other.
Assemble ==
    /\ pc = "download"
    /\ got.parts = opts.parts
    /\ file' = CASE got.worst = "whole" -> "whole"
                 [] got.best = "missing" -> "missing"
                 [] OTHER -> "short"
    /\ pc' = "have"
    /\ UNCHANGED <<opts, chain, markers, got, faults>>

\* Without a file the node starts as it is, and a later run tries again.
SkipMissing ==
    /\ pc = "have"
    /\ file = "missing"
    /\ pc' = "node"
    /\ UNCHANGED <<opts, chain, markers, file, got, faults>>

ClearChain ==
    /\ pc = "have"
    /\ file # "missing"
    /\ height' = IF opts.clears THEN 0 ELSE height
    /\ pc' = "temporary"
    /\ UNCHANGED <<opts, torn, markers, file, got, faults>>

\* The temporary node answers, and is asked for its height.
TemporaryUp ==
    /\ pc = "temporary"
    /\ pc' = IF height >= Threshold THEN "stop" ELSE "rpc"
    /\ UNCHANGED <<opts, chain, markers, file, got, faults>>

\* An error of that call reads as height 0.
HeightUnread ==
    /\ pc = "temporary"
    /\ Fault
    /\ pc' = "rpc"
    /\ UNCHANGED <<opts, chain, markers, file, got>>

TemporaryIgnored ==
    /\ pc = "temporary"
    /\ Fault
    /\ pc' = "node"
    /\ UNCHANGED <<opts, chain, markers, file, got>>

\* It never answers: the script fails and is run again.
TemporaryDown ==
    /\ pc = "temporary"
    /\ Fault
    /\ pc' = "import"
    /\ UNCHANGED <<opts, chain, markers, file, got>>

Higher(h) == IF h > height THEN h ELSE height

SomeImported == {Higher(h) : h \in 0..FileHeight}

\* A file that is cut short brings the chain to some lower height.
Import ==
    /\ pc = "rpc"
    /\ height' \in IF file = "whole" THEN {Higher(FileHeight)}
                   ELSE {Higher(h) : h \in 0..(FileHeight - 1)}
    /\ pc' = "stop"
    /\ UNCHANGED <<opts, torn, markers, file, got, faults>>

\* An error, or the end of the time allowed, is only reported.
ImportFails ==
    /\ pc = "rpc"
    /\ Fault
    /\ height' \in SomeImported
    /\ pc' = "stop"
    /\ UNCHANGED <<opts, torn, markers, file, got>>

MarkImported ==
    /\ pc = "stop"
    /\ imported' = TRUE
    /\ pc' = "node"
    /\ UNCHANGED <<opts, chain, restored, file, got, faults>>

-------------------------------------------------------------------------------
(* The node, and the kubelet.                                              *)

Advance ==
    /\ pc = "node"
    /\ height < Tip
    /\ height' = height + 1
    /\ UNCHANGED <<opts, torn, markers, file, pc, got, faults>>

Importers == {"import", "download", "have", "temporary", "rpc", "stop"}

\* The pod is moved, or a container of it killed, at any step.  What an archive,
\* a download or an import that is interrupted leaves stays on the volume: a
\* single file is written in place, and so is the file the parts are put into.
Interrupt ==
    /\ Fault
    /\ pc' \in {"seed"} \cup (IF pc \in Importers THEN {"import"} ELSE {})
    /\ torn' \in IF pc = "seed" /\ Restores /\ opts.archive
                 THEN {torn, TRUE} ELSE {torn}
    /\ file' \in IF pc = "download" /\ (opts.parts = 1 \/ got.parts = opts.parts)
                 THEN {file, "short"} ELSE {file}
    /\ height' \in IF pc = "rpc" THEN SomeImported ELSE {height}
    /\ got' = NoParts
    /\ UNCHANGED <<opts, markers>>

Seeding == SkipRestore \/ Unpack \/ UnpackNothing \/ MarkRestored

Importing ==
    \/ NoImport \/ SkipSeeded \/ StartImport \/ DownloadPart \/ Assemble
    \/ SkipMissing \/ ClearChain \/ TemporaryUp \/ Import \/ MarkImported

Faults ==
    \/ UnpackFails \/ DownloadCut \/ HeightUnread \/ TemporaryDown
    \/ ImportFails \/ Interrupt

Next == Seeding \/ Importing \/ Advance \/ Faults

Spec == Init /\ [][Next]_vars

\* The kubelet runs the containers one after the other, and the node syncs.
FairSpec == Spec /\ WF_vars(Seeding \/ Importing) /\ WF_vars(Advance)

-------------------------------------------------------------------------------
(* Properties.                                                             *)

\* The node never runs on an archive unpacked in part, whatever was cut short
\* and whenever the pod was moved, and its seed marker never vouches for one.
NeverRunsTorn == torn => pc = "seed" /\ (restored => opts.restore = "Always")

\* The node runs only after the import was marked as done, was not asked for
\* or had no file: no failure in between lets it through.
RunsImported ==
    pc = "node" => imported \/ ~opts.import \/ file = "missing"

\* "A marker file makes it run once per volume": once it is there, rlp-import
\* and the node leave the chain at least as high as it is.
ImportsOnce ==
    [][imported /\ pc # "seed" => height' >= height]_vars

\* A volume seeded once, under the default marker, is left alone: whatever
\* fails and however often the pod restarts, the chain only grows.
SeedIsKept ==
    [][restored /\ opts.restore = "IfEmpty" /\ ~opts.ownMarker
         => height' >= height]_vars

\* The node runs in the end, and the chain reaches the tip.
EventuallyRuns == <>[](pc = "node" /\ height = Tip)

-------------------------------------------------------------------------------
(* What the API's comments say.                                            *)

\* "MinHeight skips the import when the C-chain is already at or above this
\* height": such a chain is left as it is.
HighChainIsKept ==
    [][height >= Threshold /\ pc # "seed" => height' >= height]_vars
===============================================================================
