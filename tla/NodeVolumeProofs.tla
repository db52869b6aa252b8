--------------------------- MODULE NodeVolumeProofs ---------------------------
(***************************************************************************)
(* What holds of a node's volume for every combination of options, every   *)
(* height of the archive, the file and the network, and every number of    *)
(* interruptions.                                                          *)
(***************************************************************************)
EXTENDS NodeVolume, TLAPS

USE VolumeAssumption

LEMMA OptionFacts ==
    ASSUME NEW o \in Options
    PROVE  /\ o.restore \in {"Off", "Never", "IfEmpty", "Always"}
           /\ o.archive \in BOOLEAN /\ o.ownMarker \in BOOLEAN
           /\ o.import \in BOOLEAN /\ o.parts \in 1..2 /\ o.clears \in BOOLEAN
  BY DEF OptionType

\* The chain an import leaves is at least as high, and no higher than the tip.
LEMMA HigherFacts ==
    ASSUME NEW h \in 0..FileHeight, height \in 0..Tip
    PROVE  Higher(h) \in 0..Tip /\ Higher(h) >= height
  BY DEF Higher

LEMMA SomeImportedFacts ==
    ASSUME height \in 0..Tip, NEW h \in SomeImported
    PROVE  h \in 0..Tip /\ h >= height
  BY HigherFacts DEF SomeImported

LEMMA WithPartTyped ==
    ASSUME NEW f \in Files, got \in [parts : 0..2, best : Files, worst : Files],
           got.parts < opts.parts, opts.parts \in 1..2
    PROVE  WithPart(f) \in [parts : 0..2, best : Files, worst : Files]
  <1> DEFINE b == IF Rank(f) > Rank(got.best) THEN f ELSE got.best
             w == IF Rank(f) < Rank(got.worst) THEN f ELSE got.worst
  <1>1. got.parts + 1 \in 0..2
    OBVIOUS
  <1>2. b \in Files /\ w \in Files
    OBVIOUS
  <1>3. WithPart(f) = [parts |-> got.parts + 1, best |-> b, worst |-> w]
    BY DEF WithPart
  <1> HIDE DEF b, w
  <1>4. QED
    BY <1>1, <1>2, <1>3

LEMMA NoPartsTyped ==
    NoParts \in [parts : 0..2, best : Files, worst : Files]
  BY DEF NoParts, Files

\* The heights an action may give the chain, and a file its states.
LEMMA Ranges == /\ 0 \in 0..Tip /\ Tip \in 0..Tip /\ SeedHeight \in 0..Tip
                /\ 0 \in 0..MaxFaults
                /\ "missing" \in Files /\ "short" \in Files /\ "whole" \in Files
  BY DEF Files

\* Every variable of the volume and of the pod stays within its type.
THEOREM TypeCorrect == Spec => []TypeOK
  <1>1. Init => TypeOK
    BY Ranges, NoPartsTyped, Zenon DEF Init, TypeOK, Steps
  <1>2. TypeOK /\ [Next]_vars => TypeOK'
    <2> SUFFICES ASSUME TypeOK, [Next]_vars PROVE TypeOK'
      OBVIOUS
    <2> USE DEF chain, markers
    <2>1. CASE UNCHANGED vars
      BY <2>1 DEF vars, TypeOK
    <2>2. CASE SkipRestore
      BY <2>2 DEF SkipRestore, TypeOK, Steps
    <2>3. CASE Unpack
      BY <2>3, Ranges DEF Unpack, TypeOK, Steps
    <2>4. CASE UnpackNothing
      BY <2>4 DEF UnpackNothing, TypeOK, Steps
    <2>5. CASE MarkRestored
      BY <2>5 DEF MarkRestored, TypeOK, Steps
    <2>6. CASE NoImport
      BY <2>6 DEF NoImport, TypeOK, Steps
    <2>7. CASE SkipSeeded
      BY <2>7 DEF SkipSeeded, TypeOK, Steps
    <2>8. CASE StartImport
      BY <2>8, NoPartsTyped, Zenon DEF StartImport, TypeOK, Steps
    <2>9. CASE DownloadPart
      <3>1. got' \in [parts : 0..2, best : Files, worst : Files]
        BY <2>9, Ranges, WithPartTyped, OptionFacts DEF DownloadPart, TypeOK
      <3>2. QED
        BY <2>9, <3>1 DEF DownloadPart, TypeOK
    <2>10. CASE DownloadCut
      <3>1. got' \in [parts : 0..2, best : Files, worst : Files]
        BY <2>10, Ranges, WithPartTyped, OptionFacts DEF DownloadCut, TypeOK
      <3>2. QED
        BY <2>10, <3>1 DEF DownloadCut, Fault, TypeOK
    <2>11. CASE Assemble
      BY <2>11, Ranges, Zenon DEF Assemble, TypeOK, Steps
    <2>12. CASE SkipMissing
      BY <2>12 DEF SkipMissing, TypeOK, Steps
    <2>13. CASE ClearChain
      BY <2>13, Ranges, Zenon DEF ClearChain, TypeOK, Steps
    <2>14. CASE TemporaryUp
      BY <2>14, Zenon DEF TemporaryUp, TypeOK, Steps
    <2>15. CASE Import
      <3>1. height' \in 0..Tip
        BY <2>15, HigherFacts DEF Import, TypeOK
      <3>2. QED
        BY <2>15, <3>1 DEF Import, TypeOK, Steps
    <2>16. CASE MarkImported
      BY <2>16 DEF MarkImported, TypeOK, Steps
    <2>17. CASE Advance
      BY <2>17 DEF Advance, TypeOK
    <2>18. CASE UnpackFails
      BY <2>18 DEF UnpackFails, Fault, TypeOK
    <2>19. CASE HeightUnread
      BY <2>19 DEF HeightUnread, Fault, TypeOK, Steps
    <2>20. CASE TemporaryDown
      BY <2>20 DEF TemporaryDown, Fault, TypeOK, Steps
    <2>21. CASE ImportFails
      BY <2>21, SomeImportedFacts DEF ImportFails, Fault, TypeOK, Steps
    <2>22. CASE Interrupt
      <3>1. height' \in 0..Tip
        BY <2>22, SomeImportedFacts DEF Interrupt, TypeOK
      <3>2. pc' \in Steps
        BY <2>22 DEF Interrupt, Steps
      <3>3. torn' \in BOOLEAN /\ file' \in Files
        BY <2>22, Ranges, Zenon DEF Interrupt, TypeOK
      <3>4. faults' \in 0..MaxFaults
        BY <2>22 DEF Interrupt, Fault, TypeOK
      <3>5. QED
        BY <2>22, <3>1, <3>2, <3>3, <3>4, NoPartsTyped, Zenon
           DEF Interrupt, TypeOK
    <2>23. QED
      BY <2>1, <2>2, <2>3, <2>4, <2>5, <2>6, <2>7, <2>8, <2>9, <2>10, <2>11,
         <2>12, <2>13, <2>14, <2>15, <2>16, <2>17, <2>18, <2>19, <2>20, <2>21,
         <2>22 DEF Next, Seeding, Importing, Faults
  <1>3. QED
    BY <1>1, <1>2, PTL DEF Spec

-------------------------------------------------------------------------------
(* The order of the containers.                                            *)

\* Only an archive is left unpacked in part, and only by a policy that will
\* unpack it again.  Where the pod is tells what has been done: past seed-restore
\* nothing is left to restore, and the import works on a volume that is neither
\* marked nor seeded under the default marker, with a file once it has cleared
\* the chain.
Progress ==
    /\ torn => opts.archive /\ opts.restore \in {"IfEmpty", "Always"}
    /\ pc = "unpacked" => ~torn /\ opts.restore # "Off"
    /\ pc \notin {"seed", "unpacked"} => opts.restore = "Always" \/ ~Restores
    /\ pc \in Importers \ {"import"} => opts.import /\ ~imported /\ ~SeenSeeded
    /\ pc \in {"temporary", "rpc", "stop"} => file # "missing"

VolumeInv == NeverRunsTorn /\ RunsImported /\ Progress

\* The strengthening holds of every reachable state.
THEOREM VolumeInvariant == Spec => []VolumeInv
  <1> USE DEF VolumeInv, NeverRunsTorn, RunsImported, Progress, Restores,
              SeenSeeded, Importers, chain, markers
  <1>1. Init => VolumeInv
    BY DEF Init
  <1>2. TypeOK /\ VolumeInv /\ [Next]_vars => VolumeInv'
    <2> SUFFICES ASSUME TypeOK, VolumeInv, [Next]_vars PROVE VolumeInv'
      OBVIOUS
    <2> USE DEF TypeOK
    <2>1. CASE UNCHANGED vars
      BY <2>1 DEF vars
    <2>2. CASE SkipRestore
      BY <2>2 DEF SkipRestore
    <2>3. CASE Unpack
      BY <2>3 DEF Unpack
    <2>4. CASE UnpackNothing
      BY <2>4 DEF UnpackNothing
    <2>5. CASE MarkRestored
      BY <2>5 DEF MarkRestored
    <2>6. CASE NoImport \/ SkipSeeded \/ StartImport
      BY <2>6 DEF NoImport, SkipSeeded, StartImport
    <2>7. CASE DownloadPart \/ Assemble
      BY <2>7 DEF DownloadPart, Assemble
    <2>8. CASE SkipMissing \/ ClearChain \/ TemporaryUp
      BY <2>8 DEF SkipMissing, ClearChain, TemporaryUp
    <2>9. CASE Import \/ MarkImported
      BY <2>9 DEF Import, MarkImported
    <2>10. CASE Advance
      BY <2>10 DEF Advance
    <2>11. CASE UnpackFails \/ DownloadCut
      BY <2>11 DEF UnpackFails, DownloadCut
    <2>12. CASE HeightUnread \/ TemporaryDown \/ ImportFails
      BY <2>12 DEF HeightUnread, TemporaryDown, ImportFails
    <2>13. CASE Interrupt
      BY <2>13 DEF Interrupt
    <2>14. QED
      BY <2>1, <2>2, <2>3, <2>4, <2>5, <2>6, <2>7, <2>8, <2>9, <2>10, <2>11,
         <2>12, <2>13 DEF Next, Seeding, Importing, Faults
  <1>3. QED
    BY <1>1, <1>2, TypeCorrect, PTL DEF Spec

\* A node never runs on an archive that was unpacked in part.
THEOREM TornNeverRuns == Spec => []NeverRunsTorn
  <1>1. VolumeInv => NeverRunsTorn
    BY DEF VolumeInv
  <1>2. QED
    BY <1>1, VolumeInvariant, PTL

\* A node runs only when its import was marked, not asked for or without a file.
THEOREM ImportBeforeRun == Spec => []RunsImported
  <1>1. VolumeInv => RunsImported
    BY DEF VolumeInv
  <1>2. QED
    BY <1>1, VolumeInvariant, PTL

\* Only the archive of a seed and an import that clears it can lower the chain.
LEMMA ChainGrows ==
    ASSUME TypeOK, Next, ~Unpack, ~ClearChain
    PROVE  height' >= height
  <1> USE DEF chain
  <1>1. CASE Import
    BY <1>1, HigherFacts DEF Import, TypeOK
  <1>2. CASE ImportFails
    BY <1>2, SomeImportedFacts DEF ImportFails, TypeOK
  <1>3. CASE Interrupt
    BY <1>3, SomeImportedFacts DEF Interrupt, TypeOK
  <1>4. CASE Advance
    BY <1>4 DEF Advance, TypeOK
  <1>5. CASE \/ SkipRestore \/ UnpackNothing \/ MarkRestored \/ NoImport
             \/ SkipSeeded \/ StartImport \/ DownloadPart \/ Assemble
             \/ SkipMissing \/ TemporaryUp \/ MarkImported \/ UnpackFails
             \/ DownloadCut \/ HeightUnread \/ TemporaryDown
    <2>1. height' = height
      BY <1>5 DEF SkipRestore, UnpackNothing, MarkRestored, NoImport,
                  SkipSeeded, StartImport, DownloadPart, Assemble, SkipMissing,
                  TemporaryUp, MarkImported, UnpackFails, DownloadCut,
                  HeightUnread, TemporaryDown
    <2>2. QED
      BY <2>1 DEF TypeOK
  <1>6. QED
    BY <1>1, <1>2, <1>3, <1>4, <1>5 DEF Next, Seeding, Importing, Faults

\* Once its marker is there the import never touches the chain again, and
\* nothing past seed-restore lowers it.
THEOREM ImportedOnce == Spec => ImportsOnce
  <1>1. TypeOK /\ VolumeInv /\ [Next]_vars
          => [imported /\ pc # "seed" => height' >= height]_vars
    <2> SUFFICES ASSUME TypeOK, VolumeInv, Next, imported, pc # "seed"
                 PROVE  height' >= height
      OBVIOUS
    <2>1. ~Unpack
      BY DEF Unpack
    <2>2. ~ClearChain
      BY DEF ClearChain, VolumeInv, Progress, Importers
    <2>3. QED
      BY <2>1, <2>2, ChainGrows
  <1>2. QED
    BY <1>1, TypeCorrect, VolumeInvariant, PTL DEF Spec, ImportsOnce

\* A volume that was seeded once, under the default marker, only ever grows.
THEOREM SeededIsKept == Spec => SeedIsKept
  <1>1. TypeOK /\ VolumeInv /\ [Next]_vars
          => [restored /\ opts.restore = "IfEmpty" /\ ~opts.ownMarker
                => height' >= height]_vars
    <2> SUFFICES ASSUME TypeOK, VolumeInv, Next, restored,
                        opts.restore = "IfEmpty", ~opts.ownMarker
                 PROVE  height' >= height
      OBVIOUS
    <2>1. ~Unpack
      BY DEF Unpack, Restores
    <2>2. ~ClearChain
      BY DEF ClearChain, VolumeInv, Progress, Importers, SeenSeeded
    <2>3. QED
      BY <2>1, <2>2, ChainGrows
  <1>2. QED
    BY <1>1, TypeCorrect, VolumeInvariant, PTL DEF Spec, SeedIsKept
===============================================================================
