----------------------------- MODULE MCNodeVolume -----------------------------
(* The combinations of options the runs of NodeVolume give a cluster. *)
EXTENDS NodeVolume

EveryOption == OptionType

\* A single RLP file over a chain that is cleared, and no seed.
ImportOnly == {[restore |-> "Off", archive |-> FALSE, ownMarker |-> FALSE,
                import |-> TRUE, parts |-> 1, clears |-> TRUE]}
===============================================================================
