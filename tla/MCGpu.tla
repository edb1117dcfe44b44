-------------------------------- MODULE MCGpu --------------------------------
(***************************************************************************)
(* The GPU device's fences, its host-visible window and its accounting of  *)
(* video memory, which share no state.  A behaviour is one of one part;    *)
(* the others rest in an initial state of theirs.                          *)
(***************************************************************************)
EXTENDS GpuFence, MCGpuMap, GpuVram

VARIABLE part

Symmetry == Permutations(Heads) \union Permutations(Res)

mcVars == <<part, vars, mapVars, vramVars>>

\* Only the window has more than one initial state.
MCInit ==
    /\ part \in {"fence", "map", "vram"}
    /\ part = "map" \/ (limits = <<0, 0>> /\ window = TRUE)
    /\ Init /\ MapInit /\ VramInit

MCNext ==
    /\ UNCHANGED part
    /\ \/ part = "fence" /\ Next /\ UNCHANGED <<mapVars, vramVars>>
       \/ part = "map" /\ MapNext /\ UNCHANGED <<vars, vramVars>>
       \/ part = "vram" /\ VramNext /\ UNCHANGED <<vars, mapVars>>

MCSpec == MCInit /\ [][MCNext]_mcVars
=============================================================================
