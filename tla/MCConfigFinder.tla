--------------------------- MODULE MCConfigFinder ----------------------------
EXTENDS ConfigFinder, TLC

CONSTANTS rootFile, branchFile, envFile, preset, overridePreset, first, second

MCRootFiles == <<rootFile>>
MCBranchFiles == <<branchFile, envFile>>

(* The branch's files, of which one wrongly overrides and the other extends, come later. *)
MCInitial == [f \in {rootFile, branchFile, envFile, preset, overridePreset} |->
                IF f \in {branchFile, envFile} THEN 0 ELSE 1]

LoadsAlike == Permutations({first, second})
=============================================================================
