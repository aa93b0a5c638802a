--------------------------- MODULE MCRecorder ---------------------------
(***************************************************************************)
(* The recorder demo with two recordings and a static file in a directory; *)
(* two connections compete for one slot, at most one thread cannot be      *)
(* started, and a removal of the workspace that breaks off leaves          *)
(* everything, a single file or nothing.                                   *)
(***************************************************************************)
EXTENDS RecorderDemo

CONSTANTS first, second, script, index

MCRecordings == <<first, second>>
MCAssets == <<script>>
MCNested == {script}
MCFiles == {first, second, script, index}
MCLeftovers == {{}, MCFiles} \cup {{f} : f \in MCFiles}

=============================================================================
