--------------------------- MODULE MCDerivatives ---------------------------
(* One video and its two jobs. *)
EXTENDS Derivatives

CONSTANTS v1

MCVideo == {v1}

MCJob == MCVideo \X {"metadata", "playback"}
=============================================================================
