----------------------------- MODULE MCRebuild -----------------------------
(* Rebuild with one Live Photo, one upload request and one purge.           *)
EXTENDS Rebuild

CONSTANTS still, video

TwoHalves == {still, video}
Pairing == [c \in TwoHalves |-> IF c = video THEN still ELSE None]
=============================================================================
