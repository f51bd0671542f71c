----------------------------- MODULE MCArchive -----------------------------
(* Archive with one Live Photo -- a still and its paired video -- two       *)
(* upload requests and one purge.                                          *)
EXTENDS Archive, TLC

CONSTANTS still, video

TwoHalves == {still, video}
Pairing == [c \in TwoHalves |-> IF c = video THEN still ELSE None]

\* Nothing tells one request's slot from another's.
Requests == Permutations(Request)
=============================================================================
