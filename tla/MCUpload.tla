------------------------------ MODULE MCUpload ------------------------------
(* Two drops: two files of the same bytes, one of others and one that is no
   photograph, then one more of the first bytes. *)
EXTENDS Upload

CONSTANTS f1, f2, f3, f4, f5, c1, c2

MCFile == {f1, f2, f3, f4, f5}

MCContent == {c1, c2}

MCBytes == [f \in MCFile |-> IF f \in {f1, f3, f5} THEN c1 ELSE c2]

MCIntake == {1, 2}

MCDropped == <<<<f1, f2, f3>>, <<f5>>>>

MCRefused == <<{f4}, {}>>
=============================================================================
