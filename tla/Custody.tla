------------------------------ MODULE Custody ------------------------------
(***************************************************************************)
(* What a backup promises, whoever asks: a claim that a content is safe is *)
(* made only of a content that has been put in safekeeping.  The archive   *)
(* makes the claim to its clients when it answers an upload; the phone     *)
(* makes it to its owner when a row is done.  Archive and Backup both      *)
(* implement this.                                                         *)
(***************************************************************************)
CONSTANT Content

VARIABLES
  kept,    \* the contents that have been in safekeeping
  claims   \* the contents somebody is being told are

Init == kept = {} /\ claims = {}

Keep(S) == kept' = kept \cup S /\ claims' = claims

\* One claim at a time, of a content that is kept; others may be withdrawn.
Claim(c) == c \in kept /\ claims' \subseteq claims \cup {c} /\ kept' = kept

Withdraw == claims' \subseteq claims /\ kept' = kept

Next ==
  \/ \E S \in SUBSET Content : Keep(S)
  \/ \E c \in Content : Claim(c)
  \/ Withdraw

Spec == Init /\ [][Next]_<<kept, claims>>
=============================================================================
