------------------------ MODULE MCCommitteeRotation ------------------------
(***************************************************************************)
(* Instance of CommitteeRotation for TLC.  Two authorities, two scripts    *)
(* and two observations: under one observation a committee that depends on *)
(* the scripts and the epoch is selected, under the other none is.         *)
(***************************************************************************)
EXTENDS CommitteeRotation

CONSTANTS alice, bob, s1, s2

MCGenesisCommittee == <<alice>>

\* Committees differ between neighbouring epochs and between scripts; one
\* combination gives the empty committee.
MCSelectAuthorities(input, epoch) ==
  IF input.seen = "nobody" THEN None
  ELSE IF input.scripts = s2 THEN IF epoch % 2 = 0 THEN <<bob, alice>> ELSE <<>>
  ELSE IF epoch % 2 = 0 THEN <<alice, bob>> ELSE <<bob>>

=============================================================================
