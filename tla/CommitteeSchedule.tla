------------------------- MODULE CommitteeSchedule -------------------------
(***************************************************************************)
(* What the committee and session pallets promise, without blocks, phases, *)
(* inherents or sessions: committees take office in epoch order, one epoch *)
(* at a time, each announced before it takes office and never before its   *)
(* epoch has begun; an announcement is never replaced or withdrawn.        *)
(***************************************************************************)
EXTENDS Integers

CONSTANTS
  Committees,         \* what a committee can be
  GenesisCommittee,   \* the committee of the chain's genesis
  None                \* no epoch yet, or nobody announced

VARIABLES
  epoch,      \* the chain's epoch, None before the first block
  opened,     \* the genesis committee has been given its epoch
  office,     \* the committee in office and the epoch it is for
  announced   \* the committee of the following epoch, or None

vars == <<epoch, opened, office, announced>>

Init ==
  /\ epoch = None
  /\ opened = FALSE
  /\ office = [epoch |-> 0, committee |-> GenesisCommittee]
  /\ announced = None

\* Epochs pass, and some of them may pass unnoticed.
EpochPasses ==
  /\ epoch' \in Nat
  /\ epoch # None => epoch' > epoch
  /\ UNCHANGED <<opened, office, announced>>

\* The genesis committee is dated with the epoch of the first block.
Open ==
  /\ ~opened
  /\ epoch # None
  /\ announced = None
  /\ opened' = TRUE
  /\ office' = [office EXCEPT !.epoch = epoch]
  /\ UNCHANGED <<epoch, announced>>

\* A committee is announced for the epoch after the one in office.
Announce ==
  /\ opened
  /\ announced = None
  /\ announced' \in [epoch : {office.epoch + 1}, committee : Committees]
  /\ UNCHANGED <<epoch, opened, office>>

\* The announced committee takes office, not before its epoch.
TakeOffice ==
  /\ announced # None
  /\ announced.epoch <= epoch
  /\ office' = announced
  /\ announced' = None
  /\ UNCHANGED <<epoch, opened>>

Next == EpochPasses \/ Open \/ Announce \/ TakeOffice

Spec == Init /\ [][Next]_vars

=============================================================================
