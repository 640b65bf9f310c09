---------------------------- MODULE BlockSearch ----------------------------
(***************************************************************************)
(* find_block_number of sidechain-block-search: a binary search over the   *)
(* blocks of a node's best chain, with one of four strategies to compare a *)
(* block with what is looked for.  It serves RPC queries while the node    *)
(* imports blocks, so between two comparisons the chain may grow, be       *)
(* finalized further, or be replaced above the last finalized block by a   *)
(* longer one.                                                             *)
(*                                                                         *)
(* Block i of the chain is its slot slots[i]; genesis is block 0 and is    *)
(* never looked at.  The search is over 1 .. best + 1, both ends included. *)
(***************************************************************************)
EXTENDS Integers, Sequences

CONSTANTS
  SlotsPerEpoch,
  MaxSlot,      \* bound on the slots of blocks
  MaxReorgs,    \* bound on replacements of unfinalized blocks
  None

ASSUME ConstantsAssumption ==
  /\ SlotsPerEpoch \in Nat \ {0}
  /\ MaxSlot \in Nat
  /\ MaxReorgs \in Nat

ASSUME NoneAssumption == None \notin Nat

VARIABLES
  slots,       \* the best chain
  finalized,   \* number of the last finalized block
  reorgs,      \* history: number of replacements
  search       \* the search under way or finished, or None

vars == <<slots, finalized, reorgs, search>>

\* What is looked for: a block of an epoch, or of the slots lo .. hi - 1.
\* latest is LatestBlockInSlotRange::latest_block, the best block at the call.
Kinds == {"AnyBlockInEpoch", "LastBlockInEpoch", "AnyBlockInSlotRange",
          "LatestBlockInSlotRange"}

\* The state of binary_search_by.  best and settled are history: the numbers
\* of the best and of the last finalized block when it began; reorged says
\* whether blocks were replaced since.
Searches ==
  [kind : Kinds, lo : Nat, hi : Nat, best : Nat, settled : Nat, reorged : BOOLEAN,
   left : Nat, right : Nat, result : Nat \cup {None},
   status : {"running", "found", "none"}]

Last(s) == IF s = <<>> THEN 0 ELSE s[Len(s)]

-----------------------------------------------------------------------------
(* Comparing a block; "Error" where it does not exist.                     *)

Cmp(a, b) == IF a < b THEN "Less" ELSE IF a > b THEN "Greater" ELSE "Equal"

EpochOf(b) == slots[b] \div SlotsPerEpoch

AnyBlockInEpoch(epoch, b) ==
  IF b \in DOMAIN slots THEN Cmp(EpochOf(b), epoch) ELSE "Error"

LastBlockInEpoch(epoch, b) ==
  IF AnyBlockInEpoch(epoch, b) # "Equal" THEN AnyBlockInEpoch(epoch, b)
  ELSE IF b + 1 \notin DOMAIN slots THEN "Error"
  ELSE IF EpochOf(b + 1) > epoch THEN "Equal" ELSE "Less"

\* Faulty variant: the end of the range counts as part of it.
AnyBlockInSlotRange_Inclusive(lo, hi, b) ==
  IF b \notin DOMAIN slots THEN "Error"
  ELSE IF slots[b] < lo THEN "Less" ELSE IF slots[b] > hi THEN "Greater" ELSE "Equal"

AnyBlockInSlotRange(lo, hi, b) ==
  IF b \notin DOMAIN slots THEN "Error"
  ELSE IF slots[b] < lo THEN "Less" ELSE IF slots[b] >= hi THEN "Greater" ELSE "Equal"

\* Faulty variant: a block from the latest on is not looked at.
LatestBlockInSlotRange_LatestFirst(lo, hi, latest, b) ==
  LET next == AnyBlockInSlotRange(lo, hi, b + 1)
  IN  IF b >= latest THEN "Equal"
      ELSE IF AnyBlockInSlotRange(lo, hi, b) # "Equal" THEN AnyBlockInSlotRange(lo, hi, b)
      ELSE IF next = "Error" THEN "Error"
      ELSE IF next = "Greater" THEN "Equal" ELSE "Less"

LatestBlockInSlotRange(lo, hi, latest, b) ==
  LET next == AnyBlockInSlotRange(lo, hi, b + 1)
  IN  IF AnyBlockInSlotRange(lo, hi, b) # "Equal" THEN AnyBlockInSlotRange(lo, hi, b)
      ELSE IF b >= latest THEN "Equal"
      ELSE IF next = "Error" THEN "Error"
      ELSE IF next = "Greater" THEN "Equal" ELSE "Less"

CompareBlock(s, b) ==
  IF s.kind = "AnyBlockInEpoch" THEN AnyBlockInEpoch(s.lo, b)
  ELSE IF s.kind = "LastBlockInEpoch" THEN LastBlockInEpoch(s.lo, b)
  ELSE IF s.kind = "AnyBlockInSlotRange" THEN AnyBlockInSlotRange(s.lo, s.hi, b)
  ELSE LatestBlockInSlotRange(s.lo, s.hi, s.best, b)

-----------------------------------------------------------------------------

Init ==
  /\ slots = <<>>
  /\ finalized = 0
  /\ reorgs = 0
  /\ search = None

\* The best chain grows by a block of a later slot.
NewBlock ==
  /\ \E slot \in Last(slots) + 1 .. MaxSlot : slots' = Append(slots, slot)
  /\ UNCHANGED <<finalized, reorgs, search>>

\* A block above the last finalized one, and with it those before, is final.
Finalize ==
  /\ finalized' \in finalized + 1 .. Len(slots)
  /\ UNCHANGED <<slots, reorgs, search>>

\* Another fork, from the last finalized block or above, has become longer by
\* one block and is the best chain now; it shares the first `kept' blocks.
Reorg ==
  /\ reorgs < MaxReorgs
  /\ reorgs' = reorgs + 1
  /\ \E kept \in finalized .. Len(slots) - 1 :
       LET first == IF kept = 0 THEN 1 ELSE slots[kept] + 1
       IN  \E fork \in [kept + 1 .. Len(slots) + 1 -> first .. MaxSlot] :
             /\ \A i, j \in kept + 1 .. Len(slots) + 1 : i < j => fork[i] < fork[j]
             /\ slots' = [i \in 1 .. Len(slots) + 1 |-> IF i <= kept THEN slots[i] ELSE fork[i]]
  /\ search' = IF search = None THEN None ELSE [search EXCEPT !.reorged = TRUE]
  /\ UNCHANGED finalized

\* find_block_number: a call, up to the loop.
FindBlockNumber ==
  /\ search = None
  /\ \E kind \in Kinds, lo \in 0 .. MaxSlot : \E hi \in lo .. MaxSlot + 1 :
       /\ kind \in {"AnyBlockInEpoch", "LastBlockInEpoch"} =>
            lo <= MaxSlot \div SlotsPerEpoch /\ hi = lo
       /\ search' = [kind |-> kind, lo |-> lo, hi |-> hi, best |-> Len(slots),
                     settled |-> finalized, reorged |-> FALSE,
                     left |-> 1, right |-> Len(slots) + 1, result |-> None,
                     status |-> "running"]
  /\ UNCHANGED <<slots, finalized, reorgs>>

\* Faulty variant: the range ends right of the middle.
Step_RightOfMiddle ==
  /\ search # None
  /\ search.status = "running"
  /\ LET middle == (search.left + search.right) \div 2
         cmp == CompareBlock(search, middle)
     IN  search' =
           IF search.left > search.right \/ cmp = "Error"
           THEN [search EXCEPT !.status = "none"]
           ELSE IF cmp = "Equal"
           THEN [search EXCEPT !.status = "found", !.result = middle]
           ELSE IF cmp = "Less" THEN [search EXCEPT !.left = middle + 1]
           ELSE [search EXCEPT !.right = middle + 1]
  /\ UNCHANGED <<slots, finalized, reorgs>>

\* Faulty variant: the search ends when one block is left.
Step_StopsEarly ==
  /\ search # None
  /\ search.status = "running"
  /\ LET middle == (search.left + search.right) \div 2
         cmp == CompareBlock(search, middle)
     IN  search' =
           IF search.left >= search.right \/ cmp = "Error"
           THEN [search EXCEPT !.status = "none"]
           ELSE IF cmp = "Equal"
           THEN [search EXCEPT !.status = "found", !.result = middle]
           ELSE IF cmp = "Less" THEN [search EXCEPT !.left = middle + 1]
           ELSE [search EXCEPT !.right = middle - 1]
  /\ UNCHANGED <<slots, finalized, reorgs>>

\* Faulty variant: one block too many is left out on the right.
Step_SkipsOne ==
  /\ search # None
  /\ search.status = "running"
  /\ LET middle == (search.left + search.right) \div 2
         cmp == CompareBlock(search, middle)
     IN  search' =
           IF search.left > search.right \/ cmp = "Error"
           THEN [search EXCEPT !.status = "none"]
           ELSE IF cmp = "Equal"
           THEN [search EXCEPT !.status = "found", !.result = middle]
           ELSE IF cmp = "Less" THEN [search EXCEPT !.left = middle + 1]
           ELSE [search EXCEPT !.right = middle - 2]
  /\ UNCHANGED <<slots, finalized, reorgs>>

\* One iteration of binary_search_by, or its end.
Step ==
  /\ search # None
  /\ search.status = "running"
  /\ LET middle == (search.left + search.right) \div 2
         cmp == CompareBlock(search, middle)
     IN  search' =
           IF search.left > search.right \/ cmp = "Error"
           THEN [search EXCEPT !.status = "none"]
           ELSE IF cmp = "Equal"
           THEN [search EXCEPT !.status = "found", !.result = middle]
           ELSE IF cmp = "Less" THEN [search EXCEPT !.left = middle + 1]
           ELSE [search EXCEPT !.right = middle - 1]
  /\ UNCHANGED <<slots, finalized, reorgs>>

Next ==
  \/ NewBlock
  \/ Finalize
  \/ Reorg
  \/ FindBlockNumber
  \/ Step

Spec == Init /\ [][Next]_vars

\* A call that was made goes on.
FairSpec == Spec /\ WF_vars(Step)

-----------------------------------------------------------------------------
(* Properties.                                                             *)

\* The state has its types, with block numbers that stay unsigned: the range
\* does not pass below zero.
TypeOK ==
  /\ slots \in Seq(Nat)
  /\ finalized \in 0 .. Len(slots)
  /\ reorgs \in Nat
  /\ search \in Searches \cup {None}

\* Block b is of the epoch or the slots that s looks for.
Wanted(s, b) ==
  /\ b \in DOMAIN slots
  /\ IF s.kind \in {"AnyBlockInEpoch", "LastBlockInEpoch"}
     THEN EpochOf(b) = s.lo
     ELSE s.lo <= slots[b] /\ slots[b] < s.hi

\* Block b ends the epoch that s looks for, as far as the chain up to block
\* `upTo' tells.
EndsEpoch(s, b, upTo) ==
  /\ b + 1 \in DOMAIN slots
  /\ b + 1 <= upTo
  /\ EpochOf(b) = s.lo
  /\ EpochOf(b + 1) > s.lo

\* What a search finds is right while the chain only grew: a block of the
\* epoch or range; for LastBlockInEpoch the one that ends the epoch; for
\* LatestBlockInSlotRange the latest of the blocks there were at the call.
FoundIsRight ==
  search # None /\ search.status = "found" /\ ~search.reorged =>
    /\ Wanted(search, search.result)
    /\ search.kind = "LastBlockInEpoch" => EndsEpoch(search, search.result, Len(slots))
    /\ search.kind = "LatestBlockInSlotRange" =>
         \A b \in search.result + 1 .. search.best : ~Wanted(search, b)

\* A search that finds nothing on a chain that only grew had nothing to find
\* when it was called: no block is missed at the ends of the range.
NoneIsRight ==
  search # None /\ search.status = "none" /\ ~search.reorged =>
    IF search.kind = "LastBlockInEpoch"
    THEN \A b \in 1 .. search.best : ~EndsEpoch(search, b, search.best)
    ELSE \A b \in 1 .. search.best : ~Wanted(search, b)

\* Answers about final blocks are right whatever happens to the others: an
\* epoch with a final block is found, and one that ended before the last
\* final block is found in the blocks that are in it.
SettledEpochsAreFound ==
  /\ /\ search # None /\ search.kind = "AnyBlockInEpoch"
     /\ \E b \in 1 .. search.settled : Wanted(search, b)
     => search.status # "none"
  /\ /\ search # None /\ search.kind \in {"AnyBlockInEpoch", "LastBlockInEpoch"}
     /\ \E b \in 1 .. search.settled : EndsEpoch(search, b, search.settled)
     => /\ search.status # "none"
        /\ search.status = "found" =>
             IF search.kind = "AnyBlockInEpoch" THEN Wanted(search, search.result)
             ELSE EndsEpoch(search, search.result, search.settled)

\* find_block's "Block with given number exists, so its hash should exists as
\* well": the number that was found stays the number of a block.
FoundBlockExists ==
  search # None /\ search.status = "found" => search.result \in DOMAIN slots

\* An iteration leaves fewer blocks to look at, so a call makes no more
\* comparisons than there are blocks, however the chain moves.
StepsShrinkTheRange ==
  [][ search # None /\ search' # search /\ search'.status = "running"
        /\ search'.reorged = search.reorged
      => search'.right - search'.left < search.right - search.left ]_vars

\* Every call returns, however the chain moves.
SearchesEnd == (search # None) ~> (search # None /\ search.status # "running")

=============================================================================
