---------------------------- MODULE McReference ----------------------------
(***************************************************************************)
(* How partner chain blocks refer to the main chain (Cardano).  Every node *)
(* reads the main chain from its own db-sync database, which may lag       *)
(* behind the others'.  An author puts the hash of the latest block it     *)
(* holds for stable into its block (McHashInherentDataProvider::           *)
(* new_proposal over BlockDataSourceImpl::get_latest_stable_block_for).    *)
(* An importing node looks that block up in its own database, as well as   *)
(* the one the parent refers to, and compares the two (new_verification    *)
(* over get_stable_block_for).  The author's own blocks are not verified   *)
(* by the author.                                                          *)
(*                                                                         *)
(* Main chain blocks are named by their numbers: a reference is always     *)
(* security-parameter deep, where there are no forks.  What a rollback     *)
(* does here is shorten a database.  Slots last one unit of time.          *)
(***************************************************************************)
EXTENDS Integers, Sequences, FiniteSets

CONSTANTS
  Nodes,              \* partner chain nodes, each with its own database
  SecurityParameter,  \* k: a rollback never removes more than k blocks
  StabilityMargin,    \* block_stability_margin, used by authors only
  MinSlotBoundary,    \* k/f, in units of time
  CacheSize,          \* blocks read ahead into the cache of stable blocks
  InitialTip,         \* number of the newest main chain block at the start
  MaxTip,             \* bound on the main chain
  MaxTime             \* bound on the clock

ASSUME ConstantsAssumption ==
  /\ SecurityParameter \in Nat \ {0}
  /\ StabilityMargin \in Nat
  /\ MinSlotBoundary \in Nat \ {0}
  /\ CacheSize \in Nat
  /\ InitialTip \in Nat
  /\ MaxTip \in Nat
  /\ MaxTime \in Nat

\* The main chain is so long that no database, rolled back or not, is shorter
\* than what an author subtracts from its length.
MatureMainChain == InitialTip >= 2 * SecurityParameter + StabilityMargin

\* from_config: max_slot_boundary is three times min_slot_boundary.
MaxSlotBoundary == 3 * MinSlotBoundary

VARIABLES
  now,        \* the clock all nodes share, in slots
  mcTip,      \* number of the newest block of the main chain
  blockTime,  \* times of the main chain's blocks, by block number
  dbTip,      \* newest block number in each node's database
  chain,      \* the partner chain each node holds for the best one
  known,      \* blocks each node has in its store, of other forks too
  cached      \* main chain blocks in each node's BlocksCache

vars == <<now, mcTip, blockTime, dbTip, chain, known, cached>>

\* A partner chain block: its slot, the main chain block it refers to, the one
\* its parent refers to (0 where the parent is genesis), who made it, and
\* (history) the newest block of the author's database then.
Blocks == [slot : Nat, ref : Nat, parentRef : Nat, author : Nodes, authorTip : Nat]

Last(s) == s[Len(s)]

ParentRef(s) == IF s = <<>> THEN 0 ELSE Last(s).ref

-----------------------------------------------------------------------------
(* BlockDataSourceImpl.                                                    *)

\* is_block_time_valid: the block's age is between the two boundaries.
IsBlockTimeValid(b, timestamp) ==
  /\ timestamp - MaxSlotBoundary <= blockTime[b]
  /\ blockTime[b] <= timestamp - MinSlotBoundary

SaturatingSub(a, b) == IF a < b THEN 0 ELSE a - b

\* Faulty variant: the author leaves no margin to slower databases.
EligibleFor_NoMargin(n, timestamp) ==
  LET stable == SaturatingSub(dbTip[n], SecurityParameter)
  IN  {b \in 0 .. dbTip[n] : b <= stable /\ IsBlockTimeValid(b, timestamp)}

\* Faulty variant: only the age of the blocks is looked at.
EligibleFor_AnyDepth(n, timestamp) ==
  {b \in 0 .. dbTip[n] : IsBlockTimeValid(b, timestamp)}

\* The blocks get_latest_stable_block_for chooses from.
EligibleFor(n, timestamp) ==
  LET offset == SecurityParameter + StabilityMargin
      stable == SaturatingSub(dbTip[n], offset)
  IN  {b \in 0 .. dbTip[n] : b <= stable /\ IsBlockTimeValid(b, timestamp)}

\* get_latest_stable_block_for(timestamp) = Some(b).
IsLatestStableBlockFor(n, timestamp, b) ==
  /\ b \in EligibleFor(n, timestamp)
  /\ \A c \in EligibleFor(n, timestamp) : c <= b

\* get_stable_block_for(b, timestamp) is Some at node m, whose cache is c: the
\* cache is asked first, and a block in it is not looked up in the database.
IsStableBlockFor(m, c, b, timestamp) ==
  /\ IsBlockTimeValid(b, timestamp)
  /\ b \in c \/ b + SecurityParameter <= dbTip[m]

\* Faulty variant: everything up to the newest block is cached.
FillCache_ToTip(m, b) ==
  LET to == IF b + CacheSize < dbTip[m] THEN b + CacheSize ELSE dbTip[m]
  IN  b .. (IF to > b THEN to ELSE b)

\* Faulty variant: the cache is filled backwards.
FillCache_Backwards(m, b) == b - CacheSize .. b

\* fill_cache: block b and the stable ones after it, as many as fit.
FillCache(m, b) ==
  LET stable == SaturatingSub(dbTip[m], SecurityParameter)
      to == IF b + CacheSize < stable THEN b + CacheSize ELSE stable
  IN  b .. (IF to > b THEN to ELSE b)

\* The cache after get_stable_block_for(b, timestamp).
CacheAfter(m, c, b, timestamp) ==
  IF b \notin c /\ IsStableBlockFor(m, c, b, timestamp) THEN FillCache(m, b) ELSE c

-----------------------------------------------------------------------------
(* McHashInherentDataProvider.                                             *)

\* Faulty variant: the parent's reference is not compared.
NewVerification_AnyOrder(m, parents, block) ==
  LET c == CacheAfter(m, cached[m], block.ref, block.slot)
  IN  /\ IsStableBlockFor(m, cached[m], block.ref, block.slot)
      /\ parents # <<>> => IsStableBlockFor(m, c, Last(parents).ref, Last(parents).slot)

\* new_verification at node m, for a block on top of `parents'; a block on
\* genesis has no parent reference to compare with.
NewVerification(m, parents, block) ==
  LET c == CacheAfter(m, cached[m], block.ref, block.slot)
  IN  /\ IsStableBlockFor(m, cached[m], block.ref, block.slot)
      /\ parents # <<>> =>
           /\ IsStableBlockFor(m, c, Last(parents).ref, Last(parents).slot)
           /\ Last(parents).ref <= block.ref

\* The cache after new_verification, which may have failed.
CacheAfterVerification(m, parents, block) ==
  LET c == CacheAfter(m, cached[m], block.ref, block.slot)
  IN  IF parents = <<>> \/ ~IsStableBlockFor(m, cached[m], block.ref, block.slot)
      THEN c
      ELSE CacheAfter(m, c, Last(parents).ref, Last(parents).slot)

-----------------------------------------------------------------------------
(* The environment.                                                        *)

Init ==
  /\ now = InitialTip
  /\ mcTip = InitialTip
  /\ blockTime = [b \in 0 .. InitialTip |-> b]
  /\ dbTip = [n \in Nodes |-> InitialTip]
  /\ chain = [n \in Nodes |-> <<>>]
  /\ known = [n \in Nodes |-> {}]
  /\ cached = [n \in Nodes |-> {}]

Tick ==
  /\ now < MaxTime
  /\ now' = now + 1
  /\ UNCHANGED <<mcTip, blockTime, dbTip, chain, known, cached>>

\* The main chain makes a block; its slots may stay empty.
MainChainBlock ==
  /\ mcTip < MaxTip
  /\ blockTime[mcTip] < now
  /\ mcTip' = mcTip + 1
  /\ blockTime' = [b \in 0 .. mcTip + 1 |-> IF b <= mcTip THEN blockTime[b] ELSE now]
  /\ UNCHANGED <<now, dbTip, chain, known, cached>>

\* db-sync writes the next block of the main chain.
DbSync(n) ==
  /\ dbTip[n] < mcTip
  /\ dbTip' = [dbTip EXCEPT ![n] = @ + 1]
  /\ UNCHANGED <<now, mcTip, blockTime, chain, known, cached>>

\* db-sync follows a rollback; at most k blocks behind the main chain's tip
\* are undone.
DbRollback(n) ==
  /\ \E t \in SaturatingSub(mcTip, SecurityParameter) .. dbTip[n] - 1 :
       dbTip' = [dbTip EXCEPT ![n] = t]
  /\ UNCHANGED <<now, mcTip, blockTime, chain, known, cached>>

-----------------------------------------------------------------------------
(* Partner chain nodes.                                                    *)

\* Node n authors the block of the current slot on its best chain and stores
\* it unverified.  A slot has one author, and a block's slot is later than
\* its parent's.
Propose(n) ==
  /\ \A m \in Nodes : \A block \in known[m] : block.slot < now
  /\ \E b \in 0 .. dbTip[n] :
       LET block == [slot |-> now, ref |-> b, parentRef |-> ParentRef(chain[n]),
                     author |-> n, authorTip |-> dbTip[n]]
       IN  /\ IsLatestStableBlockFor(n, now, b)
           /\ chain' = [chain EXCEPT ![n] = Append(@, block)]
           /\ known' = [known EXCEPT ![n] = @ \cup {block}]
  /\ UNCHANGED <<now, mcTip, blockTime, dbTip, cached>>

\* Node m receives a block of n's chain that it does not have, on blocks that
\* it has: it verifies it, stores it, and prefers the longer chain.
Import(m, n) ==
  /\ \E i \in DOMAIN chain[n] :
       LET block == chain[n][i]
           parents == SubSeq(chain[n], 1, i - 1)
       IN  /\ block \notin known[m]
           /\ \A j \in 1 .. i - 1 : chain[n][j] \in known[m]
           /\ cached' = [cached EXCEPT ![m] = CacheAfterVerification(m, parents, block)]
           /\ IF NewVerification(m, parents, block)
              THEN /\ known' = [known EXCEPT ![m] = @ \cup {block}]
                   /\ chain' = [chain EXCEPT ![m] =
                        IF i > Len(@) THEN Append(parents, block) ELSE @]
              ELSE UNCHANGED <<known, chain>>
  /\ UNCHANGED <<now, mcTip, blockTime, dbTip>>

Next ==
  \/ Tick
  \/ MainChainBlock
  \/ \E n \in Nodes : DbSync(n) \/ DbRollback(n) \/ Propose(n)
  \/ \E m, n \in Nodes : Import(m, n)

Spec == Init /\ [][Next]_vars

-----------------------------------------------------------------------------
(* Properties.                                                             *)

\* The state has its types: databases hold a prefix of the main chain.
TypeOK ==
  /\ now \in Nat
  /\ mcTip \in Nat
  /\ blockTime \in [0 .. mcTip -> 0 .. now]
  /\ dbTip \in [Nodes -> 0 .. mcTip]
  /\ chain \in [Nodes -> Seq(Blocks)]
  /\ known \in [Nodes -> SUBSET Blocks]
  /\ cached \in [Nodes -> SUBSET Nat]

\* A main chain block some partner chain block refers to is security-parameter
\* deep in the main chain, so no rollback removes it, and its age at the
\* referring block's slot is within the boundaries of get_latest_block and
\* is_block_time_valid, whatever a lagging or rolled back database answered.
ReferencesAreSettled ==
  \A m \in Nodes : \A i \in DOMAIN chain[m] :
    LET block == chain[m][i]
    IN  /\ block.ref + SecurityParameter <= mcTip
        /\ IsBlockTimeValid(block.ref, block.slot)

\* The reference of a block is older than its parent's only in the chain of
\* the node that authored it: new_proposal does not look at the parent, and
\* McStateReferenceRegressed keeps the block from every other node.
OnlyTheAuthorKeepsARegression ==
  \A m \in Nodes : \A i \in 2 .. Len(chain[m]) :
    chain[m][i].ref < chain[m][i - 1].ref => chain[m][i].author = m

\* The stability margin does what it is for: a node whose database is behind
\* the one the author had by no more than the margin accepts the author's
\* block on its own best chain, unless the reference went back.
MarginAbsorbsLag ==
  \A m, n \in Nodes :
    LET len == Len(chain[n])
        block == chain[n][len]
        parents == SubSeq(chain[n], 1, len - 1)
    IN  /\ len > 0
        /\ parents = chain[m]
        /\ block.authorTip <= dbTip[m] + StabilityMargin
        /\ parents # <<>> => Last(parents).ref <= block.ref
        => NewVerification(m, parents, block)

\* BlocksCache: "All blocks should be stable".  A cached block is answered
\* without asking the database, also after the database was rolled back; that
\* is right because a block that was cached never leaves the main chain.
CachedBlocksAreSettled ==
  \A m \in Nodes : \A b \in cached[m] : b + SecurityParameter <= mcTip

\* McHashDataSource promises of get_latest_stable_block_for "the latest stable
\* block": one that is security-parameter deep in the author's database, as
\* get_stable_block_by_hash_from_db defines it for verifiers.
ProposalsAreStable ==
  \A m \in Nodes : \A i \in DOMAIN chain[m] :
    chain[m][i].ref + SecurityParameter <= chain[m][i].authorTip

\* native_token/mod.rs reads the references of a block and its parent as
\* "after_block is always less or equal to_block".
ReferencesNeverGoBack ==
  \A m \in Nodes : \A i \in 2 .. Len(chain[m]) :
    chain[m][i - 1].ref <= chain[m][i].ref

=============================================================================
