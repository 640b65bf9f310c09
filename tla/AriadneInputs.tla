--------------------------- MODULE AriadneInputs ---------------------------
(***************************************************************************)
(* What a node reads from the main chain (Cardano) to select a committee:  *)
(* D-parameter and permissioned candidates, registrations, epoch nonce, as *)
(* they were at the end of an earlier main chain epoch.  Every validator   *)
(* must read the same for the same block, from a database of its own that  *)
(* rolls back, through caches that RPC users fill too, for any epoch       *)
(* (AriadneInherentDataProvider, CandidateDataSourceCached,                *)
(* CandidatesDataSourceImpl).                                              *)
(*                                                                         *)
(* This is one node.  Two nodes agree because what both answer is settled: *)
(* it can be read off main chain blocks no database ever gives up.         *)
(***************************************************************************)
EXTENDS Integers, Sequences, FiniteSets

CONSTANTS
  Clients,            \* requests the node serves at the same time
  Scripts,            \* main chain scripts the runtime may have been given
  Values,             \* what a main chain block leaves behind for them
  SecurityParameter,  \* k: a rollback never removes more than k blocks
  McEpochDuration,    \* in units of time
  ScEpochDuration,    \* slots of the partner chain last one unit
  MinSlotBoundary,    \* a reference is at least this old ...
  CacheSize,          \* entries of each cache
  BlockTimes,         \* bound: times at which the main chain may have blocks
  MaxSlot,            \* bound on partner chain slots
  MaxRequests,        \* bound on the requests
  None

\* Two epochs of the partner chain and the age of the oldest reference allowed
\* fit into an epoch of the main chain.
ASSUME ConstantsAssumption ==
  /\ SecurityParameter \in Nat \ {0}
  /\ McEpochDuration \in Nat \ {0}
  /\ ScEpochDuration \in Nat \ {0}
  /\ MinSlotBoundary \in Nat
  /\ 2 * ScEpochDuration + 3 * MinSlotBoundary <= McEpochDuration
  /\ CacheSize \in Nat \ {0}
  /\ BlockTimes \subseteq Nat
  /\ MaxSlot \in Nat
  /\ MaxRequests \in Nat
  /\ None \notin Values

VARIABLES
  db,       \* blocks in the node's database, oldest first
  settled,  \* how many of them have been k deep at some time
  highest,  \* highest_seen_stable_epoch, or None
  cache,    \* entries of the two caches
  request,  \* each client's request, or None
  served    \* number of requests so far

vars == <<db, settled, highest, cache, request, served>>

\* None stands for nothing there, or nothing that decodes.
Blocks == [time : BlockTimes, data : Values \cup {None}]

\* The calls whose answers are cached, and all of them.
CachedCalls == {"params", "candidates"}

Calls == CachedCalls \cup {"nonce"}

\* What was read, and for which scripts.
Answers == [scripts : Scripts, read : Seq(Values \cup {None})]

\* The key has the epoch (here that of the data) and the scripts.
Entries == [epoch : Nat, scripts : Scripts, answer : Answers]

\* A request is at step `pc' of one of its calls, or has ended.  `closed' is
\* history: no block of the epoch could be rolled back as the request arrived.
Requests ==
  [kind : {"inherent", "rpc"}, epoch : Nat, scripts : Scripts, closed : BOOLEAN,
   call : Calls \cup {"done", "failed", "unavailable"},
   pc : {"check", "stable", "seen", "lookup", "first", "second", "third", "put"},
   caching : BOOLEAN,
   first : Values \cup {None} \cup Nat,
   answer : Answers \cup {None},
   answers : [Calls -> Answers \cup {None}]]

-----------------------------------------------------------------------------
(* The main chain and the database.                                        *)

EpochOf(block) == block.time \div McEpochDuration

\* get_latest_block_for_epoch: the number of the last block of epoch e or an
\* earlier one, 0 if none is.  There are as many such blocks.
LatestBlockForEpoch(e) == Cardinality({i \in DOMAIN db : EpochOf(db[i]) <= e})

\* What the first i blocks have left at an address (get_utxos_for_address).
GetUtxosForAddress(i) ==
  IF i = 0 \/ db = <<>> THEN None
  ELSE IF i <= Len(db) THEN db[i].data ELSE db[Len(db)].data

\* The newest token output of epoch e or an earlier one.
GetTokenUtxoForEpoch(e) == GetUtxosForAddress(LatestBlockForEpoch(e))

\* An epoch's nonce is known once it has begun, and depends on the blocks
\* before it only.
GetEpochNonce(e) ==
  IF \E i \in DOMAIN db : EpochOf(db[i]) >= e
  THEN <<GetUtxosForAddress(LatestBlockForEpoch(e - 1))>> ELSE <<>>

\* The stake distribution of an epoch is written during the one before it.
GetStakeDistribution(e) ==
  IF \E i \in DOMAIN db : EpochOf(db[i]) >= e - 1
  THEN <<GetUtxosForAddress(LatestBlockForEpoch(e - 1))>> ELSE <<>>

\* Faulty variant: the epoch of the highest stable block counts as stable.
GetLatestStableEpoch_OfBlock ==
  LET stable == Len(db) - SecurityParameter
  IN  IF stable < 1 THEN None ELSE EpochOf(db[stable])

\* None where no block is stable, -1 (which does not decode) in epoch 0.
GetLatestStableEpoch ==
  LET stable == Len(db) - SecurityParameter
  IN  IF stable < 1 THEN None ELSE EpochOf(db[stable]) - 1

\* A settled block is of a later epoch.
Closed(e) == \E i \in 1 .. settled : EpochOf(db[i]) > e

-----------------------------------------------------------------------------

Init ==
  /\ db = <<>>
  /\ settled = 0
  /\ highest = None
  /\ cache = [call \in CachedCalls |-> {}]
  /\ request = [c \in Clients |-> None]
  /\ served = 0

\* The database receives a block, of this fork or another.
MainChainBlock ==
  /\ \E block \in Blocks :
       /\ db # <<>> => db[Len(db)].time < block.time
       /\ db' = Append(db, block)
  /\ settled' = IF Len(db') - SecurityParameter > settled
                THEN Len(db') - SecurityParameter ELSE settled
  /\ UNCHANGED <<highest, cache, request, served>>

\* The database drops blocks of a fork that lost.
DbRollback ==
  /\ \E left \in settled .. Len(db) - 1 : db' = SubSeq(db, 1, left)
  /\ UNCHANGED <<settled, highest, cache, request, served>>

Idle(c) ==
  /\ served < MaxRequests
  /\ request[c] # None => request[c].call \in {"done", "failed", "unavailable"}

NewRequest(kind, call, epoch, scripts) ==
  [kind |-> kind, epoch |-> epoch, scripts |-> scripts, closed |-> Closed(epoch),
   call |-> call, pc |-> "check", caching |-> FALSE,
   first |-> None, answer |-> None, answers |-> [k \in Calls |-> None]]

\* mc_epoch_for_next_ariadne_cidp: next_unset_epoch is 1 under the genesis
\* committee, whatever the epoch.
ForMcEpoch(slot, nextUnsetEpoch) ==
  LET epoch == IF nextUnsetEpoch = 1 THEN slot \div ScEpochDuration ELSE nextUnsetEpoch
  IN  (epoch * ScEpochDuration) \div McEpochDuration

\* Faulty variant: the data are of the epoch before.
DataEpoch_Previous(forEpoch) == forEpoch - 1

\* get_epoch_of_data_storage; there is none for the first two epochs.
DataEpoch(forEpoch) == forEpoch - 2

\* AriadneInherentDataProvider::new, for a block to author or to verify, whose
\* reference is settled and of the right age (McReference).  At most the next
\* epoch's committee is set already (CommitteeRotation).
NewInherent(c) ==
  /\ Idle(c)
  /\ served' = served + 1
  /\ \E slot \in 0 .. MaxSlot, ref \in 1 .. settled, scripts \in Scripts :
     \E nextUnsetEpoch \in 1 .. slot \div ScEpochDuration + 2 :
       LET epoch == DataEpoch(ForMcEpoch(slot, nextUnsetEpoch))
           new   == NewRequest("inherent", "params", epoch, scripts)
       IN  /\ slot - 3 * MinSlotBoundary <= db[ref].time
           /\ db[ref].time <= slot - MinSlotBoundary
           /\ epoch >= 0
           /\ request' = [request EXCEPT ![c] =
                IF epoch < EpochOf(db[ref]) THEN new
                ELSE [new EXCEPT !.call = "unavailable"]]
  /\ UNCHANGED <<db, settled, highest, cache>>

\* The RPC methods get_ariadne_parameters and get_registrations.
NewRpc(c) ==
  /\ Idle(c)
  /\ served' = served + 1
  /\ \E call \in CachedCalls, epoch \in 0 .. MaxSlot \div McEpochDuration, scripts \in Scripts :
       request' = [request EXCEPT ![c] = NewRequest("rpc", call, epoch, scripts)]
  /\ UNCHANGED <<db, settled, highest, cache>>

-----------------------------------------------------------------------------
(* CandidateDataSourceCached.                                              *)

At(c, pc) ==
  /\ request[c] # None
  /\ request[c].call \in CachedCalls
  /\ request[c].pc = pc

\* can_use_caching_for_request, up to the query.
CanUseCaching(c) ==
  /\ At(c, "check")
  /\ request' =
       [request EXCEPT ![c] =
         IF highest # None /\ highest >= @.epoch
         THEN [@ EXCEPT !.pc = "lookup", !.caching = TRUE]
         ELSE [@ EXCEPT !.pc = "stable"]]
  /\ UNCHANGED <<db, settled, highest, cache, served>>

\* Faulty variant: the answer -1 is taken for an epoch.
QueryStableEpoch_Signed(c) ==
  /\ At(c, "stable")
  /\ GetLatestStableEpoch # None
  /\ request' = [request EXCEPT ![c].pc = "seen", ![c].first = GetLatestStableEpoch]
  /\ UNCHANGED <<db, settled, highest, cache, served>>

\* The query,
QueryStableEpoch(c) ==
  LET stable == GetLatestStableEpoch
  IN  /\ At(c, "stable")
      /\ \/ /\ stable = None
            /\ request' = [request EXCEPT ![c].pc = "first"]
         \/ /\ stable = -1
            /\ request' = [request EXCEPT ![c].call = "failed"]
         \/ /\ stable \notin {None, -1}
            /\ request' = [request EXCEPT ![c].pc = "seen", ![c].first = stable]
      /\ UNCHANGED <<db, settled, highest, cache, served>>

\* whose answer replaces what was seen before, a lower one too.
SeenStableEpoch(c) ==
  /\ At(c, "seen")
  /\ highest' = request[c].first
  /\ request' =
       [request EXCEPT ![c] =
         IF @.epoch <= @.first
         THEN [@ EXCEPT !.pc = "lookup", !.caching = TRUE, !.first = None]
         ELSE [@ EXCEPT !.pc = "first", !.first = None]]
  /\ UNCHANGED <<db, settled, cache, served>>

\* A call has its answer: the request goes on to its next call, or ends.
Answered(r, answer) ==
  [r EXCEPT
     !.answers = [@ EXCEPT ![r.call] = answer],
     !.call = IF r.call = "params" THEN "candidates"
              ELSE IF r.call = "candidates" /\ r.kind = "inherent" THEN "nonce"
              ELSE "done",
     !.pc = "check", !.caching = FALSE, !.first = None, !.answer = None]

\* Faulty variant: the scripts are not part of the key.
Hits_AnyScripts(r) == {x \in cache[r.call] : x.epoch = r.epoch}

Hits(r) == {x \in cache[r.call] : x.epoch = r.epoch /\ x.scripts = r.scripts}

\* get_candidates_with_caching, get_ariadne_parameters_with_caching: the cache
\* is looked up,
Lookup(c) ==
  /\ At(c, "lookup")
  /\ \/ /\ Hits(request[c]) = {}
        /\ request' = [request EXCEPT ![c].pc = "first"]
     \/ \E x \in Hits(request[c]) :
          request' = [request EXCEPT ![c] = Answered(@, x.answer)]
  /\ UNCHANGED <<db, settled, highest, cache, served>>

\* A response of the data source is cached first where that is allowed.
Response(r, answer) ==
  IF r.caching THEN [r EXCEPT !.pc = "put", !.first = None, !.answer = answer]
  ELSE Answered(r, answer)

\* the database is queried: for D-parameter and permissioned candidates, in
\* any order (get_ariadne_parameters),
QueryToken(c) ==
  LET r == request[c]
  IN  /\ At(c, "first") /\ r.call = "params"
      /\ request' =
           [request EXCEPT ![c] =
             [r EXCEPT !.pc = "second", !.first = GetTokenUtxoForEpoch(r.epoch)]]
      /\ UNCHANGED <<db, settled, highest, cache, served>>

GetAriadneParameters(c) ==
  LET r     == request[c]
      token == GetTokenUtxoForEpoch(r.epoch)
  IN  /\ At(c, "second") /\ r.call = "params"
      /\ request' =
           [request EXCEPT ![c] =
             IF None \in {r.first, token} THEN [r EXCEPT !.call = "failed"]
             ELSE Response(r, [scripts |-> r.scripts, read |-> <<r.first, token>>])]
      /\ UNCHANGED <<db, settled, highest, cache, served>>

\* or for the last block of the epoch, for the registrations there were at that
\* block, and for the stake distribution (get_candidates),
GetLastBlockForEpoch(c) ==
  LET r == request[c]
  IN  /\ At(c, "first") /\ r.call = "candidates"
      /\ request' =
           [request EXCEPT ![c] =
             [r EXCEPT !.pc = "second", !.first = LatestBlockForEpoch(r.epoch)]]
      /\ UNCHANGED <<db, settled, highest, cache, served>>

GetRegisteredCandidates(c) ==
  LET r == request[c]
  IN  /\ At(c, "second") /\ r.call = "candidates"
      /\ request' =
           [request EXCEPT ![c] =
             [r EXCEPT !.pc = "third", !.first = GetUtxosForAddress(r.first)]]
      /\ UNCHANGED <<db, settled, highest, cache, served>>

GetCandidates(c) ==
  LET r == request[c]
  IN  /\ At(c, "third")
      /\ request' =
           [request EXCEPT ![c] =
             Response(r, [scripts |-> r.scripts,
                          read |-> <<r.first>> \o GetStakeDistribution(r.epoch)])]
      /\ UNCHANGED <<db, settled, highest, cache, served>>

\* LruCache::put; which entry a full cache drops is left open.
CachesWith(entries, new) ==
  LET others == {x \in entries : x.epoch # new.epoch \/ x.scripts # new.scripts}
  IN  IF Cardinality(others) < CacheSize THEN {others \cup {new}}
      ELSE {(others \ {x}) \cup {new} : x \in others}

\* and the answer is cached.
Put(c) ==
  LET r   == request[c]
      new == [epoch |-> r.epoch, scripts |-> r.scripts, answer |-> r.answer]
  IN  /\ At(c, "put")
      /\ \E entries \in CachesWith(cache[r.call], new) :
           cache' = [cache EXCEPT ![r.call] = entries]
      /\ request' = [request EXCEPT ![c] = Answered(r, r.answer)]
      /\ UNCHANGED <<db, settled, highest, served>>

\* get_epoch_nonce is not cached; from_mc_data takes a missing nonce for empty.
QueryNonce(c) ==
  LET r == request[c]
  IN  /\ r # None
      /\ r.call = "nonce"
      /\ request' =
           [request EXCEPT ![c] =
             Answered(r, [scripts |-> r.scripts, read |-> GetEpochNonce(r.epoch)])]
      /\ UNCHANGED <<db, settled, highest, cache, served>>

Serve(c) ==
  \/ NewInherent(c)
  \/ NewRpc(c)
  \/ CanUseCaching(c)
  \/ QueryStableEpoch(c)
  \/ SeenStableEpoch(c)
  \/ Lookup(c)
  \/ QueryToken(c)
  \/ GetAriadneParameters(c)
  \/ GetLastBlockForEpoch(c)
  \/ GetRegisteredCandidates(c)
  \/ GetCandidates(c)
  \/ Put(c)
  \/ QueryNonce(c)

Next ==
  \/ MainChainBlock
  \/ DbRollback
  \/ \E c \in Clients : Serve(c)

Spec == Init /\ [][Next]_vars

-----------------------------------------------------------------------------

\* The state has its type.
TypeOK ==
  /\ db \in Seq(Blocks)
  /\ settled \in 0 .. Len(db)
  /\ highest \in Nat \cup {None}
  /\ cache \in [CachedCalls -> SUBSET Entries]
  /\ request \in [Clients -> Requests \cup {None}]
  /\ served \in Nat

\* What a call for epoch e and these scripts answers by the settled blocks.
FinalAnswer(call, e, scripts) ==
  [scripts |-> scripts,
   read |-> IF call = "params" THEN <<GetTokenUtxoForEpoch(e), GetTokenUtxoForEpoch(e)>>
            ELSE IF call = "candidates" THEN <<GetTokenUtxoForEpoch(e)>> \o GetStakeDistribution(e)
            ELSE GetEpochNonce(e)]

\* A cached answer is one that no rollback changes any more, whoever asked for
\* it (the comment in cached.rs: "Use only for stable epochs").
CachedAnswersAreFinal ==
  \A call \in CachedCalls : \A x \in cache[call] :
    Closed(x.epoch) /\ x.answer = FinalAnswer(call, x.epoch, x.scripts)

\* The inputs of a committee selection, in every block's inherent data, and
\* the answers to an RPC about an epoch that was closed, are those of the
\* settled main chain: all nodes select from the same inputs, and a request of
\* several queries is not torn by a rollback between them.
AnswersAreFinal ==
  \A c \in Clients :
    request[c] # None /\ (request[c].kind = "inherent" \/ request[c].closed) =>
      \A call \in Calls :
        request[c].answers[call] \in
          {None, FinalAnswer(call, request[c].epoch, request[c].scripts)}

\* There are inputs for every block (the comment in AriadneInherentDataProvider
\* ::new: "in current implementation, the inequality below is always true").
InputsAreAvailable ==
  \A c \in Clients : request[c] # None => request[c].call # "unavailable"

=============================================================================
