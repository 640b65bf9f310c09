---------------------------- MODULE NativeToken ----------------------------
(***************************************************************************)
(* Transfers of the native token into the illiquid supply on the main      *)
(* chain, and how the partner chain accounts for them.                     *)
(*                                                                         *)
(* The native token pallet keeps the scripts that identify the token and   *)
(* a flag, Initialized.  Author and importing nodes run the same inherent  *)
(* data provider on the parent's state: it asks the node's data source for *)
(* the sum of the transfers between the main chain blocks the parent and   *)
(* the new block refer to, or for all of them up to the latter while       *)
(* Initialized is false.  The data source keeps a cache that it fills with *)
(* more blocks than were asked for.                                        *)
(*                                                                         *)
(* Amounts are kept as totals since main chain genesis, so the sum of the  *)
(* rows of blocks a+1 to b is a difference of two totals.  References are  *)
(* stable and do not go back along the chain, which module McReference is  *)
(* about.  There is one partner chain, which every node follows.           *)
(***************************************************************************)
EXTENDS Integers, Sequences

CONSTANTS
  Nodes,
  Scripts,            \* values of MainChainScripts
  GenesisScripts,     \* those of the genesis state, or None
  MayChangeScripts,   \* whether scripts that are set may be replaced
  OtherAmounts,       \* amounts of other assets a block may send to the address
  SecurityParameter,
  CacheSize,
  InitialTip,         \* newest main chain block at the start
  MaxTip,             \* bound on the main chain
  MaxBlocks,          \* bound on the partner chain
  MaxRestarts,        \* bound on restarts of nodes
  None

ASSUME ConstantsAssumption ==
  /\ SecurityParameter \in Nat
  /\ CacheSize \in Nat
  /\ InitialTip \in Nat /\ MaxTip \in Nat
  /\ MaxBlocks \in Nat /\ MaxRestarts \in Nat
  /\ SecurityParameter <= InitialTip

ASSUME ScriptsAssumption ==
  /\ None \notin Scripts
  /\ None \notin Nat
  /\ GenesisScripts \in Scripts \cup {None}
  /\ MayChangeScripts \in BOOLEAN
  /\ OtherAmounts \in SUBSET Nat
  /\ 0 \in OtherAmounts

\* Scripts, once set, stay, and nothing but the native token is sent to the
\* illiquid supply address.
OneTokenOnly == ~MayChangeScripts /\ OtherAmounts = {0}

VARIABLES
  mcTip,     \* newest main chain block
  locked,    \* native tokens locked up to each block, by scripts
  other,     \* amounts of other assets sent to the address up to each block
  chain,     \* partner chain: the pallet's state after each block
  at,        \* height up to which each node has imported the chain
  rejected,  \* nodes that refused a block of the chain
  cache,     \* each node's Cache, or None
  request,   \* each node's call of the data source, or None
  restarts   \* history: number of restarts

vars == <<mcTip, locked, other, chain, at, rejected, cache, request, restarts>>

\* The newest block with SecurityParameter blocks on top of it.
LatestStable == mcTip - SecurityParameter

\* The pallet's state after a block: the main chain block referred to (None
\* for genesis), the storage items, the amount of the block's transfer_tokens
\* (0 if it has none), and all the TokenTransferHandler was given.
States == [ref : Nat \cup {None}, scripts : Scripts \cup {None}, initialized : BOOLEAN,
           transfer : Nat, handled : Nat]

Genesis == [ref |-> None, scripts |-> GenesisScripts, initialized |-> FALSE,
            transfer |-> 0, handled |-> 0]

Caches == [from : Nat, to : Nat, scripts : Scripts]

Requests ==
  [kind : {"author", "verify"}, parent : Nat, ref : Nat, status : {"missed", "answered"},
   amount : Nat]

-----------------------------------------------------------------------------
(* NativeTokenManagementDataSourceImpl.                                    *)

\* The sum of the rows of blocks after+1 .. to that get_native_token_transfers
\* returns: the asset is a condition of a LEFT JOIN, so every asset counts.
RowsSum(scripts, after, to) ==
  (locked[to][scripts] + other[to][scripts])
    - (locked[after][scripts] + other[after][scripts])

\* Faulty variant: the row of `after' is counted as well.
GetSumInRange_WithFirst(n, after, to) ==
  RowsSum(cache[n].scripts, IF after > cache[n].from THEN after - 1 ELSE after, to)

\* Faulty variant: the ends of the range are swapped.
GetSumInRange_Reversed(n, after, to) == RowsSum(cache[n].scripts, to, after)

\* Cache::get_sum_in_range, where it has an answer.
GetSumInRange(n, after, to) == RowsSum(cache[n].scripts, after, to)

InCache(n, after, to) ==
  /\ cache[n] # None
  /\ after \in cache[n].from .. cache[n].to
  /\ to \in cache[n].from .. cache[n].to

\* Faulty variant: blocks that may still be rolled back are cached.
CacheTo_Unstable(from, to) ==
  LET wanted == IF to > from + CacheSize THEN to ELSE from + CacheSize
  IN  IF wanted < mcTip THEN wanted ELSE mcTip

\* get_data_to_cache: the last block it reads.
CacheTo(from, to) ==
  LET wanted == IF to > from + CacheSize THEN to ELSE from + CacheSize
  IN  IF wanted < LatestStable THEN wanted ELSE LatestStable

\* query_transfers_from_genesis: here the asset is a condition of the WHERE.
TransfersFromGenesis(scripts, to) == locked[to][scripts]

-----------------------------------------------------------------------------
(* NativeTokenManagementInherentDataProvider::new on the parent's state.   *)

\* The lower end of the range; None asks for everything.
AfterBlock(parent) == IF parent.initialized THEN parent.ref ELSE None

\* get_total_native_token_transfer up to the point where the cache misses:
\* amount is what it answers, unless status is "missed".
Ask(n, kind, height, ref) ==
  LET parent == chain[height]
      after == AfterBlock(parent)
      answer(a) == [kind |-> kind, parent |-> height, ref |-> ref,
                    status |-> "answered", amount |-> a]
  IN  IF parent.scripts = None \/ after = ref THEN answer(0)
      ELSE IF after = None THEN answer(TransfersFromGenesis(parent.scripts, ref))
      ELSE IF InCache(n, after, ref) THEN answer(GetSumInRange(n, after, ref))
      ELSE [answer(0) EXCEPT !.status = "missed"]

-----------------------------------------------------------------------------

Init ==
  /\ mcTip = InitialTip
  /\ \E rate \in {0, 1} : locked = [b \in 0 .. InitialTip |-> [s \in Scripts |-> rate * b]]
  /\ other = [b \in 0 .. InitialTip |-> [s \in Scripts |-> 0]]
  /\ chain = <<Genesis>>
  /\ at = [n \in Nodes |-> 1]
  /\ rejected = {}
  /\ cache = [n \in Nodes |-> None]
  /\ request = [n \in Nodes |-> None]
  /\ restarts = 0

\* A main chain block, with transfers of at most one token for each scripts.
MainChainBlock ==
  /\ mcTip < MaxTip
  /\ mcTip' = mcTip + 1
  /\ \E amounts \in [Scripts -> {0, 1}], others \in [Scripts -> OtherAmounts] :
       /\ locked' = [b \in 0 .. mcTip + 1 |->
            IF b <= mcTip THEN locked[b]
            ELSE [s \in Scripts |-> locked[mcTip][s] + amounts[s]]]
       /\ other' = [b \in 0 .. mcTip + 1 |->
            IF b <= mcTip THEN other[b]
            ELSE [s \in Scripts |-> other[mcTip][s] + others[s]]]
  /\ UNCHANGED <<chain, at, rejected, cache, request, restarts>>

\* The author of a slot creates its inherent data on the head of the chain;
\* the block will refer to main chain block `ref'.
CreateProposal(n) ==
  /\ request[n] = None
  /\ n \notin rejected
  /\ at[n] = Len(chain)
  /\ Len(chain) < MaxBlocks
  /\ \E ref \in 0 .. LatestStable :
       /\ chain[at[n]].ref # None => chain[at[n]].ref <= ref
       /\ request' = [request EXCEPT ![n] = Ask(n, "author", at[n], ref)]
  /\ UNCHANGED <<mcTip, locked, other, chain, at, rejected, cache, restarts>>

\* A node imports the next block of the chain: it creates inherent data on
\* the parent, for the reference in the block's digest.
CreateVerification(n) ==
  /\ request[n] = None
  /\ n \notin rejected
  /\ at[n] < Len(chain)
  /\ request' = [request EXCEPT ![n] = Ask(n, "verify", at[n], chain[at[n] + 1].ref)]
  /\ UNCHANGED <<mcTip, locked, other, chain, at, rejected, cache, restarts>>

\* The rest of get_total_native_token_transfer where the cache missed: read
\* the rows, sum those up to `ref' and replace the cache.  The numbers of the
\* blocks are read with the rows: the rows are of stable blocks, which do not
\* change in between.
Fetch(n) ==
  /\ request[n] # None
  /\ request[n].status = "missed"
  /\ LET parent == chain[request[n].parent]
         from == AfterBlock(parent)
         to == request[n].ref
     IN  /\ request' = [request EXCEPT
              ![n].status = "answered",
              ![n].amount = RowsSum(parent.scripts, from, to)]
         /\ cache' = [cache EXCEPT
              ![n] = [from |-> from, to |-> CacheTo(from, to), scripts |-> parent.scripts]]
  /\ UNCHANGED <<mcTip, locked, other, chain, at, rejected, restarts>>

-----------------------------------------------------------------------------
(* The pallet.                                                             *)

\* Faulty variant: Initialized is never set.
TransferTokens_ForgetsInit(state, amount) ==
  [state EXCEPT !.transfer = amount, !.handled = @ + amount]

\* create_inherent, and the transfer_tokens call it makes if it makes one.
TransferTokens(state, amount) ==
  IF amount > 0
  THEN [state EXCEPT !.initialized = TRUE, !.transfer = amount, !.handled = @ + amount]
  ELSE [state EXCEPT !.transfer = 0]

\* What root may set with set_main_chain_scripts in a block, if it does.
SetMainChainScripts(state) ==
  {state} \cup {[state EXCEPT !.scripts = s] :
                  s \in IF state.scripts = None \/ MayChangeScripts THEN Scripts ELSE {}}

\* The author builds the block and imports it, unless another node's block
\* came first.
BuildBlock(n) ==
  /\ request[n] # None
  /\ request[n].kind = "author" /\ request[n].status = "answered"
  /\ request' = [request EXCEPT ![n] = None]
  /\ IF request[n].parent = Len(chain)
     THEN \E state \in SetMainChainScripts(
                 TransferTokens([chain[Len(chain)] EXCEPT !.ref = request[n].ref],
                                request[n].amount)) :
            /\ chain' = Append(chain, state)
            /\ at' = [at EXCEPT ![n] = @ + 1]
     ELSE UNCHANGED <<chain, at>>
  /\ UNCHANGED <<mcTip, locked, other, rejected, cache, restarts>>

\* Faulty variant: a block has to carry the inherent.
CheckInherents_Strict(transfer, expected) ==
  transfer > 0 /\ expected = transfer

\* check_inherent for the block's call and is_inherent_required without one;
\* an amount of zero puts no inherent data.
CheckInherents(transfer, expected) ==
  IF transfer > 0 THEN expected = transfer ELSE expected = 0

\* An importing node compares the block with its own inherent data.
VerifyBlock(n) ==
  /\ request[n] # None
  /\ request[n].kind = "verify" /\ request[n].status = "answered"
  /\ request' = [request EXCEPT ![n] = None]
  /\ IF CheckInherents(chain[at[n] + 1].transfer, request[n].amount)
     THEN at' = [at EXCEPT ![n] = @ + 1] /\ UNCHANGED rejected
     ELSE rejected' = rejected \cup {n} /\ UNCHANGED at
  /\ UNCHANGED <<mcTip, locked, other, chain, cache, restarts>>

\* A node restarts: the cache is lost, and what it was doing.
Restart(n) ==
  /\ restarts < MaxRestarts
  /\ restarts' = restarts + 1
  /\ cache' = [cache EXCEPT ![n] = None]
  /\ request' = [request EXCEPT ![n] = None]
  /\ UNCHANGED <<mcTip, locked, other, chain, at, rejected>>

NodeStep(n) ==
  \/ CreateVerification(n)
  \/ Fetch(n)
  \/ BuildBlock(n)
  \/ VerifyBlock(n)

Next ==
  \/ MainChainBlock
  \/ \E n \in Nodes : CreateProposal(n) \/ NodeStep(n) \/ Restart(n)

Spec == Init /\ [][Next]_vars

\* A node goes on with what it has started, and imports what it is sent.
FairSpec == Spec /\ \A n \in Nodes : WF_vars(NodeStep(n))

-----------------------------------------------------------------------------
(* Properties.                                                             *)

\* The state has its types; nodes are within the chain.
TypeOK ==
  /\ mcTip \in Nat /\ LatestStable \in Nat
  /\ locked \in [0 .. mcTip -> [Scripts -> Nat]]
  /\ other \in [0 .. mcTip -> [Scripts -> Nat]]
  /\ chain \in Seq(States) /\ chain # <<>>
  /\ at \in [Nodes -> 1 .. Len(chain)]
  /\ rejected \subseteq Nodes
  /\ cache \in [Nodes -> Caches \cup {None}]
  /\ request \in [Nodes -> Requests \cup {None}]
  /\ restarts \in Nat

\* Conservation: what the handler was given since genesis is what the main
\* chain locked up to the block the head refers to, neither lost where
\* blocks carry no transfer nor counted twice where the range changes from
\* "everything" to "since the parent" (Initialized); and as long as nothing
\* was handled there was nothing to handle.
HandledIsLocked ==
  \A i \in DOMAIN chain :
    LET state == chain[i]
    IN  /\ state.initialized =>
             /\ state.scripts # None /\ state.ref # None
             /\ state.handled = locked[state.ref][state.scripts]
        /\ ~state.initialized => state.handled = 0
        /\ i > 1 /\ ~state.initialized /\ chain[i - 1].scripts # None =>
             locked[state.ref][state.scripts] = 0

\* All nodes agree about every block, whatever their caches hold: a fresh
\* one, one filled on another fork of calls, or none after a restart.
VerifiersAgree == rejected = {}

\* Cache: "Continous blocks with their respective total native token transfer
\* amount".  The rows are of stable blocks and of the token in use, so that
\* an answer from the cache is the answer the database gives.
CacheIsCurrent ==
  \A n \in Nodes : cache[n] # None =>
    /\ cache[n].from <= cache[n].to
    /\ cache[n].to <= LatestStable
    /\ cache[n].scripts = chain[Len(chain)].scripts

\* A block that some node has built is imported by every node in the end.
EveryoneCatchesUp ==
  \A n \in Nodes : \A i \in 1 .. MaxBlocks : (Len(chain) >= i) ~> (at[n] >= i)

\* NativeTokenManagementDataSource promises the "total of native token
\* transfers into the illiquid supply in the range (after_block, to_block]".
TransfersAreOfTheRange ==
  \A i \in 2 .. Len(chain) :
    LET parent == chain[i - 1]
        state == chain[i]
    IN  parent.initialized =>
          state.transfer = locked[state.ref][parent.scripts] - locked[parent.ref][parent.scripts]

\* NativeTokenManagementApi says of initialized(): "Gets current initializaion
\* status and set it to `true` afterwards".
QueriedOnce ==
  \A i \in 2 .. Len(chain) : chain[i - 1].scripts # None => chain[i].initialized

=============================================================================
