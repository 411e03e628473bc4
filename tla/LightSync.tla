------------------------------ MODULE LightSync ------------------------------
(***************************************************************************)
(* Feeding the chain to an enclave.  The relayer (cifrost) reads finalised *)
(* blocks, sends their headers in batches that end with a justification    *)
(* and never reach over a change of the GRANDPA authority set, and then    *)
(* the storage changes of the blocks.  The enclave (cestory) follows the   *)
(* authority set through the headers, queues the state roots they carry,   *)
(* and applies a block's changes only if they yield the queued root.       *)
(*                                                                         *)
(* A state root is the number of the block it belongs to, an authority set *)
(* is its id.  Safe mode (drop_proofs) is left out.                        *)
(***************************************************************************)
EXTENDS Integers, Sequences, FiniteSets

CONSTANTS FetchBlocks,   \* args.fetch_blocks
          MaxRetries,    \* args.max_restart_retries, with --auto-restart
          MaxHeight,     \* bound on the finalised blocks
          MaxChange,     \* bound on the changes of the authority set
          MaxFault,      \* bound on failing calls of the relayer
          MaxCrash       \* bound on restarts of the enclave

ASSUME BatchAssumption == FetchBlocks \in Nat \ {0}
ASSUME BoundsAssumption ==
    {MaxRetries, MaxHeight, MaxChange, MaxFault, MaxCrash} \subseteq Nat

VARIABLES chain,     \* the finalised blocks after genesis
          enclave,   \* the synchroniser and the storage of the enclave
          saved,     \* the states it may be restored to
          relayer,   \* the bridge loop
          fast,      \* args.fast_sync
          faults, crashes

syncVars == <<chain, enclave, saved, relayer, fast, faults, crashes>>

\* The root of a state that is on no finalised block.
Orphan == MaxHeight + 2

\* An enclave before init_runtime, and after it.
Fresh == [init |-> FALSE, can_load |-> TRUE, header_number_next |-> 0,
          block_number_next |-> 0, set |-> 0, last |-> 0, roots |-> <<>>,
          validated |-> FALSE, root |-> 0]

Genesis == [Fresh EXCEPT !.init = TRUE, !.block_number_next = 1]

NoSet == <<>>

\* The bridge when it starts: an empty buffer lo..hi and no set state.
Bridge(fails) == [pc |-> "start", lo |-> 1, hi |-> 0, set |-> NoSet,
                  headernum |-> 0, blocknum |-> 0, to |-> 0, more |-> FALSE,
                  synced |-> FALSE, fails |-> fails, stuck |-> FALSE]

Init_sync == /\ chain = <<>>
             /\ enclave = Fresh /\ saved = {Fresh}
             /\ relayer = Bridge(0)
             /\ fast \in BOOLEAN
             /\ faults = 0 /\ crashes = 0

Max2(i, j) == IF i > j THEN i ELSE j
Min2(i, j) == IF i < j THEN i ELSE j
Least(S) == CHOOSE n \in S : \A k \in S : n <= k
Greatest(S) == CHOOSE n \in S : \A k \in S : n >= k

------------------------------------------------------------------------------
(* The chain.                                                              *)

Change(n) == n > 0 /\ chain[n].change
Justified(n) == n > 0 /\ chain[n].justified

\* CurrentSetId in the state of block n: it is new in the block that
\* announces the change.  That block is still finalised by the old set.
SetId(n) == Cardinality({k \in 1..n : Change(k)})
Signers(n) == SetId(n - 1)

\* Each change is justified; other blocks are or are not.
Finalize(change, justified) ==
    /\ Len(chain) < MaxHeight
    /\ change => justified /\ SetId(Len(chain)) < MaxChange
    /\ chain' = Append(chain, [change |-> change, justified |-> justified])
    /\ UNCHANGED <<enclave, saved, relayer, fast, faults, crashes>>

------------------------------------------------------------------------------
(* The enclave.  A call yields its answer and the state after it.          *)

Ok(e, n) == [ok |-> TRUE, e |-> e, n |-> n]
Err(e) == [ok |-> FALSE, e |-> e, n |-> 0]

\* verify_ancestry: the headers lo..hi lead back to the last finalised one.
verify_ancestry(e, lo, hi) == hi > e.last /\ lo <= e.last + 1

\* Mutant: the signatures are not checked.
verify_any(e, n) == TRUE

\* decode_and_verify_finalizes, of a justification of block n.
verify_with_voter_set(e, n) == Signers(n) = e.set

submit_finalized_headers(e, lo, hi) ==
    IF verify_ancestry(e, lo, hi) /\ verify_with_voter_set(e, hi)
    THEN Ok([e EXCEPT !.set = IF Change(hi) THEN @ + 1 ELSE @,
                      !.last = hi], hi)
    ELSE Err(e)

\* The roots of lo..hi, in order.
Roots(lo, hi) == [i \in 1..(hi + 1 - lo) |-> lo + i - 1]

\* state_roots takes the roots from the block before the next one on.
saved_roots(e, lo, hi) == Roots(Max2(lo, e.block_number_next - 1), hi)

sync_header(enc, from, hi) ==
    LET e == [enc EXCEPT !.can_load = FALSE]
        lo == Max2(from, e.header_number_next)
        r == submit_finalized_headers(e, lo, hi)
    IN  IF e.init /\ lo > hi THEN Ok(e, e.header_number_next - 1)
        ELSE IF e.init /\ lo = e.header_number_next /\ Justified(hi) /\ r.ok
        THEN Ok([r.e EXCEPT !.roots = @ \o saved_roots(e, lo, hi),
                            !.header_number_next = hi + 1], hi)
        ELSE Err(e)

\* calc_root_if_changes: the changes of block n on another state than that
\* of the block before yield no root of the chain.
calc_root(root, n) == IF root = n - 1 THEN n ELSE Orphan

\* The first block is preceded by a check of the state it starts from; the
\* check stays done if the block is then refused.
feed_block(e, n) ==
    LET d == IF e.validated THEN e
             ELSE [e EXCEPT !.roots = Tail(@), !.validated = TRUE]
        root == calc_root(d.root, n)
    IN  IF \/ n /= e.block_number_next \/ e.roots = <<>>
           \/ ~e.validated /\ e.root /= Head(e.roots)
        THEN Err(e)
        ELSE IF d.roots = <<>> \/ root /= Head(d.roots) THEN Err(d)
        ELSE Ok([d EXCEPT !.block_number_next = n + 1,
                          !.root = root, !.roots = Tail(@)], n)

\* One block of a request; the ones before a failing one stay applied.
dispatch_blocks(e, n) ==
    IF ~e.init THEN Err(e)
    ELSE IF n < e.block_number_next THEN Ok(e, n)
    ELSE feed_block(e, n)

\* load_chain_state with assume_at_block: a state of block n with this root.
load_chain_state(e, n, root) ==
    IF ~e.can_load \/ n = 0 \/ ~e.init
       \/ e.block_number_next > 1 \/ e.header_number_next > 0
    THEN Err(e)
    ELSE Ok([e EXCEPT !.block_number_next = n + 1, !.root = root,
                      !.can_load = FALSE], n)

\* maybe_take_checkpoint after a block; which one is restored is chosen then.
Checkpoints(e) ==
    IF crashes < MaxCrash /\ e.init /\ e.block_number_next > 1
       /\ e.validated
    THEN saved \union {e} ELSE saved

\* run_ceseal_server: restored or new, a state may be loaded again as long
\* as there is no sealed master key.
Restart ==
    /\ crashes < MaxCrash /\ crashes' = crashes + 1
    /\ \E e \in saved : enclave' = [e EXCEPT !.can_load = TRUE]
    /\ UNCHANGED <<chain, saved, relayer, fast, faults>>

------------------------------------------------------------------------------
(* The relayer: run, bridge, batch_sync_block.                             *)

\* Two ways to be stuck, both of --fast-sync: the loaded state is of a
\* block that was never finalised; the enclave was restored with blocks
\* applied and refuses to load a state, which bridge() does first thing.
Orphaned == enclave.root = Orphan
Refused == /\ fast /\ enclave.can_load
           /\ enclave.block_number_next > 1 \/ enclave.header_number_next > 0

\* bridge() ends with an error.  The field stuck is history: one of the
\* failures since the bridge was idle is of a stuck enclave.
Failed == relayer' = [Bridge(relayer.fails) EXCEPT
                         !.pc = "failed",
                         !.stuck = relayer.stuck \/ Orphaned \/ Refused]

\* A call fails before it reaches the enclave or the node; if only the
\* answer is lost the next call fails instead.
Fault ==
    /\ faults < MaxFault /\ faults' = faults + 1
    /\ relayer.pc \in {"start", "loop", "blocks", "headers"}
    /\ Failed
    /\ UNCHANGED <<chain, enclave, saved, fast, crashes>>

\* run(): the bridge is started anew, or the process gives up.
run ==
    /\ relayer.pc = "failed"
    /\ relayer' = IF relayer.fails > MaxRetries
                  THEN [relayer EXCEPT !.pc = "exited"]
                  ELSE [Bridge(relayer.fails + 1) EXCEPT
                           !.stuck = relayer.stuck]
    /\ UNCHANGED <<chain, enclave, saved, fast, faults, crashes>>

\* The state that --fast-sync loads is that of the node's best block or of
\* an earlier one, not the genesis.  The best block need not be finalised,
\* nor ever be.
Loadable == {<<n, n>> : n \in 1..(Len(chain) + 1)}
            \union {<<Len(chain) + 1, Orphan>>}

\* init_runtime if need be, then try_load_chain_state.
start ==
    /\ relayer.pc = "start"
    /\ LET e == IF enclave.init THEN enclave
                ELSE [Genesis EXCEPT !.can_load = enclave.can_load]
       IN  IF fast /\ e.can_load
           THEN \E s \in Loadable :
                   LET r == load_chain_state(e, s[1], s[2])
                   IN  /\ enclave' = r.e
                       /\ IF r.ok THEN relayer' = [relayer EXCEPT !.pc = "loop"]
                          ELSE Failed
           ELSE /\ enclave' = e
                /\ relayer' = [relayer EXCEPT !.pc = "loop"]
    /\ UNCHANGED <<chain, saved, fast, faults, crashes>>

\* batch_sync_block returns, and its counters are gone.  The idle bridge
\* resets the count of failures.
Loop(r) == [Bridge(r.fails) EXCEPT !.pc = "loop", !.lo = r.lo, !.hi = r.hi,
                                   !.set = r.set, !.stuck = r.stuck]
Idle(r) == [Loop(r) EXCEPT !.fails = 0, !.stuck = FALSE]

\* What stays in the buffer when the blocks below the enclave's next
\* header are removed.
Buffered(r, headernum) == {n \in r.lo..r.hi : n >= headernum}

\* Mutant: the buffer is read anew each time.
first_block(r, headernum) == headernum

next_block(r, headernum) ==
    IF Buffered(r, headernum) = {} THEN headernum ELSE r.hi + 1

\* The top of the loop: get_info, and up to FetchBlocks more blocks are read.
fetch ==
    /\ relayer.pc = "loop"
    /\ LET headernum == enclave.header_number_next
           next == next_block(relayer, headernum)
           limit == next + FetchBlocks - 1
           buffer == Buffered(relayer, headernum)
                     \union next..Min2(limit, Len(chain))
           r == [relayer EXCEPT
                   !.lo = IF buffer = {} THEN 1 ELSE Least(buffer),
                   !.hi = IF buffer = {} THEN 0 ELSE Greatest(buffer),
                   !.more = limit < Len(chain),
                   !.headernum = headernum,
                   !.blocknum = enclave.block_number_next,
                   !.to = Max2(headernum, 1) - 1,
                   !.pc = "blocks"]
       IN  relayer' = IF buffer = {} THEN Idle(r) ELSE r
    /\ UNCHANGED <<chain, enclave, saved, fast, faults, crashes>>

\* sync_blocks_to: the storage changes up to relayer.to.  They go out in
\* requests of several blocks, which the enclave works off one by one.
sync_blocks ==
    /\ relayer.pc = "blocks"
    /\ IF relayer.blocknum > relayer.to
       THEN /\ relayer' = [relayer EXCEPT !.pc = "headers"]
            /\ UNCHANGED <<enclave, saved>>
       ELSE LET r == dispatch_blocks(enclave, relayer.blocknum)
            IN  /\ enclave' = r.e
                /\ saved' = Checkpoints(r.e)
                /\ IF r.ok THEN relayer' = [relayer EXCEPT !.blocknum = @ + 1,
                                                           !.synced = TRUE]
                   ELSE Failed
    /\ UNCHANGED <<chain, fast, faults, crashes>>

\* The set the relayer believes in: what it noted, or that of the block
\* before the buffer.
last_set(r) == IF r.set /= NoSet THEN r.set
               ELSE LET n == Max2(r.lo, 1) - 1 IN <<n, SetId(n)>>

\* Mutant: the batches are cut at no change.
no_change(r) == {}

\* bisec_setid_change: the justified blocks of the buffer beyond the noted
\* one in whose state the set id is another one.  The first is the change.
bisec_setid_change(r) ==
    {n \in r.lo..r.hi : /\ n > last_set(r)[1] /\ Justified(n)
                        /\ SetId(n) /= last_set(r)[2]}

\* A batch ends with the change, or with the last justified block; then the
\* headers go to the enclave and blocks are synced up to its answer.
sync_headers ==
    /\ relayer.pc = "headers"
    /\ LET r == relayer
           changes == bisec_setid_change(r)
           end == IF changes = {} THEN r.hi ELSE Least(changes)
           ends == {n \in r.lo..end : Justified(n)}
           last == Greatest(ends)
           s == sync_header(enclave, Max2(r.lo, r.headernum), last)
       IN  IF r.lo > r.hi \/ ends = {}
           THEN /\ relayer' = IF r.synced \/ r.more
                              THEN Loop(r) ELSE Idle(r)
                /\ UNCHANGED enclave
           ELSE /\ enclave' = s.e
                /\ IF s.ok
                   THEN relayer' = [r EXCEPT
                           !.pc = "blocks", !.lo = last + 1,
                           !.headernum = s.n + 1, !.to = s.n,
                           !.set = IF changes = {}
                                   THEN <<r.hi, last_set(r)[2]>>
                                   ELSE <<end + 1, last_set(r)[2] + 1>>]
                   ELSE Failed
    /\ UNCHANGED <<chain, saved, fast, faults, crashes>>

Relay == run \/ start \/ fetch \/ sync_blocks \/ sync_headers

Next_sync == \/ \E c, j \in BOOLEAN : Finalize(c, j)
             \/ Relay \/ Fault \/ Restart

\* The relayer runs on; nothing makes the chain grow, a call fail or the
\* enclave stop.
Spec_sync == Init_sync /\ [][Next_sync]_syncVars /\ WF_syncVars(Relay)

------------------------------------------------------------------------------
(* Properties.                                                             *)

\* The authority set of the enclave is the one that signs the block after
\* its last header: no batch it accepts reaches over a change.  Once a block
\* was applied the storage is that of the finalised block before the next
\* one, also after a fast sync from a block that was not finalised at the
\* time; sync_header and feed_block work on the two ends of the queue of
\* state roots with separate counters, which a fast sync sets apart.
FollowsChain ==
    /\ enclave.set = SetId(enclave.last)
    /\ enclave.validated => enclave.root = enclave.block_number_next - 1

\* The relayer gives up only on a stuck enclave: all else is mended by
\* starting the bridge anew within MaxRetries attempts.
GivesUpOnlyStuck == relayer.pc = "exited" => relayer.stuck

\* The relayer has nothing to send before the chain grows: it has no block
\* to buffer, and batch_sync_block returns at once even if blocks are not
\* applied whose headers went through; or the enclave was restored to a
\* state behind the buffer, which the relayer notices with the next
\* justified block only.
WaitsForBlock ==
    \/ enclave.header_number_next > Len(chain)
    \/ /\ enclave.header_number_next < relayer.lo /\ relayer.lo <= relayer.hi
       /\ \A n \in relayer.lo..Len(chain) : ~Justified(n)

\* The enclave applies every block up to the last justified one, whatever
\* calls fail and wherever it is restarted, if the chain goes on.
CatchesUp ==
    []<>(\/ \A n \in DOMAIN chain :
               Justified(n) => n < enclave.block_number_next
         \/ WaitsForBlock
         \/ Orphaned \/ Refused \/ relayer.pc = "exited")
==============================================================================
