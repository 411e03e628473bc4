------------------------------ MODULE RrscRuntime ------------------------------
(* The RRSC pallet as a function of the chain: what executing one block does   *)
(* to the pallet's storage (pallet/src/lib.rs) and what it logs for the nodes. *)
(* A storage state is a record rt; a block is executed by Execute.             *)
(*                                                                             *)
(* Hashes are injective: a randomness is the tuple of what was hashed, a VRF   *)
(* transcript the tuple of its inputs, a VRF output the key and the slot.      *)
(* pallet_session is external: it rotates when the pallet says so, hands over  *)
(* the queued validators and queues new ones (never an empty set).             *)
EXTENDS Integers, Sequences, SequencesExt

CONSTANTS
    EpochDuration,      \* slots of an epoch
    SegmentLength,      \* UNDER_CONSTRUCTION_SEGMENT_LENGTH, 256 in the code
    MaxSkipped,         \* bound of SkippedEpochs, 100 in the code
    MaxSegment,         \* bound on segments, above what the blocks can fill
    GenesisAuthorities, \* authorities of the genesis configuration
    GenesisConfig,      \* epoch configuration of the genesis block
    None                \* the Rust None

ASSUME RuntimeAssumption ==
    /\ EpochDuration \in Nat \ {0} /\ SegmentLength \in Nat \ {0}
    /\ MaxSkipped \in Nat \ {0} /\ MaxSegment \in Nat

saturating_sub(a, b) == IF a > b THEN a - b ELSE 0
epoch_index(slot, genesis) == saturating_sub(slot, genesis) \div EpochDuration
epoch_start_slot(index, genesis) == index * EpochDuration + genesis
make_vrf_transcript(randomness, slot, index) == <<randomness, slot, index>>

GenesisState ==
    [ number |-> 0, genesis |-> 0, slot |-> 0, index |-> 0, session |-> 0,
      auth |-> GenesisAuthorities, nextAuth |-> GenesisAuthorities,
      rand |-> <<>>, nextRand |-> <<>>,
      segment |-> 0, construction |-> [i \in 0 .. MaxSegment |-> <<>>],
      skipped |-> <<>>,
      conf |-> GenesisConfig, nextConf |-> None, pending |-> None ]

-----------------------------------------------------------------------------
(* Epochs.                                                                     *)

current_epoch_start(rt) == epoch_start_slot(rt.index, rt.genesis)

should_epoch_change(rt) ==
    /\ rt.number # 1
    /\ saturating_sub(rt.slot, current_epoch_start(rt)) >= EpochDuration

current_epoch(rt) ==
    [ index |-> rt.index, start |-> current_epoch_start(rt),
      auth |-> rt.auth, rand |-> rt.rand, conf |-> rt.conf ]

next_epoch(rt) ==
    [ index |-> rt.index + 1, start |-> epoch_start_slot(rt.index + 1, rt.genesis),
      auth |-> rt.nextAuth, rand |-> rt.nextRand,
      conf |-> IF rt.nextConf = None THEN rt.conf ELSE rt.nextConf ]

(* The outputs that enter the next randomness: segments 0 .. segment - 1. *)
rho(rt) ==
    LET taken[n \in 0 .. rt.segment] ==
            IF n = 0 THEN <<>> ELSE taken[n - 1] \o rt.construction[n - 1]
    IN  taken[rt.segment]

randomness_change_epoch(rt, next_epoch_index) ==
    [ rt EXCEPT
        !.rand = rt.nextRand,
        !.nextRand = <<rt.nextRand, next_epoch_index, rho(rt)>>,
        !.segment = 0,
        !.construction = [i \in 0 .. MaxSegment |->
                             IF i < rt.segment THEN <<>> ELSE @[i]] ]

(* SkippedEpochs when the session rt.session is the one of epoch index. *)
note_skipped(rt, index) ==
    IF rt.index + 1 = index \/ index < rt.session
    THEN rt.skipped
    ELSE Append(IF Len(rt.skipped) = MaxSkipped THEN Tail(rt.skipped) ELSE rt.skipped,
                [epoch |-> index, session |-> rt.session])

(* Mutant: the pending configuration becomes the one of the new epoch. *)
enact_config_now(rt) ==
    [ rt EXCEPT !.conf = IF rt.pending # None THEN rt.pending
                         ELSE IF rt.nextConf = None THEN @ ELSE rt.nextConf,
                !.nextConf = IF rt.pending = None THEN @ ELSE rt.pending,
                !.pending = None ]
(* The announced configuration takes effect, the pending one is announced. *)
enact_config(rt) ==
    [ rt EXCEPT !.conf = IF rt.nextConf = None THEN @ ELSE rt.nextConf,
                !.nextConf = IF rt.pending = None THEN @ ELSE rt.pending,
                !.pending = None ]

enact_epoch_change(rt, authorities, next_authorities) ==
    LET index == epoch_index(rt.slot, rt.genesis)
        moved == [rt EXCEPT !.skipped = note_skipped(rt, index),
                            !.index = index, !.auth = authorities]
        mixed == [randomness_change_epoch(moved, index + 1)
                    EXCEPT !.nextAuth = next_authorities]
    IN  [ rt |-> enact_config(mixed),
          next |-> [auth |-> next_authorities, rand |-> mixed.nextRand],
          config |-> rt.pending ]

(* pallet_session: the queued validators take over. *)
on_new_session(rt, queued) ==
    enact_epoch_change([rt EXCEPT !.session = @ + 1], rt.nextAuth, queued)

-----------------------------------------------------------------------------
(* One block.                                                                  *)

initialize(rt, slot) ==
    [ rt EXCEPT !.number = @ + 1, !.slot = slot,
                !.genesis = IF @ = 0 THEN slot ELSE @ ]

deposit_randomness(rt, output) ==
    IF Len(rt.construction[rt.segment]) < SegmentLength
    THEN [rt EXCEPT !.construction[rt.segment] = Append(@, output)]
    ELSE [rt EXCEPT !.construction[rt.segment + 1] = <<output>>,
                    !.segment = @ + 1]

plan_config_change(rt, config) ==
    IF config = None THEN rt ELSE [rt EXCEPT !.pending = config]

on_finalize(rt, kind, author) ==
    IF kind = "Primary" THEN deposit_randomness(rt, <<author, rt.slot>>) ELSE rt

(* Whether this block is the first of an epoch; queued is what the session    *)
(* pallet queues if it is, config the configuration a root call plans (or     *)
(* None).                                                                     *)
Execute(rt, slot, kind, author, queued, config) ==
    LET begun == initialize(rt, slot)
        rotated ==
            IF should_epoch_change(begun) THEN on_new_session(begun, queued)
            ELSE [ rt |-> begun, config |-> None,
                   next |-> IF rt.genesis = 0 THEN [auth |-> rt.auth, rand |-> rt.rand]
                            ELSE None ]
    IN  [ rotated EXCEPT
            !.rt = on_finalize(plan_config_change(rotated.rt, config), kind, author) ]

-----------------------------------------------------------------------------
(* Which session an epoch belongs to, for reports of equivocations.            *)

(* Mutant: only an exact match is looked up. *)
session_index_exact_only(rt, epoch) ==
    LET before == {i \in DOMAIN rt.skipped : rt.skipped[i].epoch = epoch}
    IN  IF before = {} THEN epoch
        ELSE rt.skipped[CHOOSE i \in before : TRUE].session
session_index_for_epoch(rt, epoch) ==
    LET before == {i \in DOMAIN rt.skipped : rt.skipped[i].epoch <= epoch}
        last == rt.skipped[CHOOSE i \in before : \A j \in before : j <= i]
    IN  IF before = {} THEN epoch
        ELSE saturating_sub(epoch, last.epoch - last.session)

(* process_evidence: the session of the key ownership proof must be the one    *)
(* of the slot of the two headers.                                             *)
process_evidence(rt, slot, session) ==
    session_index_for_epoch(rt, epoch_index(slot, rt.genesis)) = session
=============================================================================
