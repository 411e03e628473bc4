--------------------------------- MODULE Rrsc ---------------------------------
(* A node of the chain following RRSC epochs (crates/rrsc/src): it verifies    *)
(* headers under the epoch its tree of epoch changes gives, imports blocks and *)
(* records the epochs they announce, while blocks are finalized, the node is   *)
(* restarted, an import fails, or the node starts from a downloaded state.     *)
(* The blocks are those honest authors built, on any fork, with any slots      *)
(* skipped; each carries the runtime's storage after it (RrscRuntime).         *)
(*                                                                             *)
(* The tree is a set of entries [at, epoch]: the epoch that the block at       *)
(* announces; block 1 announces both epoch 0 and epoch 1.  Block 0 is genesis. *)
(* What sc_consensus_epochs does with the tree is modelled from its use here.  *)
EXTENDS RrscRuntime, FiniteSets

CONSTANTS
    Slots,              \* slots of the blocks, from 1
    AuthoritySets,      \* what the session pallet may queue
    Configs,            \* configurations a root call may plan
    MaxBlocks           \* bound on the blocks built, genesis excluded

VARIABLES
    blocks,         \* sequence of the blocks built, a block is its index
    imported,       \* blocks in the node's database, genesis included
    verified,       \* verified block -> its epoch descriptor (intermediate)
    epoch_changes,  \* the tree in memory
    aux,            \* the tree on disk
    weight,         \* block -> its weight on disk
    best, finalized \* heads of the node

vars == <<blocks, imported, verified, epoch_changes, aux, weight, best, finalized>>

Built == 1 .. Len(blocks)
Number(b) == IF b = 0 THEN 0 ELSE blocks[b].number
SlotOf(b) == IF b = 0 THEN 0 ELSE blocks[b].slot
StateOf(b) == IF b = 0 THEN GenesisState ELSE blocks[b].rt
(* b, its parent and so on to genesis. *)
Chain(b) == IF b = 0 THEN {0} ELSE blocks[b].chain
Descends(b, a) == a \in Chain(b)

-----------------------------------------------------------------------------
(* Epochs as the node sees them.                                               *)

genesis(slot) ==
    [ index |-> 0, start |-> slot, auth |-> GenesisAuthorities, rand |-> <<>>,
      conf |-> GenesisConfig ]

(* Where the descriptor of epoch 0 is, before block 1 is imported. *)
UnimportedGenesis == -1

end_slot(epoch) == epoch.start + EpochDuration

clone_for_slot(epoch, slot) ==
    LET skipped == saturating_sub(slot, epoch.start) \div EpochDuration
    IN  [epoch EXCEPT !.index = @ + skipped,
                      !.start = @ + skipped * EpochDuration]

(* The epoch for a slot that may lie past its end. *)
AtSlot(epoch, slot) ==
    IF end_slot(epoch) <= slot THEN clone_for_slot(epoch, slot) ELSE epoch

increment(epoch, next, config) ==
    [ index |-> epoch.index + 1, start |-> end_slot(epoch),
      auth |-> next.auth, rand |-> next.rand,
      conf |-> IF config = None THEN epoch.conf ELSE config ]

(* The deepest entry on the parent's chain that has started, in a set of at    *)
(* most one; a child of genesis starts epoch 0.                                *)
epoch_descriptor_for_child_of(tree, parent, slot) ==
    IF parent = 0 THEN {[at |-> UnimportedGenesis, epoch |-> genesis(slot)]}
    ELSE LET started == {e \in tree : Descends(parent, e.at) /\ e.epoch.start <= slot}
             Deeper(e, f) == \/ Number(e.at) > Number(f.at)
                             \/ Number(e.at) = Number(f.at) /\ e.epoch.start >= f.epoch.start
         IN  {e \in started : \A f \in started : Deeper(e, f)}

viable_epoch(tree, descriptor) == descriptor.at = UnimportedGenesis \/ descriptor \in tree

(* Mutant: the tree is rooted one epoch too far, at the finalized block itself. *)
prune_finalized_at_head(tree, head) ==
    {e \in tree : Descends(e.at, head)}
(* Re-root the tree at the deepest entry above the finalized block that has    *)
(* started by its slot, and forget the other forks.                            *)
prune_finalized(tree, head) ==
    LET above == {e \in tree : e.at # head /\ Descends(head, e.at)
                               /\ e.epoch.start <= SlotOf(head)
                               /\ \A f \in tree : f.at = e.at =>
                                                    f.epoch.start <= SlotOf(head)}
        roots == {e \in above : \A f \in above : Number(f.at) <= Number(e.at)}
    IN  {e \in tree : \A r \in roots :
            Descends(e.at, r.at) /\ (Descends(head, e.at) \/ Descends(e.at, head))}

(* The tree with what block b announces; its epoch is descriptor's.  A skipped *)
(* epoch only moves a copy: other forks may still use the original.            *)
Announced(b, descriptor) ==
    LET current == AtSlot(descriptor.epoch, b.slot)
        next == [at |-> b.id, epoch |-> increment(current, b.next, b.config)]
    IN  IF b.next = None THEN {}
        ELSE IF descriptor.at = UnimportedGenesis THEN {[at |-> b.id, epoch |-> current], next}
        ELSE {next}

-----------------------------------------------------------------------------
(* Claims.                                                                     *)

secondary_slot_author(authorities, randomness, slot) ==
    LET rand == slot + (IF randomness = <<>> THEN 0 ELSE randomness[2])
    IN  authorities[1 + (rand % Len(authorities))]

SecondaryKind(config) ==
    CASE config = "PrimarySlots" -> {}
      [] config = "PrimaryAndSecondaryPlainSlots" -> {"SecondaryPlain"}
      [] config = "PrimaryAndSecondaryVRFSlots" -> {"SecondaryVRF"}

(* The pre-digests that the authorities of an epoch can make for a slot; a     *)
(* primary claim is open to every one of them, as the VRF decides.             *)
claim_slot(epoch, slot) ==
    LET vrf == make_vrf_transcript(epoch.rand, slot, AtSlot(epoch, slot).index)
        secondary == secondary_slot_author(epoch.auth, epoch.rand, slot)
        IndexOf(a) == CHOOSE i \in DOMAIN epoch.auth : epoch.auth[i] = a
    IN  { [kind |-> "Primary", index |-> i, author |-> epoch.auth[i], vrf |-> vrf]
            : i \in DOMAIN epoch.auth }
        \cup
        { [kind |-> kind, index |-> IndexOf(secondary), author |-> secondary,
           vrf |-> IF kind = "SecondaryVRF" THEN vrf ELSE None]
            : kind \in SecondaryKind(epoch.conf) }

(* The header is accepted under an epoch: signed by the authority at the index *)
(* and, by kind, with the transcript and the author expected.                  *)
check_header(pre, slot, epoch) ==
    /\ pre.index \in DOMAIN epoch.auth
    /\ epoch.auth[pre.index] = pre.author
    /\ pre.kind # "Primary" => pre.kind \in SecondaryKind(epoch.conf)
    /\ pre.kind # "Primary" =>
         pre.author = secondary_slot_author(epoch.auth, epoch.rand, slot)
    /\ pre.vrf # None =>
         pre.vrf = make_vrf_transcript(epoch.rand, slot, AtSlot(epoch, slot).index)

added_weight(b) == IF blocks[b].pre.kind = "Primary" THEN 1 ELSE 0

-----------------------------------------------------------------------------
Init ==
    /\ blocks = <<>>
    /\ imported = {0}
    /\ verified = <<>>
    /\ epoch_changes = {} /\ aux = {}
    /\ weight = <<>>
    /\ best = 0 /\ finalized = 0

(* An author that imported its chain and nothing else claims a slot and builds *)
(* on a parent.                                                                *)
Author(parent, slot, queued, config) ==
    LET b == Len(blocks) + 1
        known == IF parent = 0 THEN {} ELSE blocks[parent].known
    IN  /\ Len(blocks) < MaxBlocks
        /\ slot > SlotOf(parent)
        /\ \E d \in epoch_descriptor_for_child_of(known, parent, slot) :
           \E pre \in claim_slot(d.epoch, slot) :
             LET done == Execute(StateOf(parent), slot, pre.kind, pre.author, queued, config)
                 made == [ id |-> b, parent |-> parent, number |-> Number(parent) + 1,
                           slot |-> slot, chain |-> Chain(parent) \cup {b}, pre |-> pre,
                           rt |-> done.rt, next |-> done.next, config |-> done.config ]
             IN  /\ ~should_epoch_change(initialize(StateOf(parent), slot))
                        => queued = StateOf(parent).nextAuth
                 /\ blocks' = Append(blocks, made @@ [known |-> known \cup Announced(made, d)])
        /\ UNCHANGED <<imported, verified, epoch_changes, aux, weight, best, finalized>>

(* RRSCVerifier::verify. *)
Verify(b) ==
    /\ b \notin imported /\ b \notin DOMAIN verified
    /\ blocks[b].parent \in imported
    /\ \E d \in epoch_descriptor_for_child_of(epoch_changes, blocks[b].parent, SlotOf(b)) :
         /\ viable_epoch(epoch_changes, d)
         /\ check_header(blocks[b].pre, SlotOf(b), d.epoch)
         /\ verified' = verified @@ (b :> d)
    /\ UNCHANGED <<blocks, imported, epoch_changes, aux, weight, best, finalized>>

(* The checks of import_block. *)
Importable(b, descriptor) ==
    LET parent == blocks[b].parent
        first_in_epoch == SlotOf(parent) < descriptor.epoch.start
    IN  /\ SlotOf(b) > SlotOf(parent)
        /\ parent = 0 \/ parent \in DOMAIN weight
        /\ first_in_epoch <=> blocks[b].next # None
        /\ blocks[b].config # None => first_in_epoch
        /\ blocks[b].next # None => viable_epoch(epoch_changes, descriptor)
        /\ best = parent \/ best \in DOMAIN weight

(* RRSCBlockImport::import_block, the inner import having succeeded. *)
ImportBlock(b) ==
    LET parent == blocks[b].parent
        total == (IF parent = 0 THEN 0 ELSE weight[parent]) + added_weight(b)
        best_weight == IF best = 0 THEN 0 ELSE weight[best]
        tree == IF blocks[b].next = None THEN epoch_changes
                ELSE prune_finalized(epoch_changes, finalized)
                        \cup Announced(blocks[b], verified[b])
    IN  /\ b \in DOMAIN verified /\ parent \in imported
        /\ Importable(b, verified[b])
        /\ imported' = imported \cup {b}
        /\ verified' = Restrict(verified, DOMAIN verified \ {b})
        /\ epoch_changes' = tree
        /\ aux' = IF blocks[b].next = None THEN aux ELSE tree
        /\ weight' = (b :> total) @@ weight
        /\ best' = IF \/ total > best_weight
                      \/ total = best_weight /\ Number(b) > Number(best)
                   THEN b ELSE best
        /\ UNCHANGED <<blocks, finalized>>

(* The inner import fails: the tree is put back, nothing reaches the disk. *)
ImportFails(b) ==
    /\ b \in DOMAIN verified
    /\ verified' = Restrict(verified, DOMAIN verified \ {b})
    /\ UNCHANGED <<blocks, imported, epoch_changes, aux, weight, best, finalized>>

(* Weights that finalizing head deletes: its ancestors' and stale forks'. *)
aux_storage_cleanup(head) ==
    {b \in DOMAIN weight : head \in imported /\ ~Descends(b, head)}

(* A block is finalized; a best block on another fork is given up for it. *)
Finalize(head) ==
    /\ head \in imported /\ head # finalized /\ Descends(head, finalized)
    /\ finalized' = head
    /\ best' = IF Descends(best, head) THEN best ELSE head
    /\ weight' = Restrict(weight, DOMAIN weight \ aux_storage_cleanup(head))
    /\ UNCHANGED <<blocks, imported, verified, epoch_changes, aux>>

(* The node stops and starts again: block_import loads the tree and prunes it. *)
Restart ==
    /\ epoch_changes' = prune_finalized(aux, finalized)
    /\ verified' = <<>>
    /\ UNCHANGED <<blocks, imported, aux, weight, best, finalized>>

(* import_state: a node with nothing but genesis imports a finalized block     *)
(* with its state and reads the two epochs from it.                            *)
ImportState(b) ==
    LET tree == { [at |-> blocks[b].parent, epoch |-> current_epoch(StateOf(b))],
                  [at |-> b, epoch |-> next_epoch(StateOf(b))] }
    IN  /\ imported = {0}
        /\ imported' = {0, b}
        /\ weight' = b :> 0
        /\ epoch_changes' = tree /\ aux' = tree
        /\ best' = b /\ finalized' = b
        /\ verified' = <<>>
        /\ UNCHANGED blocks

Network ==
    \E parent \in {0} \cup Built, slot \in Slots, queued \in AuthoritySets,
       config \in Configs \cup {None} : Author(parent, slot, queued, config)

Node ==
    \/ \E b \in Built : \/ Verify(b) \/ ImportBlock(b) \/ ImportFails(b)
                        \/ Finalize(b) \/ ImportState(b)
    \/ Restart

Next == Network \/ Node

Spec == Init /\ [][Next]_vars

-----------------------------------------------------------------------------
(* The block built last; blocks never change, so what each satisfies when it   *)
(* is built it satisfies for ever.                                             *)
Newest == {b \in Built : b = Len(blocks)}

(* What the debug assertion of on_finalize (pallet/src/lib.rs:379) says: the   *)
(* claim an author made from the epochs announced to it verifies under the     *)
(* authorities, randomness, epoch index and configuration of the runtime, on   *)
(* every fork and however many epochs were skipped.                            *)
RuntimeVerifies ==
    \A b \in Newest : check_header(blocks[b].pre, SlotOf(b), current_epoch(StateOf(b)))

(* A block built on a block that the node has and that finality has not left   *)
(* behind is never refused: its header verifies under the node's tree, and a   *)
(* verified one meets every check of import_block (lib.rs:1459-1545), the      *)
(* epoch descriptor taken at verification included, whatever was pruned,       *)
(* restarted or imported from a state since.                                   *)
HonestBlocksAccepted ==
    \A b \in Built :
        LET parent == blocks[b].parent
        IN  (b \notin imported /\ parent \in imported /\ Descends(parent, finalized)) =>
                /\ \E d \in epoch_descriptor_for_child_of(epoch_changes, parent, SlotOf(b)) :
                      check_header(blocks[b].pre, SlotOf(b), d.epoch)
                /\ b \in DOMAIN verified => Importable(b, verified[b])

(* A report of an equivocation is accepted with the key ownership proof of the *)
(* session its slot was in, and of no other: session_index_for_epoch           *)
(* (pallet/src/lib.rs:862) is exact on a chain that skips epochs, for every    *)
(* epoch that existed since the oldest skip still noted.                       *)
EvidenceOfItsSession ==
    \A b \in Newest : \A a \in Chain(b) \ {0} :
        LET rt == StateOf(b)
        IN  (Len(rt.skipped) < MaxSkipped \/ StateOf(a).index >= rt.skipped[1].epoch) =>
                \A session \in 0 .. rt.session + 1 :
                    process_evidence(rt, SlotOf(a), session) <=> session = StateOf(a).session

=============================================================================
