-------------------------------- MODULE MCRrsc --------------------------------
(* Two scenes.  In "chain" the blocks form one chain, with every slot, claims  *)
(* of both kinds, every queued set and one planned configuration.  In "forks"  *)
(* there are several forks with primary claims, and the node runs.  What the   *)
(* authors build does not depend on the node, so the node starts when they are *)
(* done.  Block 1 has slot 1, and a primary claim is the first authority's.    *)
EXTENDS Rrsc

CONSTANTS k1, k2, ForkBlocks, ForkSlots

VARIABLE scene

MCAuthoritySets == {<<k1>>, <<k1, k2>>}
MCGenesisAuthorities == <<k1, k2>>

mcvars == <<vars, scene>>

MCInit == Init /\ scene \in {"chain", "forks"}

Quiet == imported = {0} /\ verified = <<>>

Unplanned == StateOf(Len(blocks)).pending = None /\ StateOf(Len(blocks)).nextConf = None
FirstAuthority(b) == b.pre.kind = "Primary" => b.pre.index = 1

ChainScene ==
    /\ scene = "chain"
    /\ \E slot \in Slots, queued \in AuthoritySets, config \in Configs \cup {None} :
          /\ Len(blocks) = 0 => slot = 1
          /\ config # None => Unplanned
          /\ Author(Len(blocks), slot, queued, config)
    /\ FirstAuthority(Last(blocks'))

(* The forks are built breadth first. *)
ForkScene ==
    /\ scene = "forks" /\ Quiet /\ Len(blocks) < ForkBlocks
    /\ \E parent \in {0} \cup Built, slot \in ForkSlots, queued \in AuthoritySets :
          /\ Len(blocks) = 0 => slot = 1
          /\ Len(blocks) > 0 => parent >= blocks[Len(blocks)].parent /\ parent # 0
          /\ Author(parent, slot, queued, None)
    /\ Last(blocks').pre.kind = "Primary" /\ FirstAuthority(Last(blocks'))

NodeScene == scene = "forks" /\ Len(blocks) = ForkBlocks /\ Node

MCNext == (ChainScene \/ ForkScene \/ NodeScene) /\ UNCHANGED scene

MCSpec == MCInit /\ [][MCNext]_mcvars
=============================================================================
