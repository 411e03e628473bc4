----------------------------- MODULE MCMasterKey -----------------------------
(***************************************************************************)
(* The master key among three workers.  The first block registers w1, w2   *)
(* and mostly w3; later w3 joins with a fast sync only.  w1 is asked to    *)
(* launch the key.  One thing goes wrong or is changed by governance: w1   *)
(* or w2 is restarted while w3 is away, w2 or w3 exits, the first holder   *)
(* is changed to w2, or w3 makes its fast sync.  Enclaves stay near the    *)
(* tip of the chain: w1 falls behind by up to MaxLag blocks, the others by *)
(* one less.                                                               *)
(***************************************************************************)
EXTENDS MasterKey

CONSTANTS w1, w2, w3, MaxLag

Lag(w) == IF enclave[w].dead THEN 0 ELSE Len(blocks) - enclave[w].synced

Scenario ==
    /\ \A w \in workers' \ workers :
          IF blocks = <<>> THEN w = w1 \/ w1 \in workers
          ELSE enclave[w].genesis_block /= 0
    /\ blocks' /= blocks =>
          /\ {w1, w2} \subseteq workers \/ blocks /= <<>>
          /\ \A w \in Worker : Lag(w) < MaxLag - (IF w = w1 THEN 0 ELSE 1)
    /\ holder = NoWorker /\ holder' /= NoWorker => holder' = w1
    /\ applySent'[w3] => applySent[w2] \/ enclave[w2].keyfairy /= 0
    /\ crashes' = 0 \/ w3 \notin workers'
    /\ holder' = w3 => holder = w3
    /\ enclave[w2].genesis_block = enclave'[w2].genesis_block
    /\ crashes' + governed' <= 1
==============================================================================
