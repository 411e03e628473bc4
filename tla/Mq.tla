--------------------------------- MODULE Mq ----------------------------------
(***************************************************************************)
(* One channel of the message queue, end to end: requests reach the        *)
(* enclave in the blocks of the chain, the enclave answers each with a     *)
(* message on its send queue (crates/ces-mq), the relayer (cifrost)        *)
(* submits the queued messages as transactions, and the mq pallet accepts  *)
(* them in sequence and dispatches them.                                   *)
(*                                                                         *)
(* The enclave may stop at any moment and come back from its last          *)
(* checkpoint, from which it works through the blocks again; the relayer   *)
(* may restart; a submission may be lost, and a transaction may expire in  *)
(* the pool.  Nothing but the sequence numbers keeps an answer from being  *)
(* lost or accepted twice.                                                 *)
(***************************************************************************)
EXTENDS SendQueue, FiniteSets, FiniteSetsExt

CONSTANTS MaxMsg,    \* requests the chain makes
          MaxSync,   \* cifrost's max_sync_msgs_per_round
          MaxCrash,  \* restarts of the enclave or of the relayer
          MaxLoss    \* submissions lost and transactions expired

ASSUME BoundsAssumption ==
    /\ MaxMsg \in Nat
    /\ MaxSync \in Nat \ {0}
    /\ MaxCrash \in Nat
    /\ MaxLoss \in Nat

VARIABLES blocks,      \* the finalised blocks: [asks, next]
          asks,        \* OutboundMessages of the block being built
          asked,       \* every request made, in order
          ingress,     \* OffchainIngress of the sender
          dispatched,  \* the answers dispatched on chain, in order
          pool,        \* transactions waiting in the node's pool
          enclave,     \* the enclave: [synced, channel]
          checkpoint,  \* the enclave's checkpoint file
          relay,       \* the relayer's round: [at, batch, min, count]
          crashes, losses

chain == <<blocks, asks, asked, ingress, dispatched>>
vars == <<chain, pool, enclave, checkpoint, relay, crashes, losses>>

Payloads == 1..MaxMsg
Messages == [sequence : 0..(MaxMsg - 1), payload : Payloads]

Genesis == [synced |-> 0, channel |-> EmptyChannel]
Idle == [at |-> "idle", batch |-> <<>>, min |-> 0, count |-> 0]

Init == /\ blocks = <<>> /\ asks = <<>> /\ asked = <<>>
        /\ ingress = 0 /\ dispatched = <<>>
        /\ pool = {}
        /\ enclave = Genesis /\ checkpoint = Genesis
        /\ relay = Idle
        /\ crashes = 0 /\ losses = 0

------------------------------------------------------------------------------
(* The chain.                                                              *)

\* dispatch_message of a pallet's message: it is put into the block's
\* OutboundMessages, where the enclave will find it.
push_message ==
    /\ Len(asked) < MaxMsg
    /\ asks' = Append(asks, Len(asked) + 1)
    /\ asked' = Append(asked, Len(asked) + 1)
    /\ UNCHANGED <<blocks, ingress, dispatched, pool, enclave, checkpoint,
                   relay, crashes, losses>>

\* CheckMqSequence::validate: a transaction with an old number is dropped.
validate(m, next) == m.sequence >= next

\* CheckMqSequence::pre_dispatch and the check in sync_offchain_message.
pre_dispatch(m) == m.sequence = ingress

\* A transaction of the pool is included in the block being built.
sync_offchain_message ==
    \E m \in pool :
        /\ pre_dispatch(m)
        /\ ingress' = m.sequence + 1
        /\ dispatched' = Append(dispatched, m.payload)
        /\ pool' = {x \in pool \ {m} : validate(x, ingress')}
        /\ UNCHANGED <<blocks, asks, asked, enclave, checkpoint, relay,
                       crashes, losses>>

\* The block is finalised, and on_initialize of the next one clears
\* OutboundMessages.  Blocks in which this channel sees nothing are left out.
Tip == IF blocks = <<>> THEN 0 ELSE Last(blocks).next

on_initialize ==
    /\ asks /= <<>> \/ ingress /= Tip
    /\ blocks' = Append(blocks, [asks |-> asks, next |-> ingress])
    /\ asks' = <<>>
    /\ UNCHANGED <<asked, ingress, dispatched, pool, enclave, checkpoint,
                   relay, crashes, losses>>

------------------------------------------------------------------------------
(* The enclave.                                                            *)

\* A block is dispatched: purge_mq, then handle_inbound_messages answers the
\* block's messages one by one.
Answered(ch, b) == FoldLeft(enqueue_message, purge(ch, b.next), b.asks)

dispatch_blocks ==
    /\ enclave.synced < Len(blocks)
    /\ enclave' = [synced |-> enclave.synced + 1,
                   channel |-> Answered(enclave.channel,
                                        blocks[enclave.synced + 1])]
    /\ UNCHANGED <<chain, pool, checkpoint, relay, crashes, losses>>

\* take_checkpoint writes the synchroniser's counters and the send queue.
take_checkpoint ==
    /\ checkpoint /= enclave
    /\ checkpoint' = enclave
    /\ UNCHANGED <<chain, pool, enclave, relay, crashes, losses>>

\* restore_from_checkpoint: the newest checkpoint, or genesis without one.
restore_from_checkpoint == checkpoint

Restart ==
    /\ crashes < MaxCrash
    /\ enclave' = restore_from_checkpoint
    /\ crashes' = crashes + 1
    /\ UNCHANGED <<chain, pool, checkpoint, relay, losses>>

------------------------------------------------------------------------------
(* The relayer.                                                            *)

\* maybe_sync_mq_egress asks the enclave for its messages.  bridge does so
\* when the enclave has reached the tip of the chain.
get_egress_messages ==
    /\ relay.at = "idle"
    /\ enclave.synced = Len(blocks)
    /\ relay' = IF enclave.channel.messages = <<>> THEN Idle
                ELSE [Idle EXCEPT !.at = "fetched",
                                  !.batch = enclave.channel.messages]
    /\ UNCHANGED <<chain, pool, enclave, checkpoint, crashes, losses>>

\* get_mq_seq of the node: the chain's next number, past the transactions
\* that wait for inclusion in an unbroken row.
get_mq_seq == Min({n \in ingress..(ingress + Cardinality(pool)) :
                      \A m \in pool : m.sequence /= n})

mq_next_sequence ==
    /\ relay.at = "fetched"
    /\ relay' = [relay EXCEPT !.at = "submitting", !.min = get_mq_seq]
    /\ UNCHANGED <<chain, pool, enclave, checkpoint, crashes, losses>>

\* The round goes on with the rest of the batch.
Rest(r) == IF Tail(r.batch) = <<>> THEN Idle
           ELSE [r EXCEPT !.batch = Tail(@)]

\* The rest of the round after a message was submitted: it ends after
\* max_sync_msgs_per_round of them.
After(r) == IF r.count + 1 >= MaxSync THEN Idle
            ELSE Rest([r EXCEPT !.count = @ + 1])

\* Messages the chain already has are skipped.
Submitted(r) == r.batch[1].sequence < r.min

Skip ==
    /\ relay.at = "submitting"
    /\ Submitted(relay)
    /\ relay' = Rest(relay)
    /\ UNCHANGED <<chain, pool, enclave, checkpoint, crashes, losses>>

\* author_submit_extrinsic: the pool takes the transaction unless its number
\* is old by now or its tag is taken.
author_submit_extrinsic ==
    /\ relay.at = "submitting"
    /\ ~Submitted(relay)
    /\ LET m == relay.batch[1]
       IN  pool' = IF validate(m, ingress)
                      /\ \A x \in pool : x.sequence /= m.sequence
                   THEN pool \union {m} ELSE pool
    /\ relay' = After(relay)
    /\ UNCHANGED <<chain, enclave, checkpoint, crashes, losses>>

\* The submission times out or fails; the round goes on.
SubmitLost ==
    /\ losses < MaxLoss
    /\ relay.at = "submitting"
    /\ ~Submitted(relay)
    /\ relay' = After(relay)
    /\ losses' = losses + 1
    /\ UNCHANGED <<chain, pool, enclave, checkpoint, crashes>>

\* The longevity of a mortal transaction runs out in the pool.
Expire ==
    /\ losses < MaxLoss
    /\ \E m \in pool : pool' = pool \ {m}
    /\ losses' = losses + 1
    /\ UNCHANGED <<chain, enclave, checkpoint, relay, crashes>>

\* bridge ends with an error and run starts it again.
RelayRestart ==
    /\ crashes < MaxCrash
    /\ relay /= Idle
    /\ relay' = Idle
    /\ crashes' = crashes + 1
    /\ UNCHANGED <<chain, pool, enclave, checkpoint, losses>>

Next == \/ push_message \/ sync_offchain_message \/ on_initialize
        \/ dispatch_blocks \/ take_checkpoint \/ Restart
        \/ get_egress_messages \/ mq_next_sequence \/ Skip \/ author_submit_extrinsic
        \/ SubmitLost \/ Expire \/ RelayRestart

\* Block authors include what the pool offers and finalise blocks, the
\* relayer feeds blocks and polls the queue for as long as it runs.  Nothing
\* is assumed of requests, checkpoints and faults.
Fairness == /\ WF_vars(sync_offchain_message) /\ WF_vars(on_initialize)
            /\ WF_vars(dispatch_blocks)
            /\ WF_vars(get_egress_messages) /\ WF_vars(mq_next_sequence)
            /\ WF_vars(Skip) /\ WF_vars(author_submit_extrinsic)

Spec == Init /\ [][Next]_vars /\ Fairness

------------------------------------------------------------------------------
(* Properties.                                                             *)

\* What an abstract exactly-once, in-order channel promises, eventual
\* hand-over included: the requests are answered on chain one by one, in
\* order, whatever restarts, losses and replays happen on the way.
Channel == INSTANCE Fifo WITH sent <- asked, got <- dispatched
ExactlyOnce == Channel!Spec
==============================================================================
