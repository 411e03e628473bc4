------------------------------ MODULE MasterKey ------------------------------
(***************************************************************************)
(* Launch and distribution of the master key.  The tee-worker pallet asks  *)
(* one registered worker, the first holder, to make the key; the holder's  *)
(* enclave seals it to disk and reports its public half; every other       *)
(* worker applies for it on chain, and every enclave that already has it   *)
(* (a keyfairy) answers with a share on the Keyfairy channel, which all    *)
(* keyfairies have in common and each numbers for itself.                  *)
(*                                                                         *)
(* The pallets tee-worker and mq, the system module of cestory and the     *)
(* relayer's part in it.  The relayer's round is one step here; module Mq  *)
(* has it in detail.                                                       *)
(***************************************************************************)
EXTENDS SendQueue, FiniteSets, FiniteSetsExt

CONSTANTS Worker,     \* the workers' identity keys
          NoWorker,   \* no first holder
          Keyfairy,   \* the sender that all keyfairies share
          MaxApply,   \* applications for the master key
          MaxCrash,   \* restarts of enclaves
          MaxGov      \* exits, changes of the first holder and fast syncs

ASSUME NamesAssumption == NoWorker \notin Worker /\ Keyfairy \notin Worker
ASSUME BoundsAssumption ==
    MaxApply \in Nat /\ MaxCrash \in Nat /\ MaxGov \in Nat

VARIABLES workers,     \* Workers of tee-worker
          holder,      \* MasterKeyFirstHolder
          master,      \* MasterPubkey, 0 for none
          ingress,     \* OffchainIngress of mq
          outbound,    \* OutboundMessages of the block being built
          blocks,      \* the finalised blocks, each with its final state
          pool,        \* sync_offchain_message transactions in the pool
          enclave,     \* the enclave of each worker
          checkpoint,  \* the states a checkpoint of it may have been taken in
          sealed,      \* its master_key.seal, 0 for none
          applySent,   \* master_key_apply_sent of its relayer
          keys,        \* number of master keys generated
          reused,      \* workers that found a sealed key at the launch
          applies, crashes, governed

chain == <<workers, holder, master, ingress, outbound, blocks>>
worker == <<enclave, checkpoint, sealed, applySent, keys, reused>>
bounds == <<applies, crashes, governed>>
vars == <<chain, pool, worker, bounds>>

Sender == Worker \union {Keyfairy}

\* A System of cestory with its two channels of the send queue.
Genesis == [synced |-> 0, genesis_block |-> 0, registered |-> FALSE,
            keyfairy |-> 0, worker |-> EmptyChannel,
            shares |-> EmptyChannel, dead |-> FALSE]

Init == /\ workers = {} /\ holder = NoWorker /\ master = 0
        /\ ingress = [s \in Sender |-> 0] /\ outbound = <<>> /\ blocks = <<>>
        /\ pool = {}
        /\ enclave = [w \in Worker |-> Genesis]
        /\ checkpoint = [w \in Worker |-> {Genesis}]
        /\ sealed = [w \in Worker |-> 0]
        /\ applySent = [w \in Worker |-> FALSE]
        /\ keys = 0 /\ reused = {}
        /\ applies = 0 /\ crashes = 0 /\ governed = 0

push_message(m) == outbound' = Append(outbound, m)

------------------------------------------------------------------------------
(* The pallet tee-worker.                                                  *)

\* register_worker, register_worker_v2, force_register_worker
register_worker(w) ==
    /\ w \notin workers
    /\ workers' = workers \union {w}
    /\ push_message([type |-> "Registered", worker |-> w])
    /\ UNCHANGED <<holder, master, ingress, blocks, pool, worker, bounds>>

launch_master_key(w) ==
    /\ master = 0 /\ holder = NoWorker
    /\ w \in workers
    /\ holder' = w
    /\ push_message([type |-> "LaunchRequest", worker |-> w])
    /\ UNCHANGED <<workers, master, ingress, blocks, pool, worker, bounds>>

change_first_holder(w) ==
    /\ governed < MaxGov /\ governed' = governed + 1
    /\ holder \notin {NoWorker, w}
    /\ holder' = w
    /\ UNCHANGED <<workers, master, ingress, outbound, blocks, pool, worker,
                   applies, crashes>>

\* execute_exit, from force_clear_tee or for a worker without recent work
\* from clear_mission; the first holder cannot exit.
execute_exit(w) ==
    /\ governed < MaxGov /\ governed' = governed + 1
    /\ w \in workers /\ holder /= w
    /\ workers' = workers \ {w}
    /\ UNCHANGED <<holder, master, ingress, outbound, blocks, pool, worker,
                   applies, crashes>>

\* apply_master_key, sent by the relayer of w when the enclave is at the tip
\* and has no key; the flag lasts until the relayer's process ends.
apply_master_key(w) ==
    /\ applies < MaxApply /\ applies' = applies + 1
    /\ ~enclave[w].dead /\ enclave[w].synced = Len(blocks)
    /\ master /= 0 /\ enclave[w].keyfairy = 0 /\ ~applySent[w]
    /\ w \in workers
    /\ push_message([type |-> "Apply", worker |-> w])
    /\ applySent' = [applySent EXCEPT ![w] = TRUE]
    /\ UNCHANGED <<workers, holder, master, ingress, blocks, pool, enclave,
                   checkpoint, sealed, keys, reused, crashes, governed>>

\* on_message_received for the first holder's MasterPubkey.  Its errors are
\* dropped by dispatch_message.
on_message_received(from, key) ==
    IF from = holder /\ master = 0
    THEN /\ master' = key
         /\ push_message([type |-> "OnChainLaunched", key |-> key])
    ELSE UNCHANGED <<master, outbound>>

------------------------------------------------------------------------------
(* The pallet mq and the pool.                                             *)

\* check_message: a share must be signed with the master key on chain.
check_message(m) == m.from = Keyfairy => master /= 0 /\ m.body.key = master

sync_offchain_message ==
    \E m \in pool :
        /\ m.sequence = ingress[m.from]
        /\ IF check_message(m)
           THEN /\ ingress' = [ingress EXCEPT ![m.from] = @ + 1]
                /\ pool' = {x \in pool : x.sequence >= ingress'[x.from]}
                /\ IF m.from = Keyfairy
                   THEN /\ push_message([type |-> "Distribution",
                                         worker |-> m.body.dest,
                                         key |-> m.body.key])
                        /\ UNCHANGED master
                   ELSE on_message_received(m.from, m.body.key)
           ELSE /\ pool' = pool \ {m}
                /\ UNCHANGED <<ingress, outbound, master>>
        /\ UNCHANGED <<workers, holder, blocks, worker, bounds>>

\* The block is finalised; on_initialize of the next clears OutboundMessages.
State == [workers |-> workers, holder |-> holder, ingress |-> ingress]

Tip == IF blocks = <<>> THEN [workers |-> {}, holder |-> NoWorker,
                              ingress |-> [s \in Sender |-> 0]]
       ELSE Last(blocks).state

on_initialize ==
    /\ outbound /= <<>> \/ State /= Tip
    /\ blocks' = Append(blocks, [msgs |-> outbound, state |-> State])
    /\ outbound' = <<>>
    /\ UNCHANGED <<workers, holder, master, ingress, pool, worker, bounds>>

------------------------------------------------------------------------------
(* The enclave: cestory's system module.  A message is handled on          *)
(* [e: the enclave, file: its sealed key, keys: keys generated, reused].   *)

Panic(s) == [s EXCEPT !.e.dead = TRUE]

init_keyfairy(s, key) == [s EXCEPT !.e.keyfairy = key]

\* A new key is made and sealed.
generate(s) == [init_keyfairy(s, s.keys + 1) EXCEPT !.file = s.keys + 1,
                                                    !.keys = @ + 1]

\* The public half goes out on the worker's own channel.
Report(s) == [s EXCEPT !.e.worker = enqueue_message(@, [key |-> s.keys])]

\* Mutant: a key that was sealed before a restart is not looked for.
LaunchAnew(s, w, m, state) ==
    IF s.e.keyfairy /= 0 \/ s.e.genesis_block /= 0 THEN Panic(s)
    ELSE IF m.worker /= w THEN s
    ELSE IF state.holder /= w THEN Panic(s)
    ELSE Report(generate(s))

\* Mutant: the key is generated and not reported.
LaunchSilent(s, w, m, state) ==
    IF s.e.keyfairy /= 0 \/ s.e.genesis_block /= 0 THEN Panic(s)
    ELSE IF m.worker /= w THEN s
    ELSE IF s.file /= 0 THEN [init_keyfairy(s, s.file) EXCEPT !.reused = TRUE]
    ELSE IF state.holder /= w THEN Panic(s)
    ELSE generate(s)

\* process_master_key_launch_reqeust: a key sealed earlier is taken up again
\* without being reported again.
process_master_key_launch_reqeust(s, w, m, state) ==
    IF s.e.keyfairy /= 0 \/ s.e.genesis_block /= 0 THEN Panic(s)
    ELSE IF m.worker /= w THEN s
    ELSE IF s.file /= 0 THEN [init_keyfairy(s, s.file) EXCEPT !.reused = TRUE]
    ELSE IF state.holder /= w THEN Panic(s)
    ELSE Report(generate(s))

process_master_key_launch_event(s, key) ==
    IF s.e.keyfairy \notin {0, key} THEN Panic(s) ELSE s

process_master_key_distribution(s, w, m) ==
    IF m.worker /= w \/ s.e.keyfairy /= 0 THEN s
    ELSE [init_keyfairy(s, m.key) EXCEPT !.file = m.key]

\* Mutant: only the worker that is first holder now answers.
ShareOfHolder(s, w, m, state) ==
    IF m.worker \notin state.workers \/ s.e.keyfairy = 0 \/ state.holder /= w
    THEN s
    ELSE [s EXCEPT !.e.shares =
             enqueue_message(@, [dest |-> m.worker, key |-> s.e.keyfairy])]

\* process_master_key_apply_event and share_master_key
process_master_key_apply_event(s, w, m, state) ==
    IF m.worker = w \/ m.worker \notin state.workers \/ s.e.keyfairy = 0
    THEN s
    ELSE [s EXCEPT !.e.shares =
             enqueue_message(@, [dest |-> m.worker, key |-> s.e.keyfairy])]

process_worker_event(s, w, m) ==
    [s EXCEPT !.e.registered = @ \/ m.worker = w]

process_next_message(s, w, m, state) ==
    IF s.e.dead THEN s ELSE
    CASE m.type = "Registered" -> process_worker_event(s, w, m)
      [] m.type = "LaunchRequest" ->
            process_master_key_launch_reqeust(s, w, m, state)
      [] m.type = "OnChainLaunched" ->
            process_master_key_launch_event(s, m.key)
      [] m.type = "Distribution" -> process_master_key_distribution(s, w, m)
      [] m.type = "Apply" -> process_master_key_apply_event(s, w, m, state)

\* purge_mq, then the messages of the block in their order.
handle_inbound_messages(s, w, b) ==
    FoldLeft(LAMBDA t, m : process_next_message(t, w, m, b.state),
             [s EXCEPT !.e.synced = @ + 1,
                       !.e.worker = purge(@, b.state.ingress[w]),
                       !.e.shares = purge(@, b.state.ingress[Keyfairy])],
             b.msgs)

\* maybe_take_checkpoint: it is a matter of time whether the block is
\* followed by a checkpoint; the choice is made when one is restored.
Checkpoints(saved, e) ==
    IF crashes < MaxCrash /\ ~e.dead THEN saved \union {e} ELSE saved

dispatch_blocks(w) ==
    /\ ~enclave[w].dead /\ enclave[w].synced < Len(blocks)
    /\ LET s == handle_inbound_messages(
                   [e |-> enclave[w], file |-> sealed[w], keys |-> keys,
                    reused |-> w \in reused],
                   w, blocks[enclave[w].synced + 1])
       IN  /\ enclave' = [enclave EXCEPT ![w] = s.e]
           /\ sealed' = [sealed EXCEPT ![w] = s.file]
           /\ keys' = s.keys
           /\ reused' = IF s.reused THEN reused \union {w} ELSE reused
           /\ checkpoint' = [checkpoint EXCEPT ![w] = Checkpoints(@, s.e)]
    /\ UNCHANGED <<chain, pool, applySent, bounds>>

restore_from_checkpoint(w) == checkpoint[w]

\* The enclave is restarted, its relayer with it.
Restart(w) ==
    /\ crashes < MaxCrash /\ crashes' = crashes + 1
    /\ ~enclave[w].dead /\ enclave[w] /= Genesis
    /\ \E e \in restore_from_checkpoint(w) :
          enclave' = [enclave EXCEPT ![w] = e]
    /\ applySent' = [applySent EXCEPT ![w] = FALSE]
    /\ UNCHANGED <<chain, pool, checkpoint, sealed, keys, reused, applies,
                   governed>>

\* load_chain_state: a fresh enclave without a sealed key starts from the
\* state of a later block, in which its worker is not registered.
load_chain_state(w) ==
    /\ governed < MaxGov /\ governed' = governed + 1
    /\ enclave[w] = Genesis /\ sealed[w] = 0
    /\ \E n \in 1..Len(blocks) :
          /\ w \notin blocks[n].state.workers
          /\ enclave' = [enclave EXCEPT ![w].synced = n,
                                        ![w].genesis_block = n]
    /\ UNCHANGED <<chain, pool, checkpoint, sealed, applySent, keys, reused,
                   applies, crashes>>

------------------------------------------------------------------------------
(* The relayer: maybe_sync_mq_egress for the worker's two channels.        *)

get_mq_seq(s) == Min({n \in ingress[s]..(ingress[s] + Cardinality(pool)) :
                         \A m \in pool : m.from = s => m.sequence /= n})

Egress(w) ==
    {[from |-> w, sequence |-> m.sequence, body |-> m.payload] :
        m \in ToSet(enclave[w].worker.messages)}
    \union
    {[from |-> Keyfairy, sequence |-> m.sequence, body |-> m.payload] :
        m \in ToSet(enclave[w].shares.messages)}

maybe_sync_mq_egress(w) ==
    /\ ~enclave[w].dead /\ enclave[w].synced = Len(blocks)
    /\ \E m \in Egress(w) :
          /\ m.sequence >= get_mq_seq(m.from)
          /\ \A x \in pool : x.from = m.from => x.sequence /= m.sequence
          /\ pool' = pool \union {m}
    /\ UNCHANGED <<chain, worker, bounds>>

\* What runs by itself: blocks are authored and finalised, and every relayer
\* feeds its enclave and polls its queue.
System == \/ sync_offchain_message \/ on_initialize
          \/ \E w \in Worker : dispatch_blocks(w) \/ maybe_sync_mq_egress(w)

Next == \/ System
        \/ \E w \in Worker :
              \/ register_worker(w) \/ launch_master_key(w)
              \/ change_first_holder(w) \/ execute_exit(w)
              \/ apply_master_key(w) \/ Restart(w) \/ load_chain_state(w)

\* The system does not stop while it has a step to take.
Fairness == WF_vars(System)

Spec == Init /\ [][Next]_vars /\ Fairness

------------------------------------------------------------------------------
(* Properties.                                                             *)

\* There is one master key: whatever an enclave holds or has sealed, and
\* what the chain has, is the same key, in spite of the first holder being
\* restarted before or after it has reported the key.  (With a second key
\* the enclaves would decrypt and sign with different keys, "Oops, this is
\* really bad" of on_message_received.)
OneMasterKey ==
    Cardinality(({master} \union {sealed[w] : w \in Worker}
                 \union {enclave[w].keyfairy : w \in Worker}) \ {0}) <= 1

\* An enclave stops for good only at the launch request: when it was
\* started from a later state than genesis, or when the first holder was
\* changed in the very block that asks for the launch.  The two assertions,
\* "Duplicated keyfairy initialization" and "local and on-chain master key
\* mismatch", never fail.
PanicsOnlyAtLaunch ==
    \A w \in Worker : enclave[w].dead =>
        LET b == blocks[enclave[w].synced]
        IN  /\ \E i \in DOMAIN b.msgs : b.msgs[i].type = "LaunchRequest"
            /\ \/ enclave[w].genesis_block /= 0
               \/ /\ b.state.holder /= w
                  /\ \E i \in DOMAIN b.msgs :
                        b.msgs[i] = [type |-> "LaunchRequest", worker |-> w]

\* The messages of the chain's blocks, by place.
Sent == UNION {{<<i, j>> : j \in DOMAIN blocks[i].msgs} : i \in DOMAIN blocks}
At(p) == blocks[p[1]].msgs[p[2]]

\* Once asked, the first holder gets the master key launched on chain,
\* unless the holder was changed, stopped for good, or was restarted into
\* the launch with its key already sealed, which it then never reports.
LaunchCompletes ==
    (\E p \in Sent : At(p).type = "LaunchRequest") ~>
        \/ master /= 0
        \/ \E p \in Sent :
              /\ At(p).type = "LaunchRequest"
              /\ LET w == At(p).worker
                 IN  holder /= w \/ enclave[w].dead \/ w \in reused

\* The applications that the keyfairies answer, and the shares on the chain.
Applications == {p \in Sent : /\ At(p).type = "Apply"
                              /\ At(p).worker \in blocks[p[1]].state.workers}
Shares == {p \in Sent : At(p).type = "Distribution"}

\* There is a share on the chain for every application in the end, through
\* any restart, and the worker it names has the key, unless its enclave
\* stopped for good.  (The n-th share need not be the n-th applicant's: a
\* keyfairy that came later numbers its shares from 0 as well.)
SharesFollow ==
    []<>(/\ Cardinality(Shares) >= Cardinality(Applications)
         /\ \A p \in Shares :
               LET e == enclave[At(p).worker]
               IN  e.keyfairy = master \/ e.dead)

==============================================================================
