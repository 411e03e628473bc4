------------------------------ MODULE SendQueue ------------------------------
(***************************************************************************)
(* The send queue of an enclave.  An enclave (Ceseal) numbers the messages *)
(* it sends to the chain, channel by channel                               *)
(* (crates/ces-mq/src/send_queue.rs).  Signatures are part of the sender's *)
(* name: only the holder of a key puts a message on its channel.           *)
(***************************************************************************)
EXTENDS Naturals, Sequences, SequencesExt

\* Channel: the next sequence number, and the messages not purged yet.
EmptyChannel == [sequence |-> 0, messages |-> <<>>]

\* MessageSendQueue::enqueue_message, for a channel that is not a dummy.
enqueue_message(ch, payload) ==
    [sequence |-> ch.sequence + 1,
     messages |-> Append(ch.messages,
                         [sequence |-> ch.sequence, payload |-> payload])]

\* Mutant: the message that carries the chain's next number goes as well.
purgeNext(ch, next) ==
    [ch EXCEPT !.messages = SelectSeq(@, LAMBDA m : m.sequence > next)]

\* MessageSendQueue::purge: next is the chain's next sequence of the sender.
purge(ch, next) ==
    [ch EXCEPT !.messages = SelectSeq(@, LAMBDA m : m.sequence >= next)]
==============================================================================
