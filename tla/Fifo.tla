-------------------------------- MODULE Fifo ---------------------------------
(***************************************************************************)
(* What the message queue between an enclave and the chain promises: every *)
(* message is handed over exactly once, in the order of sending, and none  *)
(* is forgotten.                                                           *)
(***************************************************************************)
EXTENDS Naturals, Sequences

VARIABLES sent,  \* the messages sent so far, in order
          got    \* the messages handed over so far, in order

Init == sent = <<>> /\ got = <<>>

Send == /\ sent' = Append(sent, Len(sent) + 1)
        /\ UNCHANGED got

Receive == /\ Len(got) < Len(sent)
           /\ got' = Append(got, sent[Len(got) + 1])
           /\ UNCHANGED sent

Spec == Init /\ [][Send \/ Receive]_<<sent, got>> /\ WF_<<sent, got>>(Receive)
==============================================================================
