------------------------------- MODULE Audit -------------------------------
(***************************************************************************)
(* The audit pallet (pallets/audit/src/lib.rs): the random storage         *)
(* challenge of a miner.  A challenge is opened by the block hook, answered *)
(* by the miner with an idle and a service proof, each proof is handed to a *)
(* TEE worker whose verdict the miner submits, and the block hook closes    *)
(* the challenge, or hands its proofs to another TEE worker, when its       *)
(* deadline comes.                                                          *)
(*                                                                         *)
(* A block runs on_initialize (generate_challenge, clear_challenge,         *)
(* clear_verify_mission, in this order) and then any number of calls;       *)
(* "phase" says which of the four comes next.                               *)
(***************************************************************************)
EXTENDS Naturals, FiniteSets

CONSTANTS
  Miners,             \* accounts that registered as storage miners
  Tees,               \* public keys of TEE workers of a validation type
  NoTee,              \* "no proof submitted": no TEE was assigned
  Spaces,             \* the [idle, service] spaces a snapshot may hold
  IdleProveRate, ServiceProveRate, IdleVerifyRate,   \* constants.rs
  Grace,              \* blocks added to every proving life (50)
  OneHour, OneDay,    \* blocks
  Period,             \* a challenge is drawn every Period blocks (10)
  ExitCount,          \* missed challenges that force a miner out (30)
  MaxBlock            \* bound: last block explored

ASSUME AuditConstants ==
  /\ NoTee \notin Tees
  /\ \A V \in SUBSET Tees : V # {} => Cardinality(V) \in Nat \ {0}  \* Tees is finite
  /\ Spaces \subseteq [idle : Nat, service : Nat]
  /\ IdleProveRate \in Nat \ {0} /\ ServiceProveRate \in Nat \ {0}
  /\ IdleVerifyRate \in Nat \ {0} /\ Period \in Nat \ {0}
  /\ Grace \in Nat \ {0} /\ OneHour \in Nat \ {0} /\ OneDay \in Nat
  /\ ExitCount \in Nat \ {0}
  /\ MaxBlock \in Nat

VARIABLES
  now, phase,
  allMiner,           \* AllMiner of the sminer pallet
  validators,         \* ValidationTypeList of the tee-worker pallet
  challenge,          \* ChallengeSnapShot
  challengeSlip,      \* ChallengeSlip: the blocks under which a miner is filed
  verifySlip,         \* VerifySlip: likewise
  countedClear, countedServiceFailed,
  recorded,           \* history: record_snap_shot calls of this challenge
  missed,             \* history: clear_challenge counted this challenge
  servedAt            \* history: block of this challenge's service proof

vars == <<now, phase, allMiner, validators, challenge, challengeSlip,
          verifySlip, countedClear, countedServiceFailed,
          recorded, missed, servedAt>>

Phases == {"generate", "clear", "verify", "calls"}
Verdicts == {"none", "pass", "fail"}

\* A ChallengeSnapShot entry; "on" is FALSE where the map has none.  A proof is
\* Some(..) exactly when its TEE is not NoTee.
Challenges ==
  [on : BOOLEAN, start : Nat, idle : Nat, service : Nat,
   idleSlip : Nat, serviceSlip : Nat, verifySlip : Nat, assign : 0..2,
   idleTee : Tees \cup {NoTee}, idleResult : Verdicts,
   serviceTee : Tees \cup {NoTee}, serviceResult : Verdicts]

NoChallenge ==
  [on |-> FALSE, start |-> 0, idle |-> 0, service |-> 0,
   idleSlip |-> 0, serviceSlip |-> 0, verifySlip |-> 0, assign |-> 0,
   idleTee |-> NoTee, idleResult |-> "none",
   serviceTee |-> NoTee, serviceResult |-> "none"]

Max2(a, b) == IF a > b THEN a ELSE b

Init ==
  /\ now = 0 /\ phase = "calls"
  /\ allMiner = Miners /\ validators = Tees
  /\ challenge = [m \in Miners |-> NoChallenge]
  /\ challengeSlip = [m \in Miners |-> {}]
  /\ verifySlip = [m \in Miners |-> {}]
  /\ countedClear = [m \in Miners |-> 0]
  /\ countedServiceFailed = [m \in Miners |-> 0]
  /\ recorded = [m \in Miners |-> 0]
  /\ missed = [m \in Miners |-> FALSE]
  /\ servedAt = [m \in Miners |-> 0]

-----------------------------------------------------------------------------
(* The block hook *)

NextBlock ==
  /\ phase = "calls" /\ now < MaxBlock
  /\ now' = now + 1 /\ phase' = "generate"
  /\ UNCHANGED <<allMiner, validators, challenge, challengeSlip, verifySlip,
                 countedClear, countedServiceFailed, recorded, missed, servedAt>>

IdleLife(sp) == (sp.idle \div IdleProveRate) + Grace
ServiceLife(sp) == (sp.service \div ServiceProveRate) + Grace
ProveLife(sp) == Max2(IdleLife(sp), ServiceLife(sp))

\* Deadline of the first verification, for n registered TEE workers.
VerifyLife(sp, n) ==
  (((sp.idle + sp.service) \div IdleVerifyRate) \div n) + OneHour

\* The challenge of a miner with the given spaces, drawn in this block.
OpenChallenge(sp) ==
  [NoChallenge EXCEPT
     !.on = TRUE, !.start = now, !.idle = sp.idle, !.service = sp.service,
     !.idleSlip = now + IdleLife(sp), !.serviceSlip = now + ServiceLife(sp),
     !.verifySlip = now + ProveLife(sp) + VerifyLife(sp, Cardinality(validators))]

\* generate_challenge when the drawn miner m can be challenged.
GenerateChallenge(m, sp) ==
  /\ now >= 3 * OneDay /\ now % Period = 0
  /\ m \in allMiner
  /\ ~challenge[m].on
  /\ sp.idle + sp.service # 0
  /\ validators # {}
  /\ challenge' = [challenge EXCEPT ![m] = OpenChallenge(sp)]
  /\ challengeSlip' = [challengeSlip EXCEPT ![m] = @ \cup {now + ProveLife(sp)}]
  /\ verifySlip' = [verifySlip EXCEPT ![m] = @ \cup {OpenChallenge(sp).verifySlip}]
  /\ recorded' = [recorded EXCEPT ![m] = 0]
  /\ missed' = [missed EXCEPT ![m] = FALSE]
  /\ servedAt' = [servedAt EXCEPT ![m] = 0]

\* The other outcomes of generate_challenge: too early, not a drawing block, no
\* miner, a miner without a certified space or under challenge, no TEE worker, or
\* no challenge parameters (eight distinct ones are not found for every seed).
NoneGenerated ==
  UNCHANGED <<challenge, challengeSlip, verifySlip, recorded, missed, servedAt>>

GeneratePhase ==
  /\ phase = "generate" /\ phase' = "clear"
  /\ \/ \E m \in Miners, sp \in Spaces : GenerateChallenge(m, sp)
     \/ NoneGenerated
  /\ UNCHANGED <<now, allMiner, validators, countedClear, countedServiceFailed>>

\* Mutant: a miner is counted as missing while one of its proofs is missing.
UnprovedEither == {m \in Miners : /\ now \in challengeSlip[m]
                                  /\ challenge[m].on
                                  /\ \/ challenge[m].serviceTee = NoTee
                                     \/ challenge[m].idleTee = NoTee}

\* The miners clear_challenge finds without a service proof.
Unproved == {m \in Miners : /\ now \in challengeSlip[m]
                            /\ challenge[m].on
                            /\ challenge[m].serviceTee = NoTee}

\* clear_challenge.  force_miner_exit takes the miner off AllMiner before anything
\* in it can fail, and its error is only logged.  The u8 counter cannot overflow:
\* it is removed at ExitCount.
ClearChallenge ==
  LET count(m) == countedClear[m] + 1
      exits == {m \in Unproved : count(m) >= ExitCount}
  IN  /\ phase = "clear" /\ phase' = "verify"
      /\ countedClear' = [m \in Miners |->
                            IF m \in exits THEN 0
                            ELSE IF m \in Unproved THEN count(m)
                            ELSE countedClear[m]]
      /\ allMiner' = allMiner \ exits
      /\ missed' = [m \in Miners |-> missed[m] \/ m \in Unproved]
      /\ challengeSlip' = [m \in Miners |-> challengeSlip[m] \ {now}]
      /\ UNCHANGED <<now, validators, challenge, verifySlip,
                     countedServiceFailed, recorded, servedAt>>

\* Mutant: a proof without verdict never lets the challenge end.
FinishedVerified(c) ==
  /\ c.idleTee # NoTee => c.idleResult # "none"
  /\ c.serviceTee # NoTee => c.serviceResult # "none"

\* clear_verify_mission's flag: the challenge is over.
Finished(c) ==
  \/ /\ c.idleTee # NoTee => c.idleResult # "none"
     /\ c.serviceTee # NoTee => c.serviceResult # "none"
  \/ c.assign >= 2

ReassignLife(c) == (Max2(c.idle, c.service) \div IdleVerifyRate) + OneHour

\* The submitted proofs go to another TEE worker, verified ones too; both draws use
\* the block number as seed, so they name the same one.  tee is NoTee when no worker
\* is registered.
Reassigned(c, tee) ==
  [c EXCEPT !.assign = @ + 1,
            !.idleTee = IF @ # NoTee /\ tee # NoTee THEN tee ELSE @,
            !.serviceTee = IF @ # NoTee /\ tee # NoTee THEN tee ELSE @,
            !.verifySlip = now + ReassignLife(c)]

\* random_select_tee_acc: any registered TEE worker of a validation type.
Selectable == IF validators = {} THEN {NoTee} ELSE validators

\* Mutant: the old deadline stays filed beside the new one.
ClearVerifyMissionKept(tee) ==
  LET due == {m \in Miners : now \in verifySlip[m] /\ challenge[m].on}
      over == {m \in due : Finished(challenge[m])}
      again == due \ over
  IN  /\ phase = "verify" /\ phase' = "calls"
      /\ challenge' = [m \in Miners |->
                         IF m \in over THEN NoChallenge
                         ELSE IF m \in again THEN Reassigned(challenge[m], tee)
                         ELSE challenge[m]]
      /\ verifySlip' = [m \in Miners |->
                          IF m \in over THEN verifySlip[m] \ {now}
                          ELSE IF m \in again
                          THEN verifySlip[m] \cup {now + ReassignLife(challenge[m])}
                          ELSE verifySlip[m]]
      /\ UNCHANGED <<now, allMiner, validators, challengeSlip, countedClear,
                     countedServiceFailed, recorded, missed, servedAt>>

\* clear_verify_mission.  An entry without a challenge would be left where it is.
ClearVerifyMission(tee) ==
  LET due == {m \in Miners : now \in verifySlip[m] /\ challenge[m].on}
      over == {m \in due : Finished(challenge[m])}
      again == due \ over
  IN  /\ phase = "verify" /\ phase' = "calls"
      /\ challenge' = [m \in Miners |->
                         IF m \in over THEN NoChallenge
                         ELSE IF m \in again THEN Reassigned(challenge[m], tee)
                         ELSE challenge[m]]
      /\ verifySlip' = [m \in Miners |->
                          IF m \in over THEN verifySlip[m] \ {now}
                          ELSE IF m \in again
                          THEN (verifySlip[m] \ {now})
                                 \cup {now + ReassignLife(challenge[m])}
                          ELSE verifySlip[m]]
      /\ UNCHANGED <<now, allMiner, validators, challengeSlip, countedClear,
                     countedServiceFailed, recorded, missed, servedAt>>

-----------------------------------------------------------------------------
(* The miners' calls *)

SubmitIdleProof(m, tee) ==
  /\ phase = "calls"
  /\ challenge[m].on /\ now <= challenge[m].idleSlip
  /\ challenge[m].idleTee = NoTee
  /\ challenge' = [challenge EXCEPT ![m].idleTee = tee]
  /\ countedClear' = IF challenge[m].serviceTee # NoTee
                     THEN [countedClear EXCEPT ![m] = 0] ELSE countedClear
  /\ UNCHANGED <<now, phase, allMiner, validators, challengeSlip, verifySlip,
                 countedServiceFailed, recorded, missed, servedAt>>

SubmitServiceProof(m, tee) ==
  /\ phase = "calls"
  /\ challenge[m].on /\ now <= challenge[m].serviceSlip
  /\ challenge[m].serviceTee = NoTee
  /\ challenge' = [challenge EXCEPT ![m].serviceTee = tee]
  /\ countedClear' = IF challenge[m].idleTee # NoTee
                     THEN [countedClear EXCEPT ![m] = 0] ELSE countedClear
  /\ servedAt' = [servedAt EXCEPT ![m] = now]
  /\ UNCHANGED <<now, phase, allMiner, validators, challengeSlip, verifySlip,
                 countedServiceFailed, recorded, missed>>

\* Mutant: the verdict on an idle proof is taken a second time.
SubmitVerifyIdleResultAgain(m, result) ==
  LET c == challenge[m] IN
  /\ phase = "calls"
  /\ c.on /\ c.idleTee # NoTee
  /\ c.idleTee \in validators
  /\ challenge' = [challenge EXCEPT ![m].idleResult = result]
  /\ recorded' = IF result = "pass" /\ c.serviceResult = "pass"
                 THEN [recorded EXCEPT ![m] = @ + 1] ELSE recorded
  /\ UNCHANGED <<now, phase, allMiner, validators, challengeSlip, verifySlip,
                 countedClear, countedServiceFailed, missed, servedAt>>

\* The miner hands in the verdict its TEE worker signed.  "result" is the verdict
\* after check_idle_verify_param turned a mismatch with the snapshot into a failure.
SubmitVerifyIdleResult(m, result) ==
  LET c == challenge[m] IN
  /\ phase = "calls"
  /\ c.on /\ c.idleTee # NoTee /\ c.idleResult = "none"
  /\ c.idleTee \in validators
  /\ challenge' = [challenge EXCEPT ![m].idleResult = result]
  /\ recorded' = IF result = "pass" /\ c.serviceResult = "pass"
                 THEN [recorded EXCEPT ![m] = @ + 1] ELSE recorded
  /\ UNCHANGED <<now, phase, allMiner, validators, challengeSlip, verifySlip,
                 countedClear, countedServiceFailed, missed, servedAt>>

\* Likewise for the service proof; two failures in a row are punished
\* (service_punish), which touches only the miner's collateral.
SubmitVerifyServiceResult(m, result) ==
  LET c == challenge[m] IN
  /\ phase = "calls"
  /\ c.on /\ c.serviceTee # NoTee /\ c.serviceResult = "none"
  /\ c.serviceTee \in validators
  /\ challenge' = [challenge EXCEPT ![m].serviceResult = result]
  /\ recorded' = IF result = "pass" /\ c.idleResult = "pass"
                 THEN [recorded EXCEPT ![m] = @ + 1] ELSE recorded
  /\ countedServiceFailed' =
       [countedServiceFailed EXCEPT ![m] = IF result = "pass" THEN 0 ELSE @ + 1]
  /\ UNCHANGED <<now, phase, allMiner, validators, challengeSlip, verifySlip,
                 countedClear, missed, servedAt>>

-----------------------------------------------------------------------------
(* What the other pallets do to the two lists the audit draws from *)

\* A TEE worker of a validation type registers (register_worker, tee-worker pallet).
TeeJoins(tee) ==
  /\ phase = "calls" /\ tee \notin validators
  /\ validators' = validators \cup {tee}
  /\ UNCHANGED <<now, phase, allMiner, challenge, challengeSlip, verifySlip,
                 countedClear, countedServiceFailed, recorded, missed, servedAt>>

\* A TEE worker is removed (execute_exit, tee-worker pallet).
TeeLeaves(tee) ==
  /\ phase = "calls" /\ tee \in validators
  /\ validators' = validators \ {tee}
  /\ UNCHANGED <<now, phase, allMiner, challenge, challengeSlip, verifySlip,
                 countedClear, countedServiceFailed, recorded, missed, servedAt>>

\* A miner leaves on its own account (execute_exit, sminer pallet).
MinerLeaves(m) ==
  /\ phase = "calls" /\ m \in allMiner
  /\ allMiner' = allMiner \ {m}
  /\ UNCHANGED <<now, phase, validators, challenge, challengeSlip, verifySlip,
                 countedClear, countedServiceFailed, recorded, missed, servedAt>>

Hook ==
  \/ NextBlock
  \/ GeneratePhase
  \/ ClearChallenge
  \/ \E tee \in Selectable : ClearVerifyMission(tee)

Call ==
  \E m \in Miners :
    \/ \E tee \in validators : SubmitIdleProof(m, tee)
    \/ \E tee \in validators : SubmitServiceProof(m, tee)
    \/ \E result \in {"pass", "fail"} : SubmitVerifyIdleResult(m, result)
    \/ \E result \in {"pass", "fail"} : SubmitVerifyServiceResult(m, result)

Membership ==
  \/ \E tee \in Tees : TeeJoins(tee) \/ TeeLeaves(tee)
  \/ \E m \in Miners : MinerLeaves(m)

Next == Hook \/ Call \/ Membership

Spec == Init /\ [][Next]_vars

-----------------------------------------------------------------------------
(* Properties *)

\* Every variable has its type; in particular a challenge is handed on at most
\* twice, however often its TEE workers disappear (clear_verify_mission).
TypeOK ==
  /\ now \in Nat /\ phase \in Phases
  /\ allMiner \subseteq Miners /\ validators \subseteq Tees
  /\ challenge \in [Miners -> Challenges]
  /\ challengeSlip \in [Miners -> SUBSET Nat]
  /\ verifySlip \in [Miners -> SUBSET Nat]
  /\ countedClear \in [Miners -> 0..(ExitCount - 1)]
  /\ countedServiceFailed \in [Miners -> Nat]
  /\ recorded \in [Miners -> Nat]
  /\ missed \in [Miners -> BOOLEAN]
  /\ servedAt \in [Miners -> Nat]

ProofDeadline(c) == Max2(c.idleSlip, c.serviceSlip)

\* The hook has not yet handled the entries filed under block b.
ClearPending(b) == b > now \/ (b = now /\ phase \in {"generate", "clear"})
VerifyPending(b) == b > now \/ (b = now /\ phase # "calls")

\* ChallengeSlip and VerifySlip hold, for an open challenge, exactly the deadlines of
\* that challenge which are still to come, and nothing for any other miner: no open
\* challenge is left without a deadline that ends it, and no entry outlives its
\* challenge (generate_challenge, clear_challenge, clear_verify_mission).
SlipsExact ==
  \A m \in Miners :
    LET c == challenge[m] IN
    /\ c.on => VerifyPending(c.verifySlip)
    /\ verifySlip[m] = IF c.on THEN {c.verifySlip} ELSE {}
    /\ challengeSlip[m] = IF c.on /\ ClearPending(ProofDeadline(c))
                          THEN {ProofDeadline(c)} ELSE {}

\* The longest a challenge with these spaces can last: the proving life, the first
\* verification with a single TEE worker, and two reassignments.
LongestLife(c) ==
  ProveLife(c) + VerifyLife(c, 1) + 2 * ReassignLife(c)

\* A miner gets out of every challenge within a time its snapshot fixes, whatever the
\* TEE workers do, and so can be drawn again (clear_verify_mission's ceiling).
BoundedLife ==
  \A m \in Miners :
    challenge[m].on => now <= challenge[m].start + LongestLife(challenge[m])

\* record_snap_shot is called once for a challenge whose two proofs were verified,
\* in whichever order the verdicts came and whichever TEE workers gave them, and
\* never for another (submit_verify_idle_result, submit_verify_service_result).
RecordedOnce ==
  \A m \in Miners :
    challenge[m].on =>
      recorded[m] = IF /\ challenge[m].idleResult = "pass"
                       /\ challenge[m].serviceResult = "pass" THEN 1 ELSE 0

\* clear_challenge counts a challenge as missed exactly when its service proof was
\* not there before the block of the deadline: proofs of that last block, which
\* submit_service_proof still takes, come after the count.
MissedExactly ==
  \A m \in Miners :
    LET c == challenge[m] IN
    c.on => ( missed[m] <=> /\ ~ClearPending(ProofDeadline(c))
                            /\ \/ c.serviceTee = NoTee
                               \/ servedAt[m] = ProofDeadline(c) )

=============================================================================
