---------------------------- MODULE PalletProofs ----------------------------
(***************************************************************************)
(* Proofs about the two pallets that file what they must do later under a  *)
(* future block or era: Audit, for any miners, TEE workers, spaces, rates  *)
(* and periods, and StakingEra with StakingPayout, for any length of eras, *)
(* bonding period and history.  Neither uses the other.                    *)
(*                                                                         *)
(* Audit.  The invariants the runs check are not inductive by themselves.  *)
(* OK(...) is what holds of one miner: its challenge c, the blocks cs and  *)
(* vs it is filed under, the history r, x, s of its challenge, in block n  *)
(* and phase ph.  It adds to them that the deadlines are bounded by the    *)
(* start and the number of reassignments, that a verdict needs its proof,  *)
(* and that a service proof came in an earlier call.  Inv says OK of every *)
(* miner; every action changes the arguments of some miners only.          *)
(***************************************************************************)
EXTENDS Audit, StakingPayout, TLAPS

\* What the reassignments so far have added to a challenge's life.
Handed(c) == IF c.assign = 0 THEN 0
             ELSE IF c.assign = 1 THEN ReassignLife(c)
             ELSE ReassignLife(c) + ReassignLife(c)

\* ClearPending and VerifyPending of block b in block n and phase ph.
ClearAhead(b, n, ph) == b > n \/ (b = n /\ ph \in {"generate", "clear"})
VerifyAhead(b, n, ph) == b > n \/ (b = n /\ ph # "calls")

Slips(c, cs, vs, n, ph) ==
  /\ c.on => VerifyAhead(c.verifySlip, n, ph)
  /\ vs = IF c.on THEN {c.verifySlip} ELSE {}
  /\ cs = IF c.on /\ ClearAhead(ProofDeadline(c), n, ph)
          THEN {ProofDeadline(c)} ELSE {}

Times(c, n) ==
  c.on => /\ c.start <= n
          /\ ProofDeadline(c) = c.start + ProveLife(c)
          /\ ProofDeadline(c) < c.verifySlip
          /\ c.verifySlip <= c.start + ProveLife(c) + VerifyLife(c, 1) + Handed(c)

Proved(c, r, s, n, ph) ==
  c.on => /\ c.idleTee = NoTee => c.idleResult = "none"
          /\ c.serviceTee = NoTee => c.serviceResult = "none"
          /\ c.serviceTee # NoTee => s <= n /\ (ph # "calls" => s < n)
          /\ r = IF c.idleResult = "pass" /\ c.serviceResult = "pass"
                 THEN 1 ELSE 0

Counted(c, x, s, n, ph) ==
  c.on => ( x <=> /\ ~ClearAhead(ProofDeadline(c), n, ph)
                  /\ c.serviceTee = NoTee \/ s = ProofDeadline(c) )

OK(c, cs, vs, r, x, s, n, ph) ==
  /\ c \in Challenges /\ r \in Nat /\ x \in BOOLEAN /\ s \in Nat
  /\ Slips(c, cs, vs, n, ph)
  /\ Times(c, n)
  /\ Proved(c, r, s, n, ph)
  /\ Counted(c, x, s, n, ph)

MinerOK(m) == OK(challenge[m], challengeSlip[m], verifySlip[m], recorded[m],
                 missed[m], servedAt[m], now, phase)

Inv == TypeOK /\ \A m \in Miners : MinerOK(m)

-----------------------------------------------------------------------------
(* Arithmetic of the lives *)

\* Integer division by a positive number neither leaves the naturals nor grows.
LEMMA Quotient ==
  ASSUME NEW a \in Nat, NEW b \in Nat \ {0}
  PROVE  a \div b \in Nat /\ a \div b <= a
  OBVIOUS

\* The lives generate_challenge and clear_verify_mission compute are naturals, and
\* none of them is zero.
LEMMA LivesTyped ==
  ASSUME NEW c, c.idle \in Nat, c.service \in Nat
  PROVE  /\ IdleLife(c) \in Nat \ {0} /\ ServiceLife(c) \in Nat \ {0}
         /\ ProveLife(c) \in Nat \ {0} /\ ReassignLife(c) \in Nat \ {0}
         /\ \A n \in Nat \ {0} : /\ VerifyLife(c, n) \in Nat \ {0}
                                 /\ VerifyLife(c, n) <= VerifyLife(c, 1)
<1>1. /\ c.idle \div IdleProveRate \in Nat
      /\ c.service \div ServiceProveRate \in Nat
      /\ Max2(c.idle, c.service) \div IdleVerifyRate \in Nat
  BY Quotient, AuditConstants DEF Max2
<1>2. /\ IdleLife(c) \in Nat \ {0} /\ ServiceLife(c) \in Nat \ {0}
      /\ ReassignLife(c) \in Nat \ {0}
  BY <1>1, AuditConstants DEF IdleLife, ServiceLife, ReassignLife
<1>3. ProveLife(c) \in Nat \ {0}
  BY <1>2 DEF ProveLife, Max2
<1> DEFINE q == (c.idle + c.service) \div IdleVerifyRate
<1>4. q \in Nat
  BY Quotient, AuditConstants
<1>5. ASSUME NEW n \in Nat \ {0}
      PROVE  /\ VerifyLife(c, n) \in Nat \ {0}
             /\ VerifyLife(c, n) <= VerifyLife(c, 1)
  <2> HIDE DEF q
  <2>1. q \div n \in Nat /\ q \div n <= q /\ q \div 1 = q
    BY <1>4, Quotient
  <2>2. VerifyLife(c, n) = (q \div n) + OneHour /\ VerifyLife(c, 1) = (q \div 1) + OneHour
    BY DEF q, VerifyLife
  <2> QED
    BY <2>1, <2>2, <1>4, AuditConstants
<1> QED
  BY <1>2, <1>3, <1>5

\* The lives depend only on the two spaces.
LEMMA SameLives ==
  ASSUME NEW c, NEW d, c.idle = d.idle, c.service = d.service
  PROVE  /\ IdleLife(c) = IdleLife(d) /\ ServiceLife(c) = ServiceLife(d)
         /\ ProveLife(c) = ProveLife(d) /\ ReassignLife(c) = ReassignLife(d)
         /\ VerifyLife(c, 1) = VerifyLife(d, 1)
<1>1. IdleLife(c) = IdleLife(d) /\ ServiceLife(c) = ServiceLife(d)
  BY DEF IdleLife, ServiceLife
<1> QED
  BY <1>1 DEF ProveLife, ReassignLife, VerifyLife

\* The deadline of the proofs is a block, at or after both of its windows.
LEMMA DeadlineTyped ==
  ASSUME NEW c \in Challenges
  PROVE  /\ ProofDeadline(c) \in Nat
         /\ c.idleSlip <= ProofDeadline(c) /\ c.serviceSlip <= ProofDeadline(c)
  BY DEF ProofDeadline, Max2, Challenges

-----------------------------------------------------------------------------
(* What one miner goes through *)

\* A freshly opened challenge is in order.
LEMMA OpenOK ==
  ASSUME NEW sp \in Spaces, now \in Nat, validators \subseteq Tees, validators # {}
  PROVE  /\ OpenChallenge(sp).verifySlip \in Nat /\ now + ProveLife(sp) \in Nat
         /\ OK(OpenChallenge(sp), {now + ProveLife(sp)},
               {OpenChallenge(sp).verifySlip}, 0, FALSE, 0, now, "clear")
<1> DEFINE n == Cardinality(validators)
           c == OpenChallenge(sp)
<1>1. n \in Nat \ {0}
  BY AuditConstants
<1>2. sp.idle \in Nat /\ sp.service \in Nat
  BY AuditConstants
<1>3. /\ IdleLife(sp) \in Nat \ {0} /\ ServiceLife(sp) \in Nat \ {0}
      /\ ProveLife(sp) \in Nat \ {0} /\ VerifyLife(sp, n) \in Nat \ {0}
      /\ VerifyLife(sp, 1) \in Nat /\ VerifyLife(sp, n) <= VerifyLife(sp, 1)
  BY <1>1, <1>2, LivesTyped
<1>4. /\ c.on = TRUE /\ c.start = now /\ c.idle = sp.idle /\ c.service = sp.service
      /\ c.idleSlip = now + IdleLife(sp) /\ c.serviceSlip = now + ServiceLife(sp)
      /\ c.verifySlip = now + ProveLife(sp) + VerifyLife(sp, n) /\ c.assign = 0
      /\ c.idleTee = NoTee /\ c.idleResult = "none"
      /\ c.serviceTee = NoTee /\ c.serviceResult = "none"
  BY DEF OpenChallenge, NoChallenge
<1>5. ProveLife(c) = ProveLife(sp) /\ VerifyLife(c, 1) = VerifyLife(sp, 1)
  BY <1>4, SameLives
<1>6. c \in Challenges
  <2> DEFINE a == now + IdleLife(sp)
             b == now + ServiceLife(sp)
             v == now + ProveLife(sp) + VerifyLife(sp, n)
  <2>1. a \in Nat /\ b \in Nat /\ v \in Nat
    BY <1>3
  <2>2. c = [NoChallenge EXCEPT
               !.on = TRUE, !.start = now, !.idle = sp.idle, !.service = sp.service,
               !.idleSlip = a, !.serviceSlip = b, !.verifySlip = v]
    BY DEF OpenChallenge
  <2> HIDE DEF a, b, v, c
  <2>3. c = [on |-> TRUE, start |-> now, idle |-> sp.idle, service |-> sp.service,
             idleSlip |-> a, serviceSlip |-> b, verifySlip |-> v, assign |-> 0,
             idleTee |-> NoTee, idleResult |-> "none",
             serviceTee |-> NoTee, serviceResult |-> "none"]
    BY <2>2, Zenon DEF NoChallenge
  <2> QED
    BY <2>1, <2>3, <1>2 DEF Challenges, Verdicts
<1>7. ProofDeadline(c) = now + ProveLife(sp)
  <2> HIDE DEF c
  <2> QED
    BY <1>3, <1>4 DEF ProofDeadline, ProveLife, Max2
<1> HIDE DEF c, n
<1>8. Times(c, now)
  BY <1>3, <1>4, <1>5, <1>7 DEF Times, Handed
<1>9. Slips(c, {now + ProveLife(sp)}, {c.verifySlip}, now, "clear")
  BY <1>3, <1>4, <1>7 DEF Slips, VerifyAhead, ClearAhead
<1>10. Proved(c, 0, 0, now, "clear") /\ Counted(c, FALSE, 0, now, "clear")
  BY <1>3, <1>4, <1>7 DEF Proved, Counted, ClearAhead
<1>11. OK(c, {now + ProveLife(sp)}, {c.verifySlip}, 0, FALSE, 0, now, "clear")
  BY <1>6, <1>8, <1>9, <1>10, Zenon DEF OK
<1>12. c.verifySlip \in Nat /\ now + ProveLife(sp) \in Nat
  BY <1>3, <1>4
<1> QED
  BY <1>11, <1>12, Zenon DEF c

\* A new block finds every miner as the last one left it.
LEMMA TickOK ==
  ASSUME NEW c, NEW cs, NEW vs, NEW r, NEW x, NEW s, NEW n \in Nat,
         OK(c, cs, vs, r, x, s, n, "calls")
  PROVE  OK(c, cs, vs, r, x, s, n + 1, "generate")
<1>1. c \in Challenges /\ r \in Nat /\ x \in BOOLEAN /\ s \in Nat
  BY DEF OK
<1>2. ProofDeadline(c) \in Nat /\ c.verifySlip \in Nat /\ c.start \in Nat
  BY <1>1, DeadlineTyped DEF Challenges
<1>3. /\ \A b \in Nat : ClearAhead(b, n, "calls") <=> ClearAhead(b, n + 1, "generate")
      /\ \A b \in Nat : VerifyAhead(b, n, "calls") <=> VerifyAhead(b, n + 1, "generate")
  BY DEF ClearAhead, VerifyAhead
<1>4. Slips(c, cs, vs, n + 1, "generate")
  BY <1>2, <1>3 DEF OK, Slips
<1>5. Times(c, n + 1)
  BY <1>2 DEF OK, Times
<1>6. Proved(c, r, s, n + 1, "generate")
  BY <1>1 DEF OK, Proved
<1>7. Counted(c, x, s, n + 1, "generate")
  BY <1>2, <1>3 DEF OK, Counted
<1> QED
  BY <1>1, <1>4, <1>5, <1>6, <1>7 DEF OK

\* The drawing of another miner leaves a miner as it is.
LEMMA UndrawnOK ==
  ASSUME NEW c, NEW cs, NEW vs, NEW r, NEW x, NEW s, NEW n,
         OK(c, cs, vs, r, x, s, n, "generate")
  PROVE  OK(c, cs, vs, r, x, s, n, "clear")
<1>1. /\ \A b : ClearAhead(b, n, "generate") <=> ClearAhead(b, n, "clear")
      /\ \A b : VerifyAhead(b, n, "generate") <=> VerifyAhead(b, n, "clear")
  BY DEF ClearAhead, VerifyAhead
<1>2. Slips(c, cs, vs, n, "clear")
  BY <1>1 DEF OK, Slips
<1>3. Proved(c, r, s, n, "clear") /\ Counted(c, x, s, n, "clear")
  BY <1>1 DEF OK, Proved, Counted
<1> QED
  BY <1>2, <1>3 DEF OK

\* clear_challenge keeps a miner in order, counted or not.
LEMMA ClearOK ==
  ASSUME NEW c, NEW cs, NEW vs, NEW r, NEW x, NEW s, NEW n \in Nat,
         OK(c, cs, vs, r, x, s, n, "clear"),
         NEW y \in BOOLEAN,
         y <=> x \/ (n \in cs /\ c.on /\ c.serviceTee = NoTee)
  PROVE  OK(c, cs \ {n}, vs, r, y, s, n, "verify")
<1>1. c \in Challenges /\ r \in Nat /\ x \in BOOLEAN /\ s \in Nat
  BY DEF OK
<1> DEFINE b == ProofDeadline(c)
<1>2. b \in Nat
  BY <1>1, DeadlineTyped
<1> HIDE DEF b
<1>3. /\ ClearAhead(b, n, "clear") <=> b >= n
      /\ ClearAhead(b, n, "verify") <=> b > n
      /\ VerifyAhead(c.verifySlip, n, "clear") => VerifyAhead(c.verifySlip, n, "verify")
  BY <1>2 DEF ClearAhead, VerifyAhead
<1>4. cs = IF c.on /\ b >= n THEN {b} ELSE {}
  BY <1>3 DEF OK, Slips, b
<1>5. cs \ {n} = IF c.on /\ b > n THEN {b} ELSE {}
  BY <1>2, <1>4
<1>6. Slips(c, cs \ {n}, vs, n, "verify")
  BY <1>3, <1>5 DEF OK, Slips, b
<1>7. Proved(c, r, s, n, "verify")
  BY DEF OK, Proved
<1>8. Counted(c, y, s, n, "verify")
  <2>1. CASE ~c.on
    BY <2>1 DEF Counted
  <2>2. CASE c.on
    <3>1. x <=> b < n /\ (c.serviceTee = NoTee \/ s = b)
      BY <1>2, <1>3, <2>2 DEF OK, Counted, b
    <3>2. c.serviceTee # NoTee => s < n
      BY <2>2 DEF OK, Proved
    <3>3. n \in cs <=> b = n
      BY <1>2, <1>4, <2>2
    <3>4. y <=> b <= n /\ (c.serviceTee = NoTee \/ s = b)
      BY <1>1, <1>2, <2>2, <3>1, <3>2, <3>3
    <3> QED
      BY <1>2, <1>3, <3>4 DEF Counted, b
  <2> QED
    BY <2>1, <2>2
<1> QED
  BY <1>1, <1>6, <1>7, <1>8 DEF OK

\* A miner whose verification is not due passes clear_verify_mission unchanged.
LEMMA NotDueOK ==
  ASSUME NEW c, NEW cs, NEW vs, NEW r, NEW x, NEW s, NEW n \in Nat,
         OK(c, cs, vs, r, x, s, n, "verify"),
         ~(n \in vs /\ c.on)
  PROVE  OK(c, cs, vs, r, x, s, n, "calls")
<1>1. c \in Challenges
  BY DEF OK
<1>2. \A b : ClearAhead(b, n, "verify") <=> ClearAhead(b, n, "calls")
  BY DEF ClearAhead
<1>3. c.on => VerifyAhead(c.verifySlip, n, "calls")
  BY DEF OK, Slips, VerifyAhead
<1>4. Slips(c, cs, vs, n, "calls")
  BY <1>2, <1>3 DEF OK, Slips
<1>5. Proved(c, r, s, n, "calls") /\ Counted(c, x, s, n, "calls")
  BY <1>2 DEF OK, Proved, Counted
<1> QED
  BY <1>4, <1>5 DEF OK

\* A miner without a challenge is in order when it is filed nowhere.
LEMMA ClosedOK ==
  ASSUME NEW r \in Nat, NEW x \in BOOLEAN, NEW s \in Nat, NEW n, NEW ph
  PROVE  OK(NoChallenge, {}, {}, r, x, s, n, ph)
<1>1. NoChallenge \in Challenges /\ NoChallenge.on = FALSE
  BY DEF NoChallenge, Challenges, Verdicts
<1> QED
  BY <1>1 DEF OK, Slips, Times, Proved, Counted

\* The end of a challenge leaves nothing filed under its miner.
LEMMA OverOK ==
  ASSUME NEW c, NEW cs, NEW vs, NEW r, NEW x, NEW s, NEW n \in Nat,
         OK(c, cs, vs, r, x, s, n, "verify"),
         n \in vs, c.on
  PROVE  OK(NoChallenge, cs, vs \ {n}, r, x, s, n, "calls")
<1>1. c \in Challenges /\ r \in Nat /\ x \in BOOLEAN /\ s \in Nat
  BY DEF OK
<1>2. ProofDeadline(c) \in Nat /\ c.verifySlip \in Nat
  BY <1>1, DeadlineTyped DEF Challenges
<1>3. vs = {c.verifySlip} /\ n = c.verifySlip
  BY DEF OK, Slips
<1>4. ~ClearAhead(ProofDeadline(c), n, "verify")
  BY <1>2, <1>3 DEF OK, Times, ClearAhead
<1>5. cs = {} /\ vs \ {n} = {}
  BY <1>3, <1>4 DEF OK, Slips
<1> QED
  BY <1>1, <1>5, ClosedOK, Zenon

\* A reassignment gives the challenge a new deadline within the bound.
LEMMA AgainOK ==
  ASSUME NEW c, NEW cs, NEW vs, NEW r, NEW x, NEW s, now \in Nat,
         OK(c, cs, vs, r, x, s, now, "verify"),
         now \in vs, c.on, ~Finished(c), NEW tee \in Tees \cup {NoTee}
  PROVE  /\ Reassigned(c, tee) \in Challenges /\ now + ReassignLife(c) \in Nat
         /\ OK(Reassigned(c, tee), cs, (vs \ {now}) \cup {now + ReassignLife(c)},
               r, x, s, now, "calls")
<1> DEFINE d == Reassigned(c, tee)
           l == ReassignLife(c)
<1>1. c \in Challenges /\ r \in Nat /\ x \in BOOLEAN /\ s \in Nat
  BY DEF OK
<1>2. /\ c.idle \in Nat /\ c.service \in Nat /\ c.verifySlip \in Nat /\ c.start \in Nat
      /\ c.assign \in 0 .. 2 /\ ProofDeadline(c) \in Nat
  BY <1>1, DeadlineTyped DEF Challenges
<1>3. l \in Nat \ {0} /\ ProveLife(c) \in Nat /\ VerifyLife(c, 1) \in Nat
  BY <1>2, LivesTyped
<1>4. c.assign \in {0, 1}
  BY <1>2 DEF Finished
<1>5. vs = {c.verifySlip} /\ now = c.verifySlip
  BY DEF OK, Slips
<1>6. /\ d.on = c.on /\ d.start = c.start /\ d.idle = c.idle /\ d.service = c.service
      /\ d.idleSlip = c.idleSlip /\ d.serviceSlip = c.serviceSlip
      /\ d.verifySlip = now + l /\ d.assign = c.assign + 1
      /\ d.idleResult = c.idleResult /\ d.serviceResult = c.serviceResult
      /\ d.idleTee = NoTee <=> c.idleTee = NoTee
      /\ d.serviceTee = NoTee <=> c.serviceTee = NoTee
  BY <1>1, Zenon DEF Reassigned, Challenges
<1>7. d \in Challenges
  <2> DEFINE a == c.assign + 1
             v == now + l
             i == IF c.idleTee # NoTee /\ tee # NoTee THEN tee ELSE c.idleTee
             k == IF c.serviceTee # NoTee /\ tee # NoTee THEN tee ELSE c.serviceTee
  <2>1. a \in 0 .. 2 /\ v \in Nat
    BY <1>3, <1>4
  <2>2. i \in Tees \cup {NoTee} /\ k \in Tees \cup {NoTee}
    BY <1>1 DEF Challenges
  <2>3. d = [c EXCEPT !.assign = a, !.idleTee = i, !.serviceTee = k, !.verifySlip = v]
    BY <1>1, Zenon DEF Reassigned, Challenges
  <2> HIDE DEF a, v, i, k, d
  <2> QED
    BY <1>1, <2>1, <2>2, <2>3, Zenon DEF Challenges
<1>8. /\ ProveLife(d) = ProveLife(c) /\ VerifyLife(d, 1) = VerifyLife(c, 1)
      /\ ReassignLife(d) = l /\ ProofDeadline(d) = ProofDeadline(c)
  BY <1>6, SameLives, Zenon DEF ProofDeadline
<1> HIDE DEF d, l
<1>9. Times(d, now)
  <2>1. /\ c.start <= now /\ ProofDeadline(c) = c.start + ProveLife(c)
        /\ ProofDeadline(c) < c.verifySlip
        /\ c.verifySlip <= c.start + ProveLife(c) + VerifyLife(c, 1)
                             + (IF c.assign = 0 THEN 0 ELSE l)
    BY <1>4 DEF OK, Times, Handed, l
  <2>2. Handed(d) = IF c.assign = 0 THEN l ELSE l + l
    BY <1>4, <1>6, <1>8 DEF Handed
  <2> QED
    BY <1>2, <1>3, <1>4, <1>5, <1>6, <1>8, <2>1, <2>2 DEF Times
<1>10. ~ClearAhead(ProofDeadline(c), now, "verify") /\ ~ClearAhead(ProofDeadline(c), now, "calls")
  BY <1>2, <1>5 DEF OK, Times, ClearAhead
<1>11. cs = {}
  BY <1>10 DEF OK, Slips
<1>12. Slips(d, cs, (vs \ {now}) \cup {now + l}, now, "calls")
  BY <1>2, <1>3, <1>5, <1>6, <1>8, <1>10, <1>11 DEF Slips, VerifyAhead
<1>13. Proved(d, r, s, now, "calls")
  BY <1>6 DEF OK, Proved
<1>14. Counted(d, x, s, now, "calls")
  BY <1>6, <1>8, <1>10 DEF OK, Counted
<1>15. OK(d, cs, (vs \ {now}) \cup {now + l}, r, x, s, now, "calls")
  BY <1>1, <1>7, <1>9, <1>12, <1>13, <1>14 DEF OK
<1>16. now + l \in Nat
  BY <1>3
<1> QED
  BY <1>7, <1>15, <1>16 DEF d, l

\* Writing a proof's TEE worker or verdict leaves the deadlines alone: what remains
\* to show of a call is its effect on the proofs and on the count.
LEMMA CallOK ==
  ASSUME NEW c, NEW d \in Challenges, NEW cs, NEW vs, NEW r, NEW r2 \in Nat,
         NEW x, NEW s, NEW s2 \in Nat, NEW n,
         OK(c, cs, vs, r, x, s, n, "calls"),
         d.on = c.on, d.start = c.start, d.idle = c.idle, d.service = c.service,
         d.idleSlip = c.idleSlip, d.serviceSlip = c.serviceSlip,
         d.verifySlip = c.verifySlip, d.assign = c.assign,
         Proved(d, r2, s2, n, "calls"), Counted(d, x, s2, n, "calls")
  PROVE  OK(d, cs, vs, r2, x, s2, n, "calls")
<1>1. /\ ProveLife(d) = ProveLife(c) /\ VerifyLife(d, 1) = VerifyLife(c, 1)
      /\ ReassignLife(d) = ReassignLife(c)
  BY SameLives
<1>2. ProofDeadline(d) = ProofDeadline(c) /\ Handed(d) = Handed(c)
  BY <1>1 DEF ProofDeadline, Handed
<1>3. Slips(d, cs, vs, n, "calls")
  BY <1>2 DEF OK, Slips
<1>4. Times(d, n)
  BY <1>1, <1>2 DEF OK, Times
<1> QED
  BY <1>3, <1>4 DEF OK

\* submit_idle_proof keeps its miner in order.
LEMMA IdleProofOK ==
  ASSUME NEW c, NEW cs, NEW vs, NEW r, NEW x, NEW s, NEW n \in Nat,
         OK(c, cs, vs, r, x, s, n, "calls"),
         c.on, c.idleTee = NoTee, NEW tee \in Tees
  PROVE  OK([c EXCEPT !.idleTee = tee], cs, vs, r, x, s, n, "calls")
<1> DEFINE d == [c EXCEPT !.idleTee = tee]
<1>1. c \in Challenges /\ r \in Nat /\ x \in BOOLEAN /\ s \in Nat
  BY DEF OK
<1>2. d \in Challenges
  BY <1>1 DEF Challenges
<1>3. /\ d.on = c.on /\ d.start = c.start /\ d.idle = c.idle /\ d.service = c.service
      /\ d.idleSlip = c.idleSlip /\ d.serviceSlip = c.serviceSlip
      /\ d.verifySlip = c.verifySlip /\ d.assign = c.assign /\ d.idleTee = tee
      /\ d.idleResult = c.idleResult /\ d.serviceResult = c.serviceResult
      /\ d.serviceTee = c.serviceTee
  BY <1>1, Zenon DEF Challenges
<1> HIDE DEF d
<1>4. Proved(d, r, s, n, "calls")
  BY <1>3, AuditConstants DEF OK, Proved
<1>5. Counted(d, x, s, n, "calls")
  BY <1>3 DEF OK, Counted, ProofDeadline
<1>6. OK(d, cs, vs, r, x, s, n, "calls")
  BY <1>1, <1>2, <1>3, <1>4, <1>5, CallOK, Zenon
<1> QED
  BY <1>6 DEF d

\* submit_service_proof keeps its miner in order, in the block of the deadline too.
LEMMA ServiceProofOK ==
  ASSUME NEW c, NEW cs, NEW vs, NEW r, NEW x, NEW s, NEW n \in Nat,
         OK(c, cs, vs, r, x, s, n, "calls"),
         c.on, c.serviceTee = NoTee, n <= c.serviceSlip, NEW tee \in Tees
  PROVE  OK([c EXCEPT !.serviceTee = tee], cs, vs, r, x, n, n, "calls")
<1> DEFINE d == [c EXCEPT !.serviceTee = tee]
<1>1. c \in Challenges /\ r \in Nat /\ x \in BOOLEAN /\ s \in Nat
  BY DEF OK
<1>2. d \in Challenges
  BY <1>1 DEF Challenges
<1>3. /\ d.on = c.on /\ d.start = c.start /\ d.idle = c.idle /\ d.service = c.service
      /\ d.idleSlip = c.idleSlip /\ d.serviceSlip = c.serviceSlip
      /\ d.verifySlip = c.verifySlip /\ d.assign = c.assign /\ d.serviceTee = tee
      /\ d.idleResult = c.idleResult /\ d.serviceResult = c.serviceResult
      /\ d.idleTee = c.idleTee
  BY <1>1, Zenon DEF Challenges
<1> HIDE DEF d
<1>4. Proved(d, r, n, n, "calls")
  BY <1>3, AuditConstants DEF OK, Proved
<1>5. Counted(d, x, n, n, "calls")
  <2>1. /\ ProofDeadline(c) \in Nat /\ c.serviceSlip \in Nat
        /\ n <= ProofDeadline(c) /\ ProofDeadline(d) = ProofDeadline(c)
    BY <1>1, <1>3, DeadlineTyped DEF ProofDeadline, Challenges
  <2>2. tee # NoTee
    BY AuditConstants
  <2> QED
    BY <1>3, <2>1, <2>2 DEF OK, Counted, ClearAhead
<1>6. OK(d, cs, vs, r, x, n, n, "calls")
  BY <1>1, <1>2, <1>3, <1>4, <1>5, CallOK, Zenon
<1> QED
  BY <1>6 DEF d

\* A verdict on the idle proof keeps its miner in order.
LEMMA IdleVerdictOK ==
  ASSUME NEW c, NEW cs, NEW vs, NEW r, NEW x, NEW s, NEW n \in Nat,
         OK(c, cs, vs, r, x, s, n, "calls"),
         c.on, c.idleTee # NoTee, c.idleResult = "none",
         NEW v \in {"pass", "fail"}
  PROVE  OK([c EXCEPT !.idleResult = v], cs, vs,
            IF v = "pass" /\ c.serviceResult = "pass" THEN r + 1 ELSE r,
            x, s, n, "calls")
<1> DEFINE d == [c EXCEPT !.idleResult = v]
           q == IF v = "pass" /\ c.serviceResult = "pass" THEN r + 1 ELSE r
<1>1. c \in Challenges /\ r \in Nat /\ x \in BOOLEAN /\ s \in Nat
  BY DEF OK
<1>2. d \in Challenges
  BY <1>1 DEF Challenges, Verdicts
<1>3. /\ d.on = c.on /\ d.start = c.start /\ d.idle = c.idle /\ d.service = c.service
      /\ d.idleSlip = c.idleSlip /\ d.serviceSlip = c.serviceSlip
      /\ d.verifySlip = c.verifySlip /\ d.assign = c.assign /\ d.idleTee = c.idleTee
      /\ d.idleResult = v /\ d.serviceResult = c.serviceResult
      /\ d.serviceTee = c.serviceTee
  BY <1>1, Zenon DEF Challenges
<1> HIDE DEF d
<1>4. r = 0
  BY DEF OK, Proved
<1>5. q \in Nat /\ Proved(d, q, s, n, "calls")
  BY <1>3, <1>4 DEF OK, Proved
<1>6. Counted(d, x, s, n, "calls")
  BY <1>3 DEF OK, Counted, ProofDeadline
<1> HIDE DEF q
<1>7. OK(d, cs, vs, q, x, s, n, "calls")
  BY <1>1, <1>2, <1>3, <1>5, <1>6, CallOK, Zenon
<1> QED
  BY <1>7 DEF d, q

\* A verdict on the service proof keeps its miner in order.
LEMMA ServiceVerdictOK ==
  ASSUME NEW c, NEW cs, NEW vs, NEW r, NEW x, NEW s, NEW n \in Nat,
         OK(c, cs, vs, r, x, s, n, "calls"),
         c.on, c.serviceTee # NoTee, c.serviceResult = "none",
         NEW v \in {"pass", "fail"}
  PROVE  OK([c EXCEPT !.serviceResult = v], cs, vs,
            IF v = "pass" /\ c.idleResult = "pass" THEN r + 1 ELSE r,
            x, s, n, "calls")
<1> DEFINE d == [c EXCEPT !.serviceResult = v]
           q == IF v = "pass" /\ c.idleResult = "pass" THEN r + 1 ELSE r
<1>1. c \in Challenges /\ r \in Nat /\ x \in BOOLEAN /\ s \in Nat
  BY DEF OK
<1>2. d \in Challenges
  BY <1>1 DEF Challenges, Verdicts
<1>3. /\ d.on = c.on /\ d.start = c.start /\ d.idle = c.idle /\ d.service = c.service
      /\ d.idleSlip = c.idleSlip /\ d.serviceSlip = c.serviceSlip
      /\ d.verifySlip = c.verifySlip /\ d.assign = c.assign /\ d.idleTee = c.idleTee
      /\ d.serviceResult = v /\ d.idleResult = c.idleResult
      /\ d.serviceTee = c.serviceTee
  BY <1>1, Zenon DEF Challenges
<1> HIDE DEF d
<1>4. r = 0
  BY DEF OK, Proved
<1>5. q \in Nat /\ Proved(d, q, s, n, "calls")
  BY <1>3, <1>4 DEF OK, Proved
<1>6. Counted(d, x, s, n, "calls")
  BY <1>3 DEF OK, Counted, ProofDeadline
<1> HIDE DEF q
<1>7. OK(d, cs, vs, q, x, s, n, "calls")
  BY <1>1, <1>2, <1>3, <1>5, <1>6, CallOK, Zenon
<1> QED
  BY <1>7 DEF d, q

-----------------------------------------------------------------------------
(* Every step keeps every miner in order *)

\* The initial state is in order.
LEMMA InitInv == Init => Inv
<1> SUFFICES ASSUME Init PROVE Inv
  OBVIOUS
<1>1. NoChallenge \in Challenges
  BY DEF NoChallenge, Challenges, Verdicts
<1>2. TypeOK
  BY <1>1, AuditConstants DEF Init, TypeOK, Phases
<1>3. \A m \in Miners : MinerOK(m)
  BY ClosedOK, ZenonT(30) DEF Init, MinerOK
<1> QED
  BY <1>2, <1>3 DEF Inv

\* A new block.
LEMMA NextBlockInv == ASSUME Inv, NextBlock PROVE Inv'
<1>1. TypeOK'
  BY DEF Inv, TypeOK, NextBlock, Phases
<1>2. ASSUME NEW m \in Miners PROVE MinerOK(m)'
  BY TickOK DEF Inv, TypeOK, NextBlock, MinerOK
<1> QED
  BY <1>1, <1>2 DEF Inv

\* generate_challenge.
LEMMA GeneratePhaseInv == ASSUME Inv, GeneratePhase PROVE Inv'
<1>1. CASE NoneGenerated
  <2>1. TypeOK'
    BY <1>1, Zenon DEF Inv, TypeOK, GeneratePhase, NoneGenerated, Phases
  <2>2. ASSUME NEW m \in Miners PROVE MinerOK(m)'
    BY <1>1, UndrawnOK, Zenon DEF Inv, GeneratePhase, NoneGenerated, MinerOK
  <2> QED
    BY <2>1, <2>2 DEF Inv
<1>2. ASSUME NEW m \in Miners, NEW sp \in Spaces, GenerateChallenge(m, sp)
      PROVE  Inv'
  <2> USE <1>2
  <2>1. /\ OpenChallenge(sp).verifySlip \in Nat /\ now + ProveLife(sp) \in Nat
        /\ OK(OpenChallenge(sp), {now + ProveLife(sp)},
              {OpenChallenge(sp).verifySlip}, 0, FALSE, 0, now, "clear")
    BY OpenOK, Zenon DEF Inv, TypeOK, GenerateChallenge
  <2>2. OpenChallenge(sp) \in Challenges
    BY <2>1, Zenon DEF OK
  <2>3. TypeOK'
    BY <2>1, <2>2 DEF Inv, TypeOK, GeneratePhase, GenerateChallenge, Phases
  <2>4. challengeSlip[m] = {} /\ verifySlip[m] = {}
    BY Zenon DEF Inv, MinerOK, OK, Slips, GenerateChallenge
  <2>5. MinerOK(m)'
    BY <2>1, <2>4, ZenonT(30) DEF Inv, TypeOK, MinerOK, GeneratePhase, GenerateChallenge
  <2>6. ASSUME NEW k \in Miners, k # m PROVE MinerOK(k)'
    <3>1. OK(challenge[k], challengeSlip[k], verifySlip[k], recorded[k],
             missed[k], servedAt[k], now, "clear")
      BY UndrawnOK, Zenon DEF Inv, MinerOK, GeneratePhase
    <3> QED
      BY <3>1, <2>6 DEF Inv, TypeOK, MinerOK, GeneratePhase, GenerateChallenge
  <2> QED
    BY <2>3, <2>5, <2>6 DEF Inv
<1> QED
  BY <1>1, <1>2 DEF GeneratePhase

\* clear_challenge.
LEMMA ClearChallengeInv == ASSUME Inv, ClearChallenge PROVE Inv'
<1>1. Unproved \subseteq Miners
  BY DEF Unproved
<1>2. countedClear' \in [Miners -> 0 .. (ExitCount - 1)]
  <2>1. ASSUME NEW m \in Miners PROVE countedClear'[m] \in 0 .. (ExitCount - 1)
    <3>1. countedClear[m] \in 0 .. (ExitCount - 1)
      BY DEF Inv, TypeOK
    <3>2. \/ countedClear'[m] = 0
          \/ countedClear'[m] = countedClear[m] + 1 /\ ~(countedClear[m] + 1 >= ExitCount)
          \/ countedClear'[m] = countedClear[m]
      BY Zenon DEF ClearChallenge
    <3> QED
      BY <3>1, <3>2, AuditConstants
  <2>2. countedClear' = [m \in Miners |-> countedClear'[m]]
    BY Zenon DEF ClearChallenge
  <2> QED
    BY <2>1, <2>2, Zenon
<1>3. TypeOK'
  BY <1>1, <1>2, Zenon DEF Inv, TypeOK, ClearChallenge, Phases
<1>4. ASSUME NEW m \in Miners PROVE MinerOK(m)'
  <2> DEFINE y == missed[m] \/ m \in Unproved
  <2>1. /\ y \in BOOLEAN /\ now \in Nat
        /\ y <=> missed[m] \/ (/\ now \in challengeSlip[m] /\ challenge[m].on
                               /\ challenge[m].serviceTee = NoTee)
    BY Zenon DEF Inv, TypeOK, Unproved
  <2>2. OK(challenge[m], challengeSlip[m], verifySlip[m], recorded[m],
           missed[m], servedAt[m], now, "clear")
    BY Zenon DEF Inv, MinerOK, ClearChallenge
  <2> HIDE DEF y
  <2>3. OK(challenge[m], challengeSlip[m] \ {now}, verifySlip[m], recorded[m],
           y, servedAt[m], now, "verify")
    BY <2>1, <2>2, ClearOK
  <2>4. missed'[m] = y
    BY DEF ClearChallenge, y
  <2> QED
    BY <2>3, <2>4 DEF ClearChallenge, MinerOK
<1> QED
  BY <1>3, <1>4 DEF Inv

\* clear_verify_mission.
LEMMA ClearVerifyMissionInv ==
  ASSUME Inv, NEW tee \in Selectable, ClearVerifyMission(tee) PROVE Inv'
<1>1. tee \in Tees \cup {NoTee} /\ now \in Nat
  BY DEF Selectable, Inv, TypeOK
<1>2. ASSUME NEW m \in Miners
      PROVE  /\ challenge'[m] \in Challenges /\ verifySlip'[m] \in SUBSET Nat
             /\ MinerOK(m)'
  <2> DEFINE c == challenge[m]
             due == now \in verifySlip[m] /\ c.on
  <2>1. /\ OK(c, challengeSlip[m], verifySlip[m], recorded[m],
              missed[m], servedAt[m], now, "verify")
        /\ c \in Challenges /\ verifySlip[m] \in SUBSET Nat
    BY DEF Inv, TypeOK, MinerOK, ClearVerifyMission
  <2>2. /\ challenge'[m] = IF due THEN IF Finished(c) THEN NoChallenge
                                       ELSE Reassigned(c, tee)
                           ELSE c
        /\ verifySlip'[m] = IF due THEN IF Finished(c) THEN verifySlip[m] \ {now}
                                        ELSE (verifySlip[m] \ {now})
                                               \cup {now + ReassignLife(c)}
                            ELSE verifySlip[m]
        /\ UNCHANGED <<challengeSlip, recorded, missed, servedAt, now>>
        /\ phase' = "calls"
    BY ZenonT(30) DEF ClearVerifyMission
  <2> HIDE DEF c
  <2>3. CASE ~due
    BY <1>1, <2>1, <2>2, <2>3, NotDueOK, ZenonT(30) DEF MinerOK
  <2>4. CASE due /\ Finished(c)
    <3>1. NoChallenge \in Challenges
      BY DEF NoChallenge, Challenges, Verdicts
    <3>2. OK(NoChallenge, challengeSlip[m], verifySlip[m] \ {now}, recorded[m],
             missed[m], servedAt[m], now, "calls")
      BY <1>1, <2>1, <2>4, OverOK, ZenonT(30)
    <3>3. challenge'[m] = NoChallenge /\ verifySlip'[m] = verifySlip[m] \ {now}
      BY <2>2, <2>4, ZenonT(30)
    <3>4. MinerOK(m)'
      BY <2>2, <3>2, <3>3, ZenonT(30) DEF MinerOK
    <3>5. verifySlip'[m] \in SUBSET Nat
      BY <2>1, <3>3, ZenonT(30)
    <3> QED
      BY <3>1, <3>3, <3>4, <3>5, Zenon
  <2>5. CASE due /\ ~Finished(c)
    <3>1. /\ Reassigned(c, tee) \in Challenges /\ now + ReassignLife(c) \in Nat
          /\ OK(Reassigned(c, tee), challengeSlip[m],
                (verifySlip[m] \ {now}) \cup {now + ReassignLife(c)},
                recorded[m], missed[m], servedAt[m], now, "calls")
      BY <1>1, <2>1, <2>5, AgainOK, ZenonT(30)
    <3>2. /\ challenge'[m] = Reassigned(c, tee)
          /\ verifySlip'[m] = (verifySlip[m] \ {now}) \cup {now + ReassignLife(c)}
      BY <2>2, <2>5, ZenonT(30)
    <3>3. MinerOK(m)'
      BY <2>2, <3>1, <3>2, ZenonT(30) DEF MinerOK
    <3>4. verifySlip'[m] \in SUBSET Nat
      BY <2>1, <3>1, <3>2, ZenonT(30)
    <3> QED
      BY <3>1, <3>2, <3>3, <3>4, ZenonT(30)
  <2> QED
    BY <2>3, <2>4, <2>5, Zenon
<1>3. /\ challenge' = [m \in Miners |-> challenge'[m]]
      /\ verifySlip' = [m \in Miners |-> verifySlip'[m]]
  BY Zenon DEF ClearVerifyMission
<1>4. challenge' \in [Miners -> Challenges] /\ verifySlip' \in [Miners -> SUBSET Nat]
  BY <1>2, <1>3, Zenon
<1>5. TypeOK'
  BY <1>4 DEF Inv, TypeOK, ClearVerifyMission, Phases
<1> QED
  BY <1>2, <1>5 DEF Inv

\* submit_idle_proof.
LEMMA SubmitIdleProofInv ==
  ASSUME Inv, NEW m \in Miners, NEW tee \in validators, SubmitIdleProof(m, tee)
  PROVE  Inv'
<1>1. tee \in Tees /\ now \in Nat /\ phase = "calls" /\ challenge[m] \in Challenges
  BY DEF Inv, TypeOK, SubmitIdleProof
<1> DEFINE d == [challenge[m] EXCEPT !.idleTee = tee]
<1>2. OK(d, challengeSlip[m], verifySlip[m], recorded[m],
         missed[m], servedAt[m], now, "calls")
  BY <1>1, IdleProofOK DEF Inv, MinerOK, SubmitIdleProof
<1>3. d \in Challenges
  BY <1>2 DEF OK
<1>4. challenge' = [challenge EXCEPT ![m] = d]
  BY DEF SubmitIdleProof
<1> HIDE DEF d
<1>5. countedClear' \in [Miners -> 0 .. (ExitCount - 1)]
  BY AuditConstants DEF Inv, TypeOK, SubmitIdleProof
<1>6. TypeOK'
  BY <1>3, <1>4, <1>5 DEF Inv, TypeOK, SubmitIdleProof
<1>7. MinerOK(m)'
  BY <1>1, <1>2, <1>4 DEF Inv, TypeOK, MinerOK, SubmitIdleProof
<1>8. ASSUME NEW k \in Miners, k # m PROVE MinerOK(k)'
  BY <1>4, <1>8 DEF Inv, TypeOK, MinerOK, SubmitIdleProof
<1> QED
  BY <1>6, <1>7, <1>8 DEF Inv

\* submit_service_proof.
LEMMA SubmitServiceProofInv ==
  ASSUME Inv, NEW m \in Miners, NEW tee \in validators, SubmitServiceProof(m, tee)
  PROVE  Inv'
<1>1. tee \in Tees /\ now \in Nat /\ phase = "calls" /\ challenge[m] \in Challenges
  BY DEF Inv, TypeOK, SubmitServiceProof
<1> DEFINE d == [challenge[m] EXCEPT !.serviceTee = tee]
<1>2. OK(d, challengeSlip[m], verifySlip[m], recorded[m],
         missed[m], now, now, "calls")
  BY <1>1, ServiceProofOK DEF Inv, MinerOK, SubmitServiceProof
<1>3. d \in Challenges
  BY <1>2 DEF OK
<1>4. challenge' = [challenge EXCEPT ![m] = d]
  BY DEF SubmitServiceProof
<1> HIDE DEF d
<1>5. countedClear' \in [Miners -> 0 .. (ExitCount - 1)]
  BY AuditConstants DEF Inv, TypeOK, SubmitServiceProof
<1>6. TypeOK'
  BY <1>1, <1>3, <1>4, <1>5 DEF Inv, TypeOK, SubmitServiceProof
<1>7. MinerOK(m)'
  BY <1>1, <1>2, <1>4 DEF Inv, TypeOK, MinerOK, SubmitServiceProof
<1>8. ASSUME NEW k \in Miners, k # m PROVE MinerOK(k)'
  BY <1>4, <1>8 DEF Inv, TypeOK, MinerOK, SubmitServiceProof
<1> QED
  BY <1>6, <1>7, <1>8 DEF Inv

\* submit_verify_idle_result.
LEMMA SubmitVerifyIdleResultInv ==
  ASSUME Inv, NEW m \in Miners, NEW result \in {"pass", "fail"},
         SubmitVerifyIdleResult(m, result)
  PROVE  Inv'
<1>1. now \in Nat /\ phase = "calls" /\ recorded[m] \in Nat
  BY DEF Inv, TypeOK, SubmitVerifyIdleResult
<1> DEFINE d == [challenge[m] EXCEPT !.idleResult = result]
           q == IF result = "pass" /\ challenge[m].serviceResult = "pass"
                THEN recorded[m] + 1 ELSE recorded[m]
<1>2. OK(d, challengeSlip[m], verifySlip[m], q, missed[m], servedAt[m], now, "calls")
  <2>1. /\ OK(challenge[m], challengeSlip[m], verifySlip[m], recorded[m],
              missed[m], servedAt[m], now, "calls")
        /\ challenge[m].on /\ challenge[m].idleTee # NoTee
        /\ challenge[m].idleResult = "none"
    BY <1>1 DEF Inv, MinerOK, SubmitVerifyIdleResult
  <2> QED
    BY <1>1, <2>1, IdleVerdictOK, Zenon
<1>3. d \in Challenges /\ q \in Nat
  BY <1>1, <1>2 DEF OK
<1>4. challenge' = [challenge EXCEPT ![m] = d] /\ recorded' = [recorded EXCEPT ![m] = q]
  BY Zenon DEF SubmitVerifyIdleResult, Inv, TypeOK
<1> HIDE DEF d, q
<1>5. TypeOK'
  BY <1>3, <1>4 DEF Inv, TypeOK, SubmitVerifyIdleResult
<1>6. MinerOK(m)'
  BY <1>1, <1>2, <1>4 DEF Inv, TypeOK, MinerOK, SubmitVerifyIdleResult
<1>7. ASSUME NEW k \in Miners, k # m PROVE MinerOK(k)'
  BY <1>4, <1>7 DEF Inv, TypeOK, MinerOK, SubmitVerifyIdleResult
<1> QED
  BY <1>5, <1>6, <1>7 DEF Inv

\* submit_verify_service_result.
LEMMA SubmitVerifyServiceResultInv ==
  ASSUME Inv, NEW m \in Miners, NEW result \in {"pass", "fail"},
         SubmitVerifyServiceResult(m, result)
  PROVE  Inv'
<1>1. now \in Nat /\ phase = "calls" /\ recorded[m] \in Nat
  BY DEF Inv, TypeOK, SubmitVerifyServiceResult
<1> DEFINE d == [challenge[m] EXCEPT !.serviceResult = result]
           q == IF result = "pass" /\ challenge[m].idleResult = "pass"
                THEN recorded[m] + 1 ELSE recorded[m]
<1>2. OK(d, challengeSlip[m], verifySlip[m], q, missed[m], servedAt[m], now, "calls")
  <2>1. /\ OK(challenge[m], challengeSlip[m], verifySlip[m], recorded[m],
              missed[m], servedAt[m], now, "calls")
        /\ challenge[m].on /\ challenge[m].serviceTee # NoTee
        /\ challenge[m].serviceResult = "none"
    BY <1>1 DEF Inv, MinerOK, SubmitVerifyServiceResult
  <2> QED
    BY <1>1, <2>1, ServiceVerdictOK, Zenon
<1>3. d \in Challenges /\ q \in Nat
  BY <1>1, <1>2 DEF OK
<1>4. challenge' = [challenge EXCEPT ![m] = d] /\ recorded' = [recorded EXCEPT ![m] = q]
  BY Zenon DEF SubmitVerifyServiceResult, Inv, TypeOK
<1> HIDE DEF d, q
<1>5. countedServiceFailed' \in [Miners -> Nat]
  BY DEF Inv, TypeOK, SubmitVerifyServiceResult
<1>6. TypeOK'
  BY <1>3, <1>4, <1>5 DEF Inv, TypeOK, SubmitVerifyServiceResult
<1>7. MinerOK(m)'
  BY <1>1, <1>2, <1>4 DEF Inv, TypeOK, MinerOK, SubmitVerifyServiceResult
<1>8. ASSUME NEW k \in Miners, k # m PROVE MinerOK(k)'
  BY <1>4, <1>8 DEF Inv, TypeOK, MinerOK, SubmitVerifyServiceResult
<1> QED
  BY <1>6, <1>7, <1>8 DEF Inv

\* A change of the lists of miners or TEE workers touches no challenge.
LEMMA MembershipInv == ASSUME Inv, Membership PROVE Inv'
<1>1. /\ UNCHANGED <<now, phase, challenge, challengeSlip, verifySlip, countedClear,
                     countedServiceFailed, recorded, missed, servedAt>>
      /\ allMiner' \subseteq Miners /\ validators' \subseteq Tees
  BY DEF Inv, TypeOK, Membership, TeeJoins, TeeLeaves, MinerLeaves
<1>2. TypeOK'
  BY <1>1 DEF Inv, TypeOK
<1>3. ASSUME NEW m \in Miners PROVE MinerOK(m)'
  BY <1>1, Zenon DEF Inv, MinerOK
<1> QED
  BY <1>2, <1>3 DEF Inv

\* Every step keeps the invariant.
LEMMA NextInv == Inv /\ [Next]_vars => Inv'
<1> SUFFICES ASSUME Inv, [Next]_vars PROVE Inv'
  OBVIOUS
<1>1. CASE Hook
  BY <1>1, NextBlockInv, GeneratePhaseInv, ClearChallengeInv, ClearVerifyMissionInv
     DEF Hook
<1>2. CASE Call
  BY <1>2, SubmitIdleProofInv, SubmitServiceProofInv, SubmitVerifyIdleResultInv,
     SubmitVerifyServiceResultInv DEF Call
<1>3. CASE Membership
  BY <1>3, MembershipInv
<1>4. CASE UNCHANGED vars
  BY <1>4 DEF Inv, TypeOK, MinerOK, vars
<1> QED
  BY <1>1, <1>2, <1>3, <1>4 DEF Next

-----------------------------------------------------------------------------
(* The theorems *)

\* The invariant is inductive.
LEMMA Inductive == Spec => []Inv
  BY InitInv, NextInv, PTL DEF Spec

\* Type correctness, with at most two reassignments of a challenge and a CountedClear
\* that stays below the threshold of the forced exit.
THEOREM TypeCorrect == Spec => []TypeOK
<1>1. Inv => TypeOK
  BY DEF Inv
<1> QED
  BY <1>1, Inductive, PTL

\* An open challenge is always filed under exactly the deadlines it still has, and a
\* miner without one under none: no challenge can get stuck, no entry can leak.
THEOREM DeadlinesKept == Spec => []SlipsExact
<1>1. Inv => SlipsExact
  BY Zenon DEF Inv, MinerOK, OK, Slips, SlipsExact, ClearAhead, VerifyAhead,
         ClearPending, VerifyPending
<1> QED
  BY <1>1, Inductive, PTL

\* Every challenge ends within the life its snapshot fixes.
THEOREM ChallengeEnds == Spec => []BoundedLife
<1>1. ASSUME Inv, NEW m \in Miners, challenge[m].on
      PROVE  now <= challenge[m].start + LongestLife(challenge[m])
  <2> DEFINE c == challenge[m]
  <2>1. /\ c \in Challenges /\ now \in Nat
        /\ VerifyAhead(c.verifySlip, now, phase) /\ Times(c, now) /\ c.on
    BY <1>1 DEF Inv, TypeOK, MinerOK, OK, Slips
  <2> HIDE DEF c
  <2>2. /\ c.start \in Nat /\ c.idle \in Nat /\ c.service \in Nat
        /\ c.verifySlip \in Nat
    BY <2>1 DEF Challenges
  <2>3. ProveLife(c) \in Nat /\ VerifyLife(c, 1) \in Nat /\ ReassignLife(c) \in Nat
    BY <2>2, LivesTyped
  <2>4. Handed(c) \in Nat /\ Handed(c) <= ReassignLife(c) + ReassignLife(c)
    BY <2>3 DEF Handed
  <2>5. /\ now <= c.verifySlip
        /\ c.verifySlip <= c.start + ProveLife(c) + VerifyLife(c, 1) + Handed(c)
    BY <2>1, <2>2 DEF VerifyAhead, Times
  <2>6. now <= c.start + LongestLife(c)
    BY <2>1, <2>2, <2>3, <2>4, <2>5 DEF LongestLife
  <2> QED
    BY <2>6, Zenon DEF c
<1>2. Inv => BoundedLife
  BY <1>1 DEF BoundedLife
<1> QED
  BY <1>2, Inductive, PTL

\* A challenge is recorded for the reward once, when both verdicts are positive, and
\* otherwise not at all.
THEOREM RewardOnce == Spec => []RecordedOnce
<1>1. Inv => RecordedOnce
  BY ZenonT(30) DEF Inv, MinerOK, OK, Proved, RecordedOnce
<1> QED
  BY <1>1, Inductive, PTL

\* clear_challenge counts exactly the challenges without a service proof before the
\* block of their deadline.
THEOREM CountExact == Spec => []MissedExactly
<1>1. Inv => MissedExactly
  BY Zenon DEF Inv, MinerOK, OK, Counted, MissedExactly, ClearAhead, ClearPending
<1> QED
  BY <1>1, Inductive, PTL
-----------------------------------------------------------------------------
(***************************************************************************)
(* Staking, for any length of eras, bonding period, history, electorate    *)
(* and election.  EraOrder is not inductive: a rotation needs that no era  *)
(* beyond the planned one has a start session, and that the active era is  *)
(* never cleared from it, which Kept states.  BondedCover needs EraOrder,  *)
(* for the session that a new entry begins with.                           *)
(***************************************************************************)

Window(last) == {e \in 0 .. last : e >= last - HistoryDepth}

Entry == [era : Nat, start : Nat]

EraType ==
  /\ session \in Nat /\ current_era \in Nat /\ active_era \in Nat
  /\ bonded_eras \in Seq(Entry)
  /\ force_era \in Forcing

Kept == start_index \in [Window(current_era) -> Nat]

EraInv == EraType /\ Kept /\ EraOrder /\ BondedCover

----------------------------------------------------------------------------
\* The bonding window moves by at most one era.
LEMMA FirstKept ==
  ASSUME NEW a \in Nat
  PROVE  /\ first_kept(a) \in Nat
         /\ first_kept(a) <= a
         /\ first_kept(a + 1) \in Nat
         /\ \/ first_kept(a + 1) = first_kept(a)
            \/ first_kept(a + 1) = first_kept(a) + 1
BY EraAssumption DEF first_kept

\* Among consecutive eras, one prefix lies before a given era and the rest not.
LEMMA OnePrefix ==
  ASSUME NEW s \in Seq(Entry), NEW k \in Nat, NEW d \in {0, 1}, Len(s) >= 2,
         \A i \in 1 .. Len(s) : s[i].era = k + i - 1
  PROVE  (CHOOSE n \in 0 .. Len(s) :
            /\ \A i \in 1 .. n : s[i].era < k + d
            /\ n < Len(s) => s[n + 1].era >= k + d) = d
<1> DEFINE P(n) == /\ \A i \in 1 .. n : s[i].era < k + d
                   /\ n < Len(s) => s[n + 1].era >= k + d
<1>1. Len(s) \in Nat
  OBVIOUS
<1>2. P(d) /\ d \in 0 .. Len(s)
  BY <1>1
<1>3. ASSUME NEW n \in 0 .. Len(s), P(n) PROVE n = d
  <2>1. n >= 1 => s[n].era < k + d /\ s[n].era = k + n - 1
    BY <1>1, <1>3
  <2>2. ASSUME n < Len(s) PROVE s[n + 1].era >= k + d /\ s[n + 1].era = k + n
    <3>1. n + 1 \in 1 .. Len(s) /\ n \in Int /\ k + (n + 1) - 1 = k + n
      BY <1>1, <2>2
    <3>2. s[n + 1].era >= k + d
      BY <1>3, <2>2
    <3>3. s[n + 1].era = k + (n + 1) - 1
      BY <3>1
    <3>4. QED BY <3>1, <3>2, <3>3
  <2>3. QED BY <1>1, <2>1, <2>2
<1>4. QED BY <1>2, <1>3, ZenonT(30)

LEMMA DropFront ==
  ASSUME NEW s \in Seq(Entry), NEW d \in {0, 1}, Len(s) >= 2
  PROVE  /\ SubSeq(s, d + 1, Len(s)) \in Seq(Entry)
         /\ Len(SubSeq(s, d + 1, Len(s))) = Len(s) - d
         /\ \A i \in 1 .. Len(s) - d : SubSeq(s, d + 1, Len(s))[i] = s[i + d]
<1>1. Len(s) \in Nat
  OBVIOUS
<1>2. QED BY <1>1

\* So prune leaves the consecutive eras from d on, d being the eras by which
\* the window has moved.
LEMMA PruneConsecutive ==
  ASSUME NEW s \in Seq(Entry), NEW active \in Nat, NEW k \in Nat, NEW d \in {0, 1},
         first_kept(active) = k + d, Len(s) >= 2,
         \A i \in 1 .. Len(s) : s[i].era = k + i - 1
  PROVE  /\ prune(s, active) \in Seq(Entry)
         /\ Len(prune(s, active)) = Len(s) - d
         /\ \A i \in 1 .. Len(s) - d : prune(s, active)[i] = s[i + d]
<1>1. n_to_prune(s, active) = d
  BY OnePrefix DEF n_to_prune
<1>2. QED BY <1>1, DropFront DEF prune

----------------------------------------------------------------------------
LEMMA EraInit == Init_era => EraInv
<1> SUFFICES ASSUME Init_era PROVE EraInv
  OBVIOUS
<1> USE EraAssumption
<1>1. EraType
  BY DEF Init_era, EraType, Forcing, Entry
<1>2. Kept
  <2>1. current_era \in {0, 1} /\ Window(current_era) = 0 .. current_era
    BY DEF Init_era, Window
  <2>2. QED BY <2>1 DEF Kept, Init_era
<1>3. EraOrder
  BY DEF Init_era, EraOrder
<1>4. BondedCover
  BY DEF Init_era, BondedCover, first_kept
<1>5. QED BY <1>1, <1>2, <1>3, <1>4 DEF EraInv

\* The start of a session: the active era catches up with the planned one.
LEMMA EraStarts ==
  ASSUME EraInv, start_session(session + 1)
  PROVE  /\ active_era' = current_era
         /\ active_era' \in {active_era, active_era + 1}
         /\ era_starts(session + 1) <=> active_era' # active_era
         /\ start_index[current_era] <= session + 1
<1>1. /\ session \in Nat /\ current_era \in Nat /\ active_era \in Nat
      /\ DOMAIN start_index \subseteq 0 .. current_era
      /\ current_era \in DOMAIN start_index /\ start_index[current_era] \in Nat
  BY DEF EraInv, EraType, Kept, EraOrder, Window
<1>2. CASE current_era = active_era
  <2>1. ~ era_starts(session + 1)
    BY <1>1, <1>2 DEF era_starts
  <2>2. QED BY <1>1, <1>2, <2>1 DEF start_session, EraInv, EraOrder
<1>3. CASE current_era = active_era + 1
  <2>1. era_starts(session + 1)
    BY <1>1, <1>3 DEF era_starts, EraInv, EraOrder
  <2>2. QED BY <1>1, <1>3, <2>1 DEF start_session, EraInv, EraOrder
<1>4. QED BY <1>1, <1>2, <1>3 DEF EraInv, EraOrder

Consecutive(b, k) == \A i \in 1 .. Len(b) : b[i].era = k + i - 1
Rising(b) == \A i \in 1 .. Len(b) : i > 1 => b[i - 1].start < b[i].start

Added(s, b, e, t) ==
  /\ Len(s) = Len(b) + 1
  /\ \A i \in 1 .. Len(b) : s[i] = b[i]
  /\ s[Len(b) + 1].era = e /\ s[Len(b) + 1].start = t

\* A new entry keeps the eras consecutive and their sessions increasing.
LEMMA AddedEntry ==
  ASSUME NEW b \in Seq(Entry), NEW s \in Seq(Entry), NEW k \in Nat, NEW t \in Nat,
         Added(s, b, k + Len(b), t), Len(b) >= 1, b[Len(b)].start < t,
         Consecutive(b, k), Rising(b)
  PROVE  Consecutive(s, k) /\ Rising(s)
<1>1. Len(b) \in Nat /\ Len(s) = Len(b) + 1
  BY DEF Added
<1>2. ASSUME NEW i \in 1 .. Len(s)
      PROVE  s[i].era = k + i - 1 /\ (i > 1 => s[i - 1].start < s[i].start)
  <2>1. CASE i \in 1 .. Len(b)
    <3>1. s[i] = b[i]
      BY <2>1 DEF Added
    <3>2. i > 1 => i - 1 \in 1 .. Len(b)
      BY <1>1, <2>1
    <3>3. i > 1 => s[i - 1] = b[i - 1]
      BY <3>2 DEF Added
    <3>4. QED BY <2>1, <3>1, <3>3, Zenon DEF Consecutive, Rising
  <2>2. CASE i = Len(b) + 1
    <3>1. s[i].era = k + Len(b) /\ s[i].start = t /\ s[i - 1] = b[Len(b)]
      BY <1>1, <2>2 DEF Added
    <3>2. QED BY <1>1, <2>2, <3>1
  <2>3. QED BY <1>1, <2>1, <2>2
<1>3. QED BY <1>1, <1>2 DEF Consecutive, Rising

LEMMA BondedStep ==
  ASSUME EraInv, start_session(session + 1),
         start_index'[active_era'] = start_index[current_era]
  PROVE  BondedCover' /\ bonded_eras' \in Seq(Entry)
<1>1. /\ session \in Nat /\ active_era \in Nat /\ current_era \in Nat
      /\ bonded_eras \in Seq(Entry)
      /\ start_index[active_era] \in Nat /\ start_index[active_era] <= session
  BY DEF EraInv, EraType, EraOrder, Kept
<1>2. CASE ~ era_starts(session + 1)
  <2>1. active_era' = active_era /\ bonded_eras' = bonded_eras
    BY <1>2 DEF start_session
  <2>2. QED BY <1>1, <2>1, EraStarts, Zenon DEF EraInv, BondedCover, first_kept
<1>3. CASE era_starts(session + 1)
  <2> DEFINE s == Append(bonded_eras, [era |-> active_era + 1, start |-> session + 1])
  <2>1. /\ active_era' = active_era + 1 /\ bonded_eras' = prune(s, active_era + 1)
        /\ current_era = active_era + 1 /\ start_index[current_era] = session + 1
    BY <1>1, <1>3, EraStarts DEF start_session, EraInv, EraOrder
  <2>2. PICK k \in Nat : k = first_kept(active_era) /\ k <= active_era
    BY <1>1, FirstKept, Zenon
  <2>3. PICK d \in {0, 1} : first_kept(active_era + 1) = k + d
    BY <1>1, <2>2, FirstKept
  <2>4. /\ Len(bonded_eras) = active_era - k + 1 /\ Len(bonded_eras) >= 1
        /\ bonded_eras[Len(bonded_eras)].start = start_index[active_era]
        /\ \A i \in 1 .. Len(bonded_eras) : bonded_eras[i].era = k + i - 1
        /\ \A i \in 1 .. Len(bonded_eras) :
             i > 1 => bonded_eras[i - 1].start < bonded_eras[i].start
    BY <1>1, <2>2 DEF EraInv, BondedCover
  <2>5. /\ active_era + 1 \in Nat /\ session + 1 \in Nat
        /\ active_era + 1 = k + Len(bonded_eras)
        /\ start_index[active_era] < session + 1
    <3>1. start_index[active_era] < session + 1
      BY <1>1
    <3>2. active_era \in Nat /\ session \in Nat
      BY <1>1
    <3>3. QED BY <2>2, <2>4, <3>1, <3>2
  <2>6. /\ s \in Seq(Entry) /\ Len(s) = Len(bonded_eras) + 1
        /\ \A i \in 1 .. Len(s) : s[i].era = k + i - 1
        /\ \A i \in 1 .. Len(s) : i > 1 => s[i - 1].start < s[i].start
        /\ s[Len(s)].start = session + 1
    <3> DEFINE new == [era |-> active_era + 1, start |-> session + 1]
    <3>1. new \in Entry /\ new.era = active_era + 1 /\ new.start = session + 1
      BY <2>5 DEF Entry
    <3> HIDE DEF new
    <3>2. /\ s \in Seq(Entry) /\ Len(s) = Len(bonded_eras) + 1
          /\ s[Len(bonded_eras) + 1] = new
          /\ \A i \in 1 .. Len(bonded_eras) : s[i] = bonded_eras[i]
      BY <1>1, <3>1 DEF s, new
    <3> HIDE DEF s
    <3>3. Added(s, bonded_eras, k + Len(bonded_eras), session + 1)
      BY <2>5, <3>1, <3>2 DEF Added
    <3>4. Consecutive(bonded_eras, k) /\ Rising(bonded_eras)
      BY <2>4, ZenonT(30) DEF Consecutive, Rising
    <3>5. Consecutive(s, k) /\ Rising(s)
      BY <1>1, <2>4, <2>5, <3>2, <3>3, <3>4, AddedEntry, Zenon
    <3>6. s[Len(s)].start = session + 1
      BY <3>1, <3>2
    <3>7. QED BY <3>2, <3>5, <3>6 DEF Consecutive, Rising
  <2> HIDE DEF s
  <2>7. Len(s) = active_era - k + 2 /\ Len(s) \in Nat /\ Len(s) >= 2
    <3>1. active_era \in Nat
      BY <1>1
    <3>2. QED BY <2>2, <2>4, <2>6, <3>1
  <2>8. /\ bonded_eras' \in Seq(Entry)
        /\ Len(bonded_eras') = Len(s) - d
        /\ \A i \in 1 .. Len(s) - d : bonded_eras'[i] = s[i + d]
    BY <2>1, <2>2, <2>3, <2>5, <2>6, <2>7, PruneConsecutive, ZenonT(30)
  <2>9. Len(bonded_eras') = (active_era + 1) - (k + d) + 1
    <3>1. active_era \in Nat /\ d \in Int
      BY <1>1
    <3>2. Len(bonded_eras') = Len(s) - d
      BY <2>8
    <3>3. QED BY <2>2, <2>7, <3>1, <3>2
  <2>10. ASSUME NEW i \in 1 .. Len(bonded_eras')
         PROVE  /\ bonded_eras'[i].era = (k + d) + i - 1
                /\ i > 1 => bonded_eras'[i - 1].start < bonded_eras'[i].start
    <3>1. i \in 1 .. Len(s) - d /\ i + d \in 1 .. Len(s) /\ bonded_eras'[i] = s[i + d]
      BY <2>7, <2>8
    <3>2. i > 1 => bonded_eras'[i - 1] = s[(i + d) - 1]
      BY <2>7, <2>8
    <3>3. i > 1 => i + d > 1
      BY <3>1
    <3>4. s[i + d].era = k + (i + d) - 1
      BY <2>6, <3>1
    <3>5. i > 1 => s[(i + d) - 1].start < s[i + d].start
      BY <2>6, <3>1, <3>3
    <3>6. k + (i + d) - 1 = (k + d) + i - 1
      BY <2>2, <3>1
    <3>7. QED BY <3>1, <3>2, <3>4, <3>5, <3>6
  <2>11. bonded_eras'[Len(bonded_eras')] = s[Len(s)]
    BY <2>7, <2>8
  <2>12. first_kept(active_era') = k + d /\ first_kept(active_era)' = first_kept(active_era')
    BY <2>1, <2>3 DEF first_kept
  <2>13. QED BY <2>1, <2>6, <2>8, <2>9, <2>10, <2>11, <2>12, ZenonT(30) DEF BondedCover, first_kept
<1>4. QED BY <1>2, <1>3

----------------------------------------------------------------------------
\* The planning of a session: the planned era is at most one ahead, its start
\* is the session planned, and the active era stays in the history.
LEMMA EraPlanned ==
  ASSUME EraInv, NEW elected \in BOOLEAN, rotate(elected)
  PROVE  /\ current_era' \in Nat /\ Kept' /\ force_era' \in Forcing
         /\ EraOrder'
         /\ start_index'[active_era'] = start_index[current_era]
<1>1. /\ session \in Nat /\ current_era \in Nat /\ active_era \in Nat
      /\ start_index \in [Window(current_era) -> Nat]
      /\ current_era \in Window(current_era)
      /\ session' = session + 1 /\ HistoryDepth \in Nat /\ HistoryDepth > 1
  BY EraAssumption DEF EraInv, EraType, Kept, EraOrder, rotate, Window
<1>2. active_era' = current_era /\ start_index[current_era] <= session + 1
  BY EraStarts DEF rotate
<1>3. CASE ~ (era_due(session + 2) /\ elected)
  <2>1. UNCHANGED <<current_era, start_index, force_era>>
    BY <1>3 DEF rotate, new_session
  <2>2. QED BY <1>1, <1>2, <2>1 DEF EraInv, EraType, Kept, EraOrder, Window
<1>4. CASE era_due(session + 2) /\ elected
  <2>1. /\ current_era' = current_era + 1
        /\ start_index' = [e \in {x \in DOMAIN start_index : in_history(x, current_era + 1)}
                                  \cup {current_era + 1}
                             |-> IF e = current_era + 1 THEN session + 2 ELSE start_index[e]]
        /\ force_era' \in Forcing
    BY <1>4 DEF rotate, new_session, EraInv, EraType, Forcing
  <2>2. {x \in DOMAIN start_index : in_history(x, current_era + 1)} \cup {current_era + 1}
          = Window(current_era + 1)
    BY <1>1 DEF in_history, Window
  <2>3. start_index' \in [Window(current_era + 1) -> Nat]
    <3>1. ASSUME NEW e \in Window(current_era + 1), e # current_era + 1
          PROVE  start_index[e] \in Nat
      BY <1>1, <3>1 DEF Window
    <3>2. QED BY <1>1, <2>1, <2>2, <3>1
  <2>4. /\ start_index'[current_era + 1] = session + 2
        /\ start_index'[current_era] = start_index[current_era]
        /\ {current_era, current_era + 1} \subseteq DOMAIN start_index'
    <3>1. current_era \in Window(current_era + 1) /\ current_era + 1 \in Window(current_era + 1)
      BY <1>1 DEF Window
    <3>2. QED BY <1>1, <2>1, <2>2, <3>1
  <2>5. Kept'
    BY <2>1, <2>3 DEF Kept, Window
  <2>6. EraOrder'
    BY <1>1, <1>2, <2>1, <2>4 DEF EraOrder
  <2>7. QED BY <1>1, <1>2, <2>1, <2>4, <2>5, <2>6
<1>5. QED BY <1>3, <1>4

LEMMA EraNext == EraInv /\ [Next_era]_eraVars => EraInv'
<1> SUFFICES ASSUME EraInv, [Next_era]_eraVars PROVE EraInv'
  OBVIOUS
<1>1. ASSUME NEW elected \in BOOLEAN, rotate(elected) PROVE EraInv'
  <2>1. /\ current_era' \in Nat /\ Kept' /\ force_era' \in Forcing
        /\ EraOrder'
        /\ start_index'[active_era'] = start_index[current_era]
    BY <1>1, EraPlanned
  <2>2. start_session(session + 1)
    BY <1>1 DEF rotate
  <2>3. BondedCover' /\ bonded_eras' \in Seq(Entry)
    BY <2>1, <2>2, BondedStep
  <2>4. session' \in Nat /\ active_era' \in Nat
    <3>1. session \in Nat /\ session' = session + 1
      BY <1>1, Zenon DEF rotate, EraInv, EraType
    <3>2. active_era' \in Nat
      BY <2>2, EraStarts DEF EraInv, EraType
    <3>3. QED BY <3>1, <3>2
  <2>5. QED BY <2>1, <2>3, <2>4 DEF EraInv, EraType
<1>2. ASSUME UNCHANGED <<session, current_era, active_era, start_index, bonded_eras>>,
             force_era' \in Forcing
      PROVE  EraInv'
  BY <1>2 DEF EraInv, EraType, Kept, EraOrder, BondedCover, first_kept, Window
<1>3. ASSUME NEW mode \in Forcing, set_force_era(mode) PROVE EraInv'
  BY <1>2, <1>3 DEF set_force_era
<1>4. CASE UNCHANGED eraVars
  BY <1>2, <1>4 DEF eraVars, EraInv, EraType
<1>5. QED BY <1>1, <1>3, <1>4 DEF Next_era

\* Sessions and eras by themselves.
THEOREM EraSafe == Spec_era => [](EraOrder /\ BondedCover)
<1>1. EraInv => EraOrder /\ BondedCover
  BY DEF EraInv
<1>2. QED BY EraInit, EraNext, <1>1, PTL DEF Spec_era

----------------------------------------------------------------------------
\* With payouts.

\* A step that plans nothing and ends nothing.
Quiet ==
  /\ UNCHANGED <<session, current_era, active_era, start_index, bonded_eras>>
  /\ force_era' = force_era \/ force_era' \in Forcing
  /\ UNCHANGED <<reward, exposure>>
  /\ DOMAIN claimed' = DOMAIN claimed

LEMMA PayoutSteps == Next_payout => Quiet \/ \E x : rotate_session(x)
<1> SUFFICES ASSUME Next_payout PROVE Quiet \/ \E x : rotate_session(x)
  OBVIOUS
<1>1. ASSUME UNCHANGED <<eraVars, reward, exposure, claimed>> PROVE Quiet
  BY <1>1 DEF Quiet, eraVars
<1>2. CASE \E x \in Elections \cup {<< >>} : rotate_session(x)
  BY <1>2
<1>3. CASE \E v \in Validators : note_author(v)
  BY <1>1, <1>3, Zenon DEF note_author
<1>4. ASSUME NEW v, NEW e, NEW page, do_payout_stakers_by_page(v, e, page) PROVE Quiet
  BY <1>4 DEF do_payout_stakers_by_page, Quiet, eraVars
<1>5. CASE \E v \in Validators, e \in DOMAIN claimed : payout_stakers(v, e)
  BY <1>4, <1>5 DEF payout_stakers
<1>6. CASE \E v \in Validators, e \in DOMAIN claimed :
             \E page \in 0 .. get_page_count(e, v) - 1 : do_payout_stakers_by_page(v, e, page)
  BY <1>4, <1>6
<1>7. CASE \E s \in Stashes : kill_stash(s)
  BY <1>1, <1>7 DEF kill_stash
<1>8. CASE \E s \in Stashes, dest \in {"Stash", "None"} : bond(s, dest) \/ set_payee(s, dest)
  BY <1>1, <1>8 DEF bond, set_payee
<1>9. CASE \E v \in Validators, c \in Commissions : validate(v, c)
  BY <1>1, <1>9 DEF validate
<1>10. CASE \E mode \in Forcing : force_new_era(mode)
  BY <1>10 DEF force_new_era, set_force_era, Quiet
<1>11. QED
  BY <1>2, <1>3, <1>5, <1>6, <1>7, <1>8, <1>9, <1>10 DEF Next_payout

LEMMA PayoutRefinesEra == Next_payout \/ UNCHANGED payoutVars => [Next_era]_eraVars
<1>1. ASSUME NEW x, rotate_session(x) PROVE Next_era
  BY <1>1, Zenon DEF rotate_session, Next_era
<1>2. ASSUME UNCHANGED <<session, current_era, active_era, start_index, bonded_eras>>,
             force_era' = force_era \/ force_era' \in Forcing
      PROVE  [Next_era]_eraVars
  BY <1>2 DEF Next_era, set_force_era, eraVars
<1>3. UNCHANGED payoutVars => UNCHANGED eraVars
  BY DEF payoutVars
<1>4. QED BY <1>1, <1>2, <1>3, PayoutSteps, ZenonT(30) DEF Quiet

\* What a rotation leaves of the window.
LEMMA WindowRotates ==
  ASSUME EraInv, WindowKept, NEW x, rotate_session(x)
  PROVE  WindowKept'
<1> DEFINE elected == x # << >>
<1>1. rotate(elected) /\ elected \in BOOLEAN
  BY Zenon DEF rotate_session
<1>2. /\ current_era \in Nat /\ active_era \in Nat /\ HistoryDepth \in Nat /\ HistoryDepth > 1
      /\ current_era = active_era \/ current_era = active_era + 1
      /\ DOMAIN exposure = Window(current_era) /\ DOMAIN claimed = Window(current_era)
      /\ DOMAIN reward = {e \in Window(current_era) : e < active_era}
  BY EraAssumption DEF EraInv, EraType, EraOrder, WindowKept, Window
<1>3. active_era' = current_era
  BY <1>1, EraStarts DEF rotate
<1>4. current_era' = current_era \/ current_era' = current_era + 1
  BY <1>1 DEF rotate, new_session
<1>5. era_ends(session) <=> current_era = active_era + 1
  BY <1>2 DEF era_ends, EraInv, EraOrder, EraType, Kept, Window
<1>6. DOMAIN end_session(session) = {e \in Window(current_era) : e < current_era}
  <2>1. CASE era_ends(session)
    BY <1>2, <1>5, <2>1 DEF end_session, Window
  <2>2. CASE ~ era_ends(session)
    BY <1>2, <1>5, <2>2 DEF end_session
  <2>3. QED BY <2>1, <2>2
<1>7. CASE current_era' = current_era
  <2>1. reward' = end_session(session) /\ exposure' = exposure /\ claimed' = claimed
    BY <1>7, Zenon DEF rotate_session
  <2>2. QED BY <1>2, <1>3, <1>6, <1>7, <2>1 DEF WindowKept, Window
<1>8. CASE current_era' = current_era + 1
  <2>1. \A f, new : DOMAIN f = Window(current_era) =>
          DOMAIN kept(f, current_era + 1, new) = Window(current_era + 1)
    BY <1>2 DEF kept, in_history, Window
  <2>2. \A f : DOMAIN f = {e \in Window(current_era) : e < current_era} =>
          DOMAIN kept_only(f, current_era + 1) = {e \in Window(current_era + 1) : e < current_era}
    BY <1>2 DEF kept_only, in_history, Window
  <2>3. /\ exposure' = kept(exposure, current_era + 1, Stored(x))
        /\ claimed' = kept(claimed, current_era + 1, [v \in Validators |-> {}])
        /\ reward' = kept_only(end_session(session), current_era + 1)
    <3>1. current_era' # current_era
      BY <1>2, <1>8
    <3>2. /\ exposure' = kept(exposure, current_era', Stored(x))
          /\ claimed' = kept(claimed, current_era', [v \in Validators |-> {}])
          /\ reward' = kept_only(end_session(session), current_era')
      BY <3>1, Zenon DEF rotate_session
    <3>3. QED BY <1>8, <3>2, Zenon
  <2>4. /\ DOMAIN exposure' = Window(current_era + 1)
        /\ DOMAIN claimed' = Window(current_era + 1)
    BY <1>2, <2>1, <2>3
  <2>5. DOMAIN reward' = {e \in Window(current_era + 1) : e < current_era}
    BY <1>6, <2>2, <2>3
  <2>6. QED BY <1>2, <1>3, <1>8, <2>4, <2>5 DEF WindowKept, Window
<1>9. QED BY <1>4, <1>7, <1>8

LEMMA WindowNext == EraInv /\ WindowKept /\ [Next_payout]_payoutVars => WindowKept'
<1> SUFFICES ASSUME EraInv, WindowKept, [Next_payout]_payoutVars PROVE WindowKept'
  OBVIOUS
<1>1. ASSUME NEW x, rotate_session(x) PROVE WindowKept'
  BY <1>1, WindowRotates
<1>2. ASSUME UNCHANGED <<current_era, active_era, reward, exposure>>,
             DOMAIN claimed' = DOMAIN claimed
      PROVE  WindowKept'
  BY <1>2 DEF WindowKept
<1>3. CASE UNCHANGED payoutVars
  BY <1>2, <1>3 DEF payoutVars, eraVars, payVars
<1>4. CASE Next_payout
  BY <1>1, <1>2, <1>4, PayoutSteps, Zenon DEF Quiet
<1>5. QED BY <1>3, <1>4

\* The eras follow each other without a gap while stakers come and go, and a
\* payout that the range check lets through finds the information of its era.
THEOREM PayoutSafe == Spec_payout => [](EraOrder /\ BondedCover /\ WindowKept)
<1>1. Init_payout => EraInv /\ WindowKept
  <2> SUFFICES ASSUME Init_payout PROVE EraInv /\ WindowKept
    OBVIOUS
  <2>1. EraInv
    BY EraInit DEF Init_payout
  <2>2. DOMAIN start_index = Window(current_era) /\ active_era = 0 /\ current_era \in Nat
    BY <2>1 DEF Init_payout, Init_era, EraInv, EraType, Kept
  <2>3. DOMAIN exposure = DOMAIN start_index /\ DOMAIN claimed = DOMAIN start_index
    BY DEF Init_payout
  <2>4. DOMAIN reward = {}
    BY DEF Init_payout
  <2>5. {e \in Window(current_era) : e < active_era} = {}
    BY <2>2 DEF Window
  <2>6. QED BY <2>1, <2>2, <2>3, <2>4, <2>5 DEF WindowKept, Window
<1>2. EraInv /\ WindowKept /\ [Next_payout]_payoutVars => (EraInv /\ WindowKept)'
  BY EraNext, WindowNext, PayoutRefinesEra
<1>3. EraInv => EraOrder /\ BondedCover
  BY DEF EraInv
<1>4. QED BY <1>1, <1>2, <1>3, PTL DEF Spec_payout

\* Every era that can still be asked about has its entry in BondedEras: a
\* report of an offence within the bonding period always finds its era.
THEOREM BondedSafe == Spec_payout => []BondedCover
<1>1. EraOrder /\ BondedCover /\ WindowKept => BondedCover
  OBVIOUS
<1>2. QED BY <1>1, PayoutSafe, PTL
=============================================================================
