----------------------------- MODULE MCFileBank -----------------------------
(* Instances of FileBank for TLC. *)
EXTENDS FileBank, TLC

CONSTANTS u1, u2, t1, t2, b1, b2, f1, f2, m1, m2, m3

\* A deal of one segment needs more than 2, a second upload of a file more than
\* 1.  Only the first territory of u1 is large enough for a deal.  TwoDeals has
\* room for a deal that overwrites another one, LargeTerritory for two files.
ThreeTerritories == (<<u1, t1>> :> 3) @@ (<<u1, t2>> :> 2) @@ (<<u2, t1>> :> 2)
                      @@ (<<u2, t2>> :> 0)
TwoDeals == (<<u1, t1>> :> 5)
LargeTerritory == (<<u1, t1>> :> 6)
FirstEnds == {<<u1, t1>>, <<u2, t1>>}
FirstOfU1 == {<<u1, t1>>}
OneSegment == [f \in Files |-> 1]
MinerSymmetry == Permutations(Miners)
PeerSymmetry == Permutations({m2, m3})

\* The restoral scene: one user, whose territory and bucket stay as they are,
\* uploads and deletes a file; a deal is overwritten once a miner has reported.
RestoralScene ==
  \/ RestoralNext \/ MinerNext \/ StartBlock(<<>>)
  \/ \E f \in Files :
       \/ \E b \in Briefs :
            /\ deal[f].on => Reporters(deal[f]) # {}
            /\ GenerateDeal(f, b)
       \/ \E m \in Miners :
            \/ \E i \in Parts : TransferPart(m, f, i) \/ TransferLast(m, f, i)
            \/ CalculateReport(m, f)
       \/ DeleteFile(u1, f)
RestoralSpec == Init /\ [][RestoralScene]_vars
=============================================================================
