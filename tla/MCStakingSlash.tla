--------------------------- MODULE MCStakingSlash ---------------------------
EXTENDS StakingSlash

CONSTANTS
  v1, n1,
  LastMixed    \* bound: the session up to which calls and reports mix

MCStake == (v1 :> 30) @@ (n1 :> 26)

\* Several reports, or the calls of one staker, or in the first sessions both.
NoCalls == \A s \in Stashes : calls[s] = 0
MayRotate == NoCalls \/ reports = 0 \/ session < LastMixed
MayReport == NoCalls \/ (reports = 0 /\ session <= LastMixed /\ \A s \in Stashes : calls[s] <= 2)
MayCall(s) ==
  /\ \A t \in Stashes \ {s} : calls[t] = 0
  /\ reports = 0 \/ (reports = 1 /\ session <= LastMixed /\ calls[s] < 2)

MCNext ==
  \/ TakeSnapshot
  \/ MayRotate /\ rotate_session
  \/ MayReport /\ Offence
  \/ \E s \in Stashes : MayCall(s) /\ Staker(s)

MCSpec == Init /\ [][MCNext]_vars
============================================================================
