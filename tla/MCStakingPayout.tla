-------------------------- MODULE MCStakingPayout --------------------------
(* A small instance of StakingPayout. *)
EXTENDS StakingPayout, TLC

CONSTANTS v1, v2, n1, n2

X(own, others) == [own |-> own, others |-> others, commission |-> 0]
By(n, value) == [who |-> n, value |-> value]

\* A validator with two pages of nominators and one without nominators; and a
\* set in which the second is not elected.
MCElections ==
  { v1 :> X(2, <<By(n1, 3), By(n2, 2)>>) @@ v2 :> X(1, << >>),
    v1 :> X(1, <<By(n1, 2)>>) }

\* Eras share no state that a payout reads, so one of them earns points, and
\* only pages of that era are claimed; eras are forced apart from the other
\* changes.
Earned(e) == SumFunction(points[e]) > 0

MCNext ==
  \/ \E x \in Elections \cup {<< >>} : rotate_session(x)
  \/ /\ \A e \in DOMAIN points \ {active_era} : ~ Earned(e)
     /\ \E v \in Validators : note_author(v)
  \/ \E v \in Validators, e \in DOMAIN claimed :
       Earned(e) /\ payout_stakers(v, e)
  \/ \E v \in Validators, e \in DOMAIN claimed :
       /\ Earned(e)
       /\ \E page \in 0 .. get_page_count(e, v) - 1 : do_payout_stakers_by_page(v, e, page)
  \/ /\ force_era = "NotForcing"
     /\ \/ \E s \in Stashes : kill_stash(s)
        \/ \E s \in Stashes, dest \in {"Stash", "None"} : bond(s, dest) \/ set_payee(s, dest)
        \/ \E v \in Validators, c \in Commissions : validate(v, c)
  \/ changes = 0 /\ \E mode \in Forcing : force_new_era(mode)

MCSpec == Init_payout /\ [][MCNext]_payoutVars
=============================================================================
