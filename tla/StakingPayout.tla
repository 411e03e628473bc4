--------------------------- MODULE StakingPayout ---------------------------
(***************************************************************************)
(* The rewards of the eras: the election stores who backs a validator with *)
(* how much, in pages; the author of a block earns points; the end of an   *)
(* era fixes what it pays; and until the era falls out of the history      *)
(* anybody may have a page paid out, once.  Meanwhile stakers leave, come  *)
(* back, change their payee, and validators their commission.              *)
(***************************************************************************)
EXTENDS StakingEra, FiniteSets, FiniteSetsExt, Functions

CONSTANTS
  Validators, Nominators,
  Elections,       \* the results the election may deliver
  PageSize,        \* MaxExposurePageSize
  Accuracy,        \* parts of a whole in a fraction (Perbill: 10^9)
  Commissions,     \* fractions a validator may ask for, in parts
  FirstYearRewards, ErasPerYear, DecreaseRatio, DecreaseYears,
  MaxPoints,       \* bound: points an era hands out
  MaxChanges       \* bound: departures, returns and changes of preference

ASSUME PayoutAssumption ==
  /\ Accuracy \in Nat \ {0} /\ PageSize \in Nat \ {0} /\ ErasPerYear \in Nat \ {0}

VARIABLES
  exposure,   \* era -> elected validator -> [own, others, commission]
  points,     \* ErasRewardPoints
  reward,     \* ErasValidatorReward
  claimed,    \* ClaimedRewards: era -> validator -> pages
  bonded,     \* the stashes with a ledger
  payee,      \* Payee: whether a reward is wanted ("Stash") or not ("None")
  commission, \* the commission in Validators
  paid,       \* history: era -> validator -> paid out for its pages
  forfeited,  \* history: era -> validator -> due to stashes that take no reward
  changes     \* bound: departures, returns and changes of preference so far

payVars == <<exposure, points, reward, claimed, bonded, payee, commission, paid, forfeited, changes>>
payoutVars == <<eraVars, payVars>>

Stashes == Validators \cup Nominators

----------------------------------------------------------------------------
\* Fractions.  Perbill::from_rational rounds down, the product to the nearest
\* integer, and down from the middle.
rational(p, q) == IF q = 0 THEN Accuracy ELSE (p * Accuracy) \div q

mul(part, x) ==
  (part * x) \div Accuracy + IF 2 * ((part * x) % Accuracy) > Accuracy THEN 1 ELSE 0

share(p, q, x) == mul(rational(p, q), x)

\* Rewards decrease every year, and stop decreasing after some years.
yearly[n \in Nat] == IF n = 0 THEN FirstYearRewards ELSE mul(DecreaseRatio, yearly[n - 1])

rewards_in_era(e) ==
  yearly[Min({e \div ErasPerYear, DecreaseYears})] \div ErasPerYear

----------------------------------------------------------------------------
\* Exposures.

Total(x) == x.own + MapThenSumSet(LAMBDA i : x.others[i].value, 1 .. Len(x.others))

into_pages_count(x) == (Len(x.others) + PageSize - 1) \div PageSize

page_others(x, page) ==
  SubSeq(x.others, page * PageSize + 1, Min({(page + 1) * PageSize, Len(x.others)}))

\* Mutant: every page carries the validator's own stake.
page_own_all(x, page) == x.own

\* The stake of a page, with the validator's own in page zero only.
page_own(x, page) == IF page = 0 THEN x.own ELSE 0

page_total(x, page) ==
  page_own(x, page) + MapThenSumSet(LAMBDA i : page_others(x, page)[i].value,
                                    1 .. Len(page_others(x, page)))

Elected(e) == IF e \in DOMAIN exposure THEN DOMAIN exposure[e] ELSE {}

\* One page for a validator with no nominators; a validator that was not
\* elected counts as one page too, the legacy reading of a missing overview.
get_page_count(e, v) ==
  IF v \notin Elected(e) THEN 1
  ELSE IF into_pages_count(exposure[e][v]) = 0 /\ exposure[e][v].own > 0 THEN 1
  ELSE into_pages_count(exposure[e][v])

is_claimed(e, v, page) == page \in claimed[e][v]

claimable(e, v) == {p \in 0 .. get_page_count(e, v) - 1 : p \notin claimed[e][v]}

get_next_claimable_page(e, v) == Min(claimable(e, v))

----------------------------------------------------------------------------
Init_payout ==
  /\ Init_era
  /\ \E x \in Elections : exposure = [e \in DOMAIN start_index |-> x]
  /\ points = [e \in DOMAIN start_index |-> [v \in Validators |-> 0]]
  /\ reward = << >>
  /\ claimed = [e \in DOMAIN start_index |-> [v \in Validators |-> {}]]
  /\ bonded = Stashes
  /\ payee = [s \in Stashes |-> "Stash"]
  /\ commission = [v \in Validators |-> 0]
  /\ paid = [e \in DOMAIN start_index |-> [v \in Validators |-> 0]]
  /\ forfeited = paid
  /\ changes = 0

\* What end_era stores for the era that ends.
end_session(index) ==
  IF era_ends(index)
  THEN [e \in DOMAIN reward \cup {active_era} |->
          IF e = active_era THEN rewards_in_era(e) ELSE reward[e]]
  ELSE reward

\* The information of the planned era, and of the eras still in the history.
kept(f, planned, new) ==
  [e \in {x \in DOMAIN f : in_history(x, planned)} \cup {planned} |->
     IF e = planned THEN new ELSE f[e]]

\* Mutant: clear_era_information takes one era too many.
kept_only_short(f, planned) == [e \in {x \in DOMAIN f : x > planned - HistoryDepth} |-> f[e]]

\* clear_era_information for what is not written at the planning.
kept_only(f, planned) == [e \in {x \in DOMAIN f : in_history(x, planned)} |-> f[e]]

\* store_stakers_info: the exposures, and the commission they were elected at.
Stored(x) == [v \in DOMAIN x |-> [x[v] EXCEPT !.commission = commission[v]]]

rotate_session(x) ==
  /\ rotate(x # << >>)
  /\ IF current_era' # current_era
     THEN /\ exposure' = kept(exposure, current_era', Stored(x))
          /\ points' = kept(points, current_era', [v \in Validators |-> 0])
          /\ claimed' = kept(claimed, current_era', [v \in Validators |-> {}])
          /\ paid' = kept(paid, current_era', [v \in Validators |-> 0])
          /\ forfeited' = kept(forfeited, current_era', [v \in Validators |-> 0])
          /\ reward' = kept_only(end_session(session), current_era')
     ELSE /\ reward' = end_session(session)
          /\ UNCHANGED <<exposure, points, claimed, paid, forfeited>>
  /\ UNCHANGED <<bonded, payee, commission, changes>>

\* note_author, reward_by_ids (the 20 points of a block count as one).
note_author(v) ==
  /\ v \in Elected(active_era)
  /\ SumFunction(points[active_era]) < MaxPoints
  /\ points' = [points EXCEPT ![active_era][v] = @ + 1]
  /\ UNCHANGED <<eraVars, exposure, reward, claimed, bonded, payee, commission, paid, forfeited, changes>>

----------------------------------------------------------------------------
\* Payouts.

validator_total_payout(e, v) ==
  share(points[e][v], SumFunction(points[e]), reward[e])

\* What a page pays: to the validator, who takes its commission in proportion
\* to the page, and to each nominator of the page.
page_payments(e, v, page) ==
  LET x        == exposure[e][v]
      total    == validator_total_payout(e, v)
      cut      == mul(x.commission, total)
      leftover == total - cut
      others   == page_others(x, page)
  IN  <<[who |-> v, amount |-> share(page_own(x, page), Total(x), leftover)
                             + share(page_total(x, page), Total(x), cut)]>>
      \o [i \in 1 .. Len(others) |->
            [who |-> others[i].who, amount |-> share(others[i].value, Total(x), leftover)]]

\* make_payout pays nothing to a stash without a payee or that wants none.
Due(payments, wanted) ==
  MapThenSumSet(LAMBDA i : payments[i].amount,
                {i \in 1 .. Len(payments) : (payee[payments[i].who] # "None") = wanted})

do_payout_stakers_by_page(v, e, page) ==
  /\ e <= current_era /\ e >= current_era - HistoryDepth
  /\ page < get_page_count(e, v)
  /\ e \in DOMAIN reward
  /\ v \in bonded
  /\ ~ is_claimed(e, v, page)
  /\ claimed' = [claimed EXCEPT ![e][v] = @ \cup {page}]
  /\ IF v \in Elected(e) /\ points[e][v] > 0
     THEN /\ paid' = [paid EXCEPT ![e][v] = @ + Due(page_payments(e, v, page), TRUE)]
          /\ forfeited' = [forfeited EXCEPT ![e][v] = @ + Due(page_payments(e, v, page), FALSE)]
     ELSE UNCHANGED <<paid, forfeited>>
  /\ UNCHANGED <<eraVars, exposure, points, reward, bonded, payee, commission, changes>>

payout_stakers(v, e) ==
  /\ claimable(e, v) # {}
  /\ do_payout_stakers_by_page(v, e, get_next_claimable_page(e, v))

----------------------------------------------------------------------------
Change == changes < MaxChanges /\ changes' = changes + 1

\* kill_stash, through withdraw_unbonded, reap_stash or force_unstake: ledger
\* and payee go, the claims stay.
kill_stash(s) ==
  /\ s \in bonded
  /\ Change
  /\ bonded' = bonded \ {s}
  /\ payee' = [payee EXCEPT ![s] = "None"]
  /\ UNCHANGED <<eraVars, exposure, points, reward, claimed, commission, paid, forfeited>>

bond(s, dest) ==
  /\ s \notin bonded
  /\ Change
  /\ bonded' = bonded \cup {s}
  /\ payee' = [payee EXCEPT ![s] = dest]
  /\ UNCHANGED <<eraVars, exposure, points, reward, claimed, commission, paid, forfeited>>

set_payee(s, dest) ==
  /\ s \in bonded /\ payee[s] # dest
  /\ Change
  /\ payee' = [payee EXCEPT ![s] = dest]
  /\ UNCHANGED <<eraVars, exposure, points, reward, claimed, bonded, commission, paid, forfeited>>

validate(v, c) ==
  /\ v \in bonded
  /\ commission[v] # c
  /\ Change
  /\ commission' = [commission EXCEPT ![v] = c]
  /\ UNCHANGED <<eraVars, exposure, points, reward, claimed, bonded, payee, paid, forfeited>>

force_new_era(mode) ==
  /\ force_era # mode
  /\ Change
  /\ set_force_era(mode)
  /\ UNCHANGED <<exposure, points, reward, claimed, bonded, payee, commission, paid, forfeited>>

Next_payout ==
  \/ \E x \in Elections \cup {<< >>} : rotate_session(x)
  \/ \E v \in Validators : note_author(v)
  \/ \E v \in Validators, e \in DOMAIN claimed : payout_stakers(v, e)
  \/ \E v \in Validators, e \in DOMAIN claimed :
       \E page \in 0 .. get_page_count(e, v) - 1 : do_payout_stakers_by_page(v, e, page)
  \/ \E s \in Stashes : kill_stash(s)
  \/ \E s \in Stashes, dest \in {"Stash", "None"} : bond(s, dest) \/ set_payee(s, dest)
  \/ \E v \in Validators, c \in Commissions : validate(v, c)
  \/ \E mode \in Forcing : force_new_era(mode)

Spec_payout == Init_payout /\ [][Next_payout]_payoutVars

----------------------------------------------------------------------------
\* Products rounded for the pages a validator has had paid out.
Roundings(e, v) ==
  1 + MapThenSumSet(LAMBDA p : 2 + Len(page_others(exposure[e][v], p)), claimed[e][v])

\* However its pages are claimed, one by one or by number, before and after
\* stakers leave, return, or change payee and commission, a validator and its
\* nominators get the share its points earned and no more than the rounding
\* of each payment above it; and once every page is claimed, no less.
ShareExact ==
  \A e \in DOMAIN reward : \A v \in Elected(e) :
    points[e][v] > 0 =>
      LET got == paid[e][v] + forfeited[e][v]
          due == share(points[e][v], SumFunction(points[e]), reward[e])
      IN  /\ 2 * got <= 2 * due + Roundings(e, v)
          /\ claimable(e, v) = {} => got >= due - Roundings(e, v)

\* A payout that passes the check of its era finds the era's information:
\* nothing in the range that payouts accept has been cleared, and nothing
\* outside it is left behind.
WindowKept ==
  LET window == {e \in 0 .. current_era : e >= current_era - HistoryDepth}
  IN  /\ DOMAIN exposure = window /\ DOMAIN claimed = window
      /\ DOMAIN reward = {e \in window : e < active_era}
=============================================================================
