----------------------------- MODULE StakingEra -----------------------------
(***************************************************************************)
(* Sessions and eras of the staking pallet.  The session pallet rotates:   *)
(* it ends a session, starts the next one and has the one after that       *)
(* planned.  Planning a session may plan an era (current_era); an era      *)
(* becomes the active one when the session it was planned for starts, one  *)
(* rotation later.                                                         *)
(***************************************************************************)
EXTENDS Integers, Sequences

CONSTANTS
  SessionsPerEra,     \* sessions after which an era is due
  BondingDuration,    \* eras that staked funds stay bonded
  HistoryDepth,       \* eras whose information is kept
  MaxSession          \* bound: sessions the exploration starts

\* integrity_test and the comment on HistoryDepth.
ASSUME EraAssumption ==
  /\ SessionsPerEra \in Nat \ {0}
  /\ BondingDuration \in Nat
  /\ HistoryDepth \in Nat /\ HistoryDepth > 1
  /\ MaxSession \in Nat

VARIABLES
  session,      \* CurrentIndex of the session pallet
  current_era,  \* CurrentEra: the latest planned era
  active_era,   \* ActiveEra
  start_index,  \* ErasStartSessionIndex: planned era -> its first session
  bonded_eras,  \* BondedEras: the eras an offence can still be reported in
  force_era     \* ForceEra

eraVars == <<session, current_era, active_era, start_index, bonded_eras, force_era>>

Forcing == {"NotForcing", "ForceNew", "ForceNone", "ForceAlways"}

\* The genesis block plans sessions 0 and 1 and starts session 0; with one
\* session per era, session 1 already begins a second era.
Init_era ==
  /\ session = 0
  /\ current_era = IF SessionsPerEra = 1 THEN 1 ELSE 0
  /\ active_era = 0
  /\ start_index = [e \in 0 .. current_era |-> e]
  /\ bonded_eras = <<[era |-> 0, start |-> 0]>>
  /\ force_era = "NotForcing"

\* No era ends before the session that the next one was planned for.
era_ends(index) ==
  /\ active_era + 1 \in DOMAIN start_index
  /\ start_index[active_era + 1] = index + 1

\* The first bonded era from which on the bonding period keeps them.
first_kept(now) == IF now > BondingDuration THEN now - BondingDuration ELSE 0

\* Mutant: start_era prunes the last era of the bonding period as well.
n_to_prune_late(bonded, now) ==
  CHOOSE n \in 0 .. Len(bonded) :
    /\ \A i \in 1 .. n : bonded[i].era <= first_kept(now)
    /\ n < Len(bonded) => bonded[n + 1].era > first_kept(now)

\* The entries at the front that lie before the first era kept.
n_to_prune(bonded, now) ==
  CHOOSE n \in 0 .. Len(bonded) :
    /\ \A i \in 1 .. n : bonded[i].era < first_kept(now)
    /\ n < Len(bonded) => bonded[n + 1].era >= first_kept(now)

prune(bonded, now) == SubSeq(bonded, n_to_prune(bonded, now) + 1, Len(bonded))

\* Mutant: an era starts after its first session.
era_starts_late(index) ==
  /\ active_era + 1 \in DOMAIN start_index
  /\ start_index[active_era + 1] < index

\* Whether the session that starts is the first one of the next era.  The
\* second disjunct of the code's test, a start session already passed, is the
\* arm that "should never happen".
era_starts(index) ==
  /\ active_era + 1 \in DOMAIN start_index
  /\ start_index[active_era + 1] <= index

start_session(index) ==
  IF era_starts(index)
  THEN /\ active_era' = active_era + 1
       /\ bonded_eras' = prune(Append(bonded_eras,
                                 [era |-> active_era + 1, start |-> index]), active_era + 1)
  ELSE UNCHANGED <<active_era, bonded_eras>>

\* Whether the planning of a session is to plan an era too.
era_due(index) ==
  \/ force_era \in {"ForceNew", "ForceAlways"}
  \/ force_era = "NotForcing" /\ index - start_index[current_era] >= SessionsPerEra

\* clear_era_information for the era that falls out of the history.
in_history(e, now) == e >= now - HistoryDepth

\* The election may fail, or elect too few; then no era is planned and the
\* next session tries again.
new_session(index, elected) ==
  IF era_due(index) /\ elected
  THEN /\ current_era' = current_era + 1
       /\ start_index' = [e \in {x \in DOMAIN start_index : in_history(x, current_era + 1)}
                                  \cup {current_era + 1}
                            |-> IF e = current_era + 1 THEN index ELSE start_index[e]]
       /\ force_era' = IF force_era = "ForceNew" THEN "NotForcing" ELSE force_era
  ELSE UNCHANGED <<current_era, start_index, force_era>>

\* rotate_session of the session pallet.
rotate(elected) ==
  /\ session < MaxSession
  /\ session' = session + 1
  /\ start_session(session + 1)
  /\ new_session(session + 2, elected)

\* force_new_era, force_no_eras, force_new_era_always, and ensure_new_era when
\* too many validators offend.
set_force_era(mode) ==
  /\ force_era' = mode
  /\ UNCHANGED <<session, current_era, active_era, start_index, bonded_eras>>

Next_era ==
  \/ \E elected \in BOOLEAN : rotate(elected)
  \/ \E mode \in Forcing : set_force_era(mode)

Spec_era == Init_era /\ [][Next_era]_eraVars

----------------------------------------------------------------------------
\* The planned era is the active one or the next one, and in the latter case
\* it begins with the very next session.  So neither of the arms of
\* start_session and new_session that "should never happen" is ever taken: no
\* session is skipped, and no era is as long as it is negative.
EraOrder ==
  /\ current_era \in {active_era, active_era + 1}
  /\ current_era \in DOMAIN start_index /\ active_era \in DOMAIN start_index
  /\ start_index[active_era] <= session
  /\ (current_era = active_era + 1) => start_index[current_era] = session + 1

\* BondedEras holds every era of the bonding period up to the active one, in
\* order, each with the session it began with: an offence of any session of
\* the period is attributed to the era it happened in.
BondedCover ==
  /\ Len(bonded_eras) = active_era - first_kept(active_era) + 1
  /\ \A i \in 1 .. Len(bonded_eras) :
       /\ bonded_eras[i].era = first_kept(active_era) + i - 1
       /\ i > 1 => bonded_eras[i - 1].start < bonded_eras[i].start
  /\ bonded_eras[Len(bonded_eras)].start = start_index[active_era]
=============================================================================
