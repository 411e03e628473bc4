---------------------------- MODULE StakingSlash ----------------------------
(***************************************************************************)
(* Stakes, unbonding and slashing in the staking pallet.  A staker's       *)
(* ledger holds what is active and what is being unbonded; an election     *)
(* exposes what was active when its snapshot was taken; an offence is      *)
(* reported in its era or up to the bonding duration later, is charged     *)
(* once per slashing span, and the charge is applied some eras later, to   *)
(* whatever the ledger then holds.  SlashRewardFraction is zero: reporters  *)
(* get nothing.                                                            *)
(***************************************************************************)
EXTENDS StakingEra, FiniteSets, SequencesExt

CONSTANTS
  Validators, Nominators,
  MinBalance,         \* the existential deposit
  MinBond,            \* MinValidatorBond and MinNominatorBond
  MaxUnlockingChunks,
  SlashDeferDuration,
  Accuracy,           \* parts of a whole in a fraction
  OffendingValidatorsThreshold,  \* in parts of the validators
  Fractions,          \* the fractions of offences, in parts
  Amounts,            \* the amounts of calls
  Stake,              \* the genesis bond of each stash
  Spare,              \* what each stash holds beyond its bond
  MaxCalls,           \* bound: calls of each staker
  MaxReports          \* bound: offences reported, and slashes cancelled

ASSUME SlashAssumption ==
  /\ Accuracy \in Nat \ {0} /\ MinBalance \in Nat \ {0}
  /\ SlashDeferDuration < BondingDuration    \* integrity_test

Stashes == Validators \cup Nominators

VARIABLES
  bonded,       \* Bonded: the stashes with a ledger
  ledger,       \* Ledger: active, unlocking chunks and their total
  balance,      \* free balance of the stash
  validating,   \* the keys of Validators
  nominations,  \* Nominators: the targets of each, {} for none
  snapshot,     \* the stakes the next election will see
  exposure,     \* era -> the stakes it was elected with
  spans,        \* SlashingSpans, of the stashes that have been slashed
  span_slash,   \* SpanSlash: <<stash, span index>> -> slashed
  val_slash,    \* ValidatorSlashInEra: <<era, validator>> -> fraction
  nom_slash,    \* NominatorSlashInEra: <<era, nominator>> -> amount
  unapplied,    \* UnappliedSlashes: era to apply in -> slashes
  offending,    \* OffendingValidators
  burnt,        \* history: slashed from each stash so far
  charged,      \* history: <<era of the offence, stash>> -> charged for it
  forced,       \* history: stashes unstaked by root
  calls, reports

stakeVars == <<bonded, ledger, balance, validating, nominations>>
slashVars == <<spans, span_slash, val_slash, nom_slash, unapplied, offending>>
historyVars == <<burnt, charged, forced>>
vars == <<eraVars, stakeVars, snapshot, exposure, slashVars, historyVars, calls, reports>>

MinOf(a, b) == IF a < b THEN a ELSE b
MaxOf(a, b) == IF a > b THEN a ELSE b
Minus(a, b) == MaxOf(a - b, 0)
CeilDiv(a, b) == (a + b - 1) \div b
SumSeq(s) ==
  LET upto[i \in 0 .. Len(s)] == IF i = 0 THEN 0 ELSE upto[i - 1] + s[i]
  IN  upto[Len(s)]

\* Perbill * Balance: to the nearest, and down from the middle.
mul(part, x) ==
  (part * x) \div Accuracy + IF 2 * ((part * x) % Accuracy) > Accuracy THEN 1 ELSE 0

----------------------------------------------------------------------------
\* The ledger.

NoLedger == [active |-> 0, unlocking |-> << >>, total |-> 0]
Chunk(v, e) == [value |-> v, era |-> e]
Unlocking(l) == SumSeq([i \in 1 .. Len(l.unlocking) |-> l.unlocking[i].value])

\* Mutant: a chunk is released in the era before it unlocks.
consolidate_unlocked_early(l, now) ==
  LET rest == SelectSeq(l.unlocking, LAMBDA c : c.era > now + 1)
  IN  [l EXCEPT !.unlocking = rest,
                !.total = Minus(@, Unlocking(l) - Unlocking([l EXCEPT !.unlocking = rest]))]

consolidate_unlocked(l, now) ==
  LET rest == SelectSeq(l.unlocking, LAMBDA c : c.era > now)
  IN  [l EXCEPT !.unlocking = rest,
                !.total = Minus(@, Unlocking(l) - Unlocking([l EXCEPT !.unlocking = rest]))]

\* The chunks are taken back from the last one on; a chunk that is used up goes.
rebonded(l, value) ==
  LET r == MinOf(value, Unlocking(l))
      later(i) == SumSeq([j \in 1 .. Len(l.unlocking) - i |-> l.unlocking[i + j].value])
      left(i) == l.unlocking[i].value - MinOf(l.unlocking[i].value, Minus(r, later(i)))
  IN  [l EXCEPT !.active = @ + r,
                !.unlocking = SelectSeq([i \in 1 .. Len(l.unlocking) |->
                                           Chunk(left(i), l.unlocking[i].era)],
                                        LAMBDA c : c.value > 0)]

\* Mutant: a part that is left with the existential deposit goes as well.
slash_out_of_more(target, remaining, ratio) ==
  LET wanted == IF ratio = 0 THEN remaining ELSE CeilDiv(ratio * target, Accuracy)
      from   == MinOf(MinOf(wanted, target), remaining)
  IN  IF target - from <= MinBalance THEN target ELSE from

\* What one part of the ledger loses; the rest of it too when it is dust.
slash_out_of(target, remaining, ratio) ==
  LET wanted == IF ratio = 0 THEN remaining ELSE CeilDiv(ratio * target, Accuracy)
      from   == MinOf(MinOf(wanted, target), remaining)
  IN  IF target - from < MinBalance THEN target ELSE from

retained(chunks) == SelectSeq(chunks, LAMBDA c : c.value > 0)

\* Active first, then the chunks: those still bonded at the end of the
\* slash era's bonding period in order, with the slash spread over them and
\* the active part in proportion, then the earlier ones backwards.
slash(l, amount, slash_era) ==
  LET n        == Len(l.unlocking)
      affected == {i \in 1 .. n : l.unlocking[i].era >= slash_era + BondingDuration}
      first    == IF affected = {} THEN n + 1
                  ELSE CHOOSE i \in affected : \A j \in affected : i <= j
      base     == l.active + SumSeq([j \in 1 .. n - first + 1 |-> l.unlocking[first + j - 1].value])
      ratio    == IF affected = {} THEN 0
                  ELSE IF amount >= base THEN Accuracy ELSE CeilDiv(amount * Accuracy, base)
      priority == [j \in 1 .. n - first + 1 |-> first + j - 1]
                  \o [j \in 1 .. first - 1 |-> first - j]
      fromActive == slash_out_of(l.active, amount, ratio)
      start    == [l |-> [l EXCEPT !.active = @ - fromActive, !.total = Minus(@, fromActive)],
                   remaining |-> Minus(amount, fromActive)]
      Take(acc, i) ==
        IF acc.remaining = 0 THEN acc
        ELSE LET from == slash_out_of(acc.l.unlocking[i].value, acc.remaining, ratio)
             IN  [l |-> [acc.l EXCEPT !.unlocking[i].value = @ - from, !.total = Minus(@, from)],
                  remaining |-> Minus(acc.remaining, from)]
      done     == FoldLeft(Take, start, priority).l
  IN  [done EXCEPT !.unlocking = retained(@)]

----------------------------------------------------------------------------
\* Slashing spans, most recent first.

new_spans(window_start) ==
  [index |-> 0, last_start |-> window_start, prior |-> << >>]

iter(sp) ==
  LET before(k) == SumSeq(SubSeq(sp.prior, 1, k))
  IN  <<[index |-> sp.index, start |-> sp.last_start, length |-> -1]>>
      \o [k \in 1 .. Len(sp.prior) |->
            [index |-> sp.index - k, start |-> sp.last_start - before(k), length |-> sp.prior[k]]]

contains_era(span, e) ==
  span.start <= e /\ (span.length = -1 \/ span.start + span.length > e)

\* The index of the span an era lies in, -1 for none.
era_span(sp, e) ==
  LET found == SelectSeq(iter(sp), LAMBDA span : contains_era(span, e))
  IN  IF found = << >> THEN -1 ELSE Head(found).index

end_span(sp, now) ==
  IF now + 1 <= sp.last_start THEN sp
  ELSE [index |-> sp.index + 1, last_start |-> now + 1,
        prior |-> <<now + 1 - sp.last_start>> \o sp.prior]

\* Spans that ended before the window, and their records, go.
prune_spans(sp, window_start) ==
  LET old  == {k \in 1 .. Len(sp.prior) :
                 iter(sp)[k + 1].start + sp.prior[k] <= window_start}
      keep == IF old = {} THEN Len(sp.prior)
              ELSE (CHOOSE k \in old : \A j \in old : k <= j) - 1
  IN  [sp EXCEPT !.prior = SubSeq(@, 1, keep),
                 !.last_start = MaxOf(@, window_start)]

\* A storage map's value, with its default.
At(f, key) == IF key \in DOMAIN f THEN f[key] ELSE 0
Without(f, keys) == [k \in DOMAIN f \ keys |-> f[k]]

\* Mutant: the slash of an era is charged in full next to the span's others.
difference_full(slashed, amount) == amount

\* A new maximum of a span charges what it adds to the former one.
difference(slashed, amount) == amount - slashed

\* compare_and_update_span_slash and what drops with it: the amount an era's
\* slash adds to its span, and the spans and records that remain.
Charge(s, e, amount) ==
  LET window == Minus(active_era, BondingDuration)
      sp     == IF s \in DOMAIN spans THEN spans[s] ELSE new_spans(window)
      t      == era_span(sp, e)
      more   == t # -1 /\ At(span_slash, <<s, t>>) < amount
      ended  == IF t = sp.index THEN end_span(sp, active_era) ELSE sp
      after  == IF more \/ ended # sp THEN prune_spans(ended, window) ELSE sp
      live   == {iter(after)[i].index : i \in 1 .. Len(iter(after))}
  IN  [spans  |-> after,
       recent |-> t = sp.index,
       amount |-> IF more THEN difference(At(span_slash, <<s, t>>), amount) ELSE 0,
       record |-> IF more /\ t \in live THEN <<s, t>> :> amount ELSE << >>,
       gone   |-> {<<s, i>> : i \in {iter(ended)[j].index : j \in 1 .. Len(iter(ended))} \ live}]

----------------------------------------------------------------------------
\* Stakes as an election sees them: a nominator's is spread over its targets.
Targets(n) == nominations[n] \cap validating

Stakes ==
  [v \in validating |->
     [own    |-> ledger[v].active,
      others |-> [n \in {m \in Nominators : v \in Targets(m)} |->
                    ledger[n].active \div Cardinality(Targets(n))]]]

None == << >>
Snapshot == [stakes |-> Stakes, burnt |-> burnt]

Exposed(e, s) ==
  LET x == exposure[e].stakes
      by(v) == IF v = s THEN x[v].own ELSE IF s \in DOMAIN x[v].others THEN x[v].others[s] ELSE 0
  IN  SumSeq([i \in 1 .. Cardinality(DOMAIN x) |-> by(SetToSeq(DOMAIN x)[i])])

Init ==
  /\ Init_era
  /\ bonded = Stashes
  /\ ledger = [s \in Stashes |-> [active |-> Stake[s], unlocking |-> << >>, total |-> Stake[s]]]
  /\ balance = [s \in Stashes |-> Stake[s] + Spare]
  /\ validating = Validators
  /\ nominations = [s \in Stashes |-> IF s \in Nominators THEN Validators ELSE {}]
  /\ snapshot = None
  /\ burnt = [s \in Stashes |-> 0]
  /\ exposure = [e \in DOMAIN start_index |-> Snapshot]
  /\ spans = << >> /\ span_slash = << >> /\ val_slash = << >> /\ nom_slash = << >>
  /\ unapplied = << >> /\ offending = {}
  /\ charged = << >> /\ forced = {}
  /\ calls = [s \in Stashes |-> 0] /\ reports = 0

\* The election provider takes the stakes it will elect from, once per era.
TakeSnapshot ==
  /\ snapshot = None /\ DOMAIN Stakes # {}
  /\ snapshot' = Snapshot
  /\ UNCHANGED <<eraVars, stakeVars, exposure, slashVars, historyVars, calls, reports>>

----------------------------------------------------------------------------
\* Applying slashes.

\* Currency::slash leaves a bonded account its existential deposit.
currency_slash(free, value) ==
  IF free - value >= MinBalance THEN free - value ELSE MinOf(free, MinBalance)

\* The ledgers and balances after slashing each stash by its amount; a stash
\* that has no ledger any more loses nothing.
apply_slash(books, slashes, slash_era) ==
  LET do_slash == [s \in {x \in DOMAIN slashes \cap bonded : slashes[x] > 0} |->
                     slash(books.ledger[s], slashes[s], slash_era)]
      value(s) == books.ledger[s].total - do_slash[s].total
      hit == DOMAIN do_slash
  IN  IF hit = {} THEN books
      ELSE [ledger  |-> [s \in Stashes |-> IF s \in hit THEN do_slash[s] ELSE books.ledger[s]],
            balance |-> [s \in Stashes |-> IF s \in hit THEN currency_slash(books.balance[s], value(s))
                                           ELSE books.balance[s]],
            burnt   |-> [s \in Stashes |-> books.burnt[s] + IF s \in hit THEN value(s) ELSE 0]]

Books == [ledger |-> ledger, balance |-> balance, burnt |-> burnt]
SetBooks(b) == ledger' = b.ledger /\ balance' = b.balance /\ burnt' = b.burnt

Pending(era) == IF era \in DOMAIN unapplied THEN unapplied[era] ELSE << >>

\* The era that apply_unapplied_slashes says the slashes are for.
applied_as(now) == Minus(now, SlashDeferDuration)

apply_unapplied_slashes(now) ==
  FoldLeft(LAMBDA b, u : apply_slash(b, u.amounts, applied_as(now)), Books, Pending(now))

\* rotate_session: end_era forgets the offenders, start_era clears what is
\* kept of the eras before the bonding period and applies the slashes due.
rotate_session ==
  /\ rotate(snapshot # None)
  /\ IF era_starts(session + 1)
     THEN LET old == {k \in DOMAIN val_slash \cup DOMAIN nom_slash : k[1] < first_kept(active_era + 1)}
          IN  /\ SetBooks(apply_unapplied_slashes(active_era + 1))
              /\ unapplied' = Without(unapplied, {active_era + 1})
              /\ val_slash' = Without(val_slash, old)
              /\ nom_slash' = Without(nom_slash, old)
              /\ offending' = {}
     ELSE UNCHANGED <<ledger, balance, burnt, unapplied, val_slash, nom_slash, offending>>
  /\ LET kept == [e \in {x \in DOMAIN exposure : x >= first_kept(active_era')} |-> exposure[e]]
     IN  IF current_era' # current_era
         THEN exposure' = (current_era' :> snapshot) @@ kept /\ snapshot' = None
         ELSE exposure' = kept /\ UNCHANGED snapshot
  /\ charged' = Without(charged, {k \in DOMAIN charged : k[1] < first_kept(active_era')})
  /\ UNCHANGED <<bonded, validating, nominations, spans, span_slash, forced, calls, reports>>

----------------------------------------------------------------------------
\* Offences.

\* The era on_offence attributes a session to.
slash_era_of(slash_session) ==
  IF slash_session >= start_index[active_era] THEN active_era
  ELSE LET before == {i \in 1 .. Len(bonded_eras) : bonded_eras[i].start <= slash_session}
       IN  bonded_eras[CHOOSE i \in before : \A j \in before : j <= i].era

\* The part of a report that concerns one validator's nominators.
NominatorSlash(n, e, fraction, prior, value) ==
  At(nom_slash, <<e, n>>) + Minus(mul(fraction, value), mul(prior, value))

chill_stash(s) ==
  /\ validating' = validating \ {s}
  /\ nominations' = [nominations EXCEPT ![s] = {}]

\* A validator that offends twice in an era is listed once; listing enough of
\* them forces a new era.
add_offending_validator(v) ==
  LET validators == DOMAIN exposure[active_era].stakes
      listed == offending \cup (validators \cap {v})
      enough == Cardinality(listed) >= mul(OffendingValidatorsThreshold, Cardinality(validators))
  IN  /\ offending' = listed
      /\ force_era' = IF listed # offending /\ enough /\ force_era # "ForceAlways"
                      THEN "ForceNew" ELSE force_era

on_offence(v, slash_session, fraction) ==
  LET e     == slash_era_of(slash_session)
      x     == exposure[e].stakes[v]
      prior == At(val_slash, <<e, v>>)
      hit   == {v} \cup DOMAIN x.others
      part  == [s \in hit |-> Charge(s, e, IF s = v THEN mul(fraction, x.own)
                                           ELSE NominatorSlash(s, e, fraction, prior, x.others[s]))]
      amounts == [s \in hit |-> part[s].amount]
      at    == e + SlashDeferDuration + 1
      total == x.own + SumSeq([i \in 1 .. Cardinality(DOMAIN x.others) |->
                                 x.others[SetToSeq(DOMAIN x.others)[i]]])
  IN
  /\ reports < MaxReports /\ reports' = reports + 1
  /\ slash_session >= bonded_eras[1].start       \* FilterHistoricalOffences
  /\ v \in DOMAIN exposure[e].stakes
  /\ \/ \* a fraction of nothing: kick_out_if_recent
        /\ mul(fraction, total) = 0
        /\ LET c == Charge(v, e, 0)
           IN  /\ spans' = (v :> c.spans) @@ spans
               /\ span_slash' = Without(span_slash, c.gone)
               /\ IF c.recent THEN chill_stash(v) ELSE UNCHANGED <<validating, nominations>>
        /\ add_offending_validator(v)
        /\ UNCHANGED <<ledger, balance, burnt, charged, val_slash, nom_slash, unapplied>>
     \/ \* not the largest of the era
        /\ mul(fraction, total) > 0 /\ fraction <= prior
        /\ UNCHANGED <<force_era, stakeVars, burnt, charged, slashVars>>
     \/ /\ mul(fraction, total) > 0 /\ fraction > prior
        /\ val_slash' = (<<e, v>> :> fraction) @@ val_slash
        /\ nom_slash' = [k \in {<<e, n>> : n \in DOMAIN x.others} |->
                           NominatorSlash(k[2], e, fraction, prior, x.others[k[2]])] @@ nom_slash
        /\ spans' = [s \in hit |-> part[s].spans] @@ spans
        /\ span_slash' = Without(FoldLeft(LAMBDA f, s : part[s].record @@ f, span_slash, SetToSeq(hit)),
                                 UNION {part[s].gone : s \in hit})
        /\ IF part[v].recent THEN chill_stash(v) ELSE UNCHANGED <<validating, nominations>>
        /\ add_offending_validator(v)
        /\ charged' = [k \in {<<e, s>> : s \in hit} |-> At(charged, k) + amounts[k[2]]] @@ charged
        /\ IF SlashDeferDuration = 0
           THEN SetBooks(apply_slash(Books, amounts, e)) /\ UNCHANGED unapplied
           ELSE /\ unapplied' = (at :> Append(Pending(at), [era |-> e, amounts |-> amounts])) @@ unapplied
                /\ UNCHANGED <<ledger, balance, burnt>>
  /\ UNCHANGED <<session, current_era, active_era, start_index, bonded_eras,
                 bonded, snapshot, exposure, forced, calls>>

----------------------------------------------------------------------------
\* Calls of stakers.

Call(s) == calls[s] < MaxCalls /\ calls' = [calls EXCEPT ![s] = @ + 1]

SetLedger(s, l) == ledger' = [ledger EXCEPT ![s] = l]

\* What a call that only changes a ledger leaves alone.
OnlyLedger ==
  UNCHANGED <<eraVars, bonded, balance, validating, nominations, snapshot, exposure,
              slashVars, historyVars, reports>>

\* kill_stash forgets the slashing spans of the stash with everything else.
kill_stash(s) ==
  /\ bonded' = bonded \ {s}
  /\ SetLedger(s, NoLedger)
  /\ chill_stash(s)
  /\ spans' = Without(spans, {s})
  /\ span_slash' = Without(span_slash, {k \in DOMAIN span_slash : k[1] = s})
  /\ charged' = Without(charged, {k \in DOMAIN charged : k[2] = s})
  /\ UNCHANGED <<eraVars, balance, snapshot, exposure, val_slash, nom_slash, unapplied,
                 offending, burnt, reports>>

bond(s, value) ==
  /\ Call(s) /\ s \notin bonded
  /\ value >= MinBalance /\ balance[s] >= MinBalance
  /\ LET v == MinOf(value, balance[s])
     IN  SetLedger(s, [active |-> v, unlocking |-> << >>, total |-> v])
  /\ bonded' = bonded \cup {s}
  /\ UNCHANGED <<eraVars, balance, validating, nominations, snapshot, exposure,
                 slashVars, historyVars, reports>>

bond_extra(s, max_additional) ==
  /\ Call(s) /\ s \in bonded
  /\ balance[s] >= ledger[s].total
  /\ LET extra == MinOf(balance[s] - ledger[s].total, max_additional)
         l == [ledger[s] EXCEPT !.total = @ + extra, !.active = @ + extra]
     IN  l.active >= MinBalance /\ SetLedger(s, l)
  /\ OnlyLedger

\* A ledger that withdraw_unbonded would rather remove.
Spent(l) == l.unlocking = << >> /\ l.active < MinBalance

\* With no room for a chunk the unlocked ones are withdrawn first; if that
\* removes the ledger, the call fails.
unbond(s, value) ==
  LET full == Len(ledger[s].unlocking) = MaxUnlockingChunks
      l    == IF full THEN consolidate_unlocked(ledger[s], current_era) ELSE ledger[s]
      want == MinOf(value, l.active)
      v    == IF l.active - want < MinBalance THEN l.active ELSE want
      era  == current_era + BondingDuration
      n    == Len(l.unlocking)
      same == n > 0 /\ l.unlocking[n].era = era
      needed == IF nominations[s] # {} \/ s \in validating THEN MinBond ELSE 0
  IN
  /\ Call(s) /\ s \in bonded
  /\ ~(full /\ Spent(l)) /\ n < MaxUnlockingChunks
  /\ IF want = 0 THEN SetLedger(s, l)
     ELSE /\ l.active - v >= needed
          /\ SetLedger(s, [l EXCEPT !.active = @ - v,
                                    !.unlocking = IF same THEN [@ EXCEPT ![n].value = @ + v]
                                                  ELSE Append(@, Chunk(v, era))])
  /\ OnlyLedger

withdraw_unbonded(s) ==
  LET l == consolidate_unlocked(ledger[s], current_era)
  IN
  /\ Call(s) /\ s \in bonded
  /\ IF Spent(l) THEN kill_stash(s) /\ UNCHANGED forced
     ELSE SetLedger(s, l) /\ OnlyLedger

rebond(s, value) ==
  /\ Call(s) /\ s \in bonded
  /\ ledger[s].unlocking # << >>
  /\ LET l == rebonded(ledger[s], value)
     IN  l.active >= MinBalance /\ SetLedger(s, l)
  /\ OnlyLedger

reap_stash(s) ==
  /\ Call(s) /\ s \in bonded
  /\ balance[s] < MinBalance \/ ledger[s].total < MinBalance
  /\ kill_stash(s) /\ UNCHANGED forced

force_unstake(s) ==
  /\ Call(s) /\ s \in bonded
  /\ kill_stash(s) /\ forced' = forced \cup {s}

OnlyRoles ==
  UNCHANGED <<eraVars, bonded, ledger, balance, snapshot, exposure, slashVars, historyVars, reports>>

validate(s) ==
  /\ Call(s) /\ s \in bonded /\ ledger[s].active >= MinBond
  /\ nominations' = [nominations EXCEPT ![s] = {}]
  /\ validating' = validating \cup {s}
  /\ OnlyRoles

nominate(s, targets) ==
  /\ Call(s) /\ s \in bonded /\ ledger[s].active >= MinBond /\ targets # {}
  /\ nominations' = [nominations EXCEPT ![s] = targets]
  /\ validating' = validating \ {s}
  /\ OnlyRoles

chill(s) ==
  /\ Call(s) /\ s \in bonded
  /\ chill_stash(s) /\ OnlyRoles

kick(v, n) ==
  /\ Call(v) /\ v \in bonded
  /\ nominations' = [nominations EXCEPT ![n] = @ \ {v}]
  /\ UNCHANGED validating /\ OnlyRoles

\* One of the slashes of an era is struck out.
cancel_deferred_slash(era, i) ==
  /\ reports < MaxReports /\ reports' = reports + 1
  /\ i \in 1 .. Len(Pending(era))
  /\ unapplied' = (era :> RemoveAt(Pending(era), i)) @@ unapplied
  /\ UNCHANGED <<eraVars, stakeVars, snapshot, exposure, spans, span_slash, val_slash, nom_slash,
                 offending, historyVars, calls>>

\* The tee-worker pallet's punishment of a scheduler's stash.
slash_scheduler(s) ==
  /\ Call(s)
  /\ SetBooks(apply_slash(Books, s :> mul(Accuracy \div 20, MinBond), current_era))
  /\ UNCHANGED <<eraVars, bonded, validating, nominations, snapshot, exposure, slashVars,
                 charged, forced, reports>>

----------------------------------------------------------------------------
Staker(s) ==
  \/ \E a \in Amounts : bond(s, a) \/ bond_extra(s, a) \/ unbond(s, a) \/ rebond(s, a)
  \/ withdraw_unbonded(s) \/ reap_stash(s) \/ force_unstake(s) \/ chill(s)
  \/ slash_scheduler(s)
  \/ s \in Validators /\ (validate(s) \/ \E n \in Nominators : kick(s, n))
  \/ s \in Nominators /\ \E t \in SUBSET Validators : nominate(s, t)

Offence ==
  \/ \E v \in Validators, k \in 0 .. session, f \in Fractions : on_offence(v, k, f)
  \/ \E era \in DOMAIN unapplied, i \in 1 .. MaxReports : cancel_deferred_slash(era, i)

Next == TakeSnapshot \/ rotate_session \/ Offence \/ \E s \in Stashes : Staker(s)

Spec == Init /\ [][Next]_vars

----------------------------------------------------------------------------
\* What an era was elected with stays in the ledger, up to what was slashed
\* since, until a slash for that era would be applied: a staker cannot
\* withdraw ahead of a deferred slash.
StakeStaysSlashable ==
  \A e \in DOMAIN exposure, s \in Stashes \ forced :
    active_era <= e + SlashDeferDuration =>
      ledger[s].total + burnt[s] - exposure[e].burnt[s] >= Exposed(e, s)

\* Whatever chunks a ledger arrives at, a slash takes the amount or everything
\* there is, and more than the amount only by the dust of one part.
SlashTakesItsAmount ==
  \A s \in {x \in bonded : ledger[x].unlocking # << >>} :
  \A amount \in Amounts, e \in DOMAIN exposure :
    LET l == ledger[s]
        taken == l.total - slash(l, amount, e).total
    IN  /\ taken >= MinOf(amount, l.total)
        /\ taken <= amount + (MinBalance - 1)

\* The slash of an era, as the reports so far make it.
EraSlash(e, s) ==
  IF s \in Validators THEN mul(At(val_slash, <<e, s>>), exposure[e].stakes[s].own)
  ELSE At(nom_slash, <<e, s>>)

\* However reports of several eras arrive, a staker is charged for the eras of
\* one slashing span no more than the largest of their slashes, and the
\* record of the span is at least the slash of every era charged in it.
ChargedOncePerSpan ==
  \A s \in DOMAIN spans : \A i \in 1 .. Len(iter(spans[s])) :
    LET span == iter(spans[s])[i]
        eras == SetToSeq({e \in 0 .. active_era : contains_era(span, e) /\ <<e, s>> \in DOMAIN charged})
    IN  /\ \A k \in 1 .. Len(eras) : EraSlash(eras[k], s) <= At(span_slash, <<s, span.index>>)
        /\ eras # << >> =>
             \E k \in 1 .. Len(eras) :
               SumSeq([j \in 1 .. Len(eras) |-> charged[<<eras[j], s>>]]) <= EraSlash(eras[k], s)

=============================================================================
