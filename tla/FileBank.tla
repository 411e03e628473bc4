------------------------------ MODULE FileBank ------------------------------
(***************************************************************************)
(* Pallet file-bank: the life of a file, from the deal its owner declares, *)
(* through the reports of the miners that store its fragments, to its      *)
(* deletion by its holders or by the block hook when a territory expires,  *)
(* and the restoral of single fragments by other miners.  With it the      *)
(* records those steps change in sminer (the space of a miner) and in      *)
(* storage-handler (the space of a territory).                             *)
(*                                                                         *)
(* A call is one atomic action; an error rolls it back.  The hook is not   *)
(* rolled back and is split into its loop iterations.  Space is counted in *)
(* fragments.  The deadline of a restoral order is kept as the number of   *)
(* blocks that are left, so that no block number is needed.                *)
(***************************************************************************)
EXTENDS Integers, FiniteSets, Sequences

CONSTANTS
  Users, Terrs, Buckets,   \* accounts, names of territories and of buckets
  ValidBuckets,            \* the names check_bucket_name_spec accepts
  Files, Miners, NoMiner,  \* file hashes and storage miners
  SegCount,                \* segments of a file
  FragmentCount,           \* FRAGMENT_COUNT: fragments of a segment (12)
  IdleSeg,                 \* IDLE_SEG_SIZE in fragments (8)
  Declaration,             \* declaration_space of a miner
  TerrSpace,               \* space of a territory; 0 if the user has no such one
  Certs, MaxRear,          \* bounds: segments proved at a time, and in all
  RestoralOrderLife,       \* blocks a claimed order may take
  ClearLimit,              \* ONCE_MAX_CLEAR_FILE
  Damaged, Leavers,        \* bounds: miners that lose fragments; whose state changes
  Returners,               \* bound: miners that are punished after they have left
  Ending, Resumed,         \* bounds: territories whose lease ends; that come back
  Movers                   \* bound: users that move files

ASSUME FileBankConstants ==
  /\ NoMiner \notin Miners /\ ValidBuckets \subseteq Buckets
  /\ IsFiniteSet(Files) /\ IsFiniteSet(Miners)
  /\ SegCount \in [Files -> Nat] /\ FragmentCount \in Nat \ {0}
  /\ IdleSeg \in Nat \ {0} /\ Declaration \in Nat /\ TerrSpace \in [Users \X Terrs -> Nat]
  /\ Certs \subseteq Nat \ {0} /\ MaxRear \in Nat
  /\ RestoralOrderLife \in Nat \ {0} /\ ClearLimit \in Nat \ {0}
  /\ Damaged \subseteq Miners /\ Leavers \subseteq Miners
  /\ Returners \subseteq Leavers
  /\ Ending \subseteq Users \X Terrs /\ Resumed \subseteq Ending
  /\ Movers \subseteq Users

VARIABLES
  phase, clearing, rest, count,  \* progress of the hook
  terr,                          \* Territory (storage-handler)
  miner,                         \* MinerItems, PendingReplacements, RestoralTarget
  totalIdle, totalService,       \* TotalIdleSpace, TotalServiceSpace
  deal, file, hold, bucket,      \* DealMap, File, UserHoldFileList, Bucket
  order,                         \* RestoralOrder
  lost,                          \* history: miners' space in overwritten deals
  forgotten,                     \* history: users' locked space no deal stands for
  reset,                         \* history: territories activated again
  returned                       \* history: miners punished after they left

hook  == <<phase, clearing, rest, count>>
total == <<totalIdle, totalService>>
hist  == <<lost, forgotten, reset, returned>>
vars  == <<hook, terr, miner, total, deal, file, hold, bucket, order, hist>>

Parts    == 1 .. FragmentCount
Frags(f) == (1 .. SegCount[f]) \X Parts
Locs     == Users \X Terrs
Briefs   == [user : Users, terr : Terrs, bucket : Buckets]
Loc(b)   == <<b.user, b.terr>>

\* cal_file_size, and the same product in upload_declaration.
Needed(f) == FragmentCount * SegCount[f]

\* What fly_upload_file charges: 15/10 of a segment where a deal takes 30/10.
FlySize(f) == (FragmentCount \div 2) * SegCount[f]

NoParts == [i \in Parts |-> NoMiner]
SomeBrief == CHOOSE b \in Briefs : TRUE
NoDeal  == [on |-> FALSE, brief |-> SomeBrief, part |-> NoParts]
NoFile(f) == [on |-> FALSE, owner |-> <<>>,
              at |-> [x \in Frags(f) |-> NoMiner], tagged |-> {}]
NoOrder == [on |-> FALSE, miner |-> NoMiner, origin |-> NoMiner, left |-> -1]
NewMiner == [state |-> "positive", idle |-> 0, lock |-> 0, service |-> 0,
             pending |-> 0, front |-> 0, rear |-> 0,
             target |-> FALSE, owed |-> 0, restored |-> 0]

Init ==
  /\ phase = "calls" /\ clearing = <<>> /\ rest = <<>> /\ count = 0
  /\ terr = [l \in Locs |->
       [state |-> IF TerrSpace[l] > 0 THEN "Active" ELSE "Absent",
        used |-> 0, locked |-> 0, rem |-> TerrSpace[l]]]
  /\ miner = [m \in Miners |-> NewMiner]
  /\ totalIdle = 0 /\ totalService = 0
  /\ deal = [f \in Files |-> NoDeal]
  /\ file = [f \in Files |-> NoFile(f)]
  /\ hold = [u \in Users |-> <<>>]
  /\ bucket = [k \in Users \X Buckets |-> [on |-> FALSE, objs |-> {}]]
  /\ order = [f \in Files |-> [x \in Frags(f) |-> NoOrder]]
  /\ lost = [m \in Miners |-> 0] /\ forgotten = [l \in Locs |-> 0]
  /\ reset = {} /\ returned = {}

InCalls == phase = "calls"

-----------------------------------------------------------------------------
(* Helpers *)

\* History: locked space of l that no deal stands for, until l is reset.
Forget(l, n) == forgotten' = IF l \in reset THEN forgotten
                            ELSE [forgotten EXCEPT ![l] = @ + n]

Reporters(d) == {d.part[i] : i \in Parts} \ {NoMiner}
Held(fi) == [m \in Miners |-> {x \in DOMAIN fi.at : fi.at[x] = m}]
OwnerAt(fi, u) == {j \in DOMAIN fi.owner : fi.owner[j].user = u}

\* add_file_to_bucket when the bucket exists, create_bucket_helper otherwise.
PutInBucket(b, f) ==
  LET k == <<b.user, b.bucket>> IN
  /\ bucket[k].on \/ b.bucket \in ValidBuckets
  /\ bucket' = [bucket EXCEPT ![k] = [on |-> TRUE, objs |-> @.objs \cup {f}]]

\* add_user_hold_fileslice.
AddUserHoldFileslice(b, f, size) ==
  LET e == [terr |-> b.terr, file |-> f, size |-> size] IN
  /\ \A j \in DOMAIN hold[b.user] : hold[b.user][j] # e
  /\ hold' = [hold EXCEPT ![b.user] = Append(@, e)]

-----------------------------------------------------------------------------
(* Upload *)

\* upload_declaration of a file that is stored already: fly_upload_file.
FlyUploadFile(f, b) ==
  /\ InCalls /\ file[f].on
  /\ terr[Loc(b)].state = "Active" /\ terr[Loc(b)].rem > FlySize(f)
  /\ terr' = [terr EXCEPT ![Loc(b)].used = @ + FlySize(f),
                          ![Loc(b)].rem = @ - FlySize(f)]
  /\ PutInBucket(b, f)
  /\ AddUserHoldFileslice(b, f, FlySize(f))
  /\ file' = [file EXCEPT ![f].owner = Append(@, b)]
  /\ UNCHANGED <<hook, miner, total, deal, order, hist>>
\* upload_declaration of a new file: lock_user_space and generate_deal, which
\* overwrites a deal that is open for the same file.
GenerateDeal(f, b) ==
  LET old == deal[f]
  IN  /\ InCalls /\ ~file[f].on
      /\ terr[Loc(b)].state = "Active" /\ terr[Loc(b)].rem > Needed(f)
      /\ terr' = [terr EXCEPT ![Loc(b)].locked = @ + Needed(f),
                              ![Loc(b)].rem = @ - Needed(f)]
      /\ deal' = [deal EXCEPT ![f] = [on |-> TRUE, brief |-> b, part |-> NoParts]]
      /\ lost' = [m \in Miners |->
                    lost[m] + IF m \in Reporters(old) THEN SegCount[f] ELSE 0]
      /\ Forget(Loc(old.brief), IF old.on THEN Needed(f) ELSE 0)
      /\ UNCHANGED <<hook, miner, total, file, hold, bucket, order, reset, returned>>

\* complete_part and lock_space: a miner reports part i of a deal.
Reportable(m, f, i) ==
  /\ deal[f].part[i] = NoMiner /\ m \notin Reporters(deal[f])
  /\ miner[m].idle >= SegCount[f]

\* transfer_report that is not the last one of its deal.
TransferPart(m, f, i) ==
  /\ InCalls /\ miner[m].state = "positive"
  /\ deal[f].on /\ terr[Loc(deal[f].brief)].state # "Expired"
  /\ Reportable(m, f, i)
  /\ \E j \in Parts \ {i} : deal[f].part[j] = NoMiner
  /\ miner' = [miner EXCEPT ![m].idle = @ - SegCount[f], ![m].lock = @ + SegCount[f]]
  /\ deal' = [deal EXCEPT ![f].part[i] = m]
  /\ UNCHANGED <<hook, terr, total, file, hold, bucket, order, hist>>

\* generate_file: fragment i of every segment is at the miner of part i.
GenerateFile(f, b, part) ==
  file' = [file EXCEPT ![f] = [on |-> TRUE, owner |-> <<b>>,
                               at |-> [x \in Frags(f) |-> part[x[2]]], tagged |-> {}]]

\* Mutant: the space of a completed deal is used but stays locked.
TransferLastStillLocked(m, f, i) ==
  LET b == deal[f].brief
      l == Loc(b)
      part == [deal[f].part EXCEPT ![i] = m]
  IN  /\ InCalls /\ miner[m].state = "positive"
      /\ deal[f].on /\ terr[l].state # "Expired"
      /\ Reportable(m, f, i)
      /\ \A j \in Parts \ {i} : deal[f].part[j] # NoMiner
      /\ miner' = [n \in Miners |->
           IF n = m THEN [miner[n] EXCEPT !.idle = @ - SegCount[f],
                                          !.lock = @ + SegCount[f],
                                          !.pending = @ + SegCount[f]]
           ELSE IF n \in Reporters(deal[f])
                THEN [miner[n] EXCEPT !.pending = @ + SegCount[f]]
                ELSE miner[n]]
      /\ GenerateFile(f, b, part)
      /\ terr[l].locked >= Needed(f)
      /\ terr' = [terr EXCEPT ![l].used = @ + Needed(f)]
      /\ totalIdle >= Needed(f)
      /\ totalIdle' = totalIdle - Needed(f)
      /\ totalService' = totalService + Needed(f)
      /\ PutInBucket(b, f)
      /\ AddUserHoldFileslice(b, f, Needed(f))
      /\ deal' = [deal EXCEPT ![f] = NoDeal]
      /\ UNCHANGED <<hook, order, hist>>

\* Mutant: completed_all counts the replacement of the last reporter only.
TransferLastOwnPending(m, f, i) ==
  LET b == deal[f].brief
      l == Loc(b)
      part == [deal[f].part EXCEPT ![i] = m]
  IN  /\ InCalls /\ miner[m].state = "positive"
      /\ deal[f].on /\ terr[l].state # "Expired"
      /\ Reportable(m, f, i)
      /\ \A j \in Parts \ {i} : deal[f].part[j] # NoMiner
      /\ miner' = [n \in Miners |->
           IF n = m THEN [miner[n] EXCEPT !.idle = @ - SegCount[f],
                                          !.lock = @ + SegCount[f],
                                          !.pending = @ + SegCount[f]]
           ELSE miner[n]]
      /\ GenerateFile(f, b, part)
      /\ terr[l].locked >= Needed(f)
      /\ terr' = [terr EXCEPT ![l].locked = @ - Needed(f), ![l].used = @ + Needed(f)]
      /\ totalIdle >= Needed(f)
      /\ totalIdle' = totalIdle - Needed(f)
      /\ totalService' = totalService + Needed(f)
      /\ PutInBucket(b, f)
      /\ AddUserHoldFileslice(b, f, Needed(f))
      /\ deal' = [deal EXCEPT ![f] = NoDeal]
      /\ UNCHANGED <<hook, order, hist>>

\* transfer_report that completes its deal: completed_all, generate_file,
\* unlock_and_used_user_space and the rest of qualification_report_processing.
TransferLast(m, f, i) ==
  LET b == deal[f].brief
      l == Loc(b)
      part == [deal[f].part EXCEPT ![i] = m]
  IN  /\ InCalls /\ miner[m].state = "positive"
      /\ deal[f].on /\ terr[l].state # "Expired"
      /\ Reportable(m, f, i)
      /\ \A j \in Parts \ {i} : deal[f].part[j] # NoMiner
      /\ miner' = [n \in Miners |->
           IF n = m THEN [miner[n] EXCEPT !.idle = @ - SegCount[f],
                                          !.lock = @ + SegCount[f],
                                          !.pending = @ + SegCount[f]]
           ELSE IF n \in Reporters(deal[f])
                THEN [miner[n] EXCEPT !.pending = @ + SegCount[f]]
                ELSE miner[n]]
      /\ GenerateFile(f, b, part)
      /\ terr[l].locked >= Needed(f)
      /\ terr' = [terr EXCEPT ![l].locked = @ - Needed(f), ![l].used = @ + Needed(f)]
      /\ totalIdle >= Needed(f)
      /\ totalIdle' = totalIdle - Needed(f)
      /\ totalService' = totalService + Needed(f)
      /\ PutInBucket(b, f)
      /\ AddUserHoldFileslice(b, f, Needed(f))
      /\ deal' = [deal EXCEPT ![f] = NoDeal]
      /\ UNCHANGED <<hook, order, hist>>

\* Mutant: unlock_space_direct in place of unlock_space.
TransferExpiredDirect(m, f) ==
  LET d == deal[f]
  IN  /\ InCalls /\ miner[m].state = "positive"
      /\ d.on /\ terr[Loc(d.brief)].state = "Expired"
      /\ \A n \in Reporters(d) : miner[n].lock >= SegCount[f]
      /\ miner' = [n \in Miners |->
           IF n \in Reporters(d)
             THEN [miner[n] EXCEPT !.lock = @ - SegCount[f]]
             ELSE miner[n]]
      /\ deal' = [deal EXCEPT ![f] = NoDeal]
      /\ Forget(Loc(d.brief), Needed(f))
      /\ UNCHANGED <<hook, terr, total, file, hold, bucket, order, lost, reset, returned>>

\* transfer_report when the territory of the deal has expired: it gives the
\* miners their space back and drops the deal.
TransferExpired(m, f) ==
  LET d == deal[f]
  IN  /\ InCalls /\ miner[m].state = "positive"
      /\ d.on /\ terr[Loc(d.brief)].state = "Expired"
      /\ \A n \in Reporters(d) : miner[n].lock >= SegCount[f]
      /\ miner' = [n \in Miners |->
           IF n \in Reporters(d)
             THEN [miner[n] EXCEPT !.lock = @ - SegCount[f], !.idle = @ + SegCount[f]]
             ELSE miner[n]]
      /\ deal' = [deal EXCEPT ![f] = NoDeal]
      /\ Forget(Loc(d.brief), Needed(f))
      /\ UNCHANGED <<hook, terr, total, file, hold, bucket, order, lost, reset, returned>>

\* Mutant: the tags are stored but unlock_space_to_service is forgotten.
CalculateReportTagsOnly(m, f) ==
  /\ InCalls /\ file[f].on
  /\ file' = [file EXCEPT ![f].tagged = @ \cup Held(file[f])[m]]
  /\ UNCHANGED <<hook, terr, miner, total, deal, hold, bucket, order, hist>>

\* Mutant: a second report of the same file counts the tagged fragments again.
CalculateReportAgain(m, f) ==
  LET all == Held(file[f])[m]
  IN  /\ InCalls /\ file[f].on
      /\ miner[m].lock >= Cardinality(all)
      /\ miner' = [miner EXCEPT ![m].lock = @ - Cardinality(all),
                                ![m].service = @ + Cardinality(all)]
      /\ file' = [file EXCEPT ![f].tagged = @ \cup all]
      /\ UNCHANGED <<hook, terr, total, deal, hold, bucket, order, hist>>

\* calculate_report: a miner has the tags of all its fragments of a file.
CalculateReport(m, f) ==
  LET new == Held(file[f])[m] \ file[f].tagged
  IN  /\ InCalls /\ file[f].on
      /\ miner[m].lock >= Cardinality(new)
      /\ miner' = [miner EXCEPT ![m].lock = @ - Cardinality(new),
                                ![m].service = @ + Cardinality(new)]
      /\ file' = [file EXCEPT ![f].tagged = @ \cup new]
      /\ UNCHANGED <<hook, terr, total, deal, hold, bucket, order, hist>>

\* cert_idle_space: a miner proves c more idle segments.
CertIdleSpace(m, c) ==
  /\ InCalls /\ miner[m].state = "positive" /\ miner[m].rear + c <= MaxRear
  /\ miner[m].idle + c * IdleSeg + miner[m].service + miner[m].lock <= Declaration
  /\ miner' = [miner EXCEPT ![m].idle = @ + c * IdleSeg, ![m].rear = @ + c]
  /\ totalIdle' = totalIdle + c * IdleSeg
  /\ UNCHANGED <<hook, terr, totalService, deal, file, hold, bucket, order, hist>>

\* replace_idle_space: a miner drops c idle segments that files have replaced.
ReplaceIdleSpace(m, c) ==
  /\ InCalls
  /\ miner[m].pending \div IdleSeg # 0 /\ miner[m].pending >= c * IdleSeg
  /\ miner' = [miner EXCEPT ![m].pending = @ - c * IdleSeg, ![m].front = @ + c]
  /\ UNCHANGED <<hook, terr, total, deal, file, hold, bucket, order, hist>>

-----------------------------------------------------------------------------
(* Removal *)

\* What remove_file_last_owner needs to succeed: space to give back at every
\* miner that has not left, and in the total.
CanRemove(f) ==
  /\ \A m \in Miners :
       LET mine == Held(file[f])[m]
       IN  ~miner[m].target /\ mine # {} =>
             /\ miner[m].state = "exit"
                  \/ miner[m].service >= Cardinality(mine \cap file[f].tagged)
             /\ miner[m].lock >= Cardinality(mine \ file[f].tagged)
  /\ totalService >= Needed(f)

\* remove_file_last_owner, without the refund of the owner.
RemoveFileLastOwner(f) ==
  LET after(m) ==
        LET mine == Held(file[f])[m]
            tags == Cardinality(mine \cap file[f].tagged)
        IN  IF miner[m].target
              THEN [miner[m] EXCEPT !.restored = @ + Cardinality(mine)]
              ELSE [miner[m] EXCEPT
                      !.service = IF miner[m].state = "exit" THEN @ ELSE @ - tags,
                      !.lock = @ - Cardinality(mine \ file[f].tagged)]
  IN  /\ miner' = [m \in Miners |-> after(m)]
      /\ totalService' = totalService - Needed(f)
      /\ file' = [file EXCEPT ![f] = NoFile(f)]
\* bucket_remove_file: the buckets of u that held f lose it; it stops with an
\* error at the first bucket that is gone.
BucketGone(f, u) == \E j \in OwnerAt(file[f], u) :
                      ~bucket[<<u, file[f].owner[j].bucket>>].on
BucketRemoveFile(f, u) ==
  LET mine == OwnerAt(file[f], u)
      done == {j \in mine : \A i \in mine : i <= j =>
                              bucket[<<u, file[f].owner[i].bucket>>].on}
      names == {file[f].owner[j].bucket : j \in done}
  IN  bucket' = [k \in DOMAIN bucket |->
                   IF k[1] = u /\ k[2] \in names
                     THEN [bucket[k] EXCEPT !.objs = @ \ {f}] ELSE bucket[k]]

\* The refund of all places u has in the owner list, at the territories that
\* the list names.
BriefsIn(f, l) == Cardinality({j \in DOMAIN file[f].owner : Loc(file[f].owner[j]) = l})

RefundUser(f, u) ==
  /\ \A l \in Locs : l[1] = u => terr[l].used >= BriefsIn(f, l) * Needed(f)
  /\ terr' = [l \in Locs |->
       IF l[1] = u THEN [terr[l] EXCEPT !.used = @ - BriefsIn(f, l) * Needed(f),
                                        !.rem = @ + BriefsIn(f, l) * Needed(f)]
       ELSE terr[l]]

\* delete_file (and root_clear_file): delete_user_file, bucket_remove_file,
\* remove_user_hold_file_list.  Which removal is used depends on the length of
\* the owner list before the call.
DeleteFile(u, f) ==
  LET other(b) == b.user # u
      listed(e) == e.file # f
  IN  /\ InCalls /\ file[f].on
      /\ RefundUser(f, u)
      /\ IF Len(file[f].owner) = 1 /\ OwnerAt(file[f], u) # {}
           THEN CanRemove(f) /\ RemoveFileLastOwner(f)
           ELSE /\ file' = [file EXCEPT ![f].owner = SelectSeq(@, other)]
                /\ UNCHANGED <<miner, totalService>>
      /\ ~BucketGone(f, u) /\ BucketRemoveFile(f, u)
      /\ hold' = [hold EXCEPT ![u] = SelectSeq(@, listed)]
      /\ UNCHANGED <<hook, totalIdle, deal, order, hist>>

\* territory_file_delivery: the charge for f moves from the territories its
\* owner list names to territory t.  The list itself is not written back.
TerritoryFileDelivery(u, f, t) ==
  LET to == <<u, t>>
      mine == OwnerAt(file[f], u)
      first == CHOOSE j \in mine : \A i \in mine : j <= i
      moved == (Cardinality(mine) - BriefsIn(f, to)) * Needed(f)
  IN  /\ InCalls /\ u \in Movers /\ file[f].on /\ mine # {}
      /\ terr[to].state = "Active" /\ terr[to].rem >= moved
      /\ \A l \in Locs \ {to} : l[1] = u => terr[l].used >= BriefsIn(f, l) * Needed(f)
      /\ Loc(file[f].owner[first]) = to => terr[to].used >= Needed(f)
      /\ terr' = [l \in Locs |->
           IF l = to THEN [terr[l] EXCEPT !.used = @ + moved, !.rem = @ - moved]
           ELSE IF l[1] = u
                THEN [terr[l] EXCEPT !.used = @ - BriefsIn(f, l) * Needed(f),
                                     !.rem = @ + BriefsIn(f, l) * Needed(f)]
                ELSE terr[l]]
      /\ hold' = [hold EXCEPT ![u] =
                    [j \in DOMAIN @ |-> IF @[j].file = f THEN [@[j] EXCEPT !.terr = t]
                                        ELSE @[j]]]
      /\ UNCHANGED <<hook, miner, total, deal, file, bucket, order, hist>>

CreateBucket(u, b) ==
  /\ InCalls /\ ~bucket[<<u, b>>].on /\ b \in ValidBuckets
  /\ bucket' = [bucket EXCEPT ![<<u, b>>] = [on |-> TRUE, objs |-> {}]]
  /\ UNCHANGED <<hook, terr, miner, total, deal, file, hold, order, hist>>

DeleteBucket(u, b) ==
  /\ InCalls /\ bucket[<<u, b>>].on /\ bucket[<<u, b>>].objs = {}
  /\ bucket' = [bucket EXCEPT ![<<u, b>>].on = FALSE]
  /\ UNCHANGED <<hook, terr, miner, total, deal, file, hold, order, hist>>

-----------------------------------------------------------------------------
(* Restoral of fragments *)

\* generate_restoral_order: the holder of a fragment offers it.  Its deadline is
\* block 0, so that it can be claimed at once.
GenerateRestoralOrder(m, f, x) ==
  /\ InCalls /\ m \in Damaged
  /\ ~order[f][x].on /\ file[f].on /\ file[f].at[x] = m
  /\ order' = [order EXCEPT ![f][x] =
                 [on |-> TRUE, miner |-> m, origin |-> m, left |-> -1]]
  /\ UNCHANGED <<hook, terr, miner, total, deal, file, hold, bucket, hist>>

\* claim_restoral_order: the deadline must be past, not merely reached.
ClaimRestoralOrder(m, f, x) ==
  /\ InCalls /\ miner[m].state = "positive"
  /\ order[f][x].on /\ order[f][x].left < 0
  /\ order' = [order EXCEPT ![f][x].miner = m, ![f][x].left = RestoralOrderLife]
  /\ UNCHANGED <<hook, terr, miner, total, deal, file, hold, bucket, hist>>

\* claim_restoral_noexist_order: of a fragment of miner n that has left.
ClaimRestoralNoexistOrder(m, n, f, x) ==
  /\ InCalls /\ miner[m].state = "positive"
  /\ ~order[f][x].on /\ miner[n].target
  /\ file[f].on /\ file[f].at[x] = n
  /\ order' = [order EXCEPT ![f][x] = [on |-> TRUE, miner |-> m, origin |-> n,
                                       left |-> RestoralOrderLife]]
  /\ UNCHANGED <<hook, terr, miner, total, deal, file, hold, bucket, hist>>

\* The checks restoral_order_complete starts with.
MayComplete(m, f, x) ==
  /\ InCalls /\ miner[m].state = "positive"
  /\ order[f][x].on /\ order[f][x].miner = m /\ order[f][x].left > 0

\* restoral_order_complete: the fragment moves from n to m, and is tagged.
RestoralOrderComplete(m, n, f, x) ==
  /\ MayComplete(m, f, x)
  /\ file[f].on /\ file[f].at[x] = n /\ n # m /\ order[f][x].origin = n
  /\ miner[m].idle >= 1
  /\ LET source ==
           IF miner[n].target THEN [miner[n] EXCEPT !.restored = @ + 1]
           ELSE IF x \notin file[f].tagged THEN [miner[n] EXCEPT !.lock = @ - 1]
           ELSE IF miner[n].state = "exit" THEN miner[n]
           ELSE [miner[n] EXCEPT !.service = @ - 1]
     IN  /\ source.lock >= 0 /\ source.service >= 0
         /\ miner' = [miner EXCEPT ![n] = source,
                        ![m] = [miner[m] EXCEPT !.service = @ + 1, !.idle = @ - 1,
                                                !.pending = @ + 1]]
  /\ file' = [file EXCEPT ![f].at[x] = m, ![f].tagged = @ \cup {x}]
  /\ order' = [order EXCEPT ![f][x] = NoOrder]
  /\ UNCHANGED <<hook, terr, total, deal, hold, bucket, hist>>

\* restoral_order_complete when the file is gone, or the fragment is at a miner
\* that is neither the claimer nor the origin: only the order is removed.
RestoralOrderDropped(m, f, x) ==
  /\ MayComplete(m, f, x)
  /\ file[f].on => file[f].at[x] \notin {m, order[f][x].origin}
  /\ order' = [order EXCEPT ![f][x] = NoOrder]
  /\ UNCHANGED <<hook, terr, miner, total, deal, file, hold, bucket, hist>>
-----------------------------------------------------------------------------
(* The block hook *)

\* on_initialize up to its loop: frozen_task expires some frozen territories
\* and returns them; ClearUserList is overwritten with them.  It is not read
\* again, so it is kept only as the list the loop goes through.
StartBlock(q) ==
  /\ InCalls
  /\ \A i, j \in DOMAIN q : q[i] = q[j] => i = j
  /\ \A i \in DOMAIN q : terr[q[i]].state = "Frozen"
  /\ terr' = [l \in Locs |-> IF \E i \in DOMAIN q : q[i] = l
                               THEN [terr[l] EXCEPT !.state = "Expired"] ELSE terr[l]]
  /\ order' = [f \in Files |-> [x \in Frags(f) |->
                 [order[f][x] EXCEPT !.left = IF @ < 0 THEN @ ELSE @ - 1]]]
  /\ phase' = IF q = <<>> THEN "calls" ELSE "clear"
  /\ clearing' = q
  /\ rest' = IF q = <<>> THEN <<>> ELSE hold[q[1][1]]
  /\ count' = 0
  /\ UNCHANGED <<miner, total, deal, file, hold, bucket, hist>>

Popped == rest[Len(rest)]
Poppable == phase = "clear" /\ rest # <<>>
Counted == Popped.terr = clearing[1][2]
Pop == rest' = SubSeq(rest, 1, Len(rest) - 1)

\* An entry of another territory of the user is popped and left alone.
ClearSkip ==
  /\ Poppable /\ ~Counted /\ Pop
  /\ UNCHANGED <<phase, clearing, count, terr, miner, total, deal, file, hold,
                 bucket, order, hist>>

\* The limit is reached: what is left of the list is stored and the hook ends.
ClearLimitReached ==
  /\ Poppable /\ Counted /\ count + 1 = ClearLimit
  /\ hold' = [hold EXCEPT ![clearing[1][1]] = SubSeq(rest, 1, Len(rest) - 1)]
  /\ phase' = "calls" /\ clearing' = <<>> /\ rest' = <<>> /\ count' = 0
  /\ UNCHANGED <<terr, miner, total, deal, file, bucket, order, hist>>

\* Mutant: the length of the owner list is compared with the wrong number.
AtMostOneOwnerOff(own) == Len(own) <= 2

AtMostOneOwner(own) == Len(own) <= 1

\* One file of the expired territory: remove_file_owner without a refund if the
\* file has several owners, remove_file_last_owner otherwise, whoever that
\* owner is.  The second call of remove_file_last_owner finds no file.
\* RemovalSafe says that the first one never fails half way.
ClearFile ==
  LET u == clearing[1][1]
      f == Popped.file
      mine == OwnerAt(file[f], u)
      first == CHOOSE j \in mine : \A i \in mine : j <= i
      own == file[f].owner
  IN  /\ Poppable /\ Counted /\ count + 1 # ClearLimit /\ Pop
      /\ count' = count + 1
      /\ IF ~file[f].on THEN UNCHANGED <<file, miner, totalService, bucket>>
         ELSE /\ BucketRemoveFile(f, u)
              /\ IF AtMostOneOwner(own)
                   THEN IF CanRemove(f) THEN RemoveFileLastOwner(f)
                        ELSE UNCHANGED <<file, miner, totalService>>
                   ELSE /\ file' = [file EXCEPT ![f].owner =
                             IF mine = {} THEN @
                             ELSE SubSeq(@, 1, first - 1) \o SubSeq(@, first + 1, Len(@))]
                        /\ UNCHANGED <<miner, totalService>>
      /\ UNCHANGED <<phase, clearing, terr, totalIdle, deal, hold, order, hist>>

\* The list of one territory is done; the user's stored list is left as it was.
ClearNext ==
  /\ phase = "clear" /\ rest = <<>>
  /\ clearing' = Tail(clearing)
  /\ phase' = IF Len(clearing) = 1 THEN "calls" ELSE "clear"
  /\ rest' = IF Len(clearing) = 1 THEN <<>> ELSE hold[clearing[2][1]]
  /\ count' = IF Len(clearing) = 1 THEN 0 ELSE count
  /\ UNCHANGED <<terr, miner, total, deal, file, hold, bucket, order, hist>>

-----------------------------------------------------------------------------
(* What storage-handler does to territories and sminer to miners *)

\* frozen_task freezes a lease that has ended.
FreezeTerritory(l) ==
  /\ InCalls /\ terr[l].state = "Active" /\ l \in Ending
  /\ terr' = [terr EXCEPT ![l].state = "Frozen"]
  /\ UNCHANGED <<hook, miner, total, deal, file, hold, bucket, order, hist>>

RenewalTerritory(l) ==
  /\ InCalls /\ terr[l].state = "Frozen"
  /\ terr' = [terr EXCEPT ![l].state = "Active"]
  /\ UNCHANGED <<hook, miner, total, deal, file, hold, bucket, order, hist>>

\* reactivate_territory: initial_territory clears the three counters.
ReactivateTerritory(l) ==
  /\ InCalls /\ terr[l].state = "Expired" /\ l \in Resumed
  /\ terr' = [terr EXCEPT ![l] = [state |-> "Active", used |-> 0, locked |-> 0, rem |-> 0]]
  /\ reset' = reset \cup {l} /\ forgotten' = [forgotten EXCEPT ![l] = 0]
  /\ UNCHANGED <<hook, miner, total, deal, file, hold, bucket, order, lost, returned>>

\* expanding_territory; the space of a territory is bounded by TerrSpace[l].
ExpandingTerritory(l) ==
  /\ InCalls /\ terr[l].state = "Active"
  /\ terr[l].used + terr[l].locked + terr[l].rem < TerrSpace[l]
  /\ terr' = [terr EXCEPT ![l].rem = TerrSpace[l] - terr[l].used - terr[l].locked]
  /\ UNCHANGED <<hook, miner, total, deal, file, hold, bucket, order, hist>>

\* deposit_punish leaves a miner without enough collateral in state frozen,
\* whatever its state was.
MinerPunished(m) ==
  /\ InCalls /\ m \in Leavers /\ miner[m].state # "frozen"
  /\ miner[m].target => m \in Returners
  /\ miner' = [miner EXCEPT ![m].state = "frozen"]
  /\ returned' = IF miner[m].target THEN returned \cup {m} ELSE returned
  /\ UNCHANGED <<hook, terr, total, deal, file, hold, bucket, order,
                 lost, forgotten, reset>>

\* increase_collateral pays the missing collateral.
MinerThaws(m) ==
  /\ InCalls /\ miner[m].state = "frozen"
  /\ miner' = [miner EXCEPT ![m].state = "positive"]
  /\ UNCHANGED <<hook, terr, total, deal, file, hold, bucket, order, hist>>

MinerExitPrep(m) ==
  /\ InCalls /\ m \in Leavers /\ miner[m].state = "positive" /\ miner[m].lock = 0
  /\ miner' = [miner EXCEPT ![m].state = "lock"]
  /\ UNCHANGED <<hook, terr, total, deal, file, hold, bucket, order, hist>>

\* Mutant: the target leaves out the locked space.
LeaveServiceOnly(m, state, pending) ==
  miner' = [miner EXCEPT ![m] = [@ EXCEPT !.state = state, !.pending = pending,
              !.target = TRUE, !.owed = miner[m].service, !.restored = 0]]

\* create_restoral_target.
Leave(m, state, pending) ==
  miner' = [miner EXCEPT ![m] = [@ EXCEPT !.state = state, !.pending = pending,
              !.target = TRUE, !.owed = miner[m].service + miner[m].lock,
              !.restored = 0]]

\* miner_exit, as the scheduler calls it.
MinerExit(m) ==
  /\ InCalls /\ miner[m].state = "lock" /\ totalIdle >= miner[m].idle
  /\ totalIdle' = totalIdle - miner[m].idle
  /\ Leave(m, "exit", miner[m].pending)
  /\ UNCHANGED <<hook, terr, totalService, deal, file, hold, bucket, order, hist>>

\* force_miner_exit, as the audit pallet calls it.
ForceMinerExit(m) ==
  /\ InCalls /\ m \in Leavers /\ miner[m].state # "offline"
  /\ totalIdle >= miner[m].idle + miner[m].lock
  /\ totalIdle' = totalIdle - miner[m].idle - miner[m].lock
  /\ Leave(m, "offline", 0)
  /\ UNCHANGED <<hook, terr, totalService, deal, file, hold, bucket, order, hist>>

\* miner_withdraw drops the pending replacements.
MinerWithdraw(m) ==
  /\ InCalls /\ miner[m].target
  /\ miner' = [miner EXCEPT ![m].pending = 0]
  /\ UNCHANGED <<hook, terr, total, deal, file, hold, bucket, order, hist>>
-----------------------------------------------------------------------------

UploadNext ==
  \E f \in Files :
    \/ \E b \in Briefs : GenerateDeal(f, b) \/ FlyUploadFile(f, b)
    \/ \E m \in Miners :
         \/ \E i \in Parts : TransferPart(m, f, i) \/ TransferLast(m, f, i)
         \/ TransferExpired(m, f)
         \/ CalculateReport(m, f)

RemovalNext ==
  \E u \in Users :
    \/ \E f \in Files : \/ DeleteFile(u, f)
                        \/ \E t \in Terrs : TerritoryFileDelivery(u, f, t)
    \/ \E b \in Buckets : CreateBucket(u, b) \/ DeleteBucket(u, b)

RestoralNext ==
  \E m \in Miners, f \in Files : \E x \in Frags(f) :
    \/ GenerateRestoralOrder(m, f, x) \/ ClaimRestoralOrder(m, f, x)
    \/ RestoralOrderDropped(m, f, x)
    \/ \E n \in Miners : \/ ClaimRestoralNoexistOrder(m, n, f, x)
                         \/ RestoralOrderComplete(m, n, f, x)

\* At most two territories expire in one block.
HookNext ==
  \/ \E q \in {<<>>} \cup {<<l>> : l \in Locs} \cup (Locs \X Locs) : StartBlock(q)
  \/ ClearSkip \/ ClearLimitReached \/ ClearFile \/ ClearNext

TerritoryNext ==
  \E l \in Locs : FreezeTerritory(l) \/ RenewalTerritory(l)
                  \/ ReactivateTerritory(l) \/ ExpandingTerritory(l)

MinerNext ==
  \E m \in Miners :
    \/ \E c \in Certs : CertIdleSpace(m, c) \/ ReplaceIdleSpace(m, c)
    \/ MinerPunished(m) \/ MinerThaws(m) \/ MinerExitPrep(m)
    \/ MinerExit(m) \/ ForceMinerExit(m) \/ MinerWithdraw(m)

Next == UploadNext \/ RemovalNext \/ RestoralNext \/ HookNext \/ TerritoryNext \/ MinerNext

Spec == Init /\ [][Next]_vars

-----------------------------------------------------------------------------
(* Properties *)

\* The fragments of open deals that miner m has reported.
DealUnits(m) ==
  UNION {{f} \X (1 .. SegCount[f]) : f \in {g \in Files : m \in Reporters(deal[g])}}
\* The fragments of stored files that miner m holds, with and without a tag.
Tagged(m) == UNION {{f} \X (Held(file[f])[m] \cap file[f].tagged) : f \in Files}
Untagged(m) == UNION {{f} \X (Held(file[f])[m] \ file[f].tagged) : f \in Files}

\* The locked space of a miner that has not left is what the deals and files on
\* chain say: reported parts, fragments without a tag, and the parts of deals
\* that a second declaration of the same file has overwritten.  Its service
\* space, on which challenges and rewards rest, is the number of tagged
\* fragments it holds.
MinerSpaceExact ==
  \A m \in Miners : ~miner[m].target =>
    /\ miner[m].lock = Cardinality(DealUnits(m)) + Cardinality(Untagged(m)) + lost[m]
    /\ miner[m].service = Cardinality(Tagged(m))

\* The idle segments a miner has proved are all accounted for: idle, locked by
\* a deal, or pending replacement.  So a miner never has to drop idle segments
\* that it does not have.
ProvedCovered ==
  \A m \in Miners : ~miner[m].target =>
    (miner[m].rear - miner[m].front) * IdleSeg =
      miner[m].idle + Cardinality(DealUnits(m)) + lost[m] + miner[m].pending

\* What is restored for a miner that left, and what it still holds, is within
\* what it owed when it left; otherwise restored could not stop at the value
\* that lets the miner withdraw.  Miners that were punished after they had left
\* are excepted: they may become active again.
RestoralCovered ==
  \A m \in Miners \ returned : miner[m].target =>
    miner[m].restored + Cardinality(Tagged(m)) + Cardinality(Untagged(m)) <= miner[m].owed

\* The hook is not rolled back, so the removal of a file must not fail after
\* some miners have been changed: whenever a file exists, it can be removed.
RemovalSafe == \A f \in Files : file[f].on => CanRemove(f)

\* The network's service space is the space of the files.  As long as no miner
\* leaves and no fragment is restored, its idle space is the idle space of the
\* miners, with what open deals have locked.
NetworkTotals ==
  /\ totalService = Cardinality(UNION {{f} \X Frags(f) : f \in {g \in Files : file[g].on}})
  /\ Damaged = {} /\ Leavers = {} =>
       totalIdle = Cardinality(UNION {{m} \X (1 .. (miner[m].idle + lost[m])) : m \in Miners})
                   + Cardinality(UNION {{m} \X DealUnits(m) : m \in Miners})

\* The locked space of a territory is that of its open deals, and of the deals
\* that were overwritten or dropped.  A territory that was activated again has
\* lost the count.  Deletions and moves, which charge and refund different
\* amounts and may name a territory the file has left, never take back more
\* than a territory has in use.
UserLockedExact ==
  \A l \in Locs :
    /\ terr[l].used >= 0
    /\ l \notin reset =>
         terr[l].locked = forgotten[l] +
           Cardinality(UNION {{f} \X Frags(f) :
                                f \in {g \in Files : deal[g].on /\ Loc(deal[g].brief) = l}})

\* When a territory expires, the hook leaves a file that its user shares with
\* others to them.  (A file that only others hold is lost through an entry of
\* the list that an earlier expiry has processed already: the list is not
\* written back.)
SharedFilesKept ==
  [][\A f \in Files : phase = "clear" /\ file[f].on /\ ~file'[f].on =>
       LET users == {file[f].owner[j].user : j \in DOMAIN file[f].owner}
       IN  clearing[1][1] \in users => users = {clearing[1][1]}]_vars
=============================================================================
