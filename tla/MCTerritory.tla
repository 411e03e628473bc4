---------------------------- MODULE MCTerritory ----------------------------
(* Small instances of Territory. *)
EXTENDS Territory, TLC

-----------------------------------------------------------------------------
(* Three scenes, each with the calls that matter together.  Users and tokens  *)
(* are interchangeable in all of them.                                        *)
CONSTANTS n1
VARIABLE scene

OwnedBy(u) == \A l \in Locs : Exists(l) => l[1] = u
OrdersOf(u) == {payOrder[id].loc : id \in 0 .. MaxBlock} \subseteq {NoLoc} \cup ({u} \X TerrNames)
Minted == {t \in Tokens : key[t] # NoLoc}
NoneYet == Minted = {}

\* The calls of Lease by u, for names in ns and terms in ds.
LeaseOf(u, ns, ds) ==
  \E n \in ns \cup Tokens :
    \/ \E g \in Gibs : ExpandingTerritory(u, n, g)
    \/ \E d \in ds : RenewalTerritory(u, n, d) \/ ReactivateTerritory(u, n, d)
    \/ \E m \in ns : TerritoryRename(u, n, m)

Mint(u, ns, ds) ==
  \E n \in ns, g \in Gibs, d \in ds, t \in Tokens : MintTerritory(u, n, g, d, t)

\* One user with two territories in use, on a network that grows and shrinks.
LeaseScene ==
  \/ \E u \in Users :
       /\ OwnedBy(u)
       /\ \/ Mint(u, Names, {2}) \/ LeaseOf(u, Names, {2})
          \/ \E n \in TerrNames : TerritoryGrants(u, n, u)
  \/ \E loc \in Locs, s \in Sizes :
       \/ AddTerritoryUsedSpace(loc, s) \/ SubTerritoryUsedSpace(loc, s)
       \/ LockUserSpace(loc, s) \/ UnlockUserSpace(loc, s)
       \/ UnlockAndUsedUserSpace(loc, s)
  \/ now < 3 /\ \E space \in NetworkSpaces : ChangeNetworkSpace(space)

\* One user with one territory and orders on it.
OrderScene ==
  \E u \in Users :
    /\ now + 1 < MaxBlock /\ OwnedBy(u) /\ OrdersOf(u)
    /\ \/ NoneYet /\ Mint(u, {n1}, {2})
       \/ LeaseOf(u, {n1}, {0, 1})
       \/ \E n \in {n1} \cup Tokens : TerritoryGrants(u, n, u)
       \/ \E type \in {"Buy", "Expansion", "Renewal"}, n \in {n1} \cup Minted, g \in Gibs,
             d \in {1}, life \in OrderLives : CreateOrder(type, <<u, n>>, g, d, life)
       \/ \E id \in 0 .. MaxBlock :
             \/ \E t \in Tokens : NoneYet /\ ExecBuyOrder(u, id, t)
             \/ ExecExpansionOrder(u, id) \/ ExecRenewalOrder(u, id)

\* Two users and two territories on the market.
MarketScene ==
  \E u, v \in Users :
       \/ Mint(u, {n1}, {3})
       \/ \E n \in {n1} \cup Tokens :
            \/ \E g \in Gibs : ExpandingTerritory(u, n, g)
            \/ terr[<<u, n>>].state # "Active" /\ RenewalTerritory(u, n, 3)
            \/ ReactivateTerritory(u, n, 3) \/ TerritoryRename(u, n, n1)
       \/ \E n \in {n1} \cup Tokens : TerritoryGrants(u, n, v)
       \/ \E n \in {n1} \cup Tokens, p \in Prices : TerritoryConsignment(u, n, p)
       \/ \E n \in {n1} \cup Tokens : CancelConsignment(u, n)
       \/ \E t \in Tokens : BuyConsignment(u, t, n1) \/ CancelPurchaseAction(u, t)
       \/ \E p \in Prices : Transfer(u, v, p)

MCInit ==
  /\ Init /\ scene \in {"lease", "order", "market"}
  /\ scene # "lease" => \A space \in NetworkSpaces : space <= network

MCNext ==
  /\ \/ scene = "lease" /\ LeaseScene
     \/ scene = "order" /\ OrderScene
     \/ scene = "market" /\ MarketScene
     \/ Hooks
  /\ UNCHANGED scene

MCSpec == MCInit /\ [][MCNext]_<<vars, scene>>

Symmetry == Permutations(Users) \cup Permutations(Tokens)
=============================================================================
