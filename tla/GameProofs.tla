----------------------------- MODULE GameProofs -----------------------------
(***************************************************************************)
(* Theorems of module Game, for any set of zones, of armed ones, of        *)
(* identities and of connections.                                          *)
(***************************************************************************)
EXTENDS Game, SequenceLemmas

USE DEF worldVars, connVars, travelVars

Bags == [Kinds -> Nat]

\* The map of players of each zone.
WorldTypes ==
  /\ DOMAIN player = Zones
  /\ \A z \in Zones :
       /\ DOMAIN player[z] \subseteq Players
       /\ \A p \in DOMAIN player[z] : player[z][p] \in Bags

\* A connection that was made has a zone and an identity.
Placed == \A c \in Conns : step[c] # "away" => zone[c] \in Zones /\ who[c] \in Players

-----------------------------------------------------------------------------
(* Bags *)

LEMMA BagTypes ==
  ASSUME NEW bag \in Bags, NEW k \in Kinds
  PROVE  /\ Plus(bag, k) \in Bags
         /\ bag[k] > 0 => Minus(bag, k) \in Bags
  BY DEF Bags, Plus, Minus

LEMMA FixedBags == Empty \in Bags /\ Spawned \in Bags
  BY DEF Empty, Spawned, Bags

LEMMA PolicyTypes ==
  ASSUME NEW bag \in Bags, NEW z
  PROVE  ApplyImportPolicy(bag, z) \in Bags
  BY DEF ApplyImportPolicy, Bags

-----------------------------------------------------------------------------
(* What becomes of the maps of players. *)

LEMMA AddToWorld ==
  ASSUME WorldTypes, NEW z \in Zones, NEW p \in Players, NEW bag \in Bags, AddPlayer(z, p, bag)
  PROVE  /\ WorldTypes'
         /\ DOMAIN player'[z] = DOMAIN player[z] \cup {p}
         /\ \A y \in Zones \ {z} : player'[y] = player[y]
<1> DEFINE new == [q \in DOMAIN player[z] \cup {p} |-> IF q = p THEN bag ELSE player[z][q]]
<1>1. player' = [player EXCEPT ![z] = new]
  BY DEF AddPlayer
<1>2. DOMAIN new = DOMAIN player[z] \cup {p} /\ \A q \in DOMAIN new : new[q] \in Bags
  BY DEF WorldTypes
<1> HIDE DEF new
<1> QED
  BY <1>1, <1>2 DEF WorldTypes

LEMMA RemoveFromWorld ==
  ASSUME WorldTypes, NEW z \in Zones, NEW p, RemovePlayer(z, p)
  PROVE  /\ WorldTypes'
         /\ DOMAIN player'[z] = DOMAIN player[z] \ {p}
         /\ \A y \in Zones \ {z} : player'[y] = player[y]
<1> DEFINE new == [q \in DOMAIN player[z] \ {p} |-> player[z][q]]
<1>1. player' = [player EXCEPT ![z] = new]
  BY DEF RemovePlayer
<1>2. DOMAIN new = DOMAIN player[z] \ {p} /\ \A q \in DOMAIN new : new[q] \in Bags
  BY DEF WorldTypes
<1> HIDE DEF new
<1> QED
  BY <1>1, <1>2 DEF WorldTypes

LEMMA ChangeInventory ==
  ASSUME WorldTypes, NEW c \in Conns, Plays(c), zone[c] \in Zones, NEW bag \in Bags,
         SetInventory(c, bag)
  PROVE  /\ WorldTypes'
         /\ \A z \in Zones : DOMAIN player'[z] = DOMAIN player[z]
<1> DEFINE new == [player[zone[c]] EXCEPT ![who[c]] = bag]
<1>1. player' = [player EXCEPT ![zone[c]] = new]
  BY DEF SetInventory
<1>2. DOMAIN new = DOMAIN player[zone[c]] /\ \A q \in DOMAIN new : new[q] \in Bags
  BY DEF WorldTypes
<1> HIDE DEF new
<1> QED
  BY <1>1, <1>2 DEF WorldTypes

\* Who plays has an inventory.
LEMMA InventoryTypes ==
  ASSUME WorldTypes, Placed, NEW c \in Conns, Plays(c)
  PROVE  zone[c] \in Zones /\ Inventory(c) \in Bags
  BY DEF WorldTypes, Placed, Plays, Inventory

\* The intents that change an inventory.
Acts(c) == (\E k \in Kinds : PickUp(c, k) \/ Drop(c, k)) \/ UseItem(c)

LEMMA IntentTypes ==
  ASSUME TypeOK, Placed, NEW c \in Conns, Acts(c)
  PROVE  /\ WorldTypes'
         /\ \A z \in Zones : DOMAIN player'[z] = DOMAIN player[z]
         /\ items' \in [Zones -> Bags]
         /\ UNCHANGED <<connVars, travelVars>>
<1>0. WorldTypes /\ items \in [Zones -> Bags] /\ "potion" \in Kinds
  BY DEF TypeOK, WorldTypes, Bags, Kinds
<1>1. Plays(c) /\ UNCHANGED <<connVars, travelVars>>
  BY DEF Acts, PickUp, Drop, UseItem
<1>2. zone[c] \in Zones /\ Inventory(c) \in Bags
  BY <1>0, <1>1, InventoryTypes
<1>3. PICK bag \in Bags : SetInventory(c, bag)
  <2>1. CASE \E k \in Kinds : PickUp(c, k)
    BY <1>2, <2>1, BagTypes DEF PickUp
  <2>2. CASE \E k \in Kinds : Drop(c, k)
    BY <1>2, <2>2, BagTypes DEF Drop
  <2>3. CASE UseItem(c)
    BY <1>0, <1>2, <2>3, BagTypes DEF UseItem
  <2> QED
    BY <2>1, <2>2, <2>3 DEF Acts
<1>4. items' \in [Zones -> Bags]
  <2>1. ASSUME NEW k \in Kinds, PickUp(c, k) PROVE items' \in [Zones -> Bags]
    <3>1. /\ items[zone[c]] \in Bags /\ items[zone[c]][k] > 0
          /\ items' = [items EXCEPT ![zone[c]] = Minus(items[zone[c]], k)]
      BY <1>0, <1>2, <2>1 DEF PickUp
    <3>2. Minus(items[zone[c]], k) \in Bags
      BY <3>1, BagTypes
    <3> QED
      BY <1>0, <3>1, <3>2
  <2>2. ASSUME NEW k \in Kinds, Drop(c, k) PROVE items' \in [Zones -> Bags]
    <3>1. /\ items[zone[c]] \in Bags
          /\ items' = [items EXCEPT ![zone[c]] = Plus(items[zone[c]], k)]
      BY <1>0, <1>2, <2>2 DEF Drop
    <3>2. Plus(items[zone[c]], k) \in Bags
      BY <3>1, BagTypes
    <3> QED
      BY <1>0, <3>1, <3>2
  <2>3. CASE UseItem(c)
    BY <1>0, <2>3 DEF UseItem
  <2> QED
    BY <2>1, <2>2, <2>3 DEF Acts
<1> QED
  BY <1>0, <1>1, <1>2, <1>3, <1>4, ChangeInventory

\* A new connection, with or without a passport.
Comes(c, z, p) == Connect(c, z, p) \/ Arrive(c, z, p)

LEMMA EntryTypes ==
  ASSUME TypeOK, NEW c \in Conns, NEW z \in Zones, NEW p \in Players, Comes(c, z, p)
  PROVE  /\ imported' \in Bags
         /\ \E bag \in Bags : Enters(c, z, p, bag)
<1>0. imported \in Bags
  BY DEF TypeOK, Bags
<1>1. CASE Connect(c, z, p)
  BY <1>0, <1>1, FixedBags DEF Connect
<1>2. CASE Arrive(c, z, p)
  <2> DEFINE accepted == ApplyImportPolicy(passport[p], z)
  <2>1. passport[p] \in Bags
    BY <1>2 DEF Arrive, TypeOK, Bags
  <2>2. accepted \in Bags
    BY <2>1, PolicyTypes
  <2>3. Enters(c, z, p, accepted) /\ imported' = [k \in Kinds |-> imported[k] + accepted[k]]
    BY <1>2 DEF Arrive
  <2> HIDE DEF accepted
  <2>4. imported' \in Bags
    BY <1>0, <2>2, <2>3 DEF Bags
  <2> QED
    BY <2>2, <2>3, <2>4
<1> QED
  BY <1>1, <1>2 DEF Comes

-----------------------------------------------------------------------------
(* Type correctness *)

LEMMA TypeInit == Init => TypeOK /\ Placed
<1> SUFFICES ASSUME Init PROVE TypeOK /\ Placed
  OBVIOUS
<1>1. Empty \in [Kinds -> Nat] /\ Spawned \in [Kinds -> Nat]
  BY FixedBags DEF Bags
<1> QED
  BY <1>1 DEF Init, TypeOK, Placed

LEMMA TypeStep == TypeOK /\ Placed /\ [Next]_vars => TypeOK' /\ Placed'
<1> SUFFICES ASSUME TypeOK, Placed, [Next]_vars PROVE TypeOK' /\ Placed'
  OBVIOUS
<1> USE DEF TypeOK, Placed
<1>0. WorldTypes
  BY DEF WorldTypes, Bags
<1>1. ASSUME NEW c \in Conns, NEW z \in Zones, NEW p \in Players, Comes(c, z, p)
      PROVE  TypeOK' /\ Placed'
  <2>1. PICK bag \in Bags : Enters(c, z, p, bag)
    BY <1>1, EntryTypes
  <2>2. imported' \in Bags
    BY <1>1, EntryTypes
  <2>3. WorldTypes'
    BY <1>0, <2>1, AddToWorld DEF Enters
  <2>4. /\ step' = [step EXCEPT ![c] = "loop"]
        /\ zone' = [zone EXCEPT ![c] = z]
        /\ who' = [who EXCEPT ![c] = p]
        /\ open' = open \cup {c}
        /\ UNCHANGED <<items, passport>>
    BY <2>1 DEF Enters
  <2> QED
    BY <2>2, <2>3, <2>4 DEF WorldTypes, Bags
<1>2. ASSUME NEW c \in Conns, Acts(c) PROVE TypeOK' /\ Placed'
  BY <1>2, IntentTypes DEF WorldTypes, Bags
<1>3. ASSUME NEW c \in Conns, ClientCloses(c) PROVE TypeOK' /\ Placed'
  BY <1>3 DEF ClientCloses
<1>4. ASSUME NEW c \in Conns, Transfer(c) PROVE TypeOK' /\ Placed'
  <2>1. Inventory(c) \in [Kinds -> Nat]
    BY <1>0, <1>4, InventoryTypes DEF Transfer, Bags
  <2> QED
    BY <1>4, <2>1 DEF Transfer
<1>5. ASSUME NEW c \in Conns, WriteFails(c) PROVE TypeOK' /\ Placed'
  BY <1>5 DEF WriteFails
<1>6. ASSUME NEW c \in Conns, HangUp(c) PROVE TypeOK' /\ Placed'
  <2>1. WorldTypes'
    BY <1>0, <1>6, RemoveFromWorld DEF HangUp
  <2> QED
    BY <1>6, <2>1 DEF HangUp, WorldTypes, Bags
<1>7. CASE UNCHANGED vars
  BY <1>7 DEF vars
<1> QED
  BY <1>1, <1>2, <1>3, <1>4, <1>5, <1>6, <1>7 DEF Next, Comes, Acts

\* Every reachable state is type-correct; no inventory or zone goes below zero.
THEOREM GameTypes == Spec => []TypeOK
  BY TypeInit, TypeStep, PTL DEF Spec

-----------------------------------------------------------------------------
(* Players and connections *)

Linked == PlayersHaveConnections /\ ConnectionsHavePlayers

LEMMA LinkedInit == Init => Linked
  BY DEF Init, Linked, PlayersHaveConnections, ConnectionsHavePlayers

LEMMA LinkedStep == TypeOK /\ Placed /\ Linked /\ [Next]_vars => Linked'
<1> SUFFICES ASSUME TypeOK, Placed, Linked, [Next]_vars PROVE Linked'
  OBVIOUS
<1> USE DEF Linked, PlayersHaveConnections, ConnectionsHavePlayers
<1>0. /\ WorldTypes
      /\ step \in [Conns -> {"away", "loop", "gone", "failed"}]
      /\ zone \in [Conns -> Zones \cup {NoZone}]
      /\ who \in [Conns -> Players \cup {NoPlayer}]
  BY DEF TypeOK, WorldTypes, Bags
<1>1. ASSUME NEW c \in Conns, NEW z \in Zones, NEW p \in Players, Comes(c, z, p) PROVE Linked'
  <2>1. PICK bag \in Bags : Enters(c, z, p, bag)
    BY <1>1, EntryTypes
  <2>2. /\ step[c] = "away"
        /\ step' = [step EXCEPT ![c] = "loop"]
        /\ zone' = [zone EXCEPT ![c] = z]
        /\ who' = [who EXCEPT ![c] = p]
    BY <2>1 DEF Enters
  <2>3. /\ DOMAIN player' = Zones
        /\ DOMAIN player'[z] = DOMAIN player[z] \cup {p}
        /\ \A y \in Zones \ {z} : player'[y] = player[y]
    BY <1>0, <2>1, AddToWorld DEF Enters, WorldTypes
  <2>4. PlayersHaveConnections'
    BY <1>0, <2>2, <2>3
  <2>5. ConnectionsHavePlayers'
    BY <1>0, <2>2, <2>3 DEF Placed
  <2> QED
    BY <2>4, <2>5
<1>2. ASSUME \A z \in Zones : DOMAIN player'[z] = DOMAIN player[z],
             UNCHANGED <<step, zone, who>>
      PROVE  Linked'
  BY <1>2 DEF Placed
<1>3. ASSUME NEW c \in Conns, Acts(c) PROVE Linked'
  BY <1>2, <1>3, IntentTypes
<1>4. ASSUME NEW c \in Conns, WriteFails(c) PROVE Linked'
  BY <1>0, <1>4 DEF WriteFails
<1>5. ASSUME NEW c \in Conns, HangUp(c) PROVE Linked'
  <2>1. zone[c] \in Zones /\ step[c] = "loop" /\ step' = [step EXCEPT ![c] = "gone"]
        /\ UNCHANGED <<zone, who>>
    BY <1>5 DEF HangUp, Placed
  <2>2. /\ DOMAIN player'[zone[c]] = DOMAIN player[zone[c]] \ {who[c]}
        /\ \A y \in Zones \ {zone[c]} : player'[y] = player[y]
    BY <1>0, <1>5, <2>1, RemoveFromWorld DEF HangUp
  <2>3. PlayersHaveConnections'
    BY <1>0, <2>1, <2>2
  <2>4. ConnectionsHavePlayers'
    BY <1>0, <2>1, <2>2 DEF Placed
  <2> QED
    BY <2>3, <2>4
<1>6. ASSUME NEW c \in Conns, ClientCloses(c) \/ Transfer(c) PROVE Linked'
  BY <1>2, <1>6 DEF ClientCloses, Transfer
<1>7. CASE UNCHANGED vars
  BY <1>2, <1>7 DEF vars
<1> QED
  BY <1>1, <1>3, <1>4, <1>5, <1>6, <1>7 DEF Next, Comes, Acts

\* A player in a world has a connection in its loop there, or had one whose
\* handler returned the error of a write.
THEOREM PlayersAreLinked == Spec => []PlayersHaveConnections
  BY TypeInit, TypeStep, LinkedInit, LinkedStep, PTL DEF Spec, Linked

\* A connection in its loop has its player, unless the end of another connection
\* of the same identity to the same zone took it away.
THEOREM ConnectionsAreLinked == Spec => []ConnectionsHavePlayers
  BY TypeInit, TypeStep, LinkedInit, LinkedStep, PTL DEF Spec, Linked

-----------------------------------------------------------------------------
(* What zones hold *)

\* A map of players, and how many of kind k they carry.
IsWorld(m) == IsFiniteSet(DOMAIN m) /\ \A p \in DOMAIN m : m[p] \in Bags
Carry(m, k) == Total([p \in DOMAIN m |-> m[p][k]], DOMAIN m)

\* How many of kind k player p carries, if it is in the map.
CarriedBy(m, p, k) == IF p \in DOMAIN m THEN m[p][k] ELSE 0

\* How many of kind k there are, when i lies around and m is the maps of players.
There(i, m, k) == Total([z \in Zones |-> i[z][k] + Carry(m[z], k)], Zones)

Worlds(i, m) == i \in [Zones -> Bags] /\ \A z \in Zones : IsWorld(m[z])

LEMMA CarryIs == \A z, k : Carried(k, z) = Carry(player[z], k)
  BY DEF Carried, Carry, Total, SumFunction

LEMMA CarrySplits ==
  ASSUME NEW m, IsWorld(m), NEW p, NEW k \in Kinds
  PROVE  /\ Carry(m, k) \in Nat /\ CarriedBy(m, p, k) \in Nat
         /\ Carry(m, k) = CarriedBy(m, p, k) + Total([q \in DOMAIN m |-> m[q][k]], DOMAIN m \ {p})
         /\ Total([q \in DOMAIN m |-> m[q][k]], DOMAIN m \ {p}) \in Nat
<1> DEFINE D == DOMAIN m
           f == [q \in D |-> m[q][k]]
<1>1. IsFiniteSet(D) /\ \A q \in D : f[q] \in Nat /\ f[q] = m[q][k]
  BY DEF IsWorld, Bags
<1> HIDE DEF f
<1>2. /\ Total(f, D) \in Nat
      /\ \A x \in D : Total(f, D) = f[x] + Total(f, D \ {x}) /\ Total(f, D \ {x}) \in Nat
  BY <1>1, TotalWithout
<1>3. CASE p \in D
  BY <1>1, <1>2, <1>3 DEF Carry, CarriedBy, f
<1>4. CASE p \notin D
  <2>1. D \ {p} = D
    BY <1>4
  <2> QED
    BY <1>2, <1>4, <2>1 DEF Carry, CarriedBy, f
<1> QED
  BY <1>3, <1>4

\* When only p changes, what all carry changes by what p carries.
LEMMA CarryChanges ==
  ASSUME NEW m, IsWorld(m), NEW n, IsWorld(n), NEW p, NEW k \in Kinds,
         DOMAIN n \ {p} = DOMAIN m \ {p}, \A q \in DOMAIN m \ {p} : n[q] = m[q]
  PROVE  /\ Carry(m, k) \in Nat /\ Carry(n, k) \in Nat
         /\ CarriedBy(m, p, k) \in Nat /\ CarriedBy(n, p, k) \in Nat
         /\ Carry(n, k) + CarriedBy(m, p, k) = Carry(m, k) + CarriedBy(n, p, k)
<1> DEFINE R == DOMAIN m \ {p}
           f == [q \in DOMAIN m |-> m[q][k]]
           h == [q \in DOMAIN n |-> n[q][k]]
<1>1. /\ Carry(m, k) \in Nat /\ CarriedBy(m, p, k) \in Nat /\ Total(f, R) \in Nat
      /\ Carry(m, k) = CarriedBy(m, p, k) + Total(f, R)
  BY CarrySplits
<1>2. /\ Carry(n, k) \in Nat /\ CarriedBy(n, p, k) \in Nat
      /\ Carry(n, k) = CarriedBy(n, p, k) + Total(h, DOMAIN n \ {p})
  BY CarrySplits
<1>3. IsFiniteSet(R) /\ \A q \in R : f[q] = h[q]
  BY FS_Subset DEF IsWorld
<1>4. Total(f, R) = Total(h, R)
  <2> HIDE DEF f, h, R
  <2> QED
    BY <1>3, TotalSame
<1>5. Carry(n, k) = CarriedBy(n, p, k) + Total(f, R)
  BY <1>2, <1>4
<1> HIDE DEF f, h, R
<1> QED
  BY <1>1, <1>2, <1>5

\* When only zone z changes, and gains no more than n of a kind, there are no
\* more than n more of it.
LEMMA ThereGrows ==
  ASSUME NEW i, NEW m, Worlds(i, m), NEW j, NEW n, Worlds(j, n), NEW z \in Zones,
         \A y \in Zones \ {z} : j[y] = i[y] /\ n[y] = m[y],
         NEW k \in Kinds, NEW gain \in Nat, j[z][k] + Carry(n[z], k) <= i[z][k] + Carry(m[z], k) + gain
  PROVE  /\ There(i, m, k) \in Nat /\ There(j, n, k) \in Nat
         /\ There(j, n, k) <= There(i, m, k) + gain
<1> DEFINE f == [y \in Zones |-> i[y][k] + Carry(m[y], k)]
           h == [y \in Zones |-> j[y][k] + Carry(n[y], k)]
<1>1. ASSUME NEW y \in Zones PROVE f[y] \in Nat /\ h[y] \in Nat
  <2>1. Carry(m[y], k) \in Nat /\ Carry(n[y], k) \in Nat
    BY CarrySplits DEF Worlds
  <2>2. i[y][k] \in Nat /\ j[y][k] \in Nat
    BY DEF Worlds, Bags
  <2> QED
    BY <2>1, <2>2
<1>2. /\ IsFiniteSet(Zones) /\ IsFiniteSet(Zones \ {z})
      /\ \A y \in Zones \ {z} : f[y] = h[y]
      /\ h[z] <= f[z] + gain
  BY GameAssumption, FS_Subset
<1>3. There(i, m, k) = Total(f, Zones) /\ There(j, n, k) = Total(h, Zones)
  BY DEF There
<1> HIDE DEF f, h
<1>4. /\ Total(f, Zones) \in Nat /\ Total(f, Zones \ {z}) \in Nat
      /\ Total(f, Zones) = f[z] + Total(f, Zones \ {z})
  BY <1>1, <1>2, TotalWithout
<1>5. Total(h, Zones) \in Nat /\ Total(h, Zones) = h[z] + Total(h, Zones \ {z})
  BY <1>1, <1>2, TotalWithout
<1>6. Total(f, Zones \ {z}) = Total(h, Zones \ {z})
  BY <1>2, TotalSame
<1> QED
  BY <1>1, <1>2, <1>3, <1>4, <1>5, <1>6

-----------------------------------------------------------------------------
(* What a step brings in *)

\* Only finitely many have come.
FiniteWorlds == \A z \in Zones : IsFiniteSet(DOMAIN player[z])

\* Zone z, and no other, has at most gain more, which came with a passport; and
\* no weapons where there are none.
Brings(z, gain) ==
  /\ \A y \in Zones \ {z} : items'[y] = items[y] /\ player'[y] = player[y]
  /\ \A k \in Kinds : items'[z][k] + Carry(player'[z], k) <= items[z][k] + Carry(player[z], k) + gain[k]
  /\ imported' = [k \in Kinds |-> imported[k] + gain[k]]
  /\ z \notin Armed => \A k \in Weapons : gain[k] = 0

StaysFinite == \A z \in Zones : IsFiniteSet(DOMAIN player'[z])

LEMMA WorldsAre == TypeOK /\ FiniteWorlds => Worlds(items, player) /\ WorldTypes
  BY DEF TypeOK, FiniteWorlds, Worlds, IsWorld, WorldTypes, Bags

\* Who comes brings what its passport has, as the zone's policy lets it in; who
\* was there under that identity is no more, with all it carried.
LEMMA ComingBrings ==
  ASSUME TypeOK, FiniteWorlds, NEW c \in Conns, NEW z \in Zones, NEW p \in Players, Comes(c, z, p)
  PROVE  StaysFinite /\ \E gain \in Bags : Brings(z, gain)
<1>0. Worlds(items, player) /\ WorldTypes /\ imported \in Bags /\ passport \in [Players -> Bags \cup {NoPassport}]
  BY WorldsAre DEF TypeOK, Bags
<1>1. PICK gain \in Bags : /\ Enters(c, z, p, gain)
                           /\ imported' = [k \in Kinds |-> imported[k] + gain[k]]
                           /\ z \notin Armed => \A k \in Weapons : gain[k] = 0
  <2>1. CASE Connect(c, z, p)
    <3>1. Empty \in Bags /\ Weapons \subseteq Kinds /\ \A k \in Kinds : Empty[k] = 0
      BY FixedBags DEF Empty, Weapons, Kinds
    <3>2. imported = [k \in Kinds |-> imported[k] + Empty[k]]
      BY <1>0, <3>1 DEF Bags
    <3> QED
      BY <2>1, <3>1, <3>2 DEF Connect
  <2>2. CASE Arrive(c, z, p)
    <3> DEFINE accepted == ApplyImportPolicy(passport[p], z)
    <3>1. passport[p] \in Bags /\ accepted \in Bags
      BY <1>0, <2>2, PolicyTypes DEF Arrive
    <3>2. z \notin Armed => \A k \in Weapons : accepted[k] = 0
      BY DEF ApplyImportPolicy, Weapons, Kinds
    <3> QED
      BY <2>2, <3>1, <3>2 DEF Arrive
  <2> QED
    BY <2>1, <2>2 DEF Comes
<1> DEFINE new == [q \in DOMAIN player[z] \cup {p} |-> IF q = p THEN gain ELSE player[z][q]]
<1>2. /\ items' = items /\ DOMAIN player = Zones
      /\ player' = [player EXCEPT ![z] = new]
  BY <1>0, <1>1 DEF Enters, AddPlayer, WorldTypes
<1>3. IsWorld(player[z]) /\ IsWorld(new)
  <2>1. IsFiniteSet(DOMAIN new)
    BY FS_AddElement DEF FiniteWorlds
  <2> QED
    BY <1>0, <2>1 DEF Worlds, IsWorld
<1>4. /\ DOMAIN new \ {p} = DOMAIN player[z] \ {p}
      /\ \A q \in DOMAIN player[z] \ {p} : new[q] = player[z][q]
      /\ \A k \in Kinds : CarriedBy(new, p, k) = gain[k]
  BY DEF CarriedBy
<1> HIDE DEF new
<1>5. ASSUME NEW k \in Kinds
      PROVE  items'[z][k] + Carry(player'[z], k) <= items[z][k] + Carry(player[z], k) + gain[k]
  <2>1. /\ Carry(player[z], k) \in Nat /\ Carry(new, k) \in Nat /\ CarriedBy(player[z], p, k) \in Nat
        /\ Carry(new, k) + CarriedBy(player[z], p, k) = Carry(player[z], k) + gain[k]
    BY <1>3, <1>4, CarryChanges
  <2>2. items[z][k] \in Nat /\ gain[k] \in Nat /\ player'[z] = new /\ items'[z] = items[z]
    BY <1>0, <1>2 DEF Worlds, Bags
  <2> QED
    BY <2>1, <2>2
<1>6. StaysFinite
  BY <1>2, <1>3 DEF StaysFinite, FiniteWorlds, IsWorld
<1> QED
  BY <1>1, <1>2, <1>5, <1>6 DEF Brings

LEMMA NothingComes ==
  ASSUME TypeOK, imported' = imported
  PROVE  /\ Empty \in Bags /\ imported' = [k \in Kinds |-> imported[k] + Empty[k]]
         /\ \A k \in Kinds : Empty[k] = 0
         /\ Weapons \subseteq Kinds
<1>1. Empty \in Bags /\ Weapons \subseteq Kinds /\ \A k \in Kinds : Empty[k] = 0
  BY FixedBags DEF Empty, Weapons, Kinds
<1>2. imported \in [Kinds -> Nat]
  BY DEF TypeOK
<1>3. imported = [k \in Kinds |-> imported[k] + Empty[k]]
  BY <1>1, <1>2
<1> QED
  BY <1>1, <1>3

\* What an intent takes from one place it puts in the other, or uses up.
LEMMA ActingBrings ==
  ASSUME TypeOK, FiniteWorlds, Placed, NEW c \in Conns, Acts(c)
  PROVE  StaysFinite /\ zone[c] \in Zones /\ \E gain \in Bags : Brings(zone[c], gain)
<1> DEFINE z == zone[c]
           p == who[c]
           old == Inventory(c)
<1>0. Worlds(items, player) /\ WorldTypes
  BY WorldsAre
<1>1. /\ Plays(c) /\ imported' = imported
      /\ z \in Zones /\ p \in DOMAIN player[z] /\ old \in Bags /\ old = player[z][p]
      /\ items[z] \in Bags /\ IsWorld(player[z]) /\ DOMAIN player = Zones
  <2>1. Plays(c) /\ imported' = imported
    BY DEF Acts, PickUp, Drop, UseItem
  <2> QED
    BY <1>0, <2>1, InventoryTypes DEF Plays, Inventory, Worlds, WorldTypes
<1> HIDE DEF z, p, old
<1>2. PICK bag \in Bags :
        /\ player' = [player EXCEPT ![z][p] = bag]
        /\ \A y \in Zones \ {z} : items'[y] = items[y]
        /\ items'[z] \in Bags
        /\ \A k \in Kinds : items'[z][k] + bag[k] <= items[z][k] + old[k]
  <2>1. ASSUME NEW k \in Kinds, PickUp(c, k)
        PROVE  /\ player' = [player EXCEPT ![z][p] = Plus(old, k)]
               /\ Plus(old, k) \in Bags
               /\ \A y \in Zones \ {z} : items'[y] = items[y]
               /\ items'[z] \in Bags
               /\ \A l \in Kinds : items'[z][l] + Plus(old, k)[l] <= items[z][l] + old[l]
    <3>1. /\ player' = [player EXCEPT ![z][p] = Plus(old, k)]
          /\ items[z][k] > 0 /\ items' = [items EXCEPT ![z] = Minus(items[z], k)]
          /\ items \in [Zones -> Bags]
      BY <1>0, <2>1 DEF PickUp, SetInventory, z, p, old, Worlds
    <3>2. Plus(old, k) \in Bags /\ Minus(items[z], k) \in Bags
      BY <1>1, <3>1, BagTypes
    <3>3. ASSUME NEW l \in Kinds PROVE Minus(items[z], k)[l] + Plus(old, k)[l] <= items[z][l] + old[l]
      BY <1>1 DEF Minus, Plus, Bags
    <3> QED
      BY <1>1, <3>1, <3>2, <3>3
  <2>2. ASSUME NEW k \in Kinds, Drop(c, k)
        PROVE  /\ player' = [player EXCEPT ![z][p] = Minus(old, k)]
               /\ Minus(old, k) \in Bags
               /\ \A y \in Zones \ {z} : items'[y] = items[y]
               /\ items'[z] \in Bags
               /\ \A l \in Kinds : items'[z][l] + Minus(old, k)[l] <= items[z][l] + old[l]
    <3>1. /\ player' = [player EXCEPT ![z][p] = Minus(old, k)]
          /\ old[k] > 0 /\ items' = [items EXCEPT ![z] = Plus(items[z], k)]
          /\ items \in [Zones -> Bags]
      BY <1>0, <2>2 DEF Drop, SetInventory, z, p, old, Worlds
    <3>2. Minus(old, k) \in Bags /\ Plus(items[z], k) \in Bags
      BY <1>1, <3>1, BagTypes
    <3>3. ASSUME NEW l \in Kinds PROVE Plus(items[z], k)[l] + Minus(old, k)[l] <= items[z][l] + old[l]
      BY <1>1 DEF Minus, Plus, Bags
    <3> QED
      BY <1>1, <3>1, <3>2, <3>3
  <2>3. ASSUME UseItem(c)
        PROVE  /\ player' = [player EXCEPT ![z][p] = Minus(old, "potion")]
               /\ Minus(old, "potion") \in Bags
               /\ \A y \in Zones \ {z} : items'[y] = items[y]
               /\ items'[z] \in Bags
               /\ \A l \in Kinds : items'[z][l] + Minus(old, "potion")[l] <= items[z][l] + old[l]
    <3>1. /\ player' = [player EXCEPT ![z][p] = Minus(old, "potion")]
          /\ old["potion"] > 0 /\ items' = items /\ "potion" \in Kinds
      BY <2>3 DEF UseItem, SetInventory, z, p, old, Kinds
    <3>2. Minus(old, "potion") \in Bags
      BY <1>1, <3>1, BagTypes
    <3>3. ASSUME NEW l \in Kinds PROVE items[z][l] + Minus(old, "potion")[l] <= items[z][l] + old[l]
      BY <1>1, <3>1 DEF Minus, Bags
    <3> QED
      BY <1>1, <3>1, <3>2, <3>3
  <2> QED
    BY <2>1, <2>2, <2>3 DEF Acts
<1> DEFINE new == [player[z] EXCEPT ![p] = bag]
<1>3. player' = [player EXCEPT ![z] = new]
  BY <1>2
<1>4. /\ DOMAIN new = DOMAIN player[z]
      /\ \A q \in DOMAIN player[z] \ {p} : new[q] = player[z][q]
      /\ \A q \in DOMAIN new : new[q] \in Bags
      /\ new[p] = bag
  BY <1>1, <1>2 DEF IsWorld
<1> HIDE DEF new
<1>5. IsWorld(new) /\ \A k \in Kinds : CarriedBy(new, p, k) = bag[k] /\ CarriedBy(player[z], p, k) = old[k]
  BY <1>1, <1>4 DEF IsWorld, CarriedBy
<1>6. ASSUME NEW k \in Kinds
      PROVE  items'[z][k] + Carry(player'[z], k) <= items[z][k] + Carry(player[z], k) + Empty[k]
  <2>1. /\ Carry(player[z], k) \in Nat /\ Carry(new, k) \in Nat
        /\ Carry(new, k) + old[k] = Carry(player[z], k) + bag[k]
    BY <1>1, <1>4, <1>5, CarryChanges
  <2>2. items[z][k] \in Nat /\ items'[z][k] \in Nat /\ old[k] \in Nat /\ bag[k] \in Nat
    BY <1>1, <1>2 DEF Bags
  <2>3. items'[z][k] + bag[k] <= items[z][k] + old[k] /\ player'[z] = new /\ Empty[k] = 0
    BY <1>1, <1>2, <1>3 DEF Empty
  <2> QED
    BY <2>1, <2>2, <2>3
<1>7. \A y \in Zones \ {z} : player'[y] = player[y]
  BY <1>1, <1>3
<1>8. StaysFinite
  BY <1>1, <1>3, <1>5, <1>7 DEF StaysFinite, FiniteWorlds, IsWorld
<1>9. Brings(z, Empty) /\ Empty \in Bags
  BY <1>1, <1>2, <1>6, <1>7, NothingComes DEF Brings
<1> QED
  BY <1>1, <1>8, <1>9 DEF z

\* Who goes takes away what it carried.
LEMMA GoingBrings ==
  ASSUME TypeOK, FiniteWorlds, Placed, NEW c \in Conns, HangUp(c)
  PROVE  StaysFinite /\ zone[c] \in Zones /\ \E gain \in Bags : Brings(zone[c], gain)
<1> DEFINE z == zone[c]
           p == who[c]
           new == [q \in DOMAIN player[z] \ {p} |-> player[z][q]]
<1>1. /\ Worlds(items, player) /\ WorldTypes /\ z \in Zones
      /\ items' = items /\ imported' = imported
      /\ player' = [player EXCEPT ![z] = new] /\ DOMAIN player = Zones
  BY WorldsAre DEF HangUp, Placed, RemovePlayer, WorldTypes
<1> HIDE DEF z, p
<1>2. IsWorld(player[z]) /\ IsWorld(new)
  <2>1. IsFiniteSet(DOMAIN new)
    BY <1>1, FS_RemoveElement DEF FiniteWorlds
  <2> QED
    BY <1>1, <2>1 DEF Worlds, IsWorld
<1>3. /\ DOMAIN new \ {p} = DOMAIN player[z] \ {p}
      /\ \A q \in DOMAIN player[z] \ {p} : new[q] = player[z][q]
      /\ \A k \in Kinds : CarriedBy(new, p, k) = 0
  BY DEF CarriedBy
<1> HIDE DEF new
<1>4. ASSUME NEW k \in Kinds
      PROVE  items'[z][k] + Carry(player'[z], k) <= items[z][k] + Carry(player[z], k) + Empty[k]
  <2>1. /\ Carry(player[z], k) \in Nat /\ Carry(new, k) \in Nat /\ CarriedBy(player[z], p, k) \in Nat
        /\ Carry(new, k) + CarriedBy(player[z], p, k) = Carry(player[z], k) + 0
    BY <1>2, <1>3, CarryChanges
  <2>2. items[z][k] \in Nat /\ player'[z] = new /\ items'[z] = items[z] /\ Empty[k] = 0
    BY <1>1 DEF Worlds, Bags, Empty
  <2> QED
    BY <2>1, <2>2
<1>5. StaysFinite
  BY <1>1, <1>2 DEF StaysFinite, FiniteWorlds, IsWorld
<1>6. Brings(z, Empty) /\ Empty \in Bags
  BY <1>1, <1>4, NothingComes DEF Brings
<1> QED
  BY <1>1, <1>5, <1>6 DEF z

LEMMA StepBrings ==
  ASSUME TypeOK, FiniteWorlds, Placed, [Next]_vars
  PROVE  /\ StaysFinite
         /\ \/ UNCHANGED <<items, player, imported>>
            \/ \E z \in Zones, gain \in Bags : Brings(z, gain)
<1>1. ASSUME NEW c \in Conns, NEW z \in Zones, NEW p \in Players, Comes(c, z, p)
      PROVE  StaysFinite /\ \E y \in Zones, gain \in Bags : Brings(y, gain)
  BY <1>1, ComingBrings
<1>2. ASSUME NEW c \in Conns, Acts(c)
      PROVE  StaysFinite /\ \E y \in Zones, gain \in Bags : Brings(y, gain)
  BY <1>2, ActingBrings
<1>3. ASSUME NEW c \in Conns, HangUp(c)
      PROVE  StaysFinite /\ \E y \in Zones, gain \in Bags : Brings(y, gain)
  BY <1>3, GoingBrings
<1>4. ASSUME NEW c \in Conns, ClientCloses(c) \/ Transfer(c) \/ WriteFails(c)
      PROVE  UNCHANGED <<items, player, imported>>
  BY <1>4 DEF ClientCloses, Transfer, WriteFails
<1>5. CASE UNCHANGED vars
  BY <1>5 DEF vars, StaysFinite, FiniteWorlds
<1>6. UNCHANGED player => StaysFinite
  BY DEF StaysFinite, FiniteWorlds
<1> QED
  BY <1>1, <1>2, <1>3, <1>4, <1>5, <1>6 DEF Next, Comes, Acts

-----------------------------------------------------------------------------
(* Items *)

ItemsInv ==
  /\ FiniteWorlds
  /\ \A k \in Kinds : There(items, player, k) <= Cardinality(Zones) + imported[k]
  /\ \A z \in Zones \ Armed : \A k \in Weapons : items[z][k] + Carry(player[z], k) <= 1

LEMMA ItemsInit == Init => ItemsInv
<1> SUFFICES ASSUME Init PROVE ItemsInv
  OBVIOUS
<1>1. \A z \in Zones : player[z] = [p \in {} |-> Empty] /\ items[z] = Spawned
  BY DEF Init
<1>2. \A k : Carry([p \in {} |-> Empty], k) = 0
  BY TotalOfNone DEF Carry
<1>3. ASSUME NEW z \in Zones, NEW k \in Kinds PROVE items[z][k] = 1 /\ Carry(player[z], k) = 0
  BY <1>1, <1>2 DEF Spawned
<1>4. ASSUME NEW k \in Kinds PROVE There(items, player, k) = Cardinality(Zones)
  <2> DEFINE f == [z \in Zones |-> items[z][k] + Carry(player[z], k)]
  <2>1. \A z \in Zones : f[z] = 1
    BY <1>3
  <2> HIDE DEF f
  <2>2. Total(f, Zones) = Cardinality(Zones)
    BY <2>1, GameAssumption, TotalOfOnes
  <2> QED
    BY <2>2 DEF There, f
<1>5. \A k \in Kinds : imported[k] = 0
  BY DEF Init, Empty
<1>6. Cardinality(Zones) \in Nat /\ Weapons \subseteq Kinds
  BY GameAssumption, FS_CardinalityType DEF Weapons, Kinds
<1>7. FiniteWorlds
  BY <1>1, FS_EmptySet DEF FiniteWorlds
<1> QED
  BY <1>3, <1>4, <1>5, <1>6, <1>7 DEF ItemsInv

LEMMA ItemsStep == TypeOK /\ Placed /\ ItemsInv /\ [Next]_vars => ItemsInv'
<1> SUFFICES ASSUME TypeOK, Placed, ItemsInv, [Next]_vars PROVE ItemsInv'
  OBVIOUS
<1>1. TypeOK' /\ FiniteWorlds /\ StaysFinite
  BY TypeStep, StepBrings DEF ItemsInv
<1>2. FiniteWorlds'
  BY <1>1 DEF StaysFinite, FiniteWorlds
<1>3. Worlds(items, player) /\ Worlds(items', player')
  <2>1. (TypeOK /\ FiniteWorlds => Worlds(items, player) /\ WorldTypes)'
    BY DEF TypeOK, FiniteWorlds, Worlds, IsWorld, WorldTypes, Bags
  <2> QED
    BY <1>1, <1>2, <2>1, WorldsAre
<1>4. CASE UNCHANGED <<items, player, imported>>
  BY <1>4 DEF ItemsInv, FiniteWorlds
<1>5. ASSUME NEW z \in Zones, NEW gain \in Bags, Brings(z, gain) PROVE ItemsInv'
  <2>1. \A k \in Kinds : gain[k] \in Nat /\ imported[k] \in Nat /\ imported'[k] = imported[k] + gain[k]
    BY <1>5 DEF Brings, Bags, TypeOK
  <2>2. ASSUME NEW k \in Kinds PROVE There(items', player', k) <= Cardinality(Zones) + imported'[k]
    <3>1. /\ There(items, player, k) \in Nat /\ There(items', player', k) \in Nat
          /\ There(items', player', k) <= There(items, player, k) + gain[k]
      BY <1>3, <1>5, <2>1, ThereGrows DEF Brings
    <3>2. There(items, player, k) <= Cardinality(Zones) + imported[k] /\ Cardinality(Zones) \in Nat
      BY GameAssumption, FS_CardinalityType DEF ItemsInv
    <3> QED
      BY <2>1, <3>1, <3>2
  <2>3. ASSUME NEW y \in Zones \ Armed, NEW k \in Weapons
        PROVE  items'[y][k] + Carry(player'[y], k) <= 1
    <3>0. k \in Kinds /\ items[y][k] + Carry(player[y], k) <= 1
      BY DEF ItemsInv, Weapons, Kinds
    <3>1. CASE y = z
      <4>1. gain[k] = 0 /\ items'[y][k] + Carry(player'[y], k) <= items[y][k] + Carry(player[y], k) + gain[k]
        BY <1>5, <3>0, <3>1 DEF Brings
      <4>2. /\ Carry(player[y], k) \in Nat /\ Carry(player'[y], k) \in Nat
            /\ items[y][k] \in Nat /\ items'[y][k] \in Nat
        BY <1>3, <3>0, CarrySplits DEF Worlds, Bags
      <4> QED
        BY <3>0, <4>1, <4>2
    <3>2. CASE y # z
      BY <1>5, <3>0, <3>2 DEF Brings
    <3> QED
      BY <3>1, <3>2
  <2> QED
    BY <1>2, <2>2, <2>3 DEF ItemsInv
<1> QED
  BY <1>4, <1>5, StepBrings DEF ItemsInv

LEMMA ItemsAlways == Spec => [](TypeOK /\ ItemsInv)
  BY TypeInit, TypeStep, ItemsInit, ItemsStep, PTL DEF Spec

LEMMA OneIsSpawned == \A k \in Kinds : Spawned[k] = 1
  BY DEF Spawned

\* Whatever passports are shown twice and whoever shares an identity, no item is
\* made: what there is was spawned or came with a passport.
THEOREM ItemsAreNotMade == Spec => []ItemsComeFromSomewhere
<1>1. TypeOK /\ ItemsInv => ItemsComeFromSomewhere
  <2> SUFFICES ASSUME TypeOK, ItemsInv, NEW k \in Kinds
               PROVE  SumFunction([z \in Zones |-> items[z][k] + Carried(k, z)])
                        <= Cardinality(Zones) * Spawned[k] + imported[k]
    BY DEF ItemsComeFromSomewhere
  <2>1. [z \in Zones |-> items[z][k] + Carried(k, z)] = [z \in Zones |-> items[z][k] + Carry(player[z], k)]
    BY CarryIs
  <2>2. SumFunction([z \in Zones |-> items[z][k] + Carry(player[z], k)]) = There(items, player, k)
    BY DEF SumFunction, There, Total
  <2>3. Cardinality(Zones) \in Nat
    BY GameAssumption, FS_CardinalityType
  <2>4. There(items, player, k) <= Cardinality(Zones) + imported[k]
    BY DEF ItemsInv
  <2>5. Cardinality(Zones) * Spawned[k] = Cardinality(Zones)
    BY <2>3, OneIsSpawned
  <2> QED
    BY <2>1, <2>2, <2>4, <2>5
<1> QED
  BY <1>1, ItemsAlways, PTL

\* However players come and go, a zone without weapons has none but its own.
THEOREM WeaponsStayOut == Spec => []NoWeaponsAreBroughtIn
<1>1. ItemsInv => NoWeaponsAreBroughtIn
  BY CarryIs, OneIsSpawned DEF ItemsInv, NoWeaponsAreBroughtIn, Weapons, Kinds
<1> QED
  BY <1>1, ItemsAlways, PTL

=============================================================================
