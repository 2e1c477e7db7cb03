-------------------------------- MODULE Game --------------------------------
(***************************************************************************)
(* examples/game: zones that are each other's peer, and players that walk  *)
(* from one to the other with a passport.  A world keeps its players by    *)
(* identity, not by connection.  A transfer copies the inventory into the  *)
(* passport; the origin forgets the player when its connection ends, if    *)
(* its handler gets that far, and a passport can be shown again.           *)
(*                                                                         *)
(* A client is a state of its connection here; docs/protocol.md has it     *)
(* close the one before it opens the next, but nothing holds it to that.   *)
(*                                                                         *)
(* Items are counted by kind.  Slots, positions and item ids only say      *)
(* which item an intent means; one that means none changes nothing.  Left  *)
(* out are ticks, which number items and snapshots, and health: nothing in *)
(* the code lowers it.                                                     *)
(***************************************************************************)
EXTENDS Naturals, FiniteSets, Functions

CONSTANTS
  Zones,
  Armed,     \* the zones with allow_weapons
  Players,   \* identities
  Conns,     \* connections; each is made once
  NoZone, NoPlayer,
  MaxImport  \* bound: items that come in with passports

ASSUME GameAssumption ==
  /\ IsFiniteSet(Zones)
  /\ Armed \subseteq Zones
  /\ NoZone \notin Zones
  /\ NoPlayer \notin Players
  /\ MaxImport \in Nat

VARIABLES
  items,     \* per zone: how many of each kind lie there
  player,    \* per zone: the inventories of the players in its map
  step,      \* per connection: where its handler stands
  zone,      \* its server
  who,       \* the identity it authenticated with
  open,      \* the connections whose client is there
  passport,  \* per identity: the last passport its client got, or NoPassport
  imported   \* history: how many of each kind came in with passports

worldVars == <<items, player>>
connVars == <<step, zone, who, open>>
travelVars == <<passport, imported>>
vars == <<worldVars, connVars, travelVars>>

\* Torches and gems are like no potion and no weapon, and left out.
Kinds == {"potion", "sword"}
Weapons == {"sword"}

\* World::new()
Spawned == [k \in Kinds |-> 1]

Empty == [k \in Kinds |-> 0]
NoPassport == [k \in {} |-> 0]

Plus(bag, k) == [bag EXCEPT ![k] = @ + 1]
Minus(bag, k) == [bag EXCEPT ![k] = @ - 1]

\* How many of kind k the players of zone z carry.
Carried(k, z) == SumFunction([p \in DOMAIN player[z] |-> player[z][p][k]])

Init ==
  /\ items = [z \in Zones |-> Spawned]
  /\ player = [z \in Zones |-> [p \in {} |-> Empty]]
  /\ step = [c \in Conns |-> "away"]
  /\ zone = [c \in Conns |-> NoZone]
  /\ who = [c \in Conns |-> NoPlayer]
  /\ open = {}
  /\ passport = [p \in Players |-> NoPassport]
  /\ imported = Empty

-----------------------------------------------------------------------------
\* Mutant: everything is accepted.
ImportAll(inventory, z) == inventory

\* apply_import_policy()
ApplyImportPolicy(inventory, z) ==
  [k \in Kinds |-> IF z \notin Armed /\ k \in Weapons THEN 0 ELSE inventory[k]]

\* add_player(): it replaces the one the map has of that identity.
AddPlayer(z, p, inventory) ==
  player' = [player EXCEPT ![z] = [q \in DOMAIN @ \cup {p} |-> IF q = p THEN inventory ELSE @[q]]]

RemovePlayer(z, p) ==
  player' = [player EXCEPT ![z] = [q \in DOMAIN @ \ {p} |-> @[q]]]

Enters(c, z, p, inventory) ==
  /\ step[c] = "away"
  /\ step' = [step EXCEPT ![c] = "loop"]
  /\ zone' = [zone EXCEPT ![c] = z]
  /\ who' = [who EXCEPT ![c] = p]
  /\ open' = open \cup {c}
  /\ AddPlayer(z, p, inventory)
  /\ UNCHANGED <<items, passport>>

\* Auth without a passport.  What a failing Welcome leads to is what a failing
\* snapshot leads to.
Connect(c, z, p) ==
  /\ Enters(c, z, p, Empty)
  /\ UNCHANGED imported

\* Auth with the passport the identity's client has, new or not.
Arrive(c, z, p) ==
  /\ passport[p] # NoPassport
  /\ SumFunction(imported) < MaxImport
  /\ LET accepted == ApplyImportPolicy(passport[p], z) IN
       /\ Enters(c, z, p, accepted)
       /\ imported' = [k \in Kinds |-> imported[k] + accepted[k]]

\* The client goes, or its socket breaks.
ClientCloses(c) ==
  /\ c \in open
  /\ open' = open \ {c}
  /\ UNCHANGED <<worldVars, step, zone, who, travelVars>>

-----------------------------------------------------------------------------
\* The handler of c is in its loop and finds its player in the map.  Intents
\* may still be read when the client has gone.
Plays(c) == step[c] = "loop" /\ who[c] \in DOMAIN player[zone[c]]

Inventory(c) == player[zone[c]][who[c]]

SetInventory(c, bag) == player' = [player EXCEPT ![zone[c]][who[c]] = bag]

\* Mutant: the item stays where it lies.
PickUpCopies(c, k) ==
  /\ Plays(c)
  /\ items[zone[c]][k] > 0
  /\ SetInventory(c, Plus(Inventory(c), k))
  /\ UNCHANGED <<items, connVars, travelVars>>

\* GameIntent::PickUp of an item within reach.
PickUp(c, k) ==
  /\ Plays(c)
  /\ items[zone[c]][k] > 0
  /\ items' = [items EXCEPT ![zone[c]] = Minus(@, k)]
  /\ SetInventory(c, Plus(Inventory(c), k))
  /\ UNCHANGED <<connVars, travelVars>>

\* GameIntent::UseItem: only a potion can be.
UseItem(c) ==
  /\ Plays(c)
  /\ Inventory(c)["potion"] > 0
  /\ SetInventory(c, Minus(Inventory(c), "potion"))
  /\ UNCHANGED <<items, connVars, travelVars>>

\* Mutant: nobody looks whether the slot is taken.
DropUnchecked(c, k) ==
  /\ Plays(c)
  /\ items' = [items EXCEPT ![zone[c]] = Plus(@, k)]
  /\ SetInventory(c, Minus(Inventory(c), k))
  /\ UNCHANGED <<connVars, travelVars>>

\* GameIntent::Drop
Drop(c, k) ==
  /\ Plays(c)
  /\ Inventory(c)[k] > 0
  /\ items' = [items EXCEPT ![zone[c]] = Plus(@, k)]
  /\ SetInventory(c, Minus(Inventory(c), k))
  /\ UNCHANGED <<connVars, travelVars>>

\* Mutant: the player leaves the world with its passport.
TransferRemoves(c) ==
  /\ Plays(c)
  /\ c \in open
  /\ passport' = [passport EXCEPT ![who[c]] = Inventory(c)]
  /\ RemovePlayer(zone[c], who[c])
  /\ UNCHANGED <<items, connVars, imported>>

\* GameIntent::Transfer to the peer; an unknown destination is an error.
Transfer(c) ==
  /\ Plays(c)
  /\ c \in open
  /\ passport' = [passport EXCEPT ![who[c]] = Inventory(c)]
  /\ UNCHANGED <<worldVars, connVars, imported>>

\* A write to a client that has gone fails, as a snapshot, a passport or an
\* error: `?` returns at once, and remove_player() is not called.
WriteFails(c) ==
  /\ step[c] = "loop"
  /\ c \notin open
  /\ step' = [step EXCEPT ![c] = "failed"]
  /\ UNCHANGED <<worldVars, zone, who, open, travelVars>>

\* Mutant: the player stays.
HangUpSilently(c) ==
  /\ step[c] = "loop"
  /\ c \notin open
  /\ step' = [step EXCEPT ![c] = "gone"]
  /\ UNCHANGED <<worldVars, zone, who, open, travelVars>>

\* stream.next() has no more: whoever plays that identity now is removed.
HangUp(c) ==
  /\ step[c] = "loop"
  /\ c \notin open
  /\ step' = [step EXCEPT ![c] = "gone"]
  /\ RemovePlayer(zone[c], who[c])
  /\ UNCHANGED <<items, zone, who, open, travelVars>>

Next ==
  \E c \in Conns :
    \/ \E z \in Zones, p \in Players : Connect(c, z, p) \/ Arrive(c, z, p)
    \/ ClientCloses(c)
    \/ \E k \in Kinds : PickUp(c, k) \/ Drop(c, k)
    \/ UseItem(c)
    \/ Transfer(c)
    \/ WriteFails(c)
    \/ HangUp(c)

Spec == Init /\ [][Next]_vars

-----------------------------------------------------------------------------
\* Every variable has its type.
TypeOK ==
  /\ items \in [Zones -> [Kinds -> Nat]]
  /\ DOMAIN player = Zones
  /\ \A z \in Zones :
       /\ DOMAIN player[z] \subseteq Players
       /\ \A p \in DOMAIN player[z] : player[z][p] \in [Kinds -> Nat]
  /\ step \in [Conns -> {"away", "loop", "gone", "failed"}]
  /\ zone \in [Conns -> Zones \cup {NoZone}]
  /\ who \in [Conns -> Players \cup {NoPlayer}]
  /\ open \subseteq {c \in Conns : step[c] # "away"}
  /\ passport \in [Players -> [Kinds -> Nat] \cup {NoPassport}]
  /\ imported \in [Kinds -> Nat]

\* What there is of a kind was spawned or came with a passport: within a zone no
\* order of intents makes an item of nothing.
ItemsComeFromSomewhere ==
  \A k \in Kinds :
    SumFunction([z \in Zones |-> items[z][k] + Carried(k, z)])
      <= Cardinality(Zones) * Spawned[k] + imported[k]

\* A zone that does not allow weapons has no more than it spawned itself,
\* wherever its players have been.
NoWeaponsAreBroughtIn ==
  \A z \in Zones \ Armed : \A k \in Weapons :
    items[z][k] + Carried(k, z) <= Spawned[k]

\* A player in a world has a connection there, or had one whose handler returned
\* the error of a write: only those are left behind by a transfer.
PlayersHaveConnections ==
  \A z \in Zones : \A p \in DOMAIN player[z] :
    \E c \in Conns : zone[c] = z /\ who[c] = p /\ step[c] \in {"loop", "failed"}

\* A connection in its loop has its player, unless another connection of the
\* same identity to that zone ended and took it away.
ConnectionsHavePlayers ==
  \A c \in Conns : step[c] = "loop" =>
    \/ who[c] \in DOMAIN player[zone[c]]
    \/ \E d \in Conns \ {c} : zone[d] = zone[c] /\ who[d] = who[c] /\ step[d] = "gone"

=============================================================================
