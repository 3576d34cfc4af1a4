--------------------------- MODULE WorldRelayProofs ---------------------------
(***************************************************************************)
(* The safety properties of WorldRelay for any number of players, fixtures *)
(* and server tanks: RelayInv is inductive and implies them.  ViewInv adds *)
(* what the clients were told: what was sent to one counts as introduced,  *)
(* but not the other way round, since a datagram has a limit.  What counts *)
(* and was not sent is never sent (WhatDoesNotFitIsLost).                  *)
(***************************************************************************)
EXTENDS WorldRelay, TLAPS

(* The counters start above the ids of the map and of the server, and the  *)
(* bound on the spawns keeps the first below the range of the second.      *)
Counters ==
    /\ nextEntity \in (Fixtures + 1) .. (Fixtures + 1 + MaxSpawns)
    /\ nextPlayer \in PlayerOid .. (PlayerOid + MaxSpawns)

(* A player's id was given out by one of the two counters. *)
IdsAreOld ==
    \A s \in spawned :
        \/ Fixtures < netId[s] /\ netId[s] < nextEntity
        \/ PlayerOid <= netId[s] /\ netId[s] < nextPlayer

(* What the place in the bring-up says about the engine's world. *)
PhaseTells ==
    /\ phase \in {"idle", "load"} => ~armed /\ tanks = {}
    /\ phase = "spawn" => loaded /\ ~armed /\ tanks = {}
    /\ phase = "complete" => loaded /\ armed

RelayInv ==
    /\ TypeOK
    /\ Counters
    /\ IdsAreOld
    /\ OwnTank
    /\ PhaseTells
    /\ RelayedTanksStay

----------------------------------------------------------------------------
(* The state without the clients' view, which RelayInv does not read. *)
WorldTypeOK ==
    /\ worldHost \in BOOLEAN
    /\ place \in {"bridge", "host"}
    /\ settle \in 0 .. SettleTicks
    /\ phase \in {"idle", "load", "spawn", "complete"}
    /\ loaded \in BOOLEAN
    /\ tanks \subseteq Id
    /\ armed \in BOOLEAN
    /\ nextEntity \in Id
    /\ nextPlayer \in Id
    /\ joined \subseteq Session
    /\ left \subseteq Session
    /\ wants \subseteq Session
    /\ spawned \subseteq Session
    /\ netId \in [Session -> Id]

ViewTypeOK ==
    /\ introduced \in [Session -> SUBSET Id]
    /\ flight \subseteq [to : Session, ids : SUBSET Id]
    /\ known \in [Session -> SUBSET Id]

LEMMA TypesSplit == TypeOK <=> WorldTypeOK /\ ViewTypeOK
  BY DEF TypeOK, WorldTypeOK, ViewTypeOK

Registers == WorldTypeOK /\ Counters /\ IdsAreOld /\ OwnTank /\ PhaseTells /\ RelayedTanksStay

LEMMA InvSplit == RelayInv <=> Registers /\ ViewTypeOK
  BY TypesSplit DEF RelayInv, Registers

LEMMA IdsApart ==
    /\ Fixtures \in Nat /\ MaxSpawns \in Nat /\ PlayerOid \in Nat /\ SettleTicks \in Nat
    /\ Fixtures + MaxSpawns < PlayerOid
    /\ ServerTanks \subseteq Nat
    /\ \A oid \in ServerTanks : Fixtures + MaxSpawns < oid /\ oid < PlayerOid
  BY RelayAssumption DEF RelayAssumption, ServerTanks

LEMMA InitRelay == Init => RelayInv
<1>. SUFFICES ASSUME Init PROVE RelayInv
  OBVIOUS
<1>1. WorldTypeOK
  <2>1. worldHost \in BOOLEAN /\ loaded \in BOOLEAN /\ armed \in BOOLEAN
    BY Zenon DEF Init
  <2>. QED  BY <2>1, IdsApart DEF Init, WorldTypeOK, Id
<1>2. ViewTypeOK
  BY DEF Init, ViewTypeOK
<1>3. Counters
  BY IdsApart DEF Init, Counters
<1>4. IdsAreOld /\ OwnTank /\ PhaseTells /\ RelayedTanksStay
  BY DEF Init, IdsAreOld, OwnTank, PhaseTells, RelayedTanksStay
<1>. QED  BY <1>1, <1>2, <1>3, <1>4, InvSplit DEF Registers

----------------------------------------------------------------------------
(* The commands of the bridge. *)

LEMMA AddSessionStep ==
    ASSUME RelayInv, NEW s \in Session, AddSession(s) PROVE RelayInv'
<1>1. /\ UNCHANGED <<worldHost, settle, phase, loaded, armed, place, tanks, nextEntity,
                     nextPlayer, left, wants, spawned, netId, introduced, flight, known>>
      /\ joined' = joined \cup {s}
  BY DEF AddSession, hostVars, viewVars
<1>. QED
  BY <1>1 DEF RelayInv, TypeOK, Counters, IdsAreOld, OwnTank, PhaseTells, RelayedTanksStay

LEMMA MarkWantUpdatesStep ==
    ASSUME RelayInv, NEW s \in Session, MarkWantUpdates(s) PROVE RelayInv'
<1>1. /\ UNCHANGED <<worldHost, settle, phase, loaded, armed, place, tanks, nextEntity,
                     nextPlayer, left, joined, spawned, netId, introduced, flight, known>>
      /\ wants' = wants \cup {s}
  BY DEF MarkWantUpdates, hostVars, viewVars
<1>. QED
  BY <1>1 DEF RelayInv, TypeOK, Counters, IdsAreOld, OwnTank, PhaseTells, RelayedTanksStay

LEMMA RemoveSessionStep ==
    ASSUME RelayInv, NEW s \in Session, RemoveSession(s) PROVE RelayInv'
<1>1. /\ UNCHANGED <<worldHost, settle, phase, loaded, armed, place, tanks, nextEntity,
                     nextPlayer, flight, known>>
      /\ joined' = joined \ {s} /\ left' = left \cup {s} /\ wants' = wants \ {s}
      /\ spawned' = spawned \ {s}
      /\ netId' = [netId EXCEPT ![s] = 0]
      /\ introduced' = [introduced EXCEPT ![s] = {}]
  BY DEF RemoveSession, hostVars
<1>2. netId \in [Session -> Id] /\ spawned \subseteq Session
  BY DEF RelayInv, TypeOK
<1>3. \A r \in spawned' : r \in spawned /\ r # s /\ netId'[r] = netId[r]
  BY <1>1, <1>2
<1>4. WorldTypeOK'
  <2>1. 0 \in Id
    BY IdsApart DEF Id
  <2>2. worldHost' \in BOOLEAN /\ loaded' \in BOOLEAN /\ armed' \in BOOLEAN
    BY <1>1, Zenon DEF RelayInv, TypeOK
  <2>. QED  BY <1>1, <2>1, <2>2 DEF RelayInv, TypeOK, WorldTypeOK
<1>5. ViewTypeOK'
  BY <1>1 DEF RelayInv, TypeOK, ViewTypeOK
<1>6. Counters' /\ PhaseTells'
  BY <1>1 DEF RelayInv, Counters, PhaseTells
<1>7. IdsAreOld' /\ OwnTank' /\ RelayedTanksStay'
  BY <1>1, <1>3 DEF RelayInv, IdsAreOld, OwnTank, RelayedTanksStay
<1>. QED  BY <1>4, <1>5, <1>6, <1>7, InvSplit DEF Registers, RelayInv, TypeOK, WorldTypeOK, ViewTypeOK

(* The id a spawn gives is above those that its counter gave before, and   *)
(* is no fixture's and no server tank's.                                   *)
LEMMA SpawnOnPadStep ==
    ASSUME RelayInv, NEW s \in Session, NEW accepted \in BOOLEAN, SpawnOnPad(s, accepted)
    PROVE  RelayInv'
<1>. DEFINE id == IF armed /\ accepted THEN nextPlayer ELSE nextEntity
<1>1. /\ UNCHANGED <<worldHost, settle, phase, loaded, armed, place, joined, left, wants,
                     introduced, flight, known>>
      /\ spawned' = spawned \cup {s}
      /\ netId' = [netId EXCEPT ![s] = id]
      /\ nextPlayer' = IF armed THEN nextPlayer + 1 ELSE nextPlayer
      /\ nextEntity' = IF armed /\ accepted THEN nextEntity ELSE nextEntity + 1
      /\ tanks' = IF armed /\ accepted THEN tanks \cup {nextPlayer} ELSE tanks
      /\ Spawns < MaxSpawns
  BY DEF SpawnOnPad, SpawnPlayerTank, hostVars, viewVars
<1>2. /\ netId \in [Session -> Id] /\ spawned \subseteq Session
      /\ nextEntity \in Nat /\ nextPlayer \in Nat /\ Id \subseteq Nat
  BY IdsApart DEF RelayInv, TypeOK, Id
<1>3. /\ Fixtures < nextEntity /\ nextEntity <= Fixtures + MaxSpawns
      /\ PlayerOid <= nextPlayer /\ nextPlayer < PlayerOid + MaxSpawns
  BY <1>1, <1>2, IdsApart DEF RelayInv, Counters, Spawns
<1>4. id \in Id /\ Fixtures < id /\ id \notin ServerTanks
  BY <1>2, <1>3, IdsApart DEF Id
<1>5. /\ netId'[s] = id
      /\ \A r \in spawned' : r # s => r \in spawned /\ netId'[r] = netId[r] /\ netId[r] \in Nat
  BY <1>1, <1>2
<1>6. \A r \in spawned : netId[r] # id
  BY <1>2, <1>3, IdsApart DEF RelayInv, IdsAreOld
<1>7. Counters'
  BY <1>1, <1>2, <1>3, IdsApart DEF RelayInv, Counters
<1>8. IdsAreOld'
  BY <1>1, <1>2, <1>3, <1>5, IdsApart DEF RelayInv, IdsAreOld
<1>9. OwnTank'
  <2>1. ASSUME NEW r \in spawned'
        PROVE  netId'[r] > Fixtures /\ netId'[r] \notin ServerTanks
    BY <1>4, <1>5, <1>2, IdsApart, <2>1 DEF RelayInv, OwnTank
  <2>2. ASSUME NEW r \in spawned', NEW q \in spawned' \ {r}
        PROVE  netId'[q] # netId'[r]
    BY <1>5, <1>6, <2>2 DEF RelayInv, OwnTank
  <2>. QED  BY <2>1, <2>2 DEF OwnTank, ServerTanks
<1>10. PhaseTells'
  BY <1>1 DEF RelayInv, PhaseTells
<1>11. RelayedTanksStay'
  BY <1>1, <1>2, <1>3, <1>5, IdsApart DEF RelayInv, RelayedTanksStay
<1>12. WorldTypeOK'
  <2>1. worldHost' \in BOOLEAN /\ loaded' \in BOOLEAN /\ armed' \in BOOLEAN
    BY <1>1, Zenon DEF RelayInv, TypeOK
  <2>2. tanks' \subseteq Id /\ netId' \in [Session -> Id] /\ spawned' \subseteq Session
    BY <1>1, <1>2, <1>3, <1>4 DEF RelayInv, TypeOK
  <2>3. nextEntity' \in Id /\ nextPlayer' \in Id
    BY <1>1, <1>2, <1>3, IdsApart DEF Id
  <2>. QED  BY <1>1, <2>1, <2>2, <2>3 DEF RelayInv, TypeOK, WorldTypeOK
<1>13. ViewTypeOK'
  BY <1>1 DEF RelayInv, TypeOK, ViewTypeOK
<1>. QED
  BY <1>7, <1>8, <1>9, <1>10, <1>11, <1>12, <1>13
     DEF RelayInv, TypeOK, WorldTypeOK, ViewTypeOK

----------------------------------------------------------------------------
(* The snapshots and their datagrams change only what the clients see. *)

(* A choice of what of the others is written for each session. *)
IsWritten(written) ==
    /\ written \in [Watching -> UNION {Fitting(Others(s)) : s \in Watching}]
    /\ \A s \in Watching : written[s] \in Fitting(Others(s))

LEMMA FittingIsPart ==
    ASSUME NEW all, NEW part \in Fitting(all)
    PROVE  part \subseteq all /\ (Cardinality(all) <= MaxEntities => part = all)
BY DEF Fitting

LEMMA EmitSnapshotsStep ==
    ASSUME RelayInv, EmitSnapshots PROVE RelayInv'
<1>1. /\ UNCHANGED <<worldHost, settle, phase, loaded, armed, tanks, nextEntity, nextPlayer,
                     joined, left, wants, spawned, netId, known>>
      /\ place' = "host"
  BY DEF EmitSnapshots, hostVars, sessionVars
<1>2. \A s \in Watching : Shown(s) \subseteq Id
  BY DEF RelayInv, TypeOK, Shown, Dynamic, Watching
<1>3. introduced' \in [Session -> SUBSET Id]
  BY <1>2 DEF EmitSnapshots, RelayInv, TypeOK
<1>4. flight' \subseteq [to : Session, ids : SUBSET Id]
  <2>1. PICK written : /\ IsWritten(written)
                       /\ flight' = flight \cup
                                       UNION {Introductions(s, written[s]) : s \in Watching}
    BY DEF EmitSnapshots, IsWritten
  <2>2. ASSUME NEW s \in Watching
        PROVE  Introductions(s, written[s]) \subseteq [to : Session, ids : SUBSET Id]
    <3>1. s \in Session /\ written[s] \cup {netId[s]} \subseteq Id
      <4>1. written[s] \in Fitting(Others(s))
        BY <2>1, <2>2 DEF IsWritten
      <4>2. written[s] \subseteq Others(s)
        BY <4>1, FittingIsPart
      <4>. QED  BY <1>2, <2>2, <4>2 DEF Others, Shown, Watching, RelayInv, TypeOK
    <3>. QED  BY <3>1 DEF Introductions
  <2>. QED  BY <2>1, <2>2 DEF RelayInv, TypeOK
<1>. QED
  BY <1>1, <1>3, <1>4
     DEF RelayInv, TypeOK, Counters, IdsAreOld, OwnTank, PhaseTells, RelayedTanksStay

LEMMA DeliverStep ==
    ASSUME RelayInv, NEW d \in flight, Deliver(d) PROVE RelayInv'
<1>1. /\ UNCHANGED <<worldHost, settle, phase, loaded, armed, place, tanks, nextEntity,
                     nextPlayer, joined, left, wants, spawned, netId, introduced>>
      /\ flight' = flight \ {d}
      /\ known' = [known EXCEPT ![d.to] = @ \cup d.ids]
  BY DEF Deliver, hostVars, sessionVars
<1>2. d.to \in Session /\ d.ids \subseteq Id
  BY DEF RelayInv, TypeOK
<1>3. known' \in [Session -> SUBSET Id]
  BY <1>1, <1>2 DEF RelayInv, TypeOK
<1>. QED
  BY <1>1, <1>3
     DEF RelayInv, TypeOK, Counters, IdsAreOld, OwnTank, PhaseTells, RelayedTanksStay

----------------------------------------------------------------------------
(* The runs of ProcessWorldHostTick. *)

LEMMA IdleHostStep ==
    ASSUME RelayInv, HostDisabled \/ Settle \/ HostComplete PROVE RelayInv'
<1>1. /\ UNCHANGED <<worldHost, phase, loaded, armed, tanks, nextEntity, nextPlayer, joined,
                     left, wants, spawned, netId, introduced, flight, known>>
      /\ place' = "bridge"
  BY DEF HostDisabled, Settle, HostComplete, HostStep, RestUnchanged, sessionVars, viewVars
<1>2. settle' \in 0 .. SettleTicks
  BY IdsApart DEF HostDisabled, Settle, HostComplete, RelayInv, TypeOK
<1>. QED
  BY <1>1, <1>2
     DEF RelayInv, TypeOK, Counters, IdsAreOld, OwnTank, PhaseTells, RelayedTanksStay

(* No player has an engine tank yet that the reset could destroy. *)
LEMMA BeginAndResetStep ==
    ASSUME RelayInv, BeginAndReset PROVE RelayInv'
<1>1. /\ UNCHANGED <<worldHost, settle, armed, nextEntity, nextPlayer, joined, left, wants,
                     spawned, netId, introduced, flight, known>>
      /\ place' = "bridge" /\ phase' = "load" /\ loaded' = FALSE /\ tanks' = {}
      /\ phase = "idle"
  BY DEF BeginAndReset, HostStep, RestUnchanged, sessionVars, viewVars
<1>2. ~armed /\ tanks = {}
  BY <1>1 DEF RelayInv, PhaseTells
<1>3. TypeOK'
  BY <1>1 DEF RelayInv, TypeOK
<1>. QED
  BY <1>1, <1>2, <1>3 DEF RelayInv, Counters, IdsAreOld, OwnTank, PhaseTells, RelayedTanksStay

LEMMA LoadWorldStep ==
    ASSUME RelayInv, LoadWorld PROVE RelayInv'
<1>1. /\ UNCHANGED <<worldHost, settle, armed, tanks, nextEntity, nextPlayer, joined, left,
                     wants, spawned, netId, introduced, flight, known>>
      /\ place' = "bridge" /\ phase' = "spawn" /\ loaded' = TRUE
      /\ phase = "load"
  BY DEF LoadWorld, HostStep, RestUnchanged, sessionVars, viewVars
<1>2. TypeOK'
  BY <1>1 DEF RelayInv, TypeOK
<1>. QED
  BY <1>1, <1>2 DEF RelayInv, Counters, IdsAreOld, OwnTank, PhaseTells, RelayedTanksStay

LEMMA SpawnAndArmStep ==
    ASSUME RelayInv, NEW accepted \in SUBSET ServerTanks, SpawnAndArm(accepted)
    PROVE  RelayInv'
<1>1. /\ UNCHANGED <<worldHost, settle, loaded, nextEntity, nextPlayer, joined, left, wants,
                     spawned, netId, introduced, flight, known>>
      /\ place' = "bridge" /\ phase' = "complete" /\ armed' = TRUE
      /\ tanks' = tanks \cup accepted
      /\ phase = "spawn"
  BY DEF SpawnAndArm, HostStep, RestUnchanged, sessionVars, viewVars
<1>2. accepted \subseteq Id
  BY IdsApart DEF Id
<1>3. TypeOK'
  BY <1>1, <1>2 DEF RelayInv, TypeOK
<1>. QED
  BY <1>1, <1>3 DEF RelayInv, Counters, IdsAreOld, OwnTank, PhaseTells, RelayedTanksStay

LEMMA NextRelay == RelayInv /\ [Next]_vars => RelayInv'
<1>. SUFFICES ASSUME RelayInv, [Next]_vars PROVE RelayInv'
  OBVIOUS
<1>1. ASSUME NEW s \in Session,
             \/ AddSession(s) \/ MarkWantUpdates(s) \/ RemoveSession(s)
             \/ \E accepted \in BOOLEAN : SpawnOnPad(s, accepted)
      PROVE  RelayInv'
  <2>1. CASE AddSession(s)
    BY <2>1, AddSessionStep
  <2>2. CASE MarkWantUpdates(s)
    BY <2>2, MarkWantUpdatesStep
  <2>3. CASE RemoveSession(s)
    BY <2>3, RemoveSessionStep
  <2>4. CASE \E accepted \in BOOLEAN : SpawnOnPad(s, accepted)
    BY <2>4, SpawnOnPadStep
  <2>. QED  BY <1>1, <2>1, <2>2, <2>3, <2>4
<1>2. CASE EmitSnapshots
  BY <1>2, EmitSnapshotsStep
<1>3. CASE HostTick
  <2>1. CASE HostDisabled \/ Settle \/ HostComplete
    BY <2>1, IdleHostStep
  <2>2. CASE BeginAndReset
    BY <2>2, BeginAndResetStep
  <2>3. CASE LoadWorld
    BY <2>3, LoadWorldStep
  <2>4. CASE \E accepted \in SUBSET ServerTanks : SpawnAndArm(accepted)
    BY <2>4, SpawnAndArmStep
  <2>. QED  BY <1>3, <2>1, <2>2, <2>3, <2>4 DEF HostTick
<1>4. CASE \E d \in flight : Deliver(d)
  BY <1>4, DeliverStep
<1>5. CASE UNCHANGED vars
  BY <1>5 DEF RelayInv, TypeOK, Counters, IdsAreOld, OwnTank, PhaseTells, RelayedTanksStay,
              vars, hostVars, sessionVars, viewVars
<1>. QED  BY <1>1, <1>2, <1>3, <1>4, <1>5 DEF Next

(* The world host, the spawned players and the ids given out agree in      *)
(* every reachable state.                                                  *)
THEOREM RelayConsistent == Spec => []RelayInv
  BY InitRelay, NextRelay, PTL DEF Spec

(* The state of the bridge and of the world host keeps its types, with any *)
(* number of players and however often they spawn.                         *)
THEOREM RelayTyped == Spec => []TypeOK
<1>1. RelayInv => TypeOK
  BY DEF RelayInv
<1>. QED  BY <1>1, RelayConsistent, PTL

(* No two players have the same tank, and nobody has a fixture's id or a   *)
(* server tank's (SpawnOnPad, SpawnPlayerTank).                            *)
THEOREM TanksAreTheirOwners == Spec => []OwnTank
<1>1. RelayInv => OwnTank
  BY DEF RelayInv
<1>. QED  BY <1>1, RelayConsistent, PTL

(* Nothing is spawned into, or read from, an engine without a world        *)
(* (ProcessWorldHostTick).                                                 *)
THEOREM WorldFirst == Spec => []SpawnsIntoLoadedWorld
<1>1. RelayInv => SpawnsIntoLoadedWorld
  BY DEF RelayInv, TypeOK, PhaseTells, SpawnsIntoLoadedWorld
<1>. QED  BY <1>1, RelayConsistent, PTL

(* A player's engine tank stays in the relayed world while he is there     *)
(* (WorldBootstrap::Begin).                                                *)
THEOREM RelayKeepsTanks == Spec => []RelayedTanksStay
<1>1. RelayInv => RelayedTanksStay
  BY DEF RelayInv
<1>. QED  BY <1>1, RelayConsistent, PTL

----------------------------------------------------------------------------
(* What the clients are told. *)

(* What is on its way to s. *)
OnItsWay(s) == UNION {d.ids : d \in {e \in flight : e.to = s}}

(* Who takes part in the game is there, and who has left does not return.  *)
Present == wants \subseteq joined /\ spawned \subseteq joined /\ joined \cap left = {}

(* What was sent to s, be it on its way or with the client, counts as      *)
(* introduced (SessionState::introduced); for a session that has left,     *)
(* nothing counts any more.                                                *)
SentIsIntroduced ==
    \A s \in Session \ left : known[s] \cup OnItsWay(s) \subseteq introduced[s]

(* What counts as introduced to s and was not sent: there was no room for  *)
(* it in the datagram (BuildUpdateArray).                                  *)
LeftOut(s) == introduced[s] \ (known[s] \cup OnItsWay(s))

(* After EmitSnapshots, all that a player is shown was introduced. *)
ShownIsIntroduced == place = "host" => \A s \in Watching : Shown(s) \subseteq introduced[s]

(* No entity is described twice to the same client, not even after a       *)
(* respawn or when the engine's tanks replace the bridge's (EmitSnapshots, *)
(* mask_for).                                                              *)
DescribedOnce ==
    /\ \A d \in flight : d.ids \cap known[d.to] = {}
    /\ \A d, e \in flight : d.to = e.to /\ d # e => d.ids \cap e.ids = {}

(* Whenever the bridge has run, player s can show each tank that its       *)
(* snapshots move, or the datagram that describes it is on its way: what   *)
(* EveryTankIsIntroduced leaves to the network.                            *)
ShownOrOnItsWay(s) ==
    place = "host" /\ s \in Watching => Shown(s) \subseteq known[s] \cup OnItsWay(s)

ViewInv ==
    /\ TypeOK
    /\ Present
    /\ SentIsIntroduced
    /\ ShownIsIntroduced
    /\ DescribedOnce

LEMMA InitView == Init => ViewInv
<1>1. Init => TypeOK
  BY InitRelay DEF RelayInv
<1>. QED
  BY <1>1 DEF Init, ViewInv, Present, SentIsIntroduced, OnItsWay, ShownIsIntroduced, DescribedOnce

(* A step that sends nothing, delivers nothing and leaves the bridge's     *)
(* books alone keeps the view, if the bridge runs before the world host.   *)
LEMMA ViewUntouched ==
    ASSUME ViewInv, TypeOK', Present', place' = "bridge",
           UNCHANGED <<left, introduced, flight, known>>
    PROVE  ViewInv'
BY DEF ViewInv, SentIsIntroduced, OnItsWay, ShownIsIntroduced, DescribedOnce

LEMMA BridgeView ==
    ASSUME ViewInv, TypeOK', NEW s \in Session,
           \/ AddSession(s) \/ MarkWantUpdates(s)
           \/ \E accepted \in BOOLEAN : SpawnOnPad(s, accepted)
    PROVE  ViewInv'
<1>1. place' = "bridge" /\ UNCHANGED <<left, introduced, flight, known>>
  BY DEF AddSession, MarkWantUpdates, SpawnOnPad, viewVars
<1>2. Present'
  BY DEF AddSession, MarkWantUpdates, SpawnOnPad, ViewInv, Present
<1>. QED  BY <1>1, <1>2, ViewUntouched

LEMMA RemoveView ==
    ASSUME ViewInv, TypeOK', NEW s \in Session, RemoveSession(s)
    PROVE  ViewInv'
<1>1. /\ place' = "bridge" /\ UNCHANGED <<flight, known>>
      /\ joined' = joined \ {s} /\ left' = left \cup {s} /\ wants' = wants \ {s}
      /\ spawned' = spawned \ {s}
      /\ introduced' = [introduced EXCEPT ![s] = {}]
  BY DEF RemoveSession
<1>2. Present'
  BY <1>1 DEF ViewInv, Present
<1>3. SentIsIntroduced'
  <2>. SUFFICES ASSUME NEW r \in Session \ left'
                PROVE  known'[r] \cup OnItsWay(r)' \subseteq introduced'[r]
    BY DEF SentIsIntroduced
  <2>1. r \in Session \ left /\ introduced'[r] = introduced[r]
    BY <1>1 DEF ViewInv, TypeOK
  <2>. QED  BY <1>1, <2>1 DEF ViewInv, SentIsIntroduced, OnItsWay
<1>. QED  BY <1>1, <1>2, <1>3 DEF ViewInv, ShownIsIntroduced, DescribedOnce

(* What a tick sends to s is new to s: its client does not have it, and it *)
(* is not on its way.                                                      *)
LEMMA SentIsNew ==
    ASSUME ViewInv, NEW s \in Watching, NEW part \in Fitting(Others(s)),
           NEW d \in Introductions(s, part)
    PROVE  /\ d.to = s /\ d.ids \subseteq Shown(s) \ introduced[s]
           /\ d.ids \cap known[s] = {}
           /\ \A e \in flight : e.to = s => d.ids \cap e.ids = {}
           /\ \A e \in Introductions(s, part) : d # e => d.ids \cap e.ids = {}
<1>1. s \in Session \ left
  BY DEF ViewInv, TypeOK, Present, Watching
<1>2. known[s] \cup OnItsWay(s) \subseteq introduced[s]
  BY <1>1 DEF ViewInv, SentIsIntroduced
<1>3. part \subseteq Dynamic /\ netId[s] \notin part
  BY FittingIsPart DEF Others
<1>4. d.to = s /\ d.ids \subseteq Shown(s) \ introduced[s]
  BY <1>3 DEF Introductions, Shown
<1>5. \A e \in flight : e.to = s => e.ids \subseteq introduced[s]
  BY <1>2 DEF OnItsWay
<1>6. \A e \in Introductions(s, part) : d # e => d.ids \cap e.ids = {}
  BY <1>3 DEF Introductions
<1>. QED  BY <1>2, <1>4, <1>5, <1>6

LEMMA SentIsAll ==
    ASSUME NEW s, NEW part
    PROVE  UNION {d.ids : d \in Introductions(s, part)} = (part \cup {netId[s]}) \ introduced[s]
<1>. DEFINE own == {netId[s]} \ introduced[s]  other == part \ introduced[s]
<1>1. Introductions(s, part) = {[to |-> s, ids |-> ids] : ids \in {other, own} \ {{}}}
  BY DEF Introductions
<1>2. ASSUME NEW id \in (part \cup {netId[s]}) \ introduced[s]
      PROVE  \E d \in Introductions(s, part) : id \in d.ids
  <2>1. CASE id \in own
    <3>1. [to |-> s, ids |-> own] \in Introductions(s, part)
      BY <1>1, <2>1
    <3>. QED  BY <2>1, <3>1
  <2>2. CASE id \in other
    <3>1. [to |-> s, ids |-> other] \in Introductions(s, part)
      BY <1>1, <2>2
    <3>. QED  BY <2>2, <3>1
  <2>. QED  BY <2>1, <2>2
<1>3. \A d \in Introductions(s, part) : d.ids \subseteq (part \cup {netId[s]}) \ introduced[s]
  BY DEF Introductions
<1>. QED  BY <1>2, <1>3

(* What is on its way to each session after a tick. *)
LEMMA EmitSends ==
    ASSUME ViewInv, EmitSnapshots, NEW written, IsWritten(written),
           flight' = flight \cup UNION {Introductions(s, written[s]) : s \in Watching},
           NEW r \in Session
    PROVE  OnItsWay(r)' = IF r \in Watching
                          THEN OnItsWay(r) \cup ((written[r] \cup {netId[r]}) \ introduced[r])
                          ELSE OnItsWay(r)
<1>. DEFINE sent == UNION {Introductions(s, written[s]) : s \in Watching}
<1>1. ASSUME NEW d \in sent
      PROVE  d.to \in Watching /\ d \in Introductions(d.to, written[d.to])
  <2>1. PICK s \in Watching : d \in Introductions(s, written[s])
    OBVIOUS
  <2>. QED  BY <2>1 DEF Introductions
<1>2. OnItsWay(r)' = OnItsWay(r) \cup UNION {e.ids : e \in {d \in sent : d.to = r}}
  BY DEF OnItsWay
<1>3. CASE r \in Watching
  <2>1. {e \in sent : e.to = r} = Introductions(r, written[r])
    <3>1. \A d \in Introductions(r, written[r]) : d \in sent /\ d.to = r
      BY <1>3 DEF Introductions
    <3>. HIDE DEF sent
    <3>. QED  BY <1>1, <3>1
  <2>. HIDE DEF sent
  <2>. QED  BY <1>2, <1>3, <2>1, SentIsAll
<1>4. CASE r \notin Watching
  <2>. HIDE DEF sent
  <2>1. {e \in sent : e.to = r} = {}
    BY <1>1, <1>4
  <2>. QED  BY <1>2, <1>4, <2>1
<1>. QED  BY <1>3, <1>4

LEMMA EmitView ==
    ASSUME ViewInv, TypeOK', EmitSnapshots
    PROVE  ViewInv'
<1>1. /\ introduced' = [s \in Session |->
                           IF s \in Watching THEN introduced[s] \cup Shown(s) ELSE introduced[s]]
      /\ UNCHANGED <<joined, left, wants, spawned, netId, known, armed, tanks>>
  BY DEF EmitSnapshots, hostVars, sessionVars
<1>2. PICK written : /\ IsWritten(written)
                     /\ flight' = flight \cup
                                     UNION {Introductions(s, written[s]) : s \in Watching}
  BY DEF EmitSnapshots, IsWritten
<1>. DEFINE sent == UNION {Introductions(s, written[s]) : s \in Watching}
<1>3. ASSUME NEW d \in sent
      PROVE  /\ d.to \in Watching
             /\ written[d.to] \in Fitting(Others(d.to))
             /\ d \in Introductions(d.to, written[d.to])
  <2>1. PICK s \in Watching : d \in Introductions(s, written[s])
    OBVIOUS
  <2>. QED  BY <1>2, <2>1 DEF Introductions, IsWritten
<1>4. flight' = flight \cup sent
  BY <1>2
<1>. HIDE DEF sent
<1>5. Present'
  BY <1>1 DEF ViewInv, Present
<1>6. Watching' = Watching /\ \A s \in Watching : Shown(s)' = Shown(s)
  BY <1>1 DEF Watching, Shown, Dynamic
<1>7. ShownIsIntroduced'
  BY <1>1, <1>6 DEF ShownIsIntroduced, ViewInv, TypeOK, Watching
<1>8. SentIsIntroduced'
  <2>. SUFFICES ASSUME NEW s \in Session \ left
                PROVE  known[s] \cup OnItsWay(s)' \subseteq introduced'[s]
    BY <1>1 DEF SentIsIntroduced
  <2>1. known[s] \cup OnItsWay(s) \subseteq introduced[s]
    BY DEF ViewInv, SentIsIntroduced
  <2>2. ASSUME s \in Watching
        PROVE  written[s] \subseteq Dynamic
    <3>1. written[s] \in Fitting(Others(s))
      BY <1>2, <2>2 DEF IsWritten
    <3>2. written[s] \subseteq Others(s)
      BY <3>1, FittingIsPart
    <3>. QED  BY <3>2 DEF Others
  <2>. QED  BY <1>1, <1>2, <2>1, <2>2, EmitSends DEF Shown
<1>9. DescribedOnce'
  <2>1. ASSUME NEW d \in flight'
        PROVE  d.ids \cap known[d.to] = {}
    BY <1>4, <1>3, <2>1, SentIsNew DEF ViewInv, DescribedOnce
  <2>2. ASSUME NEW d \in flight', NEW e \in flight', d.to = e.to, d # e
        PROVE  d.ids \cap e.ids = {}
    <3>1. CASE d \in flight /\ e \in flight
      BY <2>2, <3>1 DEF ViewInv, DescribedOnce
    <3>2. CASE d \in sent
      BY <1>4, <1>3, <2>2, <3>2, SentIsNew
    <3>3. CASE e \in sent
      BY <1>4, <1>3, <2>2, <3>3, SentIsNew
    <3>. QED  BY <1>4, <3>1, <3>2, <3>3
  <2>. QED  BY <1>1, <2>1, <2>2 DEF DescribedOnce
<1>. QED  BY <1>5, <1>7, <1>8, <1>9 DEF ViewInv

(* What arrives is known instead of on its way. *)
LEMMA DeliverSends ==
    ASSUME ViewInv, NEW d \in flight, Deliver(d), NEW s \in Session
    PROVE  known'[s] \cup OnItsWay(s)' = known[s] \cup OnItsWay(s)
<1>1. flight' = flight \ {d} /\ known' = [known EXCEPT ![d.to] = @ \cup d.ids]
  BY DEF Deliver
<1>2. d.to \in Session /\ known \in [Session -> SUBSET Id]
  BY DEF ViewInv, TypeOK
<1>3. CASE s = d.to
  <2>1. known'[s] = known[s] \cup d.ids
    BY <1>1, <1>2, <1>3
  <2>2. OnItsWay(s) = OnItsWay(s)' \cup d.ids
    BY <1>1, <1>3 DEF OnItsWay
  <2>. QED  BY <2>1, <2>2
<1>4. CASE s # d.to
  <2>1. known'[s] = known[s]
    BY <1>1, <1>2, <1>4
  <2>2. {e \in flight' : e.to = s} = {e \in flight : e.to = s}
    BY <1>1, <1>4
  <2>. QED  BY <2>1, <2>2 DEF OnItsWay
<1>. QED  BY <1>3, <1>4

LEMMA DeliverView ==
    ASSUME ViewInv, TypeOK', NEW d \in flight, Deliver(d)
    PROVE  ViewInv'
<1>1. /\ UNCHANGED <<place, joined, left, wants, spawned, netId, introduced, armed, tanks>>
      /\ flight' = flight \ {d}
      /\ known' = [known EXCEPT ![d.to] = @ \cup d.ids]
  BY DEF Deliver, hostVars, sessionVars
<1>2. d.to \in Session /\ known \in [Session -> SUBSET Id]
  BY DEF ViewInv, TypeOK
<1>3. Present'
  BY <1>1 DEF ViewInv, Present
<1>4. ShownIsIntroduced'
  BY <1>1 DEF ViewInv, ShownIsIntroduced, Watching, Shown, Dynamic
<1>5. SentIsIntroduced'
  BY <1>1, DeliverSends DEF ViewInv, SentIsIntroduced
<1>6. DescribedOnce'
  <2>1. ASSUME NEW e \in flight'
        PROVE  e.ids \cap known'[e.to] = {}
    <3>1. e \in flight /\ e # d /\ e.to \in Session
      BY <1>1 DEF ViewInv, TypeOK
    <3>2. e.ids \cap known[e.to] = {} /\ (e.to = d.to => e.ids \cap d.ids = {})
      BY <3>1 DEF ViewInv, DescribedOnce
    <3>. QED  BY <1>1, <1>2, <3>1, <3>2
  <2>. QED  BY <1>1, <2>1 DEF ViewInv, DescribedOnce
<1>. QED  BY <1>3, <1>4, <1>5, <1>6 DEF ViewInv

LEMMA NextView == ViewInv /\ RelayInv' /\ [Next]_vars => ViewInv'
<1>. SUFFICES ASSUME ViewInv, RelayInv', [Next]_vars PROVE ViewInv'
  OBVIOUS
<1>1. TypeOK'
  BY DEF RelayInv
<1>2. ASSUME NEW s \in Session,
             \/ AddSession(s) \/ MarkWantUpdates(s) \/ RemoveSession(s)
             \/ \E accepted \in BOOLEAN : SpawnOnPad(s, accepted)
      PROVE  ViewInv'
  BY <1>1, <1>2, BridgeView, RemoveView
<1>3. CASE EmitSnapshots
  BY <1>1, <1>3, EmitView
<1>4. CASE HostTick
  <2>1. place' = "bridge" /\ UNCHANGED <<joined, left, wants, spawned, introduced, flight, known>>
    BY <1>4 DEF HostTick, HostDisabled, Settle, BeginAndReset, LoadWorld, SpawnAndArm, HostComplete,
                HostStep, RestUnchanged, sessionVars, viewVars
  <2>2. Present'
    BY <2>1 DEF ViewInv, Present
  <2>. QED  BY <1>1, <2>1, <2>2, ViewUntouched
<1>5. CASE \E d \in flight : Deliver(d)
  BY <1>1, <1>5, DeliverView
<1>6. CASE UNCHANGED vars
  BY <1>1, <1>6 DEF vars, hostVars, sessionVars, viewVars, ViewInv, Present, SentIsIntroduced,
                    OnItsWay, ShownIsIntroduced, Watching, Shown, Dynamic, DescribedOnce
<1>. QED  BY <1>2, <1>3, <1>4, <1>5, <1>6 DEF Next

(* What the bridge counts as introduced covers what the network has and    *)
(* had, and all that a player is shown.                                    *)
THEOREM ViewConsistent == Spec => []ViewInv
BY InitView, NextView, RelayConsistent, PTL DEF Spec

(* An entity is described to a client once (EmitSnapshots, mask_for).      *)
THEOREM TanksAreDescribedOnce == Spec => []DescribedOnce
<1>. ViewInv => DescribedOnce
  BY DEF ViewInv
<1>. QED  BY ViewConsistent, PTL

----------------------------------------------------------------------------
(* What a step does to what was introduced to s and not sent. *)

(* Only a session's own removal and a tick change what was introduced to it *)
(* or is on its way to it.                                                  *)
LEMMA QuietSteps ==
    ASSUME ViewInv, [Next]_vars, ~EmitSnapshots, NEW s \in Session \ left, s \notin left'
    PROVE  /\ introduced'[s] = introduced[s]
           /\ known'[s] \cup OnItsWay(s)' = known[s] \cup OnItsWay(s)
<1>1. CASE UNCHANGED <<introduced, flight, known>>
  BY <1>1 DEF OnItsWay
<1>2. CASE \E r \in Session : RemoveSession(r)
  <2>1. PICK r \in Session : RemoveSession(r)
    BY <1>2
  <2>2. r # s
    BY <2>1 DEF RemoveSession
  <2>. QED  BY <2>1, <2>2 DEF RemoveSession, OnItsWay, ViewInv, TypeOK
<1>3. CASE \E d \in flight : Deliver(d)
  BY <1>3, DeliverSends DEF Deliver
<1>. QED
  BY <1>1, <1>2, <1>3
     DEF Next, AddSession, MarkWantUpdates, SpawnOnPad, HostTick, HostDisabled, Settle, BeginAndReset,
         LoadWorld, SpawnAndArm, HostComplete, RestUnchanged, viewVars, vars

(* If there is room for all that s is to be shown, a tick leaves out       *)
(* nothing new.                                                            *)
LEMMA RoomForAll ==
    ASSUME ViewInv, [Next]_vars, NEW s \in Session, HasRoom(s), s \notin left => LeftOut(s) = {},
           s \notin left'
    PROVE  LeftOut(s)' = {}
<1>1. s \notin left
  BY DEF Next, AddSession, MarkWantUpdates, RemoveSession, SpawnOnPad, EmitSnapshots, HostTick,
         HostDisabled, Settle, BeginAndReset, LoadWorld, SpawnAndArm, HostComplete, RestUnchanged,
         Deliver, sessionVars, vars
<1>2. CASE ~EmitSnapshots
  BY <1>1, <1>2, QuietSteps DEF LeftOut
<1>3. CASE EmitSnapshots
  <2>1. PICK written : /\ IsWritten(written)
                       /\ flight' = flight \cup
                                       UNION {Introductions(r, written[r]) : r \in Watching}
    BY <1>3 DEF EmitSnapshots, IsWritten
  <2>2. /\ introduced'[s] = IF s \in Watching THEN introduced[s] \cup Shown(s) ELSE introduced[s]
        /\ known' = known
    BY <1>3 DEF EmitSnapshots
  <2>3. s \in Watching => written[s] = Others(s)
    BY <2>1, FittingIsPart DEF IsWritten, HasRoom
  <2>. QED  BY <1>1, <1>3, <2>1, <2>2, <2>3, EmitSends DEF LeftOut, Others, Shown
<1>. QED  BY <1>2, <1>3

(* No snapshot moves a tank that its client was not told of, once what was *)
(* sent has arrived: for each player whose datagrams have always had room. *)
THEOREM NobodySeesStrangers ==
    ASSUME NEW s \in Session
    PROVE  Spec /\ []HasRoom(s) => []ShownOrOnItsWay(s)
<1>. DEFINE NoneLeftOut == s \notin left => LeftOut(s) = {}
<1>1. Init => NoneLeftOut
  BY DEF Init, LeftOut
<1>2. ViewInv /\ HasRoom(s) /\ NoneLeftOut /\ [Next]_vars => NoneLeftOut'
  BY RoomForAll
<1>3. ViewInv /\ NoneLeftOut => ShownOrOnItsWay(s)
  <2>. SUFFICES ASSUME ViewInv, NoneLeftOut, place = "host", s \in Watching
                PROVE  Shown(s) \subseteq known[s] \cup OnItsWay(s)
    BY DEF ShownOrOnItsWay
  <2>1. s \notin left
    BY DEF ViewInv, TypeOK, Present, Watching
  <2>. QED  BY <2>1 DEF ViewInv, LeftOut, ShownIsIntroduced
<1>. QED  BY <1>1, <1>2, <1>3, ViewConsistent, PTL DEF Spec

(* Without room: what was left out of the datagram that should have        *)
(* described it is in no later one, for as long as the player is there.    *)
(* mask_for has marked it before BuildUpdateArray left it out.             *)
LeftOutForGood ==
    [][\A s \in Session : s \notin left' => LeftOut(s) \subseteq LeftOut(s)']_vars

(* A tank that does not fit is never described. *)
THEOREM WhatDoesNotFitIsLost == Spec => LeftOutForGood
<1>1. ASSUME ViewInv, [Next]_vars, NEW s \in Session, s \notin left'
      PROVE  LeftOut(s) \subseteq LeftOut(s)'
  <2>1. s \notin left
    BY <1>1
       DEF Next, AddSession, MarkWantUpdates, RemoveSession, SpawnOnPad, EmitSnapshots, HostTick,
           HostDisabled, Settle, BeginAndReset, LoadWorld, SpawnAndArm, HostComplete, RestUnchanged,
           Deliver, sessionVars, vars
  <2>2. CASE ~EmitSnapshots
    BY <1>1, <2>1, <2>2, QuietSteps DEF LeftOut
  <2>3. CASE EmitSnapshots
    <3>1. PICK written : /\ IsWritten(written)
                         /\ flight' = flight \cup
                                         UNION {Introductions(r, written[r]) : r \in Watching}
      BY <2>3 DEF EmitSnapshots, IsWritten
    <3>2. introduced[s] \subseteq introduced'[s] /\ known' = known
      BY <2>3 DEF EmitSnapshots
    <3>3. LeftOut(s) \cap OnItsWay(s)' = {}
      BY <1>1, <2>3, <3>1, EmitSends DEF LeftOut
    <3>. QED  BY <3>2, <3>3 DEF LeftOut
  <2>. QED  BY <2>2, <2>3
<1>2. ViewInv /\ [Next]_vars =>
        [\A s \in Session : s \notin left' => LeftOut(s) \subseteq LeftOut(s)']_vars
  BY <1>1
<1>. QED  BY <1>2, ViewConsistent, PTL DEF Spec, LeftOutForGood
=============================================================================
