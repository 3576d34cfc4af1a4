------------------------------ MODULE WorldRelay ------------------------------
(***************************************************************************)
(* The world the players see.  Each tick of the engine thread first runs   *)
(* the bridge, which spawns players and sends every one of them the tanks  *)
(* of the world (SpawnOnPad, EmitSnapshots in net/world_packets.cpp), and  *)
(* then the world host, which brings the engine's own world up in a few    *)
(* ticks and from then on makes the bridge relay it (world_host_engine.cpp *)
(* and net/world_host.cpp).  Until then, and without a world host, the     *)
(* world consists of the tanks that the bridge itself keeps.               *)
(*                                                                         *)
(* A player's session joins and leaves once, which WulfServer shows.  The  *)
(* map's fixtures have the ids 1 .. Fixtures.  A session is told what an   *)
(* entity is in one datagram, and only where it is in all later ones.  A   *)
(* datagram has room for so many entities; the bridge's books do not know. *)
(***************************************************************************)
EXTENDS Naturals, FiniteSets

CONSTANTS
    Session,      \* the players' sessions
    Fixtures,     \* the number of static_entities_
    PrimaryOid,   \* kDefaultSpawnOid, the tank the bootstrap spawns
    ExtraOids,    \* the oids in kExtraSpawns
    PlayerOid,    \* kPlayerOidBase, the first player's
    SettleTicks,  \* kSettleTicks
    MaxEntities,  \* kMaxSnapshotEntities
    MaxWorld,     \* kMaxWorldEntities
    MaxSpawns     \* bound: how often players spawn altogether

(* The ranges of ids lie apart as long as players do not spawn too often   *)
(* without an oid of the engine's ("High OID so the engine entity does not *)
(* collide with map-fixture net-ids").  ReadEngineWorld stops at           *)
(* kMaxWorldEntities, which this bound on the spawns does not reach.       *)
ASSUME RelayAssumption ==
    /\ Fixtures \in Nat /\ SettleTicks \in Nat /\ MaxSpawns \in Nat
    /\ MaxEntities \in Nat \ {0}
    /\ PrimaryOid \in Nat /\ ExtraOids \subseteq Nat /\ PlayerOid \in Nat
    /\ \A oid \in {PrimaryOid} \cup ExtraOids : Fixtures + MaxSpawns < oid /\ oid < PlayerOid
    /\ Fixtures + MaxSpawns < PlayerOid
    /\ IsFiniteSet(ExtraOids) /\ MaxWorld \in Nat
    /\ Cardinality(ExtraOids) + 1 + MaxSpawns <= MaxWorld

ServerTanks == {PrimaryOid} \cup ExtraOids

VARIABLES
    worldHost,   \* ServerConfig::world_host
    place,       \* the place of the engine thread in ServerTickBody
    settle,      \* ProcessWorldHostTick's settle
    phase,       \* WorldBootstrap::phase_; "reset" is left in the tick it is entered
    loaded,      \* whether the engine has a world
    tanks,       \* the oids in the engine's world list
    armed,       \* whether the bridge has its world provider and spawn handler
    nextEntity,  \* next_entity_id_
    nextPlayer,  \* SpawnPlayerTank's next_player_oid
    joined,      \* the keys of sessions_
    left,        \* the sessions that were removed
    wants,       \* SessionState::wants_updates
    spawned,     \* SessionState::spawned
    netId,       \* SessionState::entity.net_id
    introduced,  \* SessionState::introduced
    flight,      \* the datagrams that introduce entities, on their way
    known        \* the entities each client can show

hostVars == <<worldHost, settle, phase, loaded, armed>>
sessionVars == <<joined, left, wants, spawned, netId>>
viewVars == <<introduced, flight, known>>
vars == <<hostVars, place, tanks, nextEntity, nextPlayer, sessionVars, viewVars>>

Id == 0 .. (PlayerOid + MaxSpawns)

TypeOK ==
    /\ worldHost \in BOOLEAN
    /\ place \in {"bridge", "host"}
    /\ settle \in 0 .. SettleTicks
    /\ phase \in {"idle", "load", "spawn", "complete"}
    /\ loaded \in BOOLEAN
    /\ tanks \subseteq Id
    /\ armed \in BOOLEAN
    /\ nextEntity \in Id
    /\ nextPlayer \in Id
    /\ joined \subseteq Session
    /\ left \subseteq Session
    /\ wants \subseteq Session
    /\ spawned \subseteq Session
    /\ netId \in [Session -> Id]
    /\ introduced \in [Session -> SUBSET Id]
    /\ flight \subseteq [to : Session, ids : SUBSET Id]
    /\ known \in [Session -> SUBSET Id]

Init ==
    /\ worldHost \in BOOLEAN
    /\ place = "bridge"
    /\ settle = 0
    /\ phase = "idle"
    /\ loaded = FALSE
    /\ tanks = {}
    /\ armed = FALSE
    /\ nextEntity = Fixtures + 1
    /\ nextPlayer = PlayerOid
    /\ joined = {}
    /\ left = {}
    /\ wants = {}
    /\ spawned = {}
    /\ netId = [s \in Session |-> 0]
    /\ introduced = [s \in Session |-> {}]
    /\ flight = {}
    /\ known = [s \in Session |-> {}]

----------------------------------------------------------------------------
(* The bridge applies the commands of the tick, in any order they come in. *)

AddSession(s) ==
    /\ place = "bridge"
    /\ s \notin joined \cup left
    /\ joined' = joined \cup {s}
    /\ UNCHANGED <<hostVars, place, tanks, nextEntity, nextPlayer, left, wants, spawned, netId,
                   viewVars>>

MarkWantUpdates(s) ==
    /\ place = "bridge"
    /\ s \in joined \ wants
    /\ wants' = wants \cup {s}
    /\ UNCHANGED <<hostVars, place, tanks, nextEntity, nextPlayer, joined, left, spawned, netId,
                   viewVars>>

(* The session's entry goes with all its fields; its tank stays where it   *)
(* is.                                                                     *)
RemoveSession(s) ==
    /\ place = "bridge"
    /\ s \in joined
    /\ joined' = joined \ {s}
    /\ left' = left \cup {s}
    /\ wants' = wants \ {s}
    /\ spawned' = spawned \ {s}
    /\ netId' = [netId EXCEPT ![s] = 0]
    /\ introduced' = [introduced EXCEPT ![s] = {}]
    /\ UNCHANGED <<hostVars, place, tanks, nextEntity, nextPlayer, flight, known>>

Spawns == (nextEntity - (Fixtures + 1)) + (nextPlayer - PlayerOid)

(* SpawnPlayerTank uses up an oid, whether or not Obj_Create accepts it.   *)
SpawnPlayerTank(accepted) ==
    /\ nextPlayer' = nextPlayer + 1
    /\ tanks' = IF accepted THEN tanks \cup {nextPlayer} ELSE tanks

(* Mutant: the id is the number of players that have spawned. *)
SpawnNumbered(s, accepted) ==
    /\ place = "bridge"
    /\ s \in joined
    /\ Spawns < MaxSpawns
    /\ IF armed THEN SpawnPlayerTank(accepted) ELSE UNCHANGED <<nextPlayer, tanks>>
    /\ IF armed /\ accepted
       THEN netId' = [netId EXCEPT ![s] = nextPlayer] /\ UNCHANGED nextEntity
       ELSE /\ netId' = [netId EXCEPT ![s] = Fixtures + 1 + Cardinality(spawned \ {s})]
            /\ nextEntity' = nextEntity + 1
    /\ spawned' = spawned \cup {s}
    /\ UNCHANGED <<hostVars, place, joined, left, wants, viewVars>>

(* SpawnOnPad, with the engine's tank if the handler is installed and      *)
(* Obj_Create accepts the oid, and otherwise with an id of its own.  A     *)
(* client may ask for it again.  HandleReincarnate has found a pad of the  *)
(* player's team.                                                          *)
SpawnOnPad(s, accepted) ==
    /\ place = "bridge"
    /\ s \in joined
    /\ Spawns < MaxSpawns
    /\ IF armed THEN SpawnPlayerTank(accepted) ELSE UNCHANGED <<nextPlayer, tanks>>
    /\ IF armed /\ accepted
       THEN netId' = [netId EXCEPT ![s] = nextPlayer] /\ UNCHANGED nextEntity
       ELSE /\ netId' = [netId EXCEPT ![s] = nextEntity]
            /\ nextEntity' = nextEntity + 1
    /\ spawned' = spawned \cup {s}
    /\ UNCHANGED <<hostVars, place, joined, left, wants, viewVars>>

----------------------------------------------------------------------------
(* EntitySnapshots without the fixtures. *)
Dynamic == IF armed THEN tanks ELSE {netId[s] : s \in spawned}

Watching == wants \cap spawned

(* What the bridge means to show s in this tick. *)
Others(s) == Dynamic \ {netId[s]}
Shown(s) == Dynamic \cup {netId[s]}

(* BuildUpdateArray writes the first MaxEntities of the entities it is     *)
(* given and leaves the others out.  They come in the order of the         *)
(* engine's list, or of the sessions, which is not modelled.               *)
Fitting(all) ==
    IF Cardinality(all) <= MaxEntities THEN {all}
    ELSE {part \in SUBSET all : Cardinality(part) = MaxEntities}

(* The others and the session's own tank go in two datagrams, UPDATE_ARRAY *)
(* and VIEW_UPDATE; those that introduce nobody are left out.              *)
Introductions(s, written) ==
    {[to |-> s, ids |-> part] :
        part \in {written \ introduced[s], {netId[s]} \ introduced[s]} \ {{}}}

(* Mutant: what any session was told counts as told to all. *)
EmitSharedNews ==
    /\ place = "bridge"
    /\ introduced' = [s \in Session |->
                         IF s \in Watching THEN introduced[s] \cup Shown(s) ELSE introduced[s]]
    /\ LET told == UNION {introduced[s] : s \in Session}
       IN  \E written \in [Watching -> UNION {Fitting(Others(s)) : s \in Watching}] :
              /\ \A s \in Watching : written[s] \in Fitting(Others(s))
              /\ flight' = flight \cup UNION {Introductions(s, written[s] \ told) : s \in Watching}
    /\ place' = "host"
    /\ UNCHANGED <<hostVars, tanks, nextEntity, nextPlayer, sessionVars, known>>

(* The end of the bridge's tick, without effect when nobody is there.  All *)
(* that a session is to be shown is marked as introduced before the        *)
(* datagrams are built, be there room for it or not.  A session that       *)
(* watches without having spawned gets the entry map over TCP, anew every  *)
(* time.                                                                   *)
EmitSnapshots ==
    /\ place = "bridge"
    /\ introduced' = [s \in Session |->
                         IF s \in Watching THEN introduced[s] \cup Shown(s) ELSE introduced[s]]
    /\ \E written \in [Watching -> UNION {Fitting(Others(s)) : s \in Watching}] :
          /\ \A s \in Watching : written[s] \in Fitting(Others(s))
          /\ flight' = flight \cup UNION {Introductions(s, written[s]) : s \in Watching}
    /\ place' = "host"
    /\ UNCHANGED <<hostVars, tanks, nextEntity, nextPlayer, sessionVars, known>>

(* Datagrams arrive in any order. *)
Deliver(d) ==
    /\ d \in flight
    /\ flight' = flight \ {d}
    /\ known' = [known EXCEPT ![d.to] = @ \cup d.ids]
    /\ UNCHANGED <<hostVars, place, tanks, nextEntity, nextPlayer, sessionVars, introduced>>

----------------------------------------------------------------------------
(* ProcessWorldHostTick.  Each of its runs is one of these steps.          *)

HostStep(p) == place = "host" /\ place' = "bridge" /\ phase = p
RestUnchanged == UNCHANGED <<worldHost, nextEntity, nextPlayer, sessionVars, viewVars>>

HostDisabled ==
    /\ ~worldHost
    /\ HostStep("idle")
    /\ RestUnchanged /\ UNCHANGED <<settle, phase, loaded, tanks, armed>>

(* Mutant: one tick too many. *)
SettleOnceMore ==
    /\ worldHost
    /\ HostStep("idle")
    /\ settle <= SettleTicks
    /\ settle' = settle + 1
    /\ RestUnchanged /\ UNCHANGED <<phase, loaded, tanks, armed>>

(* Mutant: the counter is not static. *)
SettleAnew ==
    /\ worldHost
    /\ HostStep("idle")
    /\ settle < SettleTicks
    /\ settle' = 0
    /\ RestUnchanged /\ UNCHANGED <<phase, loaded, tanks, armed>>

Settle ==
    /\ worldHost
    /\ HostStep("idle")
    /\ settle < SettleTicks
    /\ settle' = settle + 1
    /\ RestUnchanged /\ UNCHANGED <<phase, loaded, tanks, armed>>

(* Mutant: the relay is armed as soon as the bootstrap begins. *)
BeginAndArm ==
    /\ worldHost
    /\ HostStep("idle")
    /\ settle = SettleTicks
    /\ phase' = "load"
    /\ loaded' = FALSE
    /\ tanks' = {}
    /\ armed' = TRUE
    /\ RestUnchanged /\ UNCHANGED settle

(* Begin, and Advance in the same tick: Game_ResetSession destroys what    *)
(* entities the engine had.                                                *)
BeginAndReset ==
    /\ worldHost
    /\ HostStep("idle")
    /\ settle = SettleTicks
    /\ phase' = "load"
    /\ loaded' = FALSE
    /\ tanks' = {}
    /\ RestUnchanged /\ UNCHANGED <<settle, armed>>

LoadWorld ==
    /\ HostStep("load")
    /\ phase' = "spawn"
    /\ loaded' = TRUE
    /\ RestUnchanged /\ UNCHANGED <<settle, tanks, armed>>

(* DoSpawn, the arming of the relay, and SetupServerTanks, which spawns    *)
(* the extra tanks only next to the primary one.                           *)
SpawnAndArm(accepted) ==
    /\ HostStep("spawn")
    /\ accepted = {} \/ PrimaryOid \in accepted
    /\ phase' = "complete"
    /\ tanks' = tanks \cup accepted
    /\ armed' = TRUE
    /\ RestUnchanged /\ UNCHANGED <<settle, loaded>>

(* Mutant: Begin rewinds a bootstrap that is complete. *)
HostRestarts ==
    /\ HostStep("complete")
    /\ phase' = "load"
    /\ loaded' = FALSE
    /\ tanks' = {}
    /\ RestUnchanged /\ UNCHANGED <<settle, armed>>

HostComplete ==
    /\ HostStep("complete")
    /\ RestUnchanged /\ UNCHANGED <<settle, phase, loaded, tanks, armed>>

HostTick ==
    \/ HostDisabled
    \/ Settle
    \/ BeginAndReset
    \/ LoadWorld
    \/ \E accepted \in SUBSET ServerTanks : SpawnAndArm(accepted)
    \/ HostComplete

Next ==
    \/ \E s \in Session :
          \/ AddSession(s)
          \/ MarkWantUpdates(s)
          \/ RemoveSession(s)
          \/ \E accepted \in BOOLEAN : SpawnOnPad(s, accepted)
    \/ EmitSnapshots
    \/ HostTick
    \/ \E d \in flight : Deliver(d)

(* The engine thread ticks for ever; the datagrams of this model arrive.   *)
Fairness ==
    /\ WF_vars(EmitSnapshots)
    /\ WF_vars(HostTick)
    /\ WF_vars(\E d \in flight : Deliver(d))

Spec == Init /\ [][Next]_vars /\ Fairness

----------------------------------------------------------------------------
(* Two counters and the map give out ids (SpawnPlayerTank's oid,           *)
(* next_entity_id_, static_entities_): no two players of the game ever     *)
(* have the same tank, and nobody has the map's or the server's.           *)
OwnTank ==
    \A s \in spawned :
        /\ netId[s] > Fixtures
        /\ netId[s] \notin ServerTanks
        /\ \A other \in spawned \ {s} : netId[other] # netId[s]

(* The steps of the bootstrap come over several ticks, with spawn requests *)
(* in between: no tank is created in the engine and no snapshot is read    *)
(* from it before it has loaded its world (ProcessWorldHostTick,           *)
(* SpawnPlayerTank).                                                       *)
SpawnsIntoLoadedWorld == tanks # {} \/ armed => loaded

(* A player who was given an engine tank stays in what the relay sends     *)
(* until he leaves: the bootstrap does not destroy it by starting over     *)
(* (WorldBootstrap::Begin).                                                *)
RelayedTanksStay ==
    \A s \in spawned : netId[s] >= PlayerOid => armed /\ netId[s] \in tanks

(* There is room in one datagram for all that s is to be shown. *)
HasRoom(s) == s \in Watching => Cardinality(Others(s)) <= MaxEntities

(* "Each entity gets DEFINITION the first time THIS session sees it"       *)
(* (EmitSnapshots), across respawns and the change from the bridge's tanks *)
(* to the engine's: once players stop coming and going, which MaxSpawns    *)
(* makes sure of, a player has been told of every tank that it is shown,   *)
(* if the datagrams arrive and there is always room in its own.  Without   *)
(* room it is not so: what BuildUpdateArray leaves out is marked as        *)
(* introduced all the same.                                                *)
EveryTankIsIntroduced ==
    \A s \in Session :
        []HasRoom(s) => <>[](s \in Watching => Shown(s) \subseteq known[s])

(* A server that is to host the world does so after finitely many ticks    *)
(* (settle and the bootstrap's phases), however busy the bridge is.        *)
WorldComesUp == worldHost ~> armed
=============================================================================
