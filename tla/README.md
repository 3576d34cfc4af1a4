# Verification of the headless Wulfram server

This directory holds TLA+ models of the injected server (`src/`), the
configurations that check them with TLC, and theorems about them that TLAPS
proves.  Paths below are relative to the repository; `net/` stands for
`src/dll/server/net/`.

Run everything from this directory:

    tlc -workers 2 -config server_safety.cfg MCWulfServer
    tlapm SessionProofs.tla

## 1. The system

The loader starts the stock game executable suspended, injects a DLL into it,
waits until the DLL has hooked the game, and resumes it.  From then on one
process holds these threads:

| thread | code | what it does |
|---|---|---|
| engine thread | `hooks/head_stubs.cpp` `ServerTickBody` | the game's own main loop; each iteration ticks the bridge, then the world host, then the dev engine |
| I/O thread | `net/acceptor.cpp` `Acceptor::Run` | accepts TCP clients, reads TCP and UDP, runs each client's `Connection`, sends what the bridge has posted |
| console thread | `net/dev_console.cpp`, `dev_engine.cpp` | serves one developer at a time: peek, poke, call, bt |
| log worker | `log/log.cpp` | writes queued lines to the file |
| `InitThread` | `dll/init.cpp` | checks the executable, installs the hooks, starts the server, signals the loader; ends |

### Inventory

| component | state | operations | meets others at |
|---|---|---|---|
| queues (`include/wfh/server/queues.hpp`) | two mutex-guarded FIFOs | `Push`, `DrainAll` | I/O thread to engine thread and back |
| connection (`net/connection.cpp`) | protocol state, key, name, receive buffer | one handler per state and frame; UDP link, UDP reincarnate, UDP action input | pushes commands |
| acceptor (`net/acceptor.cpp`) | clients by session id, `next_session_id`, UDP endpoints | select, accept, one datagram, read clients, flush, reap | owns the connections; both queues |
| online bridge (`net/world_packets.cpp`) | `sessions_`, fixtures, id counter, provider and handlers | `Tick`, a handler per command, `EmitSnapshots` | both queues; the world host |
| world host (`net/world_host.cpp`, `world_host_engine.cpp`) | phase of the bring-up, the engine's world, drive state | `ProcessWorldHostTick` | arms the bridge's provider and spawn handler |
| dev engine (`dev_engine.cpp`) | one slot for a pending call, engine thread id | `DevEngineHandle`, `PumpDevEngine` | a pointer from one thread into the other's stack |
| loader and init (`loader/injector.cpp`, `dll/init.cpp`) | process, remote thread, named event | launch, inject, wait, resume or kill | two processes and the file system |
| logger (`log/log.cpp`) | queue, `running`, file | `Init`, `Write`, worker, `Shutdown` | every thread |
| framing, bit stream, action input (`proto/`, `net/action_input.cpp`) | a receive buffer per TCP client; the reader's position while a packet is decoded | feed, next, decode | called by acceptor and connection; stateful only within one connection or one packet |
| tick guard, hooks, snapshots and packets, configuration, PE checks, generator and tools | (almost) none | straight-line | - |

### What is hard in it

- The tables of the two threads are never in agreement: the acceptor forgets a
  client and the bridge hears of it a tick later; the bridge answers clients
  that are gone.  Only the order of the commands in one queue holds the two
  together.
- What a client knows of its peers is the sum of messages that were posted in
  several ticks, by several handlers, and that the network may not take.
- Nothing tells a client twice: a roster entry, a tank's description.
- The network cuts and joins what a client wrote at any byte; nothing in a
  datagram says which of three forms it has, nor which session it is for.
- A call waits for a tick that may never come, and gives up while it does.
- The loader and the DLL meet in an event that lives only as long as a handle.
- The logger is shut down while the other threads go on logging.

### What correct means

- *Connection, acceptor, bridge together*: a session is announced once, at its
  login; its end is the last that is heard of it and is always heard; no
  session lingers; every player's roster converges; nobody is sent the world
  who is not playing; a player in the game keeps being served.
- *Bytes of a client*: frames are handled whole, in order and once, whatever
  chunks they come in; a packet moves at most one session, and never another
  address's; control input counts as it was written or not at all.
- *World host and relay*: the world is loaded before anything is put into it;
  ids never clash; a player's tank is never lost from the relay; each client
  is told what each entity is.
- *Dev engine*: a call runs at most once, gets its own answer, and a call that
  was reported as timed out was not run; each line is answered.
- *Loader*: the game runs only fully hooked, only with the executable that was
  checked, and never lingers suspended.
- *Logger*: no line is lost, doubled or reordered; what was logged before a
  shutdown is in the file; a shutdown returns.

`PROJECT.json` lists every hazard at its line with the properties aimed at it.

## 2. Modules

| module | models | used by |
|---|---|---|
| `Queues` | the two queues, commands and messages | `Connection`, `OnlineBridge` |
| `Connection` | `Connection`'s states and frames | `Acceptor` |
| `Acceptor` | the I/O thread, the peers' sockets, what each client was told | `WulfServer` |
| `OnlineBridge` | the tick and its command handlers | `WulfServer` |
| `WulfServer` | both threads together; the properties | `MCWulfServer`, proofs |
| `PlayerLifecycle` | abstract: one visit per session id | refined by `WulfServer` |
| `FrameDelivery` | abstract: the frames of a client, whole, in order, once | refined by `TcpStream` |
| `TcpStream` | a TCP client's bytes: chunks, buffer, drain | `Wire`, proofs |
| `UdpRouting` | how a datagram is split, read and given to a session | `Wire`, proofs |
| `ActionInput` | the decoding of control input from bits that may end early | `Wire`, proofs |
| `Wire` | the three above side by side | `MCWire`, proofs |
| `WorldRelay` | world host, spawning, who is told of which tank | `MCWorldRelay` |
| `DevEngine` | console thread against the engine thread | `MCDevEngine` |
| `Boot` | loader, `InitThread`, the event, the file on disk | - |
| `Logger` | writers, worker, shutdown | `MCLogger`, proofs |
| `LogFile` | abstract: what a reader of the log finds | refined by `Logger` |
| `WulfServerProofs`, `SessionProofs`, `PlayerProofs` | theorems about `WulfServer`, each extending the one before | - |
| `WireProofs` | theorems about `TcpStream`, `UdpRouting`, `ActionInput` and `Wire` | - |
| `DevEngineProofs`, `BootProofs`, `LoggerProofs`, `WorldRelayProofs` | theorems about the module they are named for | - |

`MC*` modules only give the constants small values.  The three modules that
`Wire` puts side by side share no state: each step is a step of one of them.
Operators marked
`(* Mutant: ... *)` are not part of a specification; each is a wrong version of
the definition that follows it, kept to show that a property notices the
mistake.

### How state and actions correspond to the code

**Queues, Connection, Acceptor, OnlineBridge, WulfServer.**  `state` and
`endpoint` are `Connection::state_` and the client's UDP address; a session is
`Absent` when the acceptor has no client of that id.  `pc` is the place in
`Acceptor::Run`: `Select`, `AcceptNewConnection`, the datagram actions,
`RecvClosed`/`RecvData`/`HandleFrame`/`DropClient`/`EndDrain` for each readable
client in session order, `FlushOutboundMessages`, `ReapClient`.  Each pushes to
`inbound` exactly when the code does, so that a tick may begin between any two
of them.  The bridge's `BeginTick` drains the queue into `batch`; each handler
then takes one command off the batch, and `EmitSnapshots` ends the tick.  The
handlers may interleave with the I/O thread because their messages are pushed
one by one; within one handler the messages go to different sessions (or are
read in one drain by the order per session), so a handler is one step.
`outbound` keeps one FIFO per session, which is all its reader distinguishes.
Frames and datagrams are classes of inputs (`FrameKind`), not bytes.  `roster`
is history: what each client has been told of each player.

**TcpStream, FrameDelivery.**  A byte is its place in what the client sends:
`received` counts the bytes that `recv` has returned, `erased` those that
`TcpFrameAccumulator::Next` has taken out of `buffer_`, so the buffer is what
lies between.  What the two bytes at any place of a stream would declare as a
length is a constant, also for places inside a frame, so a wrong step finds
something there.  `OnTcpData` receives 1 to `kRecvChunk` bytes, weighs the
buffer and begins to drain; `NextFrame`, `NextFails` and `EndDrain` are the
turns of its loop.  Which frames are rejected is `Connection`'s affair: here any
may be. `FrameDelivery` has no bytes: the client's frames are handled from the
first on, until the connection is dropped.

**UdpRouting.**  `attempt` is the place in `HandleOneUdpPacket`, which offers a
packet in both readings first to the sessions that are not linked
(`TryLinkUdpFrame`) and then to the one that is linked to its source
(`TryRouteLinkedUdpFrame`).  A packet carries what it says and, as `slip`, what
its bytes happen to say in the other reading.  Connections are those of module
`Connection`; `UdpStepsOfAcceptor` shows that every outcome is one that
`Acceptor`, which has a datagram in a single step, knows.

**ActionInput.**  `reader` is the `BitReader`, `decode` the place in
`DecodeActionUpdate` or `DecodeActionDump`.  A body is the fields a client
wrote, with some of the last bytes missing; a read finds a field only where one
begins.  `Driven` are the channels that `HandleUdpActionInput` passes on.

**WorldRelay.**  `place` says whose turn it is in `ServerTickBody`.
`AddSession`, `MarkWantUpdates`, `RemoveSession` and `SpawnOnPad` are the
bridge's handlers again, seen from the world: a session joins and leaves at
most once, which `WulfServer` shows.  `EmitSnapshots` ends the bridge's part.
`HostDisabled`, `Settle`, `BeginAndReset`, `LoadWorld`, `SpawnAndArm` and
`HostComplete` are the possible runs of `ProcessWorldHostTick`, one per tick.
The engine's world is external: the set of the ids that the server put there.
`EmitSnapshots` marks as introduced all that a player is to be shown, as
`mask_for` does, and then sends what fits: `Fitting` is the cut that
`BuildUpdateArray` makes after `MaxEntities` (`kMaxSnapshotEntities`) entities.
Which come first depends on the order of the engine's list, which is not
modelled: any may be left out.

**DevEngine.**  `mem` is the stack: an address in `Frame` holds a `DevCall`
while `HandleCall` is running, and may be reused by the next.  `pending` is the
slot; `LoadPending`, `ReadAddress`, `Invoke`, `StoreResult`, `ClearPending` and
`Finish` are the steps of `PumpDevEngine` that the console thread can see
apart.  `heap` is the lock of the allocator.

**Boot.**  Three actors: `LoaderStep`, `DllStep` and whoever replaces the file.
Each call that can fail has a failing outcome.  `event` is the kernel object
and `handles` the handles to it; without a handle it is gone.

**Logger.**  One step per critical section, with the wait of the worker split
into its test and its sleep, because `Shutdown` clears `running` without the
mutex.  `LogFile` knows neither worker nor queue: lines are logged, the file
grows by the next line, and it may be closed once it holds what was logged
before the shutdown.

## 3. What the runs check

| run | what it shows |
|---|---|
| `server_safety` | two sessions that do anything: `DisconnectIsLast`, `NoGhostSessions`, `LoggedInIsAnnounced`, `WorldOnlyToPlayers`, `RosterConverges`, `RosterBeforeNews`, and `ImplementsLifecycle`, the refinement of `PlayerLifecycle` |
| `server_liveness` | `HungUpLeaves`, `ClosedLeaves`: an ended session is out of the world in the end; `InGameIsServed`: a session in the game is sent snapshots |
| `lossy_send` | finding: with a full send buffer the ignored result of `send()` loses a roster entry for good |
| `tcp_team_switch` | finding: a team switch over TCP is never confirmed to its requester, though the bridge counts on it |
| `wire` | `ImplementsDelivery` (the refinement of `FrameDelivery`), `NothingWaitsUnlessCapped`, `BacklogHasACause`, `AllIsHandled`; `OneReaction`, `CommandsAreTheSenders`, `ServedByItsSession`, `UdpStepsOfAcceptor`; `InputIsAllOrNothing` |
| `world_relay` | `OwnTank`, `SpawnsIntoLoadedWorld`, `RelayedTanksStay`, `EveryTankIsIntroduced`, `WorldComesUp` |
| `dev_call` | `RunAtMostOnce`, `NoCallRefused`, `AnswersAreTheirOwn`, and `EveryLineAnswered` even if the engine thread stops |
| `dev_call_timeout` | finding: a call reported as timed out may be running, and later writes into a dead stack frame |
| `dev_bt` | finding: `bt` may suspend the engine thread inside the allocator and then allocate: both threads stop |
| `boot` | `RunsHooked`, `RunsWhatWasChecked`, `PatchesKnownCode`, `NoOrphan`, with every failure and time-out |
| `boot_signal` | finding: the ready signal is lost if the DLL closes the event before the loader has opened it |
| `logger` | `NothingLostOnTheWay`, `ShutdownFlushes`, `ImplementsLogFile` (the refinement of `LogFile`), `ShutdownReturns` |

A finding's run ends with a counterexample on purpose.  `PROJECT.json` quotes
the comment or document that says otherwise.

More disagreements between text and code came up without a run of their own:

- `net/world_packets.cpp:1087-1090` says that each entity gets its DEFINITION
  the first time a session sees it.  `BuildUpdateArray` writes at most 255
  entities (`:667-671`), but `mask_for` (`:1094-1101`) has marked all of them as
  introduced by then: one that is left out never gets its DEFINITION, and is only
  moved should it fit later.  The engine's tanks are never removed, each respawn
  adds one and a departed player's stays, so a server that runs for long reaches
  the limit.  `EveryTankIsIntroduced` therefore speaks only of players whose
  datagrams always have room for the others (`HasRoom`); without that condition
  TLC refutes it.  `WhatDoesNotFitIsLost` proves that what was left out stays out.
- `include/wfh/server/connection.hpp:46-49` says that a client who hits the cap
  on frames per drain gets dropped, and `:64-67` that `OnTcpData` parses all
  complete frames and that a flood sets `close = true`.  `net/connection.cpp:359-377`
  does neither: after 256 frames it stops, keeps the connection, and leaves the
  other frames in the buffer until more bytes arrive.  `capped` in `TcpStream` is
  this case; `NothingWaitsUnlessCapped` and `AllIsHandled` except it.
- `world_packets.hpp:70-72` says that the engine's world replaces the fixtures in
  every update, while `EntitySnapshots` adds it to them.
- A player who spawns before the relay is armed, or whose tank the engine
  rejects, has an id that the relayed world never contains, the phantom that
  `world_packets.hpp:79-81` warns of (`SpawnOnPad` with `~armed` or without
  `accepted`).
- A linked client's packet in the form [sequence][opcode][body] is read without
  its sequence first (`acceptor.cpp:240-254`): if the high byte of the sequence
  is a known opcode, as it is for every sequence below 256 (`0x00` is
  `DebugString`), the packet is taken for another one and lost, although the
  comment at `acceptor.cpp:137-140` says that the sequence form is tried first.
  `Misread` in `UdpRouting` is this case; `ServedByItsSession` excepts it.

### Bounds, and why they are enough

- *Sessions*: two.  All properties speak of one session or of a pair; ids are
  never reused, so a third adds no new relation between two.  `FdSlots = 2`
  polls both; the boundary itself is exercised by the mutant `PolledButLast`.
- *MaxInbound*: 1 lets a client queue commands when nothing is queued, whatever
  the tick still has in its batch.  One frame may queue three, and the reaper is
  not bounded, so a login, the end of it and what others do meet in one batch
  and across two.  The theorems of section 4 hold for any bound.
- *MaxOutbound*: 3 lets the messages of several ticks wait unsent, which
  `RosterConverges` and `RosterBeforeNews` need; 0 (a tick starts only when all
  was sent) suffices for liveness and for the two findings.
- *Endpoints*: two where the sessions may share one or not (`server_liveness`).
- *Requests*: one team and a spawn.  The other team would behave the same.
- *DevEngine*: three lines and two frames: a call in a new frame, one in a
  reused frame, and one in between.
- *Logger*: three threads and four lines: two lines of one drain, with lines
  queued before, during and after it.
- *WorldRelay*: two players and three spawns (a respawn and a peer), one tick
  to settle, one fixture, two server tanks.  `MaxEntities` is 3 and a player may
  be shown up to 4 others, so a datagram is filled and overfilled.  `MaxSpawns`
  keeps the engine's list below `MaxWorld` (`kMaxWorldEntities`), where
  `ReadEngineWorld` would stop reading.
- *Boot* has no bound.
- *Wire*: chunks of up to 4 bytes, a buffer of 10 and 2 frames per drain put
  every relation of a frame to a chunk, the buffer and the cap within reach of
  seven streams: short frames only, a flood of them, a frame as long as the
  buffer less a chunk, longer, and longer than the buffer, a frame that is cut
  off and bytes that are no frame.  The theorems hold for all streams.  Two
  sessions on one or two addresses, with a Hello followed by any packet or by
  none.  Updates of 0 to 4 channels where 3 are the limit, with 0 to 9 bytes
  missing, so that every field can be the one that is cut.  `CHECK_DEADLOCK
  FALSE`: a stream ends, a connection is dropped, a packet is decoded.

### Fairness, and what justifies it

- Both server threads loop for ever (`Acceptor::Run`, the game's main loop);
  each has weak fairness as a whole, not action by action.  `EndDrain` has its
  own, as a drain handles the bytes it has and then ends.
- The console thread waits with a counter, so it goes on by itself; the engine
  thread is assumed to run only in `dev_bt`, to show that this does not help.
- The loader's waits all have a time limit; the DLL and the game need not go on.
- The log worker polls every 50 ms, and `Shutdown` goes on once called.
- In `wire`, `OnTcpData`'s loop goes on once entered; clients need not send.
- In `WorldRelay` the tick runs for ever and datagrams arrive; they may overtake
  each other.

## 4. What is proved

| theorem | of | statement |
|---|---|---|
| `TypeCorrect` | `WulfServer` | `[]TypeOK` |
| `SessionsConsistent` | `WulfServer` | the inductive invariant `SessionInv` |
| `DisconnectComesLast`, `NoSessionIsForgotten`, `LoginIsAnnounced` | `WulfServer` | `DisconnectIsLast`, `NoGhostSessions`, `LoggedInIsAnnounced` |
| `PlayersAreKnown` | `WulfServer` | the inductive invariant `PlayerInv` |
| `WorldIsForPlayers` | `WulfServer` | `WorldOnlyToPlayers` |
| `RostersAgree`, `RosterComesFirst`, `RostersConverge` | `WulfServer` | if no send fails: `RosterInv`, `RosterBeforeNews`, `RosterConverges` |
| `OneVisitPerSession` | `WulfServer` | `ImplementsLifecycle`, the refinement |
| `PassConsistent`, `ClosedAreReaped`, `HungUpAreReaped` | `WulfServer` | `PassTells`; who is closed, or had hung up when select was called, is on the list that the same pass works off |
| `PlayersAreServed` | `WulfServer` | each tick posts a view of the world to everyone in the game |
| `StreamConsistent`, `StreamTyped`, `NothingWaits`, `NoDropWithoutCause` | `TcpStream` | `StreamInv`, types, and the safety properties of the stream |
| `StreamDelivers` | `TcpStream` | `ImplementsDelivery`, the refinement |
| `ArrivedIsAllHandled`, `NoFrameLostToGarbage` | `TcpStream` | what has arrived is handled, but for a drop or a capped drain; malformed bytes cost no frame before them |
| `RoutingConsistent`, `ReactsOnce`, `NobodyElsesCommands`, `ClientsAreServed`, `OutcomesOfAcceptor` | `UdpRouting` | `UdpInv`, `OneReaction`, `CommandsAreTheSenders`, `ServedByItsSession`, `UdpStepsOfAcceptor` |
| `DecodingConsistent`, `AllOrNothing` | `ActionInput` | `ActInv`, `InputIsAllOrNothing` |
| `WireTyped`, `WireSafe`, `WireImplements` | `Wire` | types, every safety invariant and both step properties of the run `wire`, of the three together |
| `DevConsistent`, `DevTyped`, `NotTwice`, `SlotIsFree`, `ResultsAreTheirOwn` | `DevEngine` | `DevInv`, types, and the safety properties of `dev_call` |
| `LinesTakeTurns`, `AnsweredOnce`, `BacktraceFindsNoCall` | `DevEngine` | lines are answered in order, each once; a backtrace and a call do not meet |
| `BootConsistent`, `BootTyped`, `NeverHalfHooked`, `NeverSwapped`, `NeverPatchesBlindly` | `Boot` | the safety properties of `boot` |
| `LoaderCleansUp`, `OpenedInTimeIsSeen` | `Boot` | a loader that is done leaves nothing behind; an event that it holds keeps its signal |
| `LoggerConsistent`, `LoggerTyped`, `LinesKeepTheirOrder`, `ShutdownLosesNothing`, `WorkerEndsFirst` | `Logger` | the safety properties of `logger`; the file is closed after the worker |
| `FileKeepsPromise` | `Logger` | `ImplementsLogFile`, the refinement |
| `RelayConsistent`, `RelayTyped`, `TanksAreTheirOwners`, `WorldFirst`, `RelayKeepsTanks` | `WorldRelay` | `RelayInv`, types, `OwnTank`, `SpawnsIntoLoadedWorld`, `RelayedTanksStay` |
| `ViewConsistent`, `TanksAreDescribedOnce` | `WorldRelay` | `ViewInv`; no tank is described twice to a client |
| `NobodySeesStrangers` | `WorldRelay` | a player whose datagrams have always had room is shown no tank that was not described or is about to be |
| `WhatDoesNotFitIsLost` | `WorldRelay` | a tank that a datagram had no room to describe is never described to that player |

They hold for every value of the constants that the modules' `ASSUME`s admit:
any number of sessions, endpoints, threads and lines, any streams, chunks,
buffers and caps, any lists of channels, any room in a datagram, and as many
spawns as keep the two ranges of ids apart and the engine's list within
`kMaxWorldEntities`.  A part of `Wire` has a
specification of its own (`TcpSpec`, `UdpSpec`, `ActSpec`); a behaviour of `Wire`
is one of each of them (`PartsAreKept`), so what holds of the parts holds of the
three together, which is what the run checks.

**Sessions.**  `DisconnectIsLast` and the others are not inductive: whether a
login was announced depends on what is still queued, what the tick has taken
and what the bridge has done.  `SessionInv` therefore speaks of `Pending`, the
batch followed by the queue, and of each session apart (`Consistent`): nothing
is known of it before it is accepted (`NotYet`); its announcement is in the
bridge's table or queued, never both, and comes before whatever follows
(`AnnouncedOnce`, `Announced`); and once the acceptor has forgotten it, its
`Disconnected` is queued and last (`EndAnnounced`).  `PassInv` adds what the
place in the pass says about the clients to be read and reaped.  Two groups of
lemmas say what an appended and a consumed command do to one session; each
action is an instance for the session it is about and harmless to all others.
`PassTells` says the same of the reads: whoever is closed is already on the list
of the dead, that list is empty outside the part of a pass that fills and works
it off, and a peer that had hung up is still to be read or on it.

**Players.**  `PlayerInv` is what `WorldOnlyToPlayers` needs beyond
`SessionInv`: nothing is posted to an id that was not given out; whoever got
past the key echo has an endpoint; whoever plays is in its own roster; and
whoever is `Known` to the bridge, or about to be, and is still served by the
acceptor has logged in.  The rosters need one fact more, `EveryoneIsTold`: of
any two players the bridge has, each was told of the other or has it in its
mail, so a later change of team is news of somebody known. `RosterInv` is that
with the two properties.  `NewsOfConcat` says what the last news of a queue is
once more is posted, and `MailFor` what a handler posts to one session; each
handler is then an instance.  These theorems assume `~SendMayFail`, and
`lossy_send` shows that they must.  `PlayersAreServed` needs only `SessionInv`
and `WatchersJoined`: who is in the game has its wish for the world in the
bridge's table or queued.

**Lifecycle.**  `OneVisitPerSession` needs only `SessionInv` and that whoever
watches has joined (`WatchersJoined`).  Lemmas say what a step of either thread
does to the stage of each session (`IoStepStages`, `TickStepStages`), and that
at most one session's stage changes in one step.

**TcpStream.**  `StreamInv` adds to the types and the two properties that what
was erased ends where a frame ends, the handled frames being all those before
(`AtFrame`), and that a drain only goes on while the connection is open.  A
drain that ends uncapped has no complete frame left, so at the end of the stream
all its frames were handled (`ArrivedIsHandled`); and what is refused as
malformed is what comes after the last (`MalformedIsLast`).  The
refinement follows, `NextFrame` being `Deliver` and every other step `Drop` or
nothing.

**UdpRouting.**  `UdpInv` says that nobody has reacted to a packet that is still
being offered (`TookWhenDone`), that the second reading is routed only when the
first could not be (`RawWasTried`), and that a session past its key echo is
linked, to its own client's address (`IdentifiedAreLinked`): hence a session
that is not linked can only be linked or answer a question, which is why at most
one session moves.

**ActionInput.**  `ActInv` says that the reader is at the first bit of the change
that comes next (`AtChange`), that what was read is what was written
(`ReadAsWritten`), and that no more channels were taken than the limit
(`NotTooMany`).  Changes are known by where they begin, so none is taken for
another; and as the missing bytes are the last ones and a failed reader stays
failed, the end is not reached without them (`JustOutcome`).  Where the changes
begin is a recursive function.  The library's induction theorems cannot be used
for it, but its facts about sets can: `UpTo` derives that a set which holds 1 and,
below `n`, with each number the next, holds all from 1 to `n`; and `Iteration`
concludes that every recursion of the form `g[j + 1] = F[j][g[j]]` has a solution.

**DevEngine.**  `DevInv` says who waits for what (`TakingTurns`: slot, tick and
caller hold the same call or none), what the frame holds (`OwnFrame`), and how
often each line was run and how it was answered (`Counted`), all as long as no
call was given up while the tick ran it.  The types hold also after that, and so
does `ServedInTurn`: the lines from `line` on are the unanswered ones, and the
engine thread is suspended exactly while a `bt` holds it.

**Boot.**  `BootInv` adds to the types that a set event means that the hooks
are in and the server is up (`SignalMeansHooked`), that the executable is held
open until the process exists (`LockedUntilSpawned`), and that whoever is past
the check of the hook sites runs a known image (`LookedBeforePatching`), and who
holds the event at which place (`HoldersKnown`), from which it follows that a
loader that is done holds nothing and has left no suspended process.

**Logger.**  `LoggerInv` says that the file, the worker's lines and the queue
are together all lines in order (`InOrder`), how far the worker may be for each
place of the shutdown (`Handshake`), and that the lines of before the shutdown
have passed the queue by the time the worker ends (`Flushed`).  With the first,
the line that the worker writes is the next one of the file, which makes
`WriteLine` the `WriteNext` of `LogFile`; `Handshake` and `Flushed` make
`CloseFile` its `Close`.

**WorldRelay.**  `RelayInv` says that an id in use lies below the counter it
came from (`IdsAreOld`), so that a fresh one is new to everybody; what each
phase of the bring-up says about the world (`PhaseTells`); and that tanks with
players' ids stay in the world (`RelayedTanksStay`).  `ViewInv` says that
whatever was sent to a client counts as introduced (`SentIsIntroduced`), that all
it is shown counts before a snapshot moves it (`ShownIsIntroduced`), and that no
two datagrams describe the same to the same client (`DescribedOnce`).  What counts
and was not sent is `LeftOut`.  It is empty for a player whose datagrams have had
room in every state so far, which is the hypothesis `[]HasRoom(s)` of
`NobodySeesStrangers`; and no step takes anything out of it while the player is
there, which is `WhatDoesNotFitIsLost`.

### Only model-checked

Liveness: it needs fairness and ENABLED, out of TLAPS's reach here.  What a
liveness property says beyond "in the end" is proved for most of them:

| only checked by TLC | its safety, proved for all constants |
|---|---|
| `HungUpLeaves` | `HungUpAreReaped`: it is on the list of the pass that found it |
| `ClosedLeaves` | `ClosedAreReaped`: it is on the list of the pass that closed it |
| `InGameIsServed` | `PlayersAreServed`: every tick serves it |
| `AllIsHandled` | `ArrivedIsAllHandled`: nothing is left when all has arrived |
| `NoOrphan` | `LoaderCleansUp`: nothing is left when the loader is done |
| `EveryTankIsIntroduced` | `NobodySeesStrangers`: known or on its way, as long as there is room |
| `EveryLineAnswered` | `LinesTakeTurns`: none is passed over |
| `ShutdownReturns`, `WorldComesUp` | - |

Every invariant and every refinement or action property of a passing run is
stated by a theorem.

## 5. What is not modelled

- The text of packets: the bit writer, the bring-up packets, how a snapshot's
  positions are quantized and how an action's value is scaled.  They are
  straight-line serializations of constants and records, but for the limit of an
  UPDATE_ARRAY, which `WorldRelay` has.  The entry map (`BuildViewUpdateSnapshot`)
  is cut after 255 entities too; it is sent anew in each tick, and what a client
  learned from it is not tracked.
- `EncodeUdpFrame` and the validators of client values, which only unit tests
  call.
- Datagrams that hold more than two packets; a sequence that looks like one of
  the two opcodes with an end of their own (`FirstUdpPacketLength`); the answers
  to stream handshakes and pings, which change no server state.
- Loss of the UDP reply to a team switch.  Its sender has no retry; the client's
  request may be repeated, which the model allows.
- A failing `select()`: `Run` tries again and changes nothing, a stuttering step;
  that it does not fail for ever is part of the fairness assumed.
- `Start`/`Stop` of the runtime: production starts once and ends with the process.
- The engine: what it does to its world, its tick, its heap beyond a lock.  A
  fault in a tick ends the process (`head_stubs.cpp`, `RunProtectedTick`).
- Action input ends in the bridge: no input handler is ever installed.
- Peek and poke, the parsing of console lines, the configuration, the PE header
  reader, the address generator, the Python tools and the unit tests.

## 6. Plan

Done: the core (`Queues` to `WulfServer`, `PlayerLifecycle`), `DevEngine`,
`Boot`, `Logger` with `LogFile`, `WorldRelay`; the bytes of a client (`TcpStream`
with `FrameDelivery`, `UdpRouting`, `ActionInput`, put together in `Wire`); the
proofs of section 4.

Left, in the order in which it would pay:

1. An abstract specification of the dev engine (a line is answered once, in
   turn, with what its own call returned) and its refinement.
2. An abstract specification of what a client sees of the world, refined by
   `WorldRelay` with `ViewInv`.
3. The numbers of a snapshot: quantization and scaling as functions on
   fixed-point values, against their rounding bounds.
4. `Start` and `Stop` of the runtime, should production ever use `Stop`.
