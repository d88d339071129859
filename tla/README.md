# Polyminis game server in TLA+

The game server of Polyminis lets players fly between planets, take biomass out
of the species that live there, deploy species of their own for biomass, and
watch simulations of their creatures. It keeps sessions in memory and everything
else in two other programs, which it calls over HTTP: the *Almanac*, which
persists users, species and rules, and a *simulation server*. These modules
specify what it does between those three, check it with TLC on small instances,
and prove the main results with TLAPS for all.

The server's own code is `src/src` (about 3,400 lines); everything else in the
repository is third-party code and build files. Of that, the part of websocketpp
that decides when and in what order the server's handlers are called is
specified as well.

## 1. Inventory

| Component | Source (`src/src/`) | State it keeps | Operations |
|---|---|---|---|
| HTTP client | `Core/HttpClient.cpp` | none | one blocking `Request`, no timeout, no retry |
| Websocket server | `Core/Server.cpp`, `Core/Server.h` | `mConnections`: a `SessionData` per connection | open, close, message, `STOP_LISTENING` |
| Process | `Main.cpp` | the services | start, end by an exception |
| User service | `Game/User` | - (writes the session) | log in |
| Space exploration | `Game/SpaceExploration/SpaceExplorationService.cpp` | the planet manager | move, warp, warp cost, save position |
| Planets | `Planet.cpp`, `PlanetManager.cpp` | planets, their species | load, swap species, visible planets |
| Orbital interactions | `OrbitalInteractionsService.cpp` | - | extract, edit, deploy |
| Game rules | `Game/GameRules.cpp` | numbers, curves, tables of splices and traits | evaluate, load, upload, save, translation tables |
| Admin service | `Game/Admin` | - | upload, save and reload the rules |
| Creature observation | `Game/CreatureObservation` | `mConnections`: epoch and step per simulation | go to epoch, poll, statistics |
| Inventory | `Game/Inventory` | - (slots are on record) | sample, research, new species, update, delete |
| Utilities | `Game/GameUtils.cpp`, `Core/JsonHelpers.cpp` | - | the requests several services share |
| Websocket connection | `thirdparty/websocketpp`: `impl/connection_impl.hpp`, `transport/asio` | state, send queue, timers | handshakes, frames of a read, writes, termination |
| Frame processor | `thirdparty/websocketpp`: `processors/hybi13.hpp`, `frame.hpp` | headers, the messages being read | consume bytes, give out a message |
| Species catalogue, space map | `Game/SpeciesCatalogue`, `SpaceMap.cpp` | - | not built, or not used |

**How they interact.** One thread runs the event loop. A message is dispatched to
a service, whose handler gets the sender's `SessionData` by reference, makes its
requests one after the other, and returns the reply; no other handler runs in
between. So the server has no data race, but a command is a *sequence* of
requests with no transaction around it, several sessions may belong to one user,
and the Almanac's records and the session's copies can part. Below the server,
websocketpp makes messages of bytes, calls the open, message and close handlers,
and queues the replies behind one write at a time; handlers, timers and
completed reads and writes take turns on the same loop. Beside it, Chronos
advances the epochs whenever it likes.

**What is hard.**

- *Failure.* `HttpClient::Request` turns a refused connection into an empty
  object, and an HTTP error or an answer that is not JSON into one without a
  `Response`; callers take either for an answer full of zeros, or for success. A
  connection that breaks later throws `boost::system::system_error`, which
  nothing below `main` catches: the process ends in the middle of the command,
  with the request applied or not.
- *Ordering.* A warp saves the position and then the payment; a deployment
  dilutes the species one by one, pays, and then inserts the new one; an
  extraction changes the species and then credits the player.
- *Sharing.* The whole balance is written from the session each time, so the last
  of several sessions wins.
- *Stale state.* The planet in memory and its epoch, the inventory a client
  holds, the default traits, the position in a run; a timer that has expired
  before it is cancelled.
- *Pieces.* A read ends anywhere, in a header or in the middle of a character, and
  may bring frames that come after a close frame.
- *Numbers.* A curve at its end, amounts that nothing but the balance limits,
  members that are not initialised, planets and epochs that a message may name
  freely.

**What makes it right**, by component: balances are neither overdrawn nor minted
and a failure costs at most the command it interrupts (sessions, warps, orbital
interactions); shares are proportions of a planet and the copy in memory is the
record (planets); a curve is evaluated by linear interpolation (rules); what is
saved comes back, and a species has one translation (rules, admin); the
inventory shown is the one on record and research takes its time (inventory); a
player is sent the steps of the run he asked for, in order, each once
(observation); every command ends (all). For a connection: the handlers are
called as `Server.cpp` assumes, what is sent arrives in order and before a close
frame, and no connection stays half open; for the frame processor: the messages
are those of the frames, whatever pieces they come in.

## 2. Modules

```
HttpClient -- Almanac -- PlanetManager -- Audit -- WSServer --+-- UserService
   |                                                          +-- SpaceExplorationService
   |                                                          +-- OrbitalInteractionsService
   |                          Account <== refined by == GameServer (all three)
   +-- SimulationServer -- CreatureObservationService -- CreatureObservation
   +-- GameRules -- TranslationTables
   +-- Chronos -- PlanetDirectory -- InventoryService -- SeedDeployment -- Galaxy
                              ConnectionLife <== implemented by == Connection
CurveEval                     Hybi13
```

A line means EXTENDS. The actions of a service are actions of the whole server;
`Init`, `Next`, the specifications and the properties are in `GameServer`,
`CreatureObservation`, `GameRules`, `TranslationTables`, `Galaxy`, `CurveEval`,
`Connection` and `Hybi13`. `MC...` modules give the constants their values.
Theorems are in modules named after those they are about, `..._proofs`, and what
several of them need of sums and of induction in `FiniteSums`.

- **HttpClient**: `Request(o)` is a request with outcome `o`: `answered`;
  `refused` (connecting fails, lines 47-56, or the server turns it down),
  `garbled` (applied, but the answer cannot be parsed, lines 80-86); `unsent` or
  `unanswered` (the connection breaks before or after the server applied it).
  `refused` and `garbled` look alike to a caller (`ReadsEmpty`). The counters
  `refusals`, of both, and `failures` bound a behaviour and are what some
  properties are relative to; a *refusal* below is either of the two.
- **Almanac** (external): one operator per kind of request the services make, on
  the balances, positions and species shares. A percentage may be absent, or a
  stored `Null`; whether the Almanac stores or drops a null it is sent is left
  open (`NullPuts`).
- **PlanetManager**: the planets in memory and their species.
- **Audit**: history variables. `granted`, `planted` and `flown` are what the
  Almanac or a session was given, the credit of a deployment of less than nothing
  included; an account is `sound` as long as no two live sessions shared it and
  no write for it was refused; `outsized` are the planets to which somebody
  deployed less than nothing or more than a whole planet.
- **WSServer**: sessions, the event loop, the end of the process. A handler is
  cut at its requests: `phase` is the request it makes next and `job` holds the
  local variables that live across it. Handler code between two requests runs in
  the action of the request before it. While `phase # "idle"` no handler starts.
- **UserService**, **SpaceExplorationService**, **OrbitalInteractionsService**:
  one action for each request of each command. `ExtractPut` sends the null the
  code sends, not the percentage it computed. Amounts are integers of either
  sign. `CalcWarpCost` is CALC_WARP_COST where it does more than read: at exactly
  `MaxWarpDistance` the reply cannot be made and the process ends.
- **GameServer**: their composition. `Lifecycle` is the event loop by itself,
  `Command` the start of a handler, `HandlerStep` its continuation.
- **Account**: what an account promises its holder, without sessions or requests:
  a ledger that moves by whole grants and charges while it is *kept*, and that,
  once it lapsed, may drift but never below zero or above what was put in.
- **CurveEval**: `GenericEval` and `LERP`, one action per turn of the loop, in
  exact fractions.
- **SimulationServer** (external) and **CreatureObservationService**: simulations
  with runs that load and produce steps on their own, and the handlers that
  start them, poll them, and retry. `asked` and `sent` are history.
- **GameRules**: the rules in memory and on record by *field*, each value being
  the number of the upload it came from; `LoadFromJsonObj` overwrites only the
  fields that are there, one that is an empty array with `Empty`;
  `SerializeRules` leaves the tables out. Whether a POST drops the fields it does
  not have is left open (`RecordModes`). A default trait is represented by the
  table it was copied from. `saved` and `emptied` are history.
- **TranslationTables**: the tables behind `GameRules`. `nulls` are the names that
  lookups with `operator[]` have left in `TraitData`, `defaults` the copies in
  `DefaultTraits`; `LoadTables` follows each step of `GameRules`, and
  `CreateTranslationTable` is the reading half of DEPLOY and EDIT_IN_PLANET.
- **Chronos** (external): the epoch counter, and the species on record under the
  planet-epochs; `Key` runs the two numbers together digit by digit, as the code
  does. `Advance` starts an epoch with any of the species of the one before.
- **PlanetDirectory**: the start, which loads the planets one by one, each with
  its epoch; the sessions and the inventories they were shown. `astray` is
  history: the planets into which another epoch was listed, or whose records
  changed under another key than theirs.
- **InventoryService**: the seven commands, cut at their requests. An entry is a
  seed with the pointer to its individuals, or research with its two epochs.
- **SeedDeployment**: DEPLOY, EXTRACT and EDIT_IN_PLANET as far as they read
  individuals, write records of species and swap the planet, each under the
  planet, the epoch and the pointer that the message has: any of `Named` and
  `SentPointers`, whatever the client was shown. The same handlers'
  shares and balances are in `OrbitalInteractionsService`; the two views have
  only the listing of a planet's species in common.
- **Galaxy**: their composition with Chronos.
- **ConnectionLife**: what the server takes for granted of the library: at most one
  opening and one closing of a connection, messages only in between.
- **Connection**: one connection of the vendored library. `pending` holds the
  asynchronous operations in flight, whose completion the loop may handle in any
  order; `phase = "frames"` is the loop over a read inside `handle_read_frame`,
  one action per frame. A timer is `armed` until the loop collects its expiry,
  then `due` until its handler runs, and cancelling reaches only the first. A
  frame is told apart by what is done with it (`badclose` is a close frame whose
  code or reason makes no sense, `garbage` one the processor refuses).
- **Hybi13**: the processor that finds those frames, byte by byte: one action per
  iteration of the loop in `consume`, and `Read` for the next piece of the stream.
  Each frame has its own key, and its length is coded in 7 bits or in 16. `Meaning`
  says, without bytes or states, what the frames stand for. The code of the server
  is given its results as frames in `Connection`. Exclusive or is a constant,
  `ByteXor`, of which the specification assumes that doing it twice undoes it; the
  run gives it the one of `Bitwise`.

Definitions called *a wrong variant* stand next to the one they distort, such as
`CanWarpOffByOne` next to `CanWarp`. Nothing uses them; each shows, when it is
put in the place of its neighbour, that a property is about that definition and
would notice a plausible mistake in the code.

## 3. Runs

| Run | Instance | Shows |
|---|---|---|
| `shared` | 1 user, 2 sessions, 2 commands, deployments of -1 and 3, 1 refusal, 2 failures | `TypeOK`, `Solvent`, `WriteThrough`, `NoMint`, `OneCommandAtRisk`, `RefinesAccount` |
| `planets` | 2 species, nulls, yields that are not numbers, amounts below zero and above the whole, 2 commands | `PopulationBounded`, `SharesAreProportions`, `CacheFaithful`, `ExtinctionIsEarned`, `HandlerCompletes` |
| `extract_finding` | 2 species, amounts of 1 to 4 | `ExtractUpdatesProportion` fails |
| `curve` | keyframe vectors of length 0, 1, 2 and 4, `Unit = 4` | `EnclosesBelowOne`, `EvaluatesCurve` |
| `curve_finding` | the same | `Encloses` fails at `t = 1` |
| `observe` | 2 players, 2 simulations, 2 runs of 2 steps, polls of 1 | `TypeOK`, `InOrder`, `AsAsked`, `GapsAreRefusals`, `NothingSkipped`, `ObservationCompletes`, `KeepsUp` |
| `rules` | 2 uploads of any fields, any arrays empty, 2 splices, 3 traits, 2 refusals, 2 failures | `SavedRulesComeBack`, `UninitialisedNeedsRefusal`, `OneTranslation` |
| `galaxy` | planets 1 and 11, 2 epochs, 2 sessions of a player or of guests, messages that name 5 planet-epochs, 2 commands, 1 refusal, 1 failure | `InventoryInSync`, `PlanetOfItsEpoch`, `ResearchTakesItsTime`, `RecordsApart` |
| `galaxy_finding` | 1 planet, 1 session, 3 commands | `SeedPointsToIndividuals` fails |
| `connection` | a request and 4 frames, 3 unread at a time | `TypeOK`, `WireInOrder`, `CloseLosesNothing`, `StateAdvances`, `NoAbruptDrop`, `ImplementsLife`, `ClosesInTheEnd`, `WritesCatchUp` |
| `framing` | streams of up to 3 frames out of 13 that are legal in themselves and 7 that are not, in any pieces, messages of up to 3 bytes | `TypeOK`, `MessagesOfTheFrames`, `NothingHeldBack`, `HalfCharactersAreFragments` |
| `framing_finding` | the same | `TextEndsOnACharacter` fails |

**Bounds.** `MaxRefusals` and `MaxFailures` bound the failing requests of a
behaviour, `MaxOps` the commands that are paid, `MaxRuns` the runs, `MaxUploads`
the uploads. Two commands are enough for one session to pay from a balance that
the other has changed on record since, and so to undo its payment; one failure
is enough to stop any command at any of its requests, and two to stop both of
them, the server starting again after each.
Two sessions sharing an account is the smallest number at which the last writer
wins. The amounts are chosen so that each guard is met on both sides and
exactly: a fare of 2 and of 3 against balances of 1 to 4, an extraction of all
of a species, of less than one percent less, of nothing and of less than
nothing; deployments of less than nothing, of half a planet, of a whole one and
of more. The edge is as far from near as one can warp. In `observe` a run
is longer than a poll, there are two retries, and the number of one simulation
is also an epoch, since the code puts the one where the other belongs. The
constants of the code are 10 steps per poll, 10 retries and 100 steps per run.

In `galaxy` planet 1 and planet 11 have keys of which one is a prefix of the
other's, and planet 1 in epoch 11 has that of planet 11 in epoch 1. Messages name
these, planet 1 in its two epochs, and a planet that does not exist. Two commands
are enough for a slot to be written by one session and shown to another, for a
deployment or an extraction to meet a planet whose epoch has passed, and for one
that names another epoch to be followed by one that does not. In `connection` five messages of the client are a request and,
after it, a frame before, beside and after a close frame, with one left for a
second read; three unread at once are enough for a frame, a close frame and
another frame in one read. Three frames are a message in two fragments and a
control frame between them, and after a whole message a wrong frame; lengths of
0 to 2 bytes put every cut inside a header, a key, a character of two bytes or of
three, and an empty payload; a byte that no text has is among them. `MaxMessageSize` is 32,000,000 in the configuration. No frame of the run
is so long that it needs 16 bits of length; one that has them all the same is
refused. Those that need them are covered by the proofs.

**Where the system may stop.** `planets` disables the deadlock check: once a null
share is stored the server cannot start again (see below), and this is a final
state of the model. So do `galaxy` and `galaxy_finding`, where the commands and
the epochs run out, `connection`, where the client has left and the connection is
closed, or the loop has ended, and `framing` and `framing_finding`, where a stream
ends. All other passing runs check for deadlock.

**Fairness.** The `FairSpec`s of `GameServer` and `CreatureObservation` assume
weak fairness of the running handler's next step, and nothing else. The loop is
sequential and the calls are synchronous, so a handler goes on whenever its
connection is answered, refused, or breaks. The one thing this excludes is a
connection that stays open for ever without an answer; the code has no timeout
against it. Clients are not assumed to do anything. `KeepsUp` needs more, and
states it: that the simulation server goes on with the runs it accepted, that
the session stays on the run, and that the client goes on polling. `Connection`
assumes that the event loop runs the completed operations and the expired timers
it has (asio's loop does), and that time passes. It does not assume that a write
ever succeeds, since a client may stop reading, nor that a client sends
anything; `WritesCatchUp` states that it needs writes to complete. Both of its
liveness properties leave out the loop that an exception has ended, which takes
all connections with it.

## 4. What does not hold

1. *`extract_finding`.* EXTRACT computes the remaining percentage and sends
   `picojson::value()`, a null, instead (`OrbitalInteractionsService.cpp:74`).
   The comment at line 42 says that it updates the proportion. Depending on the
   Almanac the species keeps its share while the player is paid, or it gets a
   null, which the next listing cannot be read with: the handler throws, and so
   does every later start.
2. *`curve_finding`.* At `t = 1` the walk ends behind the last slice and `LERP`
   divides 0 by 0. With a percentage of 1 (all of a species) the yield is not a
   number, and serializing the balance throws.
3. *`galaxy_finding`.* DEPLOY inserts a species without an `OriginalSpeciesName`
   (`OrbitalInteractionsService.cpp:185`). A seed sampled from it later has an
   empty name where the comment at `InventoryService.cpp:187` promises a pointer
   to individuals, so a species deployed from that seed has none. This assumes
   that the Almanac gives back what was posted.
4. *`framing_finding`.* `finalize_message` asks whether a text ends on a character
   by the opcode of the last frame (`hybi13.hpp:515`), which is a continuation
   where the message came in fragments, although the comment at line 514 says
   "ensure that text messages end on a valid UTF8 code point". Such a message is
   delivered. `HalfCharactersAreFragments` says how it must have come in, frame by
   frame, and that no other way lets one through.

Hazards that the models show without a run of their own are in `PROJECT.json`,
with a note; the main ones are these.

- Only the balance limits a deployment (`OrbitalInteractionsService.cpp:145`).
  One of less than nothing credits the player, raises the other species, against
  the comment at line 135 ("Substract Percentage from them"), and inserts a
  negative share; one of more than 100 units makes the others negative. The
  actions do all this: `NoMint`, `OneCommandAtRisk` and `RefinesAccount` count
  the credit as something the account was given, `PopulationBounded` and
  `SharesAreProportions` leave out the planets in `outsized`.
- A message may name any epoch of a planet, and an interaction then leaves the
  species of that one in the planet; and keys run together (planet 1 in epoch
  11, planet 11 in epoch 1), so that records are shared. `PlanetOfItsEpoch` says
  that a planet shows other species than its own in these two cases only, until
  it is next listed under its own epoch, and `RecordsApart` which commands and
  epochs can reach the records of another.
- `SAVE_CURRENT_TO_DB` does not write `SpliceData`, `TraitData` and
  `DefaultTraits`, which `LoadFromJsonObj` reads: a table that is uploaded and
  saved is replaced by the older one at the next load. `SavedRulesComeBack` is
  about the numbers and the curves.
- An empty array clears a curve, and the empty curve is evaluated, and saved,
  like any other (`UninitialisedNeedsRefusal` names the two causes).
- CALC_WARP_COST at exactly `MaxWarpDistance` ends the process.
- A text reply that is not UTF-8 is refused by `prepare_data_frame`
  (`connection_impl.hpp:134`), also while the connection is open; `send` throws
  an exception that the `catch` at `Server.cpp:113` does not name, and the loop
  ends (`thrown` in `Connection`).
- Populations above the whole when a dilution is refused, an extraction of 0
  percent deleting a species that could not be read, SIM_DONE while a run is
  still running, and a slot under research overwritten by an update.

An opened connection may be terminated by the timer of its handshake when that
has expired just before (`NoAbruptDrop`).

## 5. Proofs

| Module | Theorems | Inductive invariant |
|---|---|---|
| `GameServer_proofs`, the planets | `TypeCorrect`, `CopyStaysFaithful`, `ExtinctionIsAlwaysEarned`, `SharesStayProportions`, `PopulationStaysBounded` | `TypeInv`; `CacheInv`, `ExtractInv`, `ProportionInv`, `PopulationInv` |
| `GameServer_proofs`, the accounts | `NeverOverdrawn`, `NeverMinted`, `AlwaysWrittenThrough`, `FailuresCostOneCommand`, `ImplementsAccount` | `AccountInv`, `RiskInv` |
| `CurveEval_proofs` | `WalkEncloses`, `CurveIsEvaluated` | the loop's: slice `i` begins at `t0`, and `t` is not before it |
| `GameRules_proofs` | `SavedRulesAlwaysComeBack`, `GarbageHasACause`, `TablesKeepTheRules`, `SplicesHaveOneTranslation` | `RulesInv`, `TablesInv` |
| `CreatureObservation_proofs` | `ObservationTypeCorrect`, `StreamsInOrder`, `StreamsAsAsked`, `NothingEverSkipped`, `GapsAlwaysHaveACause` | `ObservationInv`, `GapsInv` |
| `Galaxy_proofs` | `GalaxyTypeCorrect`, `RecordsStayApart`, `InventoriesStayInSync`, `ResearchAlwaysTakesItsTime`, `PlanetsStayInTheirEpoch` | `GalaxyInv`, `ListingOK` |
| `Connection_proofs` | `CallsAreInOrder`, `StateOnlyAdvances`, `NeverDroppedAbruptly`, `ConnectionTypeCorrect`, `WireStaysInOrder`, `NothingLostAtClose` | `LifeInv`, `ReadInv`, `WriteInv`, `OrderInv` |
| `Hybi13_proofs` | `FramingTypeCorrect`, `MessagesAreThoseOfTheFrames`, `NothingIsHeldBack`, `HalfCharactersComeInFragments` | `FramingInv` |
| `FiniteSums` | lemmas only | - |

**The accounts.** None of the three properties is inductive. `NoMint` needs
`Solvent`'s lower bound (a session that logs in takes the balance on record),
`Solvent` needs that a command which passed its guard can still pay when it
comes to its payment (`Affordable`; true because nothing else spends that
session's balance while the handler runs), and `WriteThrough` needs that a sound
account has one session (`SoleSession`). `AccountInv` is their conjunction. The
many actions touch the accounts in four ways only, `Quiet`, `LoggedIn`,
`Reseated` and `SavedBy`; `NextEffect` proves that, action by action, and the
invariant and the refinement are then proved for those four. For
`OneCommandAtRisk` the books of an account are off by `Surplus`, of which `Due`
is what the running command is about to settle; the rest, `Unsettled`, moves
only when a connection breaks, and then by a fare or a deployment (`RiskStep`,
`RiskInv`).

**The planets.** `TypeInv` adds to `TypeOK` what each phase knows of its job. A
step changes the records of species in the few ways of `ShareEffect`, the memory
in those of `PlanetEffect`, and `CacheInv` and `ExtractInv` hold over them: the
only planet whose copy may differ from the record is the one the running handler
is at, and the remainder an extraction deletes by is that of the share it read.
`PopulationInv` looks inside a dilution: with every species still to be diluted
weighed by `Whole - amount`, and every other one by `Whole`, the `Weights` never
exceed the room that will be left, whence the new species fits when it is
inserted. Each dilution rounds down, so it is an inequality.

**The tables.** `TranslationTables` is `GameRules` with more state, so what is
proved of `GameRules` holds of it (`TablesKeepTheRules`). `TablesInv` says that
no trait that is defined has been left a null entry by a lookup, and
`MadeIsCurrent` that a table made since the last load is the one that would be
made now.

**Observation.** `ObservationInv` joins the position on record, the stream of a
player and the run that is loaded: while the session is served, step `i` sent
is step `i` of that run, or nothing where its request was refused. The order,
the run and the position follow. The gaps are counted by a sum over the
players; a step restarts streams, which closes gaps, or sends one element, which
opens one only with a refusal (`StreamEffect`).

**Galaxy.** `GalaxyInv` ties the inventory a session was shown to the record
(`SyncOK`, but for the session whose write is being read back), the running job
to its phase, and the research about to be written to the epoch in which it was
ordered. `ListingOK` says that a planet that is not `astray` shows the species on
record under its own epoch, where no request was refused: a write under the key
of another planet-epoch reaches its records only if the two keys are the same,
and that is one of the ways to go astray. `RecordsStayApart` says when keys can be
the same: the action that changed a record had its own planet and epoch, or an
epoch of another number of digits. It rests on two facts about decimal digits,
proved by strong induction over the numbers: two numbers with the same digits
are the same, and two concatenations whose second parts are equally long are
equal only part by part.

**The connection.** `LifeInv` says which handlers have been called in which
state; it follows from the six ways in which an action touches the state and the
calls (`LifeStep`), and gives `CallsAreInOrder`. `ReadInv` counts: messages
delivered, frames in the buffer and frames unread are together no more than were
sent, and only the first thing sent is a request. `WriteInv` says that until the
connection closes there is no close frame in the queue or on its way and no
closing timer, whence a write or a timer that ends an open connection must have
another cause. It needs `ReadInv` for the number of a reply. `OrderInv` is about
the `Output`, what is written followed by what is being written and what is
queued: until writing stops it is in order and a close frame can only be last; a
write moves the border between the three and leaves the output alone.

**The frame processor.** None of the properties of `Hybi13` says where in the
stream the processor is, so none is inductive. `FramingInv` does. There is a `k`
such that the messages of the first `k` frames are delivered and the processor
is in one of four stages of the next one: `AtHeader`, `AtExtended`, `AtPayload`
and `AtReady`. In each the chunk and what is unread are the bytes of the stream
from a place that is known to the byte (`At`), `header` and `extended` are the
bytes of that frame as far as they were read, and the message being made is the
`Part` of it that has come in, with its key turned and its text judged that far.
The proof has one lemma for each action. That a message grows by just the bytes
of its frame (`PayloadTaken`) needs that exclusive or undoes itself and that the
key is turned by as many bytes as were read. That a frame is refused when, and
only when, `AddFrame` refuses it needs that a verdict on two pieces of text is
the one on the whole (`DecodedConcat`), and that the header read says what the
frame is (`AcceptedIsHeaded`, `SizeRead`). `NothingIsHeldBack` follows since in
every stage in which the processor waits the next frame is not in yet, and only
one `k` is like that (`FramesIn`). `Wire`, `Meaning` and `Decoded` are recursive
functions; that they exist, with their types, is proved from `Recursion`.

**Sums and induction.** The library's induction theorems take an operator, which
the provers cannot instantiate. `FiniteSums` states induction over *sets*
instead: a set of natural numbers that contains a number whenever it contains
all below is all of `Nat` (`BySmallest`), and a family of subsets of a finite
set that grows by one element at a time reaches the whole (`ByOne`). From the
second it proves that `MapThenSumSet` computes the one function that a fold is
(`FoldExists`, `FoldUnique`), and how a total changes with one summand
(`TotalChanged`), with a factor (`TotalScaled`) and with the order of the
summands (`TotalMonotone`). From the first it proves that a recursion over
`0..N` has a function (`Recursion`), the step being given as a function too.

**Types.** `TypeOK` of `CurveEval` and of `GameRules` are conjuncts of the
invariants proved in `CurveEval_proofs` and `GameRules_proofs`; no run repeats
them, nor that of `Galaxy`.

**Assumptions.** On the constants, those named `...Assumption`: sets of
players, places, species and sessions of any size, any fares, any non-negative
yields, deployments of any amounts of either sign, any planets and epochs in a
message, any garbage in an uninitialised balance, any number
of refusals, failures, commands and uploads, any number of frames. For `Hybi13`
the streams are any set of sequences of frames, in which a length fits the bits
it is coded in, the limit of a message is any number, and exclusive or is any
operation on bytes that undoes itself. TLC evaluates each of the assumptions in
a run. Four theorems have hypotheses beside, because without them they would be
false or would not mean anything; the instance of the run that checks the
property satisfies them:

- `SharesStayProportions` and `PopulationStaysBounded` assume `WithinAPlanet`: the
  planets start with proportions. The second assumes also that no planet is more
  than full at the beginning, and that the species are finitely many. Of
  deployments they assume nothing; since the code limits one by the balance only,
  and `GetBiomassToPercentage` (`GameRules.cpp:45`) has no bounds, the properties
  say nothing of a planet once it is in `outsized`.
- `FailuresCostOneCommand` assumes `LargestExist`: there is a largest fare and a
  largest deployment, which is what the property counts in.
- `GapsAlwaysHaveACause` assumes finitely many sessions, over which it sums.

**Only model-checked.** The findings, and everything under fairness:
`HandlerCompletes`, `ObservationCompletes`, `KeepsUp`, `ClosesInTheEnd`,
`WritesCatchUp`. Liveness and ENABLED are out of the prover's reach here.

## 6. Abstractions

- Biomass and percentages are integers in one unit, `Whole` being 100 % and the
  biomass that makes it; `Diluted` rounds down. `CurveEval` uses exact fractions.
  Floating-point rounding is not modelled; NaN is, where the code can produce it.
- Fares and yields are parameters of `GameServer`, for all values of which the
  proofs hold. Uploads of rules that change them at run time are in `GameRules`.
- In `GameServer` requests name a planet's current epoch, and a planet-epoch is an
  atom; epochs, keys and individuals are in `Galaxy`, splices and traits in
  `TranslationTables`. Instincts are in no state.
- In `Galaxy` individuals are there or not. INIT and ATTEMPT_MOVE only read the
  planets, and are left out: a message names any of the planet-epochs in `Named`
  and any pointer of `SentPointers`, whether its sender was shown them or not. The Almanac lists what it has; whether it creates an entry that an
  UPDATE_SPECIES names and does not find is left open. `Planet::ToJson` puts the
  temperature in the place of the pH; neither is in a state.
- In `TranslationTables` a species has one splice; a table of several is the union.
- In `Connection` the transport's shutdown ends at once, as it does without TLS;
  the server never closes a connection by itself, pings nobody and never pauses.
  A frame of several reads is one that arrives with the last of them. The
  handlers of the server are calls that may send one reply, which may throw.
- In `Hybi13` the UTF-8 decoder is whole, its states named by the bytes that may
  come next; no frame has a 64-bit length; compression is off, as it is in the
  server's configuration.
- A field of a message that has the wrong type ends the process between two
  requests, as does a reply that `send` refuses. `GameRules` (`Stop`) and
  `Connection` (`thrown`) have a step for it, in `GameServer` a second
  STOP_LISTENING has the same effect; in `Galaxy` and `CreatureObservation` the
  process ends where a connection breaks.
- The Almanac's PUT of a share that is not there has no effect. The GET of the
  genetic payload in DEPLOY is part of `DeployPay`: it changes nothing, and where
  it breaks nothing was paid.
- A start in which several requests are refused counts as one refusal.
- The listing of species at the start of a simulation run, the environment and
  the statistics are requests that change nothing here. The simulation server
  gives out fresh numbers; it does not restart.
- A guest is a session without a user; the Almanac is assumed to have no record
  for the empty name.

**Not modelled.** Of the server: the catalogue and the map (not used by the
program), distances between planets (pure), instinct weights (pure), the parsing
and formatting of messages, the command line. Of the vendored code, which is most
of the repository: beast-http, of which the server uses a blocking read and a
blocking write of one HTTP message, whose outcomes are those of `HttpClient`,
while its websocket streams and compression, the largest part of it, are never
called; picojson; of websocketpp the HTTP parser, SHA-1, base64 and MD5, logging,
the older protocol versions, TLS, the client role, and the transports that are
not built. Modelling code that never runs would say nothing about this server.

## 7. Plan

1. An abstract specification of observation (a run delivered in order to one
   reader) that `CreatureObservation` implements.
2. Frames with a length of 64 bits in `Hybi13`.
3. One module for the two views of DEPLOY, if it stays small enough to check.
