# PDG Party, specified

TLA+ models of PDG Party (a living-room study game for AFH 1), TLC runs that
check them on small instances, and TLAPS proofs of the properties that matter
most for every value of the constants. `PROJECT.json` maps each definition to
the lines it stands for and lists the runs, the mutants that each property
catches, the hazards of the code and the theorems.

## The system

| Part | Code | State | Operations | Talks to |
| --- | --- | --- | --- | --- |
| Party game | `web/js/game.js`, `web/js/modes/*` | roster, flights, phase, one timer slot, answers, scores | join, drop, act, start, next, timers | the TV page drives it; the relay brings joins, acts and drops |
| LAN relay | `server.py` | rooms, links, one thread per link, `ROOMS_LOCK`, a grace timer per room | hello, relay frames, drop, expire | TV and phones over WebSocket |
| Hosted relay | `relay/src/index.ts` | one Durable Object per room: sockets and attachments, hello timers, grace and alarm in storage | fetch, hello, message, close, alarm | TV and phones; the platform restarts it |
| Link client, screens | `web/js/ws.js`, `player.js`, `host.js` | a socket, a reconnect timer, the code on screen, the roster | mint, look up, connect, retry, offline/online, leave, reload | a relay and its mint, the game |
| Progress and sync | `web/js/account.js`, `sr.js`, `progress-merge.js`, `web/api/lib/actions/progress.js` | localStorage, a debounce timer, the account's row | answer, sync, merge, log in and out | browser, API, brick |
| Pocket brick | `firmware/pocket-pdg/src` | RAM, microSD files, a Wi-Fi sync | answer, save, sync, boot; wake slots | the device API |
| Billing | `web/api/lib/actions/billing.js`, parts of `auth.js`, `admin.js` | user row, `stripe_events`, redemptions, codes | checkout, confirm, webhook, deletions | Stripe, Neon |
| Accounts | `web/api/lib/actions/auth.js`, `session.js`, `device.js`, `db.js` | users, sessions, mail tokens, progress rows, rate limits | register, verify, log in, reset, rename, delete, seed the admin | browser, brick, Neon |
| Quiet Hours desk | `web/js/host.js` | a drill, a mock exam, a game and the study session they share | start, answer, stop, host, leave, log in and out | the progress record, the game, the account's page |
| Tools, data, shell | `tools/`, `web/data`, `sw.js`, `audio.js`, `qrcode.js` | none shared | build and serve | none |

Where it is hard:

* **The game** is one event loop, but its events (taps of phones, joins, drops,
  host buttons, one timer slot shared by four purposes) come in any order, and
  ids change with each reconnection. Correct means that timers fit phases, that
  every item asked is answered, that flights keep one captain, and that
  spectators never count.
* **The relays** lose links at any moment, hold phones for twelve seconds when
  the TV goes, and must not do it twice or forever. The LAN one has a thread
  per link and sends outside its lock; the hosted one has close events that
  come late, an alarm and restarts.
* **Progress** is merged with no lock: handlers are three queries that
  interleave, requests are lost, repeated and outlive their callers.
* **The brick** can lose power between any two card operations, and each of
  these can fail.
* **Billing** hears of Stripe's changes late, repeatedly and out of order, and
  each handler may die between two queries.
* **The link** is one object whose socket is replaced under it, while the relay
  may still count the old socket and the TV may already have asked for another
  code. The TV is told of joins and leaves only while it hears them.
* **The desk** is one page whose screens, game, drill, mock and party each have
  their own state and share one study session; every handler, the game's timers
  and the account's page end in the same `render()`, which may close it.
* **Accounts** use no transaction: requests interleave between any two SQL
  statements and only two unique indexes stand behind their checks.

## The modules

| Module | Models | Proofs |
| --- | --- | --- |
| `QuizNight` | what any game promises a room (abstract) | |
| `PartyGame` | the game with all its modes; implements `QuizNight` | `PartyGame_proof` |
| `RoomCode` | what a room code promises (abstract) | |
| `LanRelay` | `server.py`, one room; implements `RoomCode` | `LanRelay_proof` |
| `PartyRoom` | the Durable Object, one room; implements `RoomCode` | `PartyRoom_proof` |
| `ProgressMerge` | snapshots and their merge (pure) | `ProgressSync_proof` |
| `ProgressSync` | browsers, brick, API handlers and row; extends `ProgressMerge` | `ProgressSync_proof` |
| `PocketStore` | the brick's file, its replacement, power and sync | `ProgressSync_proof` |
| `Billing` | one user, the checkouts, the webhook, one comp, two deletions | `Billing_proof` |
| `PartySession` | the TV's page, the phones' pages, the link, the rooms and the mint together | `PartySession_proof` |
| `SoloDesk` | the big screen's page: drills, mock, games, party, demo and their session | `SoloDesk_proof` |
| `Accounts` | the requests of the accounts service, statement by statement | `Accounts_proof` |

`MC*` modules extend a model, name its model values and define symmetry; each
`.cfg` is one run. `ProgressSync_proof` extends both `ProgressSync` and
`PocketStore`, the card under the brick's sync; so that they can stand side by side,
`PocketStore` names its specification `PocketSpec`, with `PocketInit`, `PocketNext`
and `PocketTypeOK`. The two are not composed: each theorem is about one of them.
Definitions marked `mutant` are not part of a specification:
they are the plausible bug that a property is known to catch.

**PartyGame.** One action is one event handler of the TV page, timers and
redraw-independent effects included. `seat` orders `game.players`; `here` is
`connected`. A score counts units: speed, wager and combo multiply the unit a hit
pays, a miss may cost a unit (the wager of a board, a hot wash, a lightning prompt or a
decoy vote) and half a ranking pays or not, so a score may be negative. `start()` looks at no phase:
a late reply to a mint puts the lobby over a running game (host.js:1149) and its
buttons start another one. `Start` and `StartEmpty` are enabled in every phase;
`current` is the mode that dealt the item on show, which a start without items
leaves behind under another mode, and `ScoreTeamsThrows` is what such a start may
lead to. The view, the host's lines and the deck's contents are left out; every item
has the same options. In `QuizNight` a start may come at any time, and one that finds
no items spoils the game it came over.

**LanRelay.** A step is what a thread does under `ROOMS_LOCK`, or one send
outside it. `thread` is where `accept_ws` / `client_thread` is for a link; a
screen that reconnects is a new link. `token`, `armed` and `fired` follow
`host_token` and the `threading.Timer` of `_expire_host`, of which several may
have fired and wait for the lock. A timer carries the token the code gives it and,
as a history, the absence of the TV in which it was set (`absence`, `since`):
`Expire` looks at the token only, `GraceIsWhole` at the absence.

**PartyRoom.** The object awaits only storage, during which the platform
delivers it nothing, so an event handler is a step. A closed socket is not
counted any more but its frames and its close event are still to come. A
restart closes every socket and forgets the hello timers, not the storage.

**ProgressSync.** A PUT is read, write and re-read, each a step; its caller may
be gone. `localSnapshot`, `applySnapshot`, the 1200 ms timer and the boot
sequence are actions of a browser; `pullPushProgress` is the brick's, with the
reload it begins with and a save after each merge. `saved` is the brick's file: each
save leaves the new progress there, the old, or nothing. `given` only records what
people answered, for the properties.

**PocketStore.** `sdReplace` is one step per card operation (remove the tmp,
write, close, remove the file, rename); each may fail and power may go between
any two. A short write is noticed and ends the save; a flush refused at the close is
not, so a torn tmp is renamed. `refused` records which operations the card has
refused since power on, `safe` what boot found or the last save left; both are
histories. Progress is a set of answers and a merge a union; how equal cards are
chosen is `ProgressMerge`'s subject.

**Billing.** Queries and Stripe calls are separate steps. Stripe (external) keeps
`session` and `sub`, announces each change in `due` until it is acknowledged, and
answers a call with the present status. `call` holds the webhook and confirm
requests. `RecordRedemption` is one step for its two queries. `noted` are the
redemptions whose plan a deletion of the comp could not cancel, kept even when that
call is killed before its answer lists them. Status is reduced to running (trialing,
active, past due, unpaid) and canceled.

**PartySession.** `dial` is the page's side of the link (`closed`, the timer,
the socket), `sock` the relay's side and the wire to the TV. A path that dies is
noticed by the page first (`Cut`) and by the relay later (`WebSocketClose`).
Frames to the relay and to a phone arrive at once; those to the TV wait, since
what it believes of the room is the subject. `missed` only records the sockets
that came or went while no TV could hear of it. Seats, hello timers and where the
grace is stored are `PartyRoom`'s, rounds are `PartyGame`'s: here a phone shows
the game of now, an old one or none. Modelled as the code is: an answer to a mint
looks only at `ui.party`, Back keeps the players, the TV has no handler for
`hostgone`, `doJoin` leaves `linked` as it was.

**SoloDesk.** One action per handler, each with the `render()` it ends in.
`Shown` is the page on show and `Buttons` what it offers, as `bind()` finds
handlers by id: an action is enabled exactly where its button is. `book` is
`ui.session` with `ui.attempts`. An answer is a number, a game's round one
answer. `stray` are answers given while no session was open, `cut` says that the
redraw of a results page closed the session on the desk, `covered` that a code
came for a game that had begun without it; these three are histories.

**Accounts.** A request (`req[r]`) is at the SQL statement it does next; others
run in between and it may die before any. Rows of a table are reduced to which
accounts have one. `Clash` is the two unique indexes. `Tomb[i]` is the address
`deleted+<id>@users.invalid` that `wipeUser` writes on the row of account i: an
address like any other, which somebody else may have registered (then the UPDATE
fails and the account stays) or may want later (then the deleted row has it).
`late` records the accounts that a request wrote to which had read them before they
were wiped.

## The runs

Deadlock is not checked where people may stop, which is everywhere but on the
brick. `pocket_store` checks it: a brick always can do something.

| Run | Asks | Bounds |
| --- | --- | --- |
| `party_game` | OneCaptain, NoSelfVote, StealOrder, SpectatorsOnlyWatch | 4 phones, 3 scoring seats, 2 flights, 2 options, 1 item, 1 game of each mode, a break after every prompt |
| `party_live` | TimerMatchesPhase, StealOrder, QuizNightKept, LightningRunsItself | 2 phones, 2 items, 2 games, the second started in any phase of the first |
| `lan_relay` | GraceCoversPhones, GraceIsWhole, ToldInOrder, RoomCodeKept, NoPhoneStranded | 2 TV links, 2 phone links, 1 player seat |
| `party_room` | the same but NoPhoneStranded, which RoomCodeKept contains | 2 TV and 2 phone sockets, 1 playing and 1 watching seat |
| `progress_sync` | NothingInvented, LoneWriteKeeps, SyncKeepsSaved, SyncSettles | 1 browser, the brick, 2 PUTs in flight, 2 answers, 1 reload or brick sync |
| `progress_stale_reply` | *violated:* SyncMerges | 1 browser, 2 answers |
| `pocket_store` | OnlyFlushTears, FileKeepsSave, NothingDropped | 2 answers here, 1 elsewhere; any number of saves, syncs, faults and cuts |
| `billing` | CanceledIsTrue, PaidIsSeen, RevokedIsOver, DeletedPaysNothing | 2 checkouts, 2 calls, 2 events on the way, 1 confirm, 1 deletion, 1 failure |
| `solo_desk` | EveryAnswerKept, DeskHasASession | LAN and hosted pages, 2 answers, drills and mocks of 2, 1 mint at a time; any number of drills, games, parties and log-ins |
| `desk_results` | *violated:* BlockCardsCount | a LAN page, the same |
| `party_session` | RosterIsRoom, PhoneSeesGame, TvGetsItsRoomBack | 1 TV, 1 phone, 2 sockets each, 1 code, 1 mint at a time, 1 fault |
| `accounts` | OneLiveAccount, WipedForGood, TakenIsHeld | 2 accounts, 3 addresses, 2 callsigns, 2 requests at a time, any number of requests |

`party_game`, `progress_sync`, `solo_desk` and `party_session` also check their
module's `TypeOK`; that of the others is a theorem.

Why these are enough to meet the interesting cases:

* Four phones over three seats and two flights give a full flight of two, a
  spectator, and a captain who leaves a mate behind; a break after every prompt
  replaces every fifth. Two items and two games let a game follow another, or break
  into it at any of its phases, with its score, roster, flights and prompt left over
  (`party_live`); what needs more phones in a later game, spectators and captains, is
  proved for any number of both.
* Two links of each kind let an old TV and a new one overlap, with one phone to
  play and one past the cap. A link is not used twice, so `lan_relay` sees two
  absences of a TV, which is what a stale timer needs. Nothing bounds timers:
  they end with the links.
* Two PUTs in flight and two devices are what an overtaken handler needs; two
  answers make equal, weaker and stronger cards, `DayLength` 2 gives two
  answers on one day and on two. Badges are left empty in the run: the merge of
  unlocks is covered by the theorems about `ProgressMerge`.
* Two checkouts are what a second comp needs; two calls overtake each other, one
  kill leaves an event claimed. With two lost calls a paid plan can be missed:
  both its events are then claimed and unhandled, so the run allows one and the
  theorem speaks of the states up to the second.
* One phone and one TV with two sockets each let an old socket and a new one
  overlap on both sides, and one fault is a cut, a failed call, a reload or
  another desk on the code. With one code the TV meets its own ghost when it
  mints again; `TvGetsItsRoomBack` speaks of one code, so it needs no second.
* Two answers tell a session that was rolled up from one that was thrown away;
  everything that moves between screens is unbounded, so any tour of them is
  covered. Drills and mocks of two have a first, a last and a middle card.
* Two requests overlap in every order of statements; two accounts are a holder
  and a claimant of an address or a callsign, one of each the admin's. The other two
  addresses are the ones that wiping the accounts leaves: each is an ordinary address
  to the other account, and taken or not when the deletion comes to write it.

### Fairness

Safety is checked without it. `LightningRunsItself` and `QuizNightKept` assume only
that an armed timer fires (`WF(TimerStep)`), never that a phone or a host does
anything. The LAN relay's threads run and its timer fires (WF on `Serve`,
`SendHome`, `TimerFires`, `ExpireSome`): the OS schedules threads and the lock is
held briefly. The hosted room's alarm and close events are delivered (the platform
promises both). In `party_session` only the TV's side is fair: its calls return, its
frames are read, its backoff ends, and the relay answers its hello and notices its
dead sockets. Phones, other desks, faults and people owe nothing there: another desk
may keep a code for ever, and a welcomed TV that finds its code taken on its return
then dials for ever, since only a first hello asks for another code (host.js:259).
`TvGetsItsRoomBack` lets that TV off and says so. A browser's timer fires, a handler
that runs goes on or fails, and the brick's sync loop goes on. No run assumes that a
peer answers, that a network recovers or that a person returns.

### What the violations show

* **progress_stale_reply** (docs/SAAS.md:113, "Sync merges by taking the
  stronger card"): the reply of a sync replaces localStorage, answers given
  meanwhile included.
* **desk_results** (web/js/host.js:699, "Finish a session to build the rollup."):
  `render()` finalizes whatever session is open while the game shows its results
  (host.js:336). "Quiet Hours block" on that page opens a session and shows its
  first card, and its own redraw closes it with no answer in it.

### What the models show without a run

These follow from reachable states; no property is stated against them.

* Game: a flight whose last player has left is not in `teamIds`, so its miss on
  the clock opens no steal (web/js/modes/teams.js:95; README.md:37 promises one).
* Game: a start over a running game that finds no item leaves the prompt on show
  under another mode and deck; in teams its scoring may throw and stop the clock
  (game.js:190). The properties except what follows by `deck = 0`.
* LAN relay: the host is registered before its welcome is sent; when that send
  raises, no thread is left to drop it and the returning TV is refused for good
  (server.py:744; the comment at server.py:576).
* Brick: `sdReplace` removes the file before it renames the tmp, and nothing reads a
  left-over tmp: power that goes between the two leaves a boot without progress, and
  the next save removes the tmp that still held it (sd_store.cpp:60;
  firmware/pocket-pdg/README.md:93 says a failed sync does not delete the progress).
  The result of the close is not looked at, so a flush the card refuses puts a
  torn file in the place of a whole one (sd_store.cpp:55). A rename it refuses leaves
  the progress in RAM alone, and the reload a sync begins with keeps what RAM has only
  because there is no file to read.
* Billing: two checkouts with one comp leave one redemption, so deleting the comp
  ends one of the two plans (billing.js:177; docs/SAAS.md:94). Any event or confirm
  writes the plan it speaks of over the row (billing.js:152): the end of a first plan,
  heard after the second has begun, leaves the row canceled while the second runs.
* Party: after a mint that failed `ui.party` stays TRUE, so "try Host a party
  again" does nothing until Solo or Back; the
  answer of an abandoned mint may replace the code on screen; what the TV missed
  while it was away stays wrong on its roster; a reload mints a new code, although
  relay/README.md:53 says that a refresh can reclaim the room.
* Desk: the lobby's "3-minute brief" has the id of the account's demo button, so it
  begins a game and then ends the party (host.js:491, account.js:519); leaving a
  party at its reveal with a drill waiting counts that round twice; answers given
  on a drill while a code is minted belong to no session; a code that comes after
  its game has begun covers it with the lobby, from which another game may be started
  over it; a logged-out user's open session is rolled up for the next one; a resumed
  mock with no new answer is discarded.
* Accounts: a deletion whose tombstone somebody has registered fails at its last
  statement, the account's sessions, links and progress already gone; after a deletion
  its tombstone cannot be registered, though nobody has it (auth.js:246);
  a request in flight while its account is deleted may leave a session,
  a link, progress or a callsign on the deleted row (`late`); an admin's seed that
  loses the race for its callsign leaves no admin until the next cold start.

## The proofs

Every theorem is for every value of the constants: any number of phones, links,
sockets, items, checkouts or calls and any bound. The assumptions are the ASSUMEs of
the models (finite sets where cardinalities are taken, disjoint names, positive caps,
one tombstone for each account, for `PartySession` a TV that is no phone and at least
one socket). Each invariant was checked by TLC on its module's run before it was proved.

* **PartyGame.** `Base` is the type invariant with the timer discipline, since
  which callback may fire is what types `index`. Since a game may be started over any
  other, it also says what is left of the one before (`UnderWay`): an item on show that
  teams dealt has its results set, so only a start without items can make scoring
  throw, and past the lobby some item has been asked. `VoteInv` adds that a
  vote is open only in decoy while collecting; `LeadInv` that a phone without a
  seat is nowhere, and that each flight has a unique captain, stated without
  cardinality. `StealInv` adds that no flight after the one at turn has a locked
  answer, which is why a steal opens clean. `WatchInv` adds to `LeadInv` that a
  phone that watches or has not joined holds nothing and is in no flight: the
  second half is needed since a joiner may be flagged audience at once.
  `GameIsAQuizNight` maps each action to a step of `QuizNight`.
* **LanRelay.** `GraceInv` is inductive with the types, and so is `Timed`: tokens only
  grow, and a timer whose token is the room's was set in the present absence, which is
  what makes `Expire`'s look at the token enough for `GraceIsWhole`. `Registered` (the
  room's host is the one TV with a role, no phone is a host, a link that has
  not said hello has no role) carries `RelayKeepsTheCode`. `Heard`, that what
  the TV last heard of a phone fits where the phone's thread is, carries
  `TvHearsInOrder`.
* **PartyRoom.** `RoomInv` adds `Admitted`: one TV is open at a time, roles fit
  the kind of socket, and grace and alarm come and go together. `Telling` links
  what the TV heard to the state of the socket, which gives `TvHearsInOrder`.
* **ProgressMerge.** The merge is the least upper bound of its arguments under
  `Covers`, hence idempotent and associative: a PUT may be repeated and devices
  may sync in any order.
* **ProgressSync.** `AllFit` says of each copy (stores, row, the brick, and both
  snapshots of each PUT) that its tallies are within what was given. `SyncHolds`
  says that while the brick's sync is under way RAM covers the file, which carries
  `SyncKeepsSaved`: the reload has made RAM what the file is. The other
  theorems are about one step, from the types and the lemmas of the merge.
* **PocketStore.** `CardInv`: from the close on the tmp is whole and is what RAM was,
  unless a flush was refused; until the file is removed it holds the last save, unless
  one was torn before.
* **Billing.** `IInv`: events, seen or due, and calls only say of a subscription
  what is true of it for good (`Grounded`); the row gets its `canceled` from
  one (`RowTrue`), the account's deletion from the row or its own call
  (`CloseTrue`), the comp's from its own call (`RevokeTrue`).
  `PaidIsAlwaysSeen` counts without cardinality: each event that could bring a paid
  plan to the row is due, in a call, or lost (`Lost`); the first failure loses at
  most one and the second event of the plan is left (`LostFew`). It holds while
  `failures <= 1`, whatever the bound, and no longer: two kills can lose both.
* **PartySession.** `RoomInv` says of each socket of a phone where it is in its life
  as three parties see it: the relay's side, the joined and left frames on the TV's
  wire, the roster (`Row`). To carry it, a TV's socket that the relay has not let in
  has no such frame on its wire (`TvSide`), a room has one host and no alarm while it
  has it (`OneHost`: else an alarm could empty a room that is being played in), and no
  socket joins again on a wire after it has left (`WireOrder`: a left read while a
  joined waits would leave a ghost on the roster). `PhoneSeesGame` is inductive with
  these: the only step that lets a phone into the TV's room puts its joined frame on
  the wire, and both that and the welcome push.
* **SoloDesk.** `DeskInv` says what each page needs: where the game, the party and
  the drill can be together (`DeskRules`), and that an answer is in the open
  session, in a rollup, or was given with none open. The handlers' redraws are cases
  of one lemma about `render()`.
* **Accounts.** `IInv` adds to the types what a request knows at each statement
  (`Knows`) and that a deleted row has its own tombstone for an address. With it the
  two indexes give `LiveAccountsDiffer`, and each refusal has a live holder or is for
  a tombstone (`TakenMeansHeld`): the address index covers deleted rows, which takes
  nothing else from anybody because `wipeUser` writes over theirs.

Every invariant that a run checks is a theorem (`PaidIsSeen` as just said). Only
model-checked: liveness and what depends on fairness (`QuizNightKept` and
`RoomCodeKept` in full, `LightningRunsItself`, `NoPhoneStranded`, `SyncSettles`,
`TvGetsItsRoomBack`). Liveness under fairness and ENABLED are out of the prover's reach,
as is induction over data; no module uses RECURSIVE, and `ProgressMerge` states its
merge entry by entry.

## What is not modelled

* Several rooms at once on either relay: `PartySession` has any number of codes
  but is checked with one.
* Private frames and the BroadcastChannel of a `file:` page, the drawing of every
  screen, the settings of the lobby, achievements.
* The brick's mix of a session, wake slots and sleeping: sequential functions of
  one clock with no state that another part reads.
* `hitLimit` (it reads the hits and writes their number back, so requests at once
  count once), passwords, mail and the expiry of rows: they only refuse, and the
  model lets any request end anywhere.
* A second user of one browser's record: nothing in the code says whose it is.
* The question bank on the brick: it can be downloaded again.
* Coupon arithmetic, trial clocks, the number of redemptions of a code,
  creating and disabling codes; several users of one comp.
* Drivers, widgets, static pages, mail texts, the bank builders and their data,
  and the parked Fib mode, which no screen reaches.

## Plan

Done, in the order of importance: the game, both relays under one abstract room
code, progress with its merge and the brick's card, billing, the party end to
end, the desk, accounts. Left:

1. `PocketPlan`: `mixSession` and `nextWakeUnix` as recursive functions against
   reference definitions ("Next enabled slot strictly after now").
2. `Accounts` with the row of `Billing`: a deletion that overtakes a checkout.
