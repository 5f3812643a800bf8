# A TLA+ verification of turk-expatlar

turk-expatlar is a social network for Turks abroad: a NestJS API over PostgreSQL
(Prisma) and Redis, a Next.js web client and an Expo mobile client. This directory
models the parts of it that are protocols rather than pages, checks them with TLC and
proves the central results with TLAPS.

All paths below are relative to `src/`; `api/` stands for `api/src/` where a service is
named.

## How the program runs, and what that means for a model

- **One process.** `ecosystem.config.js` starts the API once (`instances: 1`, `fork`) and
  restarts it when it exceeds 512 MB. Both socket.io gateways use the in-memory adapter.
- **Interleaving only at an `await`.** Node runs one handler at a time, so the code
  between two awaits is one action. Everything else can happen in between: other handlers,
  a disconnect of the very socket the handler serves, timers, a restart.
- **A Prisma call is atomic, two are not.** Only `$transaction([...])` joins several.
- **A restart** loses every `Map`, timer and handler in flight and keeps the tables.
- **A socket id is used once.** A client that reconnects is a new socket. socket.io turns
  `join` of a disconnected socket into a no-op (4.8.3, `api/package-lock.json`).

## Inventory

| Component | State it keeps | Operations | What makes it correct |
|---|---|---|---|
| **Telsiz gateway** (`api/telsiz/telsiz.gateway.ts`) | presence, speaker entry with its timeout, raised hands, `client.channelId` | connect, join, leave, `ptt_start`/`ptt_end`, audio, report, talk timer, disconnect | one speaker per channel, nobody longer than 30 s, no channel stuck, listeners shown who speaks, a muted user silent |
| **Telsiz moderation** (`api/telsiz/telsiz-moderation.service.ts`) | tables `telsiz_reports`, `telsiz_mutes` | `report`, `getMuteUntil` | a sanction rests on enough different people, a warning before a mute |
| **Chat gateway** (`api/chat/chat.gateway.ts`) | reference-counted presence per room, typing timers, socket.io rooms | connect, join, leave, messages, edits, reactions, typing, disconnect | online exactly while a socket counts; typing ends; clients see what is stored |
| **Chat service, moderation, bots** (`api/chat/*.service.ts`) | messages, reactions, bans, violation log; in memory: rate limits, bot room lock and cooldown | send, edit, delete, react, check, ban, bot replies | no edit of a deleted message, bans are kept, one bot conversation per room |
| **Gamification, tasks** (`api/gamification`, `api/tasks`) | points, level, unique point log, event status | `award`, nightly completion | each award given once and not lost, level matches points |
| **Events** (`api/events`) | attendees, status, capacity | attend, leave, approve, reject | capacity respected |
| **Courier, travel announcements** (`api/courier`, `api/travel-announcements`) | request status, offers | accept, confirm, complete, cancel, respond | one confirmed offer, agreeing with the request |
| **Subscriptions** (`api/subscriptions`) | promo code counters, redemptions | redeem | never above `maxUses`, once per user |
| **Friends, reviews** (`api/users`) | friend requests, reviews | request, accept, reject, remove, edit | one relation per pair, edit limit |
| **Auth** (`api/auth`) | users, reset tokens, two-factor secrets | register, login, reset | a reset token works once |
| **Forum** (`api/forum`) | topics, replies, polls | vote, mark solved, reply | one vote per user and poll, one best answer |
| **Settings and caches** (`api/site-settings`, `api/redis`) | settings row, 30 s memory cache, Redis | read, update | a cache does not outlive its update |
| Content, admin, notifications | rows | CRUD, feeds, push | one statement each; administrators change the rows of other components |
| **Web client** (`web/src`) | socket, recorder, message list | talk button, room page | the button and the floor agree, the list shows what was sent |
| **Mobile client** (`mobile`) | pending bubbles and their timers, socket buffer | chat composer | a bubble never spins for ever, a stored message is shown once |

**How they interact.** The two gateways call their services directly; both share the
database with the REST controllers. `TelsizGateway.handlePttStart` reads what
`TelsizModerationService.report` writes, and `handleReport` cuts the speaker after it. The
chat gateway asks chat moderation before joins and messages, and starts bot replies it
does not wait for. `award` is called from most services, mostly without being awaited.
Scheduled tasks run beside the handlers in the same process.

**What is hard.** Values checked before an `await` and used after it; sockets that vanish
in the middle of a handler; timers that outlive what they were set for; check-then-write
over several statements; a restart between two of them. `PROJECT.json` lists each of these
at its line, with the properties that cover it or the reason why none does.

## Modules

| Module | Models |
|---|---|
| `TelsizFloor` | the abstract half-duplex floor: take, yield, time |
| `TelsizGateway` | the gateway; implements `TelsizFloor` |
| `TelsizModeration` | `report()`, statement by statement |
| `Telsiz` | both together over one `muted` |
| `TelsizPage` | the radio page of the web client and what the gateway is to its socket |
| `ChatPresence` | presence in the chat gateway |
| `ChatRoom` | a chat room: its writers, the table, the broadcasts, joining and its history, one page |
| `ChatTyping` | "is typing": the composer's hook, the gateway's timers, the indicator |
| `ChatModeration` | what a message passes: bans, banned words and their cache, turns, limits |
| `ChatBot` | the room lock of the automatic accounts |
| `MobileChat` | pending bubbles of the mobile composer |
| `Calls` | activations of request handlers, shared by the modules below |
| `Events` | an event and its attendees |
| `Awards` | points and levels an event earns, the nightly completion; extends `Events` |
| `Courier` | a courier request and its offers |
| `Memberships` | a promotion code, payments, expiry |
| `Friends` | friend requests both ways between two users |
| `PasswordReset` | reset links |
| `Forum`, `ForumPoll` | a topic with its replies and best reply; a poll |
| `TelsizGatewayProofs` | theorems about the gateway, and about the radio as a whole (`Telsiz`) |
| `TelsizModerationProofs`, `ChatPresenceProofs`, `ChatModerationProofs`, `ChatRoomProofs`, `AwardsProofs` | theorems about the module of that name |
| `ServiceProofs` | theorems about the protocols over `Calls` and the bots: `Events`, `Courier`, `Memberships`, `Friends`, `PasswordReset`, `Forum`, `ForumPoll`, `ChatBot` |
| `ClientProofs` | theorems about `ChatTyping`, `MobileChat` and `TelsizPage` |
| `MC...` | instances for TLC |

### TelsizGateway

`presence`, `speaker`, `timeout` (the field of the speaker entry) and `hands` are the
private maps; `channel[s]` is `client.channelId`; `conn[s]` is `"ready"` once
`client.userId` is set. `timers` are the pending `setTimeout` callbacks, `ptt` the
activations of `handlePttStart` beyond their guards. `told[s]` is what the last
`speaker_start`, `speaker_end` or join snapshot told a socket, and `held` counts the ticks
of the present talk; both exist for the properties (`told` is what a client displays).

Each handler is one action, split at its awaits: `handleConnection` into
`HandleConnection` and `ProfileLoaded`; `handlePttStart` into `HandlePttStart` (guards,
query sent), `GetMuteUntil` or `MuteReadFails` (the database answers) and `PttMuted`,
`PttBusy` or `PttGranted` (the handler resumes, and checks only the speaker again).
`handlePttChunk` and `handlePttAudio` change nothing; their guard is `MayTransmit`. The
helpers `releaseSpeaker`, `lowerHand` and `removeFromChannel` are operators used by the
actions. Calls that fail validation are stuttering steps.

`PttGranted` keeps a peculiarity of the code: when the holder presses again, the entry is
overwritten and the first timeout stays pending. That is what bounds a talk: clearing it,
which looks like the obvious repair, lets a client hold the channel for ever by repeating
the press. The mutant `RepeatedPressRestartsTimer` is that repair, and TLC refutes
`HalfDuplexFloor` with it.

Time is discrete. `Tick` waits for due timers, so a `setTimeout` fires in the tick it is
due; delays of the event loop are below the model's resolution.

### TelsizModeration and Telsiz

A report is an activation that walks through `find`, `create`, `count`, `record`, and
`warn` or `mute`, `reset`, `cut`, one database statement per step; `ReportFails` may end it
at any statement and `CallsLost` ends all of them (restart). `accusers` is a history
variable: who ever had a complaint stored about a user. It is what the counts are compared
with, since complaints are deleted after a mute. The hour of a mute is not measured:
`MuteEnds` may happen at any time.

`Telsiz` shares `muted` between the two: it is a variable of the gateway, which in
isolation changes arbitrarily (`MutesChange`) and here only by the moderation's steps.
`CutTalk` is the end of `handleReport`; `silenced` is a history variable: the users who
are muted and whose talk the muting complaint has since been told to end.

### TelsizPage

One page, one channel, and the gateway reduced to that socket: `session` (the profile is
there), `member`, `floor`, `presses` (activations of `handlePttStart`); other speakers are
`OthersSpeak`. `talking`, `autoStop`, `someone`, `guard` and `tuned` are the refs and the
state of the component; `starts` are the calls of `startTalking`, which wait for the
microphone and then for the audio context. A timer that a second call overwrites in
`autoStopRef` is a `strayStop`. `upward` and `downward` are events on their way, `kept` the
send buffer of a socket that is offline, which is sent before `onConnect` runs.

Four history variables mark what the code leaves open: `late` (a talk began with the button
up or outside a channel), `hurried` (the page went on before a press was answered), `deaf`
(the gateway ignored the press or cut the talk, neither of which it tells the speaker in a
way the page listens to) and `unheard` (a join that came before the profile was read, which
the gateway drops). Apart from these, button, page and floor agree. A release the
browser does not report (a cancelled touch, a key let go in another window) is left out:
`autoStop` ends such a talk.

### ChatPresence

`site[s]` and `joined[s]` are `client.presenceRoomIds` and `client.joinedPresenceRoomIds`;
`refs[c][u]` is the counter in `roomPresence`, 0 where there is no entry. A connection goes
through the profile read and the registration (two awaited reads) while its socket may
already join rooms or disconnect; `joins` are the activations of `handleJoin` in their
checks. `torn` is a history variable: the users one of whose sockets disconnected, or lost
its account, in the middle of such a handler.

### ChatRoom

A writer's call is an activation with the phases between its awaits: a message is created
and then broadcast (`SendMessage`, `NewMessage`); an edit is checked, written by id and
announced (`EditMessage`, `ApplyMessageEdit`, `Announce`); so are deletions, clearing a
room and a reaction, whose toggle reads, writes and counts in three statements. `rows` is
the table; a timed message is `running`, then `over`, then `purged`; `timers` are the
`setTimeout` callbacks that announce an expiry, lost in a restart. `inRooms` and `down` are
the socket.io rooms of the page's socket and the events on their way to it, in order;
`joins` are activations of `handleJoin`, which enters the room, reads the history and
emits it in three steps. The page is `page.tsx` as it is written: `route` is its address,
`resolves` the requests for the room's id, `chatId` the room the effect of the socket
serves, `list`, `oldest`, `hasMore` and `loading` its state, `pages` the requests for older
messages. `onHistory`, `onNewMessage` and the other listeners are `DeliverHistory` and
`DeliverChange`; the cleanup of the effect is `LeftRooms`.

Any await may fail. A writer's call can end after its write and before its announcement
(`CallFails`: the queries of `saveMessage` that follow the create, the count that follows a
reaction); a join can be refused or throw before it enters the room, or after it, before it
answers (`JoinFails`), and its history can fail with an error that is sent (`HistoryFails`);
the look-up of the room can fail, after which the address is the new one and the page still
listens to the old room (`ResolveFails`); so can a request for older messages (`OlderFails`).

Five history variables say what the page cannot know, or does nothing about.

- `filled`: it has been answered about the room in its address.
- `crossed`: messages written while another emission about them, or a read of their room, was
  on its way (the code has no versions, so nothing orders these), and messages whose writer
  failed between the write and its announcement.
- `hasty`: the page left a room with an answer still due, of the look-up or of a join.
- `stranded`: a look-up or a join came to nothing, and the page has since neither moved to
  another room nor connected again; nothing in it tries once more.
- `overtaken`: older messages arrived that had been asked for from below a list which a
  history replaced meanwhile, as an ordinary reconnect does; the next history mends it.

The properties except exactly these cases, each by its own variable: `RestingListMatches` all
of them, `RestingPageHearsItsRoom` only `hasty`, and `stranded` in its second half.

### ChatModeration

`checkMessage` is one activation that walks from await to await: `user` (the row), `lift`
(an expired ban is lifted by an update that does not look again), `words` and `store` (the
cache is filled after the read), `count`, `log` and `ban` for the banned word, `last` for
the ban on writing twice in a row, `limits` for the two counters in memory; then `save`. A
visit (`checkCanJoin`) stops after the row. The administrator (`BanUser`, `SuspendUser`,
`UnbanUser`, `ChangeWord`, `InvalidateBannedWordsCache`) and the nightly `LiftExpiredBans`
change the same rows. Of a text only two things count: whether it has the word, whether it
has a link. The clock is abstract: a ban lasts one unit or for ever; `Age` moves a tracked
message past ten seconds and then past the minute.

### ChatTyping, ChatBot, MobileChat

`ChatTyping` keeps the flag of each composer, events on their way up and down in order, the
gateway's timers (a set: `typing` replaces a timer) and the indicators shown. A watcher's
socket belongs to the module `socket.ts` and outlives the pages: `TurnTo` takes one page's
handlers off, with `leave_room` and an empty indicator, and puts the next one's on, with
`join_room`. What is on its way then meets the next page's handlers, which look at no room,
and a join suspended in its checks may enter the room after the `leave_room` that follows it.
`missed` marks a watcher who was out of the room, by `leave_room` or a lost connection, with
an indicator on or still to come, until a page is mounted with nothing on its way: the code
can leave an indicator standing there, and nowhere else. `ChatBot` has
one room: calls of `maybeReply` plan, take the lock, speak once or twice, and run the
`finally` whatever happened; `broken` remembers that a call without the lock released it
under a conversation. In `MobileChat` `buffered` is the socket's own send buffer, sent on
reconnect before the `connect` handlers run; the gateway is only what the screen sees of it.
A handler may end between its create and its broadcast (`SaveCutOff`); `untold` are the
messages it leaves, which a screen has from its history or not at all.

### Calls and the modules over it

A request handler is a record in `calls` whose `at` says where it waits. Each call
remembers in `together` whether it ever ran beside another call, or beside a change by the
administrator or the payment service (`Met`). That is the convention of the properties
below: *a rule that a check and a later write leave open may be broken by calls that ran
together, and by nothing else*. They therefore fail when a check is dropped, looks at the
wrong thing or is done too early. The races themselves are in the models and are excepted:
these properties do not say that a race is harmless, they say that failures, restarts and any
order of calls that run one after the other do not break the rule. What a race leaves behind
must bear its mark on every side: two votes, two links and two friend requests are excused
only when each of them met another call (`OneVoteEach`, `OneLinkIsGood`,
`OneRequestPerPair`). `OneTravelerConfirmed` and `UsesAreRedemptions` have no such exception.

`Awards` extends `Events`: `attend` starts an award without waiting for it (`AwardJoined`),
`markCompletedEvents` and `awardEventCompleted` are the phases of `night`. An award creates
its log row, increments, and writes the level, and can stop after any of them. `lost`,
`missed` and `uneven` are history variables: what was cut off between row and points,
before the row, and between points and level. `owed` is what the task, now over, had read.

`Courier`, `Memberships`, `Friends`, `PasswordReset`, `Forum` and `ForumPoll` each split
their service's methods into the check and the statements after it; unique indexes refuse a
create, failures end a call anywhere (`Throw`), a restart ends all (`CallsLost`).

## Runs

| Run | Question | Bounds | Result |
|---|---|---|---|
| `telsiz_gateway` | safety of the gateway, and its refinement of `TelsizFloor` | 2 sockets, 2 channels, 2 timers, 2 presses in flight, `MaxTalk` = 2 | holds |
| `telsiz_live` | a busy channel is freed; a lasting mute silences | 2 sockets, 1 channel, 2 timers, 2 presses | holds |
| `telsiz_reports` | sanctions under concurrent reports | 3 users, 3 reports in flight, threshold 1, `warnCount` up to 3 | holds |
| `telsiz_mute` | does a user who is muted and has been cut off take the floor while the mute lasts | 3 users, 1 channel, 1 press, 2 reports | **violated** |
| `chat_presence` | presence against sockets | 2 tabs of one user, 2 chats, 3 joins in flight | holds |
| `chat_room` | is the list of a page at rest what the table holds | 2 rooms, 1 earlier message and 1 new, 2 writers' calls, 1 join and 1 older page in flight, 2 navigations, lost connections or restarts, histories of 1 | holds |
| `chat_room_moves` | does anything of a room stay when the page moves on | 2 rooms, 2 joins in flight, 1 navigation, no writers | **violated** |
| `chat_moderation` | bans, limits, turns, cached words | 2 calls of a member, 2 ticks, both limits 1 | holds |
| `chat_edit` | is an edit ever refused as a message out of turn | the same | **violated** |
| `awards` | points, levels and the nightly task across crashes | organizer and guest, 1 attendance and 3 awards in flight, 2 failures or restarts | holds |
| `awards_refused` | has a refused award been given | the same | **violated** |
| `protocols` | eleven protocols that share no state | 2 calls in flight; see below | holds |

**Why the bounds suffice.** In the gateway the interesting cases are pairs: a holder and a
competitor, an old timer and a new one, a press in flight while the socket switches
channel, and two presses of one socket. A third socket is one more listener, and a third
timer one more stale timer. `TimerIds` and `PttIds` bound what is in flight at once, not
how often it happens: behaviours are unbounded in length. Two ticks let a second talk
start while the first one's timer is still running. In `telsiz_reports` three users give
each accused two accusers, which with threshold 1 reaches the second sanction, and three
reports in flight let one be at its count while another warns and a third mutes. In
`chat_presence` a user's references come from two lists of two tabs. The theorems remove
these bounds from every safety property of the passing runs. `MaxWarn` bounds `warnCount`, which only grows by mutes.

**Bounds of the other runs.** In `chat_room` one call can be in the middle of its work while
another starts and ends; one message beyond the history's limit makes `hasMore` and older
pages happen; two moves are a navigation and back, or a lost connection during a
navigation, or a restart with timed messages running. The run does not go on from a state
with `hasty` (constraint `StillPatient`): `hasty` never becomes false again, and both
properties hold by definition from there on, so nothing is cut off that could violate them.
Nor does it go on from a state with more than two events on their way (`FewEvents`, a bound
like the others): two are enough for every order of an announcement and a history, and the
theorems have no such bound.
`chat_room_moves` has no constraint. In `chat_moderation` a limit of 1 makes the second
message in flight the one too many; a clock of two ticks lets a ban be passed, end, be
lifted, and another be passed meanwhile. In `awards` three awards make a creation award, an
attendance award and a nightly one run at once; the values are those of the code, which put
a guest over two levels. Two faults are a failure and a restart, or a restart during the
retry after a restart.

`protocols` chooses one of its eleven protocols at the start and runs it alone
(`MCProtocols`): no property speaks of two of them, so their product would only multiply
states. In each two calls in flight are enough, since every race here is between a check
and one write of another call; three tokens, three replies, four rows of friend requests
let the race happen again after its first outcome was undone. `ChatTyping` has two typists
and a watcher with two events in flight each way, and two `join_room` or `leave_room` on
their way or at work; `MobileChat` two composed messages, two
stored ones, another device; `TelsizPage` two calls of `startTalking` and two events each
way (leaving while talking sends two).

**What each property means.** `PresenceIsMembership`: map, room and socket name the same
channel. `FloorHasTimer`: every speaker entry has a pending timeout that will remove that
very entry. `ListenersInformed`: who can be heard is shown as speaking, a free channel as
free (a grant to a socket that has left the channel shows a speaker nobody hears, which
this property allows for the newcomers it is shown to; it is bounded by the timer).
`LeavingGivesUpAll`: no floor and no raised hand is left behind. `HalfDuplexFloor`: the
refinement. `MuteNeedsManyAccusers`, `SanctionsAreBacked`, `WarnedBeforeMuted`: see
their comments; each holds although every handler acts on stale counts.
`ReferencesAreCovered`: no tab takes another's reference.
`RoomMembersAreOnline`: who receives a room's messages is listed in it.
`OnlyTornHandlersLeaveGhosts`: the only users listed without a socket are those whose
socket vanished in the middle of a handler (that they exist is visible in the model:
`RegisterSitePresence` of a socket that is gone).

`RestingListMatches`: nothing lost, doubled, revived or left over in a list at rest, with
the exceptions above. `RestingPageHearsItsRoom`: a page at rest hears no room but the one it
listens to, and unless a look-up or a join came to nothing this is the room in its address,
its socket is in it and it has been answered about it. `LastSentenceHolds`: the member is barred exactly while the last ban passed lasts.
`CachedWordsAreCurrent`, `LimitsHold`, `SecondUseIsBanned`, `TwiceInARowOnlyTogether`: the
cache, the counters, the log and the last message against calls in flight. `PointsMatchLog`:
points are the log's, each row once, but for awards on their way or cut off.
`LevelFollowsPoints`: the level is never above the points, and theirs once nobody writes it.
`EveryGuestIsAwarded`: the task, over, has awarded everyone it read. `EndedEventIsCompleted`:
a published event that ended does not stay published. The properties of `protocols` are
explained above them in their modules.

**Findings.** `telsiz_mute`: the notice a muted user gets says that they cannot speak for an
hour; a press whose mute was read before the mute was written is granted after it, and after
the cut that comes with the mute, which found nothing to cut. (Before that cut a muted user
may speak for a moment in any case; the property does not speak of it.) `LastingMuteSilences` shows the
other side: it ends.

`chat_room_moves`: the page empties its list when the room in its address changes, so that
nothing of the old room is left, but a history still on its way fills it again, and if it
comes after the new room's it stays. The page is modelled as a component that follows its
address, which is how its effects are written; a router that mounts it anew changes nothing
here, since the socket, its listeners and the server's answer outlive the component.

`chat_edit`: a page that says a message can be edited for 15 minutes, and a server that
refuses the edit of one's own last message in a channel as a second message in a row.

`awards_refused`: the comment that reads a refusal of the unique index as "already given" is
wrong after a failure or restart between the log row and the points.

**Fairness.** `telsiz_live` assumes weak fairness of `Tick` and of each `TalkTimeout`: the
clock runs while a timer is pending and Node calls a timer that is due. No client action,
no answer of the database and no moderation is assumed to happen.
Weak fairness is enough: `Tick` stays enabled until a timer is due, and a due timer until
it fires or is cleared.

`awards` assumes strong fairness of the nightly task and weak fairness of the statements of
each award: the task is scheduled every night and awaits what it starts, and the database
answers. The fairness of the task is strong only because `AwardNext` needs one of the few
award identifiers of the model, which other awards can take in between; in the code an award
needs none. Failures and restarts are bounded by `MaxFaults`, so a task that is cut off
every night is not considered.

**Deadlock** is checked in every run but those of `ChatRoom`: some action is always enabled
(a restart in most of them). `ChatRoom` bounds messages, calls and moves in all, and stops there.

## Proofs

Every safety property that a passing run checks is also a theorem, for every value of the
constants: any sets of sockets, users, chats, timers and activations, any limits and
bounds. The assumptions are the named `ASSUME`s of the modules, which TLC evaluates when it
checks them. They say that limits are numbers (`MaxTalkAssumption`, `ThresholdAssumption`,
`BoundsAssumption`, `UsesAssumption`, `EventAssumption`, `FaultsAssumption`,
`WireAssumption`), that null values are none of the values they stand beside
(`IdleAssumption`, `NullAssumption`, `NullsAssumption`, `NoneAssumption`,
`ActivationAssumption`, `BotAssumption`, `ForumAssumption`, `NoReplyAssumption`,
`CourierAssumption`, `ElsewhereAssumption`), that a friendship has two sides
(`FriendsAssumption`), and that what is counted is finite (`UsersFinite`,
`SocketsFinite`). None of them restricts what the code does.

**TelsizGatewayProofs.** The inductive invariant is `TypeOK`, `PresenceIsMembership`,
`FloorHasTimer` and two strengthenings. `TalkBounded`: for every busy channel some pending
timer of that channel and that socket has at most `MaxTalk - held` ticks left. This is the
invariant `FloorHasTimer` is not: the entry's own timer is the newest, and may be
`MaxTalk` away however long the talk has lasted; the oldest pending one is what ends it.
`EveryoneTold`: what a member was told, against the speaker entry. From them:
`TypeCorrect`, `PresenceCorrect`, `FloorTimerNeverLost`, `ListenersAlwaysInformed`,
`LeavingGivesUp` (an action property) and `ImplementsFloor`: the initial state maps to the
initial state of `TelsizFloor`, and each step to a take, a yield, a tick or a stutter.

The radio as a whole, `Telsiz`, shares `muted` between gateway and moderation.
`ImplementsGateway` and `ImplementsModeration` show that each of its steps is one of the
gateway, or leaves it alone, and the same of the moderation, so that all theorems about the
two parts hold of the whole; `RadioImplementsFloor` follows.

**TelsizModerationProofs.** Counts are stale when they are used, so the invariant compares
them with `accusers`, which only grows: stored complaints are known accusers, a count is
at most their number, and an activation that is about to sanction has passed its
threshold and, for a mute, seen a warning that no later statement takes back. From it:
`TypeCorrect`, `MutesNeedManyAccusers`, `SanctionsBacked`, `WarningComesFirst`.

**ChatPresenceProofs.** A counter agrees with the sets of sockets it counts (`Agrees`), and
each operation that moves a socket in or out of such a set moves the counter by as much:
one lemma per operation, over the cardinality facts of `FiniteSetTheorems`. What makes it
inductive is `Lifecycle` and `JoinsAreOwned`: a socket without a finished registration has
no site-wide references yet, and one that is gone with a handler still running belongs to a
user in `torn`, so that the reference that handler will add is accounted for.
`RoomIsTracked` relates rooms to the two lists. From it: `TypeCorrect`,
`NobodyDroppedEarly`, `MembersListed`, `GhostsAreTorn`.

**ServiceProofs.** The modules over `Calls` share one argument, stated once. `Company`: of
two calls in flight each has met the other (`together`), and the lemmas `Entered`, `Joined`
and `CompanyEntered` carry it through every step that starts, moves or ends a call,
whatever the records of the protocol hold. Each invariant then adds what a check leaves true
until the write: the guest who was let in has room or has met somebody (`GuestHasRoom`), the
look at a code is still good or the call met another (`LooksAreGood`), the offers written
belong to travelers (`OffersAreOfTravelers`), only the last link mailed lives
(`OldLinksAreDead`), what a reply read of its topic is fresh (`ReadingIsFresh`), marks agree
with the topic's answer while nobody is between its two statements (`MarksAgree`,
`MarkingIsOrderly`), rows name different requests (`RowsAreDistinct`). The bots' lock has its
holder (`LockHasItsHolder`). The action properties follow from the same invariants.

**ChatModerationProofs.** One strengthening for each property over a common `TypeInv`: the
row says what the sentence says, and whoever is free or about to be freed has served it
(`RowSaysSentence`); the cache against the read that fills it; the log against the calls that
counted it; the last message against those on their way. `LimitsHold` is inductive with the
types: the work is in counting the messages of a list that are in the window (`Marks`).

**ClientProofs.** `IndicatorHasTimer` is inductive with the types once the events on their
way to a watcher are read as what they will leave shown (`Shows`: the last event about a user
decides), and once it is said of a watcher out of the room that nothing is to come
(`AwayShowsNothing`), and of one without a page that nothing is on (`NoPageShowsNothing`).
For the mobile list, `RoomInv` follows the room's messages from the table over the
wire to the bubbles: each is on its way in exactly one form, or shown, or is not broadcast yet
or ever (`Silent`), and a history that comes replaces both. For the radio, `RadioInv` relates the page to the gateway through the
events between them: the last word about the channel says whether the page shows one
(`ChannelAgrees`); there is one press at most on its way and nothing behind it
(`OnePress`, `JoinsAfterPress`); while the socket has the floor the page transmits, or its
end is on its way (`FloorAgrees`).

**AwardsProofs.** `LedgerInv`: a row of the log has its points, or an award that is about to
give them, or was cut off there (`RowsWritten`, `PointsMatchLog`); a level on its way is due
(`LevelsAreDue`). The points are a sum over the log, so the lemmas about `Worth` and the
levels come first. `NightInv` says of the task that everybody it still owes is on its list,
or has an award on the way. `ImplementsEvents`: awards and the nightly task do to an event
only what the operations of `Events` can do to it.

**ChatRoomProofs.** `TypeCorrect` first, for lists that are filtered, replaced and prolonged:
`ChatRoom` writes its filters as a choice of positions in order (`InOrder`, `Kept`), since
`SelectSeq` is opaque to the prover, and `InOrderSound`, `KeptSound` and `MessagesSound` are
what they promise. `HearInv` is behind `PageHearsItsRoom`: nothing survives a lost connection
(`OfflineIsEmpty`), a page that is not `hasty` asks for one room at a time and for one page of
older messages (`OneRoomAtATime`, `OnePageAtATime`), and unless it is `stranded` it has entered
its room or is about to, is answered about it or will be, the answer about it being the last
one on its way (`RoomIsJoined`).

`ListMatches` follows what the page shows in three further parts. `WriteInv` relates
the calls to the table: what is about to be announced of a message that nobody crossed is how
it is. `ReadInv` says of a history or a page of older messages that was read and not yet
applied that it agrees with the table (`Snapshot`) and that no message still to be announced
is older than it (`Newer`). `Converges(L, o, p)` says of a list that the events behind the
position `p` of the queue, and the calls behind those, will make it the list that is due:
each entry, each missing message, each deleted one and each column is right already or has an
event on its way that sets it right. `ListInv` claims that of the list shown when no answer is
on its way, and of the last history on its way otherwise. Each kind of step is shown to
preserve `Converges` for every list at once: what a writer does to the table (`Writes`,
`Sends`), an announcement (`Tells`), the expiry of messages (`Fades`), one event applied
(`Applied`, with the queue shifting by one), entries dropped (`Thinned`) and older messages
put in front. With an empty queue and no calls, `Converges` is `RestingListMatches`; its one
hypothesis is the one of the property: a message that no two emissions crossed and whose writer
did not fail, on a page that waited for its answers and is neither `stranded` nor `overtaken`.

**Only model-checked:** the liveness properties (`FloorFreed`, `LastingMuteSilences`,
`EndedEventIsCompleted`: fairness and `ENABLED` are beyond the prover). The four
properties that the code violates are refuted by their runs.

## Not modelled, and why

Pages, forms, feeds, calendars, search, newsletters, businesses, user profiles and most of
the administration are single queries without a protocol: a model of them would restate the
query. They are also most of the repository's lines. Push and mail are best-effort calls to
services outside. The settings and their caches are not modelled; nor are travel
announcements, whose requests are one row with one answer. Within the modelled parts:
payloads, names and wording; the presence and hand lists sent to clients (they are copies
of the maps); audio; unread counts; direct messages, which share the senders with the rooms;
the radio page beyond one channel. Sessions and their verification are taken as given.

## Plan

1. *(done)* `TelsizFloor`, `TelsizGateway`, `TelsizModeration`, `Telsiz`, `ChatPresence`
   and their theorems.
2. *(done)* `ChatRoom`, `ChatModeration`, `ChatTyping`, `ChatBot`, `MobileChat`, `TelsizPage`; `Events`,
   `Awards`; `Courier`, `Memberships`, `Friends`, `PasswordReset`, `Forum`, `ForumPoll`.
3. *(done)* Theorems for the second group: `ServiceProofs`, `ChatModerationProofs`,
   `ClientProofs`, `AwardsProofs`, `ChatRoomProofs`; the composition in `TelsizGatewayProofs`.

A run answers one question in a minute or two; small protocols share a run.
