# A verification project for the battle-arena game server

The repository is the server of a multiplayer battle-arena game: Lua services on
the skynet actor framework (`game/service`, `game/lualib`), with skynet itself and
other libraries vendored under `3rd/`. There is no design document and there are no
tests; what the code promises is said in comments and log messages, and those are
what the findings below quote.

The modules here model the path of a player through the server: logging in, being
matched, choosing a hero, fighting, being paid, spending it, leaving; and the part of
skynet that carries it: the scheduler and its mailboxes, the table of handles, the
timer, the sockets and the gate. TLC checks them on small instances; TLAPS proves
the main safety properties for instances of any size.

## 1. How the system works

skynet runs each service as an actor with one mailbox. A handler runs until it
calls another service (`skynet.call`, `newservice`, `sleep`, a socket or Redis
operation); then the service takes its next message, and the handler goes on when
the answer arrives. So there are no data races inside a service, and every call is
a point where everything the handler has read may change. A call to a service that
has exited raises a Lua error which unwinds the handler. Messages from one service
to another keep their order. Nearly every hard behaviour of this code follows from
these rules, and the modules of the services make one action of each stretch between
two calls. That skynet keeps the rules is itself checked: `Mailbox` models its worker
threads, queues and reference counts and implements the actor semantics `Actor`.

```
 client -- gate -- agent (one for each player) -- database (Redis)
            |        |        \
         watchdog    |         match --> pickHero --> room (one for each battle)
            |        |                                 | EntityManager, BattleOver,
        loginslave   +---- servermanager <-------------+ Spawn, Drop, AI, skills
```

### Inventory

| component | state it keeps | operations | interacts with | what is hard | what makes it correct |
|---|---|---|---|---|---|
| match (`match.lua`, `simplemonitor.lua`) | keep, strict and loose list, nowInMatchers | requestMatch, cancelMatch, update, error | agents, pickHero, robots | overlapping updates, indices kept over yields, cancellation in the middle | a request waits in one place, groups are well formed, nobody waits for ever |
| hero selection (`pickHero.lua`) | players' picks and confirmations, remaining time | pickHero, confirmHero, update, error | agents, room | two clients and a timer race; an exited agent kills the timer chain | picks distinct, early end only by consent, a complete table reaches the room |
| room (`room.lua`) | loading progress, last_update_time | start, loadingRes, update, endbattle, entity commands | agents, servermanager | loading barrier against a timer, repeated start of the loop | one start, one update chain, the battle ends |
| settlement (`BattleOverManager.lua`) | OverRes, RestTime, gains | update, calcRes, giveResult, closeRoom | agents, database, servermanager | payments over many yields, exited agents, players off line | each player is paid once, consistently with one outcome |
| session (`watchdog`, `loginslave`, `servermanager`, `agent`) | connection tables, ref_connect, room of an account | auth, agentEnter, reconnect, close_agent, userEnter, roomstart, roomend, disconnect | gate, room | closes from three sides, reconnect against exit | references exact, agents leave when unused and only then |
| agent economy (`agent/*`, `agent/expand/*`), database (`db/*_rd.lua`) | account, cards, skills, missions, explorations, mails, and the same in Redis | about forty client requests; load, update | each other | checks, payments and flags separated by database calls, an exit in between | nothing is received twice, limits hold, changes are saved |
| affects (`skill/Affects/*`) | the list of affects, counts of controlled states | build, replace, update, remove, clear | room, clients | the list changes under the loops over it | each affect is undone; the room's updates go on |
| event stamps (`EventStampHandle.lua`, `Ientity.lua`) | a stamp for each kind of event, the questions kept | query, advance, answer | clients | a question and a change in either order | nobody waits for what has happened |
| path finding (`pathfinding.c`) | nodes, open and closed set | path | combat | nodes run out, two sets in one array | shortest paths where the body fits |
| skynet scheduler (`skynet_mq.c`, `skynet_server.c`, `skynet_start.c`) | mailboxes, the global queue, contexts with reference counts, sleeping workers | send, dispatch, launch, retire, release | every thread | locks and counters of several threads | actor semantics, no message stranded, no use after free |
| handle table (`skynet_handle.c`, `rwlock.h`) | slots, a read-write lock | register, grab, retire, retireall | every thread | growth, reuse of slots, the lock itself | a handle finds its context or nothing |
| timer (`skynet_timer.c`) | a wheel of five levels | timeout, update | every thread | cascades, the wrap of the clock | every timer fires at its tick |
| sockets (`socket_server.c`) | slots, write buffers, the pipe of commands | open, listen, accept, start, send, close | every thread, the operating system | partial writes, stale events, reuse of slots | bytes in order, closes reported, nothing after a close |
| gate (`lua-netpack.c`, `gateserver.lua`) | leftovers, queue of packages, table of clients | filter, pop, open, close | sockets, watchdog | bytes cut anywhere | whole packages in order |
| rank list, central mail, system activities and cooldowns, background saver | caches, listeners, a queue | load, add, sendmail, listen, timers | agents, Redis | flags cleared after yields, listeners of old agents | fresh lists, mail reaches the current agent |
| rest of combat (`entity/*`, `skill/*`, `drop/*`), artificial players (`ai/*`) | positions, statistics, cooldowns, drops, hate lists | move, attack, cast, die, revive, pick up | room, clients | two update chains, removal by index over yields | - |

`PROJECT.json` lists every component with its files and its status, and the
hazards at their lines.

## 2. The modules

| module | models | proofs |
|---|---|---|
| `PickHero` | `pickHero.lua` | `PickHeroProofs` |
| `Match` | `match.lua`, the monitor's messages | `MatchProofs` |
| `Room` | `room.lua` without the entity commands, `BattleOverManager.lua` | `RoomProofs` |
| `Session` | the life of one account's connections and agents across `watchdog`, `loginslave`, `servermanager`, `agent`, `room` | `SessionProofs` |
| `Economy` | an agent's tables, the requests on them and what reaches the database | `PlayerProofs` |
| `Affects` | the affects on one player: `AffectTable.lua` and the affects themselves | `PlayerProofs` |
| `EventStamp` | how clients follow an entity: `Ientity.lua`, `EventStampHandle.lua` | `PlayerProofs` |
| `PathFinding` | `pathfinding.c` | - |
| `Actor` | what a skynet service may rely on (abstract) | - |
| `Mailbox` | `skynet_mq.c`, `skynet_server.c`, `skynet_start.c`; implements `Actor` | `MailboxProofs` |
| `MessageQueue` | the ring inside a mailbox | `SkynetProofs` |
| `HandleStorage` | `skynet_handle.c`, `rwlock.h` | `SkynetProofs` |
| `Timer` | `skynet_timer.c` | `SkynetProofs` |
| `SocketServer` | `socket_server.c`, TCP | `SocketServerProofs` |
| `Gate` | `lua-netpack.c`, `gateserver.lua` | `SkynetProofs` |

`MCPickHero`, `MCMatch`, `MCRoom`, `MCSession`, `MCMailbox`, `MCEconomy` and
`MCAffects` give the constants their values for TLC. `MCRoom` also chooses between
two scenarios, so that overlapping loading requests and leaving players are not
multiplied. `MCParts` puts nine modules that share no state side by side: a behaviour
of it is a behaviour of one of them while the others stay as they began.

In all modules a coroutine is a record with its position (`at`, `pc`) and the local
variables that survive a yield; a field of the source keeps its name. Data that no
property tells apart is left out: messages to clients are only the yield they are,
Elo gains are their sign, times are counted in timer periods.

**PickHero.** `picked` and `confirmed` are the two fields of a player,
`max_pickTime` the countdown. `PickHero` and `ConfirmHero` are the client requests;
`BindSkills` and `ConfirmNotified` are the parts of `confirmHero` after its calls;
`Update`, `Visit`, `LoopDone`, `AiPickHero`, `AiPickNotified` the timer with its
picks for robots and the absent; `StartRoom` and `EnterMap` the hand-over;
`QuitPick` the monitor's message; `CallFails` a call to an exited agent, which ends
its coroutine. An agent may have exited before the selection had it watched
(`unwatched`): the monitor answers false, `CMD.init` ignores it, and no message comes. Ids are numbers because the code compares them up to the last digit
in one place and up to the last two in another.

**Match.** The keep and strict lists are sequences of requests, in list order since
the code removes by index. `RequestMatch` and `AddtoKeeplist` are the two halves of
a request around the monitor call; `Update`, `UpdateKeeplist`, `UpdateStictlist`,
`Relist` the update loop; `addtoStictlist` with `Search`, `RemovalOrder`, `TakeOut`
the search and the removals (what `table.sort` and the insertions at the front or the
end do is the order in which `InOrder` lists a set); `HandleMatchWithAi`, `PickHeroReady`, `EnterPickHero`,
`Entered`, `HandleMatchDone` the creation of a hero selection. The update timer is
armed before the work, so update coroutines overlap. The loose list is empty between
steps (`useAI = true`) and is no variable.

**Room.** `co` are the coroutines that may begin the battle (loading requests and the
six-second timer), `chain` the update chains they arm. `LoadingRes`, `Counted`,
`Begin` are the counting loop and `waitForLoadingCompleted`; `BattleUpdate` decides
the outcome; `CalcRes`, `CalcGains`, `GiveResult`, `RecordResult`, `LeaveMap`,
`CloseRoom` settle it call by call. `Combat` stands for all that entities do: it
adds kills and fells buildings at any time, also during the settlement. `UpdateRaises`
is an error in an update with all agents there (`affects_death` is one): it ends the
chain, whose timer is armed on the last line.

**Session.** One account, its connections, and one battle. The other players of the
battle are there where they matter to this account: the server manager's loops over all
of them stop at an agent that has exited (`RoomStartCut`, `RoomEndCut`), and what was
noted or given back of those behind it stays undone (`RoomUnknown`). An agent is named by the
connection that created it, which is what its `user.fd` keeps. `Auth` to `Forward`
are the login; `CloseAgent` is the beginning of `close_agent`, used by its three
callers (`SocketClosed`, `HeartbeatTimeout`, `CloseOther`), and `Kick`, `Deref`,
`SendDisconnect` its rest; `EnterGame`, `CloseOther`, `OtherClosed`, `Register` are
`userEnter`; `RoomStart`, `RoomRef`, `RoomDeref`, `RoomForget` the server manager's
`roomstart` and `roomend`; `Disconnect` the agent's exit. A socket belongs to the
login slave until the agent forwards it, so the gate reports a connection lost only
after that. What `pairs` does with entries added during the loop of `userEnter` is
left open: they may be met or missed.

**Economy.** Several agents of one account may be alive: a login makes a new one
whenever there is no battle, and it loads the tables one by one (`EnterGame`,
`LoadTable`) before the connection of the one before is closed. Each has tables of its
own (`mem`), and all write into one database (`db`); `foreign` notes, for the properties,
what others have written since an agent wrote or read it. A client request is a coroutine
of an agent (`Host`) that runs through a sequence of changes
(`UpgradeCard`, `BuyBox`, `RecvMailItems`, `RecvMissionAward`, `ExploreRefresh`,
`GiveBattleGains` give the sequences). A change (`Effect`) alters the agent's tables,
asks `uniqueservice` where the database is, which is answered in the order of asking
(`SendFields`), and sends what the tables hold *then*; the database's answer
(`Answered`) lets the coroutine go on. `AgentExit` may come at any point and loses
what was not sent. `Midnight` makes the
daily numbers due for renewal. Amounts are one unit; clamping is kept. `paid` counts the
fragments paid as far as they matter; when an agent loads a level, it counts as paid.

Three stronger properties would be false, as the work on the proofs showed; TLC confirms
them on instances of the run's size or a little larger. (1) "A level in the database has its
payment in the database": of three upgrades that overlap, one sends the level that a
second has just set (`cards_method.lua:98` sends what the table holds then), while the
second's payment still asks; if the agent exits now, the level is kept and the
fragments are too. (2) "`exploretimes` never becomes negative": `addExploreTimes`
refreshes the daily numbers first, and at midnight that yields between the test and the
decrement, so two requests may take the same last exploration. (3) Either of them across agents: a second agent that has
loaded the fragments before the first one's payment was sent, and adds one of a mail,
writes its stale number over the payment, and the level is kept. `LevelsPaid`,
`DirtyOwned` and `ExploreTimesTested` say what does hold, and name what another agent
has overwritten as their exception; `MailOnce` needs none, since an agent loads the
mails after the cards.

**Affects.** One player, affects of three kinds: a control affect counts in
`affectStateRefs`, damage that recurs, damage at once. The update chain and a request
take turns at the yields, which are where the clients are told: before an affect is
inserted (`Insert`), before one is removed (`Undo`), when the player dies (`Died`).
An index beyond the list is a Lua error (`IndexError`) and ends its coroutine, for
the chain with its timer; so is telling the clients once the agent of one of them has
exited (`AgentExits`, `TellFails`). `lost` counts the control affects that were counted
by `onEnter` and never inserted for that reason. Affects of other kinds, some of which
yield inside `clear`, are not modelled.

**EventStamp.** Life and mana of a monster and the clients that follow it. `QueryEvent`
is a client's question, answered at once or kept; `AdvanceEventStamp`, inside `AddHp`
and `UpdateEntity`, answers all that are kept; `ClearCoroutine` and `RemoveEntity` are
the two steps in which a dead monster leaves. `told` and `done` are history.

**PathFinding.** One action for each node taken from the open set; `Neighbour` is the
body of the loop over the eight directions. `best` is a reference: the least cost of
every cell, computed by improving costs until none improves.

**Mailbox and Actor.** Threads (workers, timer) and services with a reference count,
a mailbox, and flags. Every critical section of `skynet_mq.c` is one action, and so is
every atomic operation on a reference count, so that threads interleave between them:
`Send`, `Grab`, `Push`, `Release`, `Delete` are a message on its way; `Top`,
`GrabContext`, `Pop`, `Length`, `Return`, `Rotate`, `PushBack` a worker's round;
`Register` to `FailDrop` the launch of a service, which may fail, with what the
launcher does to the context after giving its reference up (`Publish`, `Announce`), when
a kill may have freed it; `Retire`, `Kill`,
`MarkRelease`, `Reap`, `DropOne`, `FreeQueue` its end; `Doze`, `Wakeup`, `Quit` the
sleep of workers and the end of the process. `Actor` knows only a queue, what is being
handled, and whether a service is running: messages are handled one at a time in the
order of arrival, and are discarded only after the exit. `Mailbox!ActorSpec` is
`Actor`'s specification under the mapping `Abstract`, and TLC checks it as a property.

**MessageQueue, HandleStorage, Timer, SocketServer, Gate** follow their C functions:
one action for each critical section or for each handled command or event; the map in
`PROJECT.json` gives the lines. In `HandleStorage` the lock's own atomic operations are
actions, since it is the lock that is in question, and `ctx->handle` is assigned after
the lock is released, as in the source. In `SocketServer` a write may take any number
of parts of what it is given or fail, and `reserve_id` works from other threads
between its compare-and-swap and the store of the id. A failed assertion is a state
(`failed`, `aborted`) in which the process has ended. An accept that finds no file left is reported
as an error of the listener, which stays open (`TellLimit`). In `Gate` the bytes are numbers,
sizes take two of them, and a socket may deliver any prefix of what is coming.

Definitions commented as faults (`CloseAgentStillKnown`, `UpdateTooEarly` and the
like) are not part of any specification: each is a plausible mistake in the
definition after it, kept to confirm that the properties notice it.

## 3. What TLC checks

| run | instance | shows |
|---|---|---|
| `pick` | two humans, a robot, two heroes, one exit, also before the agent is watched | picks distinct (`PickedDistinct`); the clock is cut short only when all have confirmed (`EarlyEnd`); what the room receives (`RoomComplete`); the selection ends, also when a call to an exited agent ends the timer, unless all who have exited did so before they were watched (`Ends`) |
| `match` | three requests of one rating, of different level, matches of three, two updates, one cancels or goes away | a request is in one list or in one coroutine's hands (`QueuedOnce`); groups have the right size and no repetition (`GroupsSound`); no full group of compatible players waits side by side (`NoMissedMatch`); forming a group removes exactly its members (`OnlyMatchedLeave`) |
| `match_lone` | one request, two updates | a lone player gets a game with robots (`EventuallyPlays`) |
| `room` | two players; two overlapping loading requests beside the timer and three update chains, or one request with a client that drops and an agent that exits | the last loader starts the battle (`LastLoaderStarts`), one settlement (`SettledOnce`), payments agree with the outcome (`ResultsSound`) and pass over nobody except at and behind an exited agent (`NoneSkipped`), the room closes though nobody loads or kills, unless an agent has exited or errors have ended every update chain (`RoomCloses`) |
| `session` | two connections, one battle | the counter is exact (`RefCounted`), an agent that nobody needs exits, unless the loop of `roomend` stopped before its account (`AgentsExit`) |
| `mailbox` | two workers and the timer, a running and a launched service | a mailbox has one owner, and has one whenever it holds messages (`OwnedOnce`), contexts and mailboxes are alive while they are used, except by a launcher after its release when the handle was retired meanwhile (`AliveWhileUsed`), the actor semantics (`ActorSpec`), mailboxes are served (`Handled`) and freed (`Reclaimed`) |
| `parts` | nine modules, one at a time | see below |

`pick` also checks the types of its module; those of `Room` and `Session` are proved.

What `parts` shows, module by module:

| module | instance | properties |
|---|---|---|
| `HandleStorage` | two threads, two contexts, a table of one slot that grows to four, handles modulo 4 | a writer is alone under the lock (`LockExcludes`); a handle finds a context that is alive and counted (`FoundAlive`) |
| `Timer` | five levels of two lists each, two timers, clock starting at zero or just before its wrap | a timer is handed over at its tick, and until then it is where `add_node` would put it now (`OnTime`) |
| `MessageQueue` | an array of two that grows to eight | the ring is a queue (`RingIsFifo`) |
| `SocketServer` | two slots, three ids, packages of two parts, five mixtures of requests | packages whole and in order on the wire, the buffers and their size sound (`WireInOrder`); what waits will be written (`WriteArmed`); a close a service asked for is under way (`CloseUnderWay`); no message about an id after its close, except the connections accepted by a listener that has once found no file left (`NothingAfterClose`) |
| `Gate` | two plans: three packages beside two, three connections with a limit of two, one hash chain | packages whole and in order (`PackagesWhole`); leftovers belong to open connections and the number of clients is right (`ConnectionsSound`) |
| `PathFinding` | all labyrinths of nine cells and all goals, four or nine nodes; a wide body with one obstacle on twenty cells | a closed node has its least cost, the sets do not meet, the path is a shortest walk, or the start (`PathRight`) |
| `Economy` | two agents of one account, up to three requests out of six menus, two days, amounts up to one (`MaxInt`) | a mail is received once, also across an exit (`MailOnce`); levels are paid for, and where the database has only the level a request is about to save the payment, or another agent has overwritten it (`LevelsPaid`); every unsaved change has a request that will save it, or another agent has overwritten it (`DirtyOwned`); explorations become unlimited only through midnight between test and decrement (`ExploreTimesTested`) |
| `Affects` | two skills of two affects, the chain and one request, two casts, an agent that exits | a control affect does not outlast itself, except one lost at the call to an exited agent (`NoAffectOutlasts`) |
| `EventStamp` | two clients, two reasons, three changes | nobody waits for what has happened (`WaitersUpToDate`); every reason of a change is told (`ReasonsReported`) |

Runs that TLC refutes, each a disagreement between the code and what it says:

| run | the code says | the code does |
|---|---|---|
| `match_lost` | `match.lua:19`, nowInMatchers are the players being matched | a stale index after the robots were fetched removes a bystander, who is in no list and can never ask again |
| `room_loops` | `room.lua:193`, entities are updated every 0.03 s | timer and last loader both start an update loop, because `last_update_time` is tested before and set after a yield |
| `session_battle` | `watchdog.lua:46`, an agent in battle is kept | `disconnect`, decided on a counter of zero, arrives after the battle's reference was counted, and the agent exits |
| `economy_boxes` | `system_ch.lua:159`, today's purchases are used up | two purchases that overlap both pass the test for the last chest, the counter becomes -1, and -1 means without a limit |
| `affects_death` | `room.lua:193`, entities are updated every 0.03 s | recurring damage kills in the middle of the loop over the affects, the emptied list is indexed, and the error ends the update chain: the room stands still |

The consequence of `session_battle` is worse than it looks: `roomend` then fails on
the exited agent, `roomAccount` keeps naming a closed room, and every later login of
the account fails in `getAgent`. The same stale index as in `match_lost` also lets a
timed-out player be matched a second time while the robots are fetched.

### Weak points no property covers

Seen while modelling; most are reached by the models, but either nothing in the
source promises the contrary or they need no exploration to be seen.

- `match.lua:127`: an exited agent of a group makes the call fail, and the players behind
  it are in no list and never told of a hero selection.
- `match.lua:159`: two requests of one account in a row are both queued;
  `nowInMatchers` is tested before and set after a call.
- `pickHero.lua:40`: the answer false of the monitor is ignored. When all the agents that
  have exited did so before the selection had them watched, the timer chain dies of a call
  to one of them and the selection hangs for ever (`PickHero!Stranded`).
- `pickHero.lua:76`: `confirmid` is read before a call and stored after it; a player who
  picks again meanwhile confirms a hero he has not picked. The room gets the pick.
- `pickHero.lua:131`: the server's choice is refused when somebody holds the upgraded
  card of the role, and the player enters with hero 0.
- `agent.lua:430`: `isOnLine` returns a misspelt field, so a player who was away and
  is back is settled as a run-away (`Room!IsOnLine`).
- `watchdog.lua:114`, `character_handler.lua:109`: two logins that enter together both
  stay; after a reconnect the new connection is never registered.
- `servermanager.lua:43`: `roomend` stops at an exited agent, so the references and the
  `roomAccount` entries of the players behind it stay, their agents never exit, and their
  later logins fail in `getAgent` (`Session!Abandoned`).
- `agent.lua:107`: `reconnect` does not refresh `heartBeatTime`, and the check ends for
  good after one time-out: a new connection may be kicked at once, or never watched.
- `loginslave.lua:152`, `character_handler.lua:109`: two agents of one account overwrite
  each other's numbers in the database.
- `servermanager.lua:56`: a second room before the first has ended overwrites
  `roomAccount`. `Session` has one battle.
- `mission_ch.lua:70`, `explore_ch.lua:132`, `system_ch.lua:139`: award, exploration
  and limited goods are given before the flag or the counter that forbids a second
  time. `account_method.lua:156`: `refreshtime` is not saved, so every login of a new
  agent renews the daily numbers that were lowered before.
- `AffectTable.lua:177`: an affect that has run out and is not yet removed is undone a
  second time by `removeBySkillId` or by death: the count goes below the affects in
  force and a later stun has no effect (`NoAffectOutlasts` is the other direction).
- `AffectTable.lua:140`: a control affect counted but, because a client's agent has exited,
  never inserted is never undone: the player stays controlled (`Affects!lost`).
- `Imonster.lua:125`: a question about a monster asked between `clear_coroutine` and
  its removal is never answered. `Imonster.lua:105`: a pet that has died leads the
  hate list and is looked up.
- `EntityManager.lua:82`: an entity is removed by the index it had before its update.
- `centermail.lua:43`: an old agent's `listen(false)` removes the new agent.
  `toprank.lua:38` and `:55`: `olddata` is cleared after a read over many yields; the
  tie breaker becomes negative after a thousand equal scores.
- `skynet_server.c:145`: `ctx->handle` is assigned outside the lock, so a growth of
  the table in between hashes it by handle 0 and an assertion can fail.
  `skynet_server.c:154-160`: after its release the launcher still writes to the context
  and reads the handle of what may be freed memory. `AliveWhileUsed` says when. The read
  of `inst->handle` in `cmd_launch` (`skynet_server.c:478`) is under the same exception
  and not followed further.
- `socket_server.c:1143`: without a free file the listener's error is reported under its
  own id; the gate then closes the socket as if it were a broken connection
  (`gateserver.lua:113`), and nobody can connect until a restart.
- `socket_server.c:255`: between the compare-and-swap of `reserve_id` and the store of
  the id, commands for the slot's old id still match; sending to it would fail an
  assertion (`Abort` in the model). A file that is bound never arms its write event.

### Bounds

Two or three actors suffice for what these properties are about: each hazard is a
race of two coroutines or threads over one table, with a third as the bystander
(`match_lost`). `MaxExits`, `MayExit`, `MayCancel`, `MayDrop`, `MayFall` limit who may
do a thing, not when; `Slots`, `Requests`, `Updates`, `Coros` limit how many coroutines
of a kind are alive; `MaxPicks`, `MaxCasts`, `MaxStamp`, `MaxQueued`, `MaxTicks`,
`MaxDays` and `MaxId` cap counters. Timeouts are one or two periods, so that a request
passes through every stage. `BattleTime` is one update, so that clock, kills and
buildings all decide. `Session` allows one battle for an account and one `enterGame`
for each connection; two connections give both kinds of overlap, a reconnect to the
old agent and a second agent. The `Workloads` of `SocketServer` are five mixtures (two
packages of different priority and a close; reuse of a slot; late commands; accepting;
binding and shutting down), each with the requests that can meet. The `Menus` of
`Economy` put together the requests that touch the same fields. Tables start at the
smallest size that grows, counters of bits at one bit a level, so that wraps and
growths happen within a few steps. The safety of `PickHero`, `Room`, `Session`,
`EventStamp`, `Economy`, `MessageQueue`, `HandleStorage`, `Mailbox`, `SocketServer`,
`Match`, `Gate` and `Timer` is proved for all sizes, so their bounds matter for
liveness only.

Deadlock is not checked where all activity may legitimately end: in `Session` when all
clients have left, and in `MCParts`, `MCEconomy`, `MCAffects`, whose bounds use up the
requests. The other modules stutter explicitly where the service has exited.

### Fairness

Weak fairness is assumed for what skynet schedules: a timer that is armed fires, a
message in a mailbox is handled, a call is answered or fails. It is given to the
continuation of each coroutine and to the timers, never to clients: nobody must
pick, load, confirm, kill or leave. In `Session` it includes that a battle ends,
which `room` shows of the room. That a message in a mailbox is handled is what
`Mailbox` shows of the scheduler (`Handled`), where fairness is only that every worker
and the timer thread go on running and that handlers return.

## 4. What is proved

All proofs are hierarchical, one lemma or step for each action; the last step of a
theorem combines `Init => IInv` and `IInv /\ [Next]_vars => IInv'` with temporal
logic.

- `PickHeroProofs`: `TypeCorrect`, `PicksStayDistinct`, `EarlyEndIsUnanimous`,
  `RoomIsComplete`, for any players, heroes and request slots, from the assumptions
  of `PickHero` (ids of at least three digits, a pick time in whole seconds). The
  inductive invariant adds to the properties that who has confirmed or is inside
  `confirmHero` has a pick (the check `pickedheroid` precedes the yields and nothing
  erases a pick) and where the update coroutine stands.
- `MatchProofs`: `MatchQueuedOnce`, `MatchGroupsSound`, `MatchNoMissedMatch` and
  `MatchOnlyMatchedLeave`, for any requests, accounts, ratings and levels, any timeouts
  and size of a match and any number of overlapping updates. The first half is about
  sequences: `InOrder` lists each element of a finite set once and in order
  (`InOrderIs`), so the search returns each place in range once (`SearchIs`) and the
  removals come by descending index (`RemovalIs`); then `TakeOut`, although each removal
  shifts what is behind it, takes out what the indexes meant before the first of them
  (`TakenOut`). `TakeOut` is a recursive function; what it computes is shown by the least
  number of removals that would be a counterexample (`LeastNumber`). `IInv` adds to the
  properties what each coroutine may be doing (`FrameSound`: the group it handles was
  sound when it was made and nobody else changes it; an update comes back to the loop it
  left), that a request not yet added is in no list (`Asked`), and `Relisted`: a player
  whom an update is going to search again is not in the keep list, so that taking its
  account out of the strict list is enough before it is added. No match is missed because
  whoever is added last has counted everybody in range (`FoundTooFew`, `AddedSound`), and
  removing others never hurts (`FewerSound`).
- `RoomProofs`: `TypeCorrect`, `OneSettlement`, `GainsAgree`, `NobodySkipped`,
  `LastLoader`, for any number of players, requests and update chains. The argument:
  the chain that decides the outcome sets `OverRes` before its first call, so at most
  one chain ever settles (`OneSettler`), and its position tells what has been given
  and recorded (`Progress`); this needs no assumption that there is one update chain,
  which would be false. `LastLoader` rests on: while all are loaded and nothing has
  begun, some counting loop has counted everyone it has passed.
- `SessionProofs`: `TypeCorrect` and `CounterIsExact`, for any finite set of
  connections. `RefCounted` is not inductive alone: a close must only meet
  connections whose agent has counted them (`Announcement`), an agent that has not
  started is known to its own login only (`Fresh`), the position of a login
  determines the state of its agent (`Logins`), and `roomstart` and `roomend` speak
  of the same agent (`Battles`). The steps that move a reference change the set
  `Holders` by one element, and `FiniteSetTheorems` gives the cardinality.

- `PlayerProofs`, `EventStamp`: `WaitersKnow` and `ReasonsArrive`, for any clients and
  reasons. The invariant adds that somebody waits whenever `newClientReq` is set and the
  entity is alive (`FlagForSomebody`): otherwise an answer to nobody would clear the
  reasons.
- `PlayerProofs`, `Economy`: `MailReceivedOnce`, `LevelsArePaid`, `ChangesAreSaved`,
  `ExplorationsTested`, for any number of agents of the account, overlapping requests, levels, days and exits.
  `AgentInv` says of each agent what holds of its tables and requests, and `Owned` ties
  what it has not saved to `asking` or to `foreign`: what another agent does to the
  database disturbs an agent only in fields that are then foreign to it. What is left of a request's sequence of changes follows rules that a suffix inherits
  (`Shaped`: a mail's items come right after its flag, a level after its fragments and
  its gold, a decrement after its refreshment and its test); those who ask for the
  database do so once and are not elsewhere (`AskSound`, so sending the oldest's fields
  takes the cover from no other change). `MailSound` says that one request at a time is
  between flag and items. `LevelSound` is the interesting one: a level that is going to
  be set is paid, or its fragments are still there, or somebody else's payment took
  them, in which case the level is that one's (`Promised`); `delCardByUuid` returns
  silently when there are none, so nothing weaker is inductive.
- `PlayerProofs`, `AffectsEnd`, for any skills of the three kinds modelled, coroutines, number
  of casts and exits of agents (`NoAffectOutlasts`). The property with the types is inductive; the work is in the
  counting. A list with some indexes taken out is a bijection of its places with the
  indexes that stay (`RanksAreBijective`, `RemoveAtElements`), so what is in force in it
  is what was in force at those indexes (`CountThrough`), and replacing, undoing,
  running out and dying each lower the count by at least what they put out of force.
- `SkynetProofs`, `RingHoldsFifo`, for any initial size; the invariant is the
  property with the types, and the steps are arithmetic on indices modulo the array,
  case by case for a push that wraps, grows or neither.
- `SkynetProofs`, `ConnectionsKept`, for any peers, package sizes, hash size and limit of
  clients (`ConnectionsSound`). The invariant adds that only a connection that was
  accepted and not closed is in the table (`TableFollowsLink`), so that accepting counts
  a client that was not counted. `find_uncomplete` takes the only leftover of a
  connection (`FoundIsOwn`, `TakenIsSound`), and at most one comes back, its own
  (`RestIsOwned`).
- `SkynetProofs`, `PackagesAreWhole`, for any peers and packages, base of the digits, hash
  size and first size of the queue (`PackagesWhole`). `StreamsWhole` says where the
  splitter stands in the bytes of each connection: the bytes that have come end in
  package `k + 1` or before it, the leftover is what `push_more` keeps of the bytes behind
  package `k` (`Standing`), and while the connection is wanted the first `k` packages have
  been handed over. The bytes a peer sends are its packages one behind the other
  (`StreamLaid`), two digits give a size back (`DigitsOfSize`), and from the border of a
  package `push_more` gives exactly the packages that are complete (`PushMoreCuts`), also
  when a leftover, with one byte of its size or with both, comes first (`CarryCuts`,
  `ContinueCuts`). The leftovers of connections with the same hash stay as they are
  (`SameOf`). What is pushed into the empty queue is popped in the same order, however
  often it grows meanwhile (`PushDataAppends`, `PushAllPops`). `push_more` and the pushes
  are recursive functions; as in `Match`, what they compute is shown by the least
  counterexample.
- `SkynetProofs`, `TimersAreOnTime`, for any lengths of the lists and levels and any
  timers, from the assumption that a list and a level have at least two places. `OnTime`
  says where a node is but not when it is due, so `TimerInv` adds that a node's `expire`
  is the time plus the ticks that remain (`Placed`), that a timer is in one place
  (`OnceOnly`, `Handed`) and in no less than one (`Kept`), and that nothing is due when a
  tick begins (`NoneDue`). A block of level `i` is the numbers that agree above its bits;
  `add_node` goes by the smallest block that a node shares with the time (`PlaceBy`). At
  a tick `timer_shift` moves the greatest level whose block begins there
  (`ShiftsLevel`); a node due within half a turn was in no block that the time leaves
  (`BlockIsLeft`), so its place changes only if it was in the list that comes down
  (`StillPlaced`). Half a turn is what an `int` timeout guarantees, and it is needed:
  past it a node could be in the block that has just been left, one turn later. The
  assumption on powers of two is arithmetic that the provers must be told.
- `MailboxProofs`: `AccountsRight`, `MailboxOwnedOnce`, `OnlyLaunchersDangle` and
  `SchedulerImplementsActors`, for any services, workers and pollers, any weights and any
  number of messages. The invariant `IInv` is `TypeInv /\ Shapes /\ Accounts`, and
  `Accounts` is six facts: the reference count of a context is the number of those who
  hold it (`Counted`); a context lives as long as it is counted and one thread deletes
  it (`Lives`); a mailbox that may be dispatched is in one place, the global queue or
  one thread's hand (`OnePlace`), which agrees with `in_global`; messages stand only in
  mailboxes that live (`Mails`); what threads hold in their local variables is counted
  (`Hands`, `Sources`). None can be left out: `AliveWhileUsed` needs the counts, they
  need to know who deletes, and who deletes follows from the mailbox being in one place.
  In the refinement, registering a context is `Launch`, a push `Arrive`, a pop `Handle`,
  the handler's return `Finish`, the deletion of the context `Exit`, a message dropped
  with its mailbox `Discard`; every other step changes nothing an actor sees. The
  assumption on `2 ^ Weight` is arithmetic that the provers must be told.
- `SkynetProofs`: `LockIsExclusive` and `FoundIsAlive`, for any finite set of
  threads, any contexts and any size of the table, doubled or not. For the lock
  (`LockInv`): `read` is the number of threads that have counted themselves, `write` is
  set while a writer waits or writes, and there is one such writer; `Phases` ties what a
  thread is about to how it stands to the lock. For the contexts (`RefInv`): the count
  of a context is the number of threads that hold it, plus one for the table
  (`RefsCounted`), a context is in one slot (`OneSlot`), known to one thread before it is
  registered (`Secret`), and what a reader or writer has found under the lock is still in
  the table (`Known`), which is where the lock is used.
- `SocketServerProofs`: `SocketsSound`, `WritesAreArmed`, `ClosesAreAnswered`,
  `SilentAfterClose`, `WireIsOrdered`, for any number of slots, ids, parts and requests. `SocketInv` is
  `SocketType` with: a slot's fields agree with its state (`SlotsSound`); a slot in use
  has an id of its own whose service was not told of its end (`Placed`); an id that
  `reserve_id` has given out holds its slot alone (`Held`) until the command that opens
  it, the first about it in the pipe, is read (`Commanded`); and an id reported closed is
  never given out again (`Past`); an id that ran out of files belongs to a listener as
  long as it is open (`Listening`). Together they make the reuse of slots safe although
  commands for the old id may still be in the pipe. `Waited` covers the closes that are
  owed and holds through aborts too.
  `WireInOrder` says nothing of what will be written, so it is not inductive. `WireInv`
  speaks of the `Line` of a socket, which is the wire followed by the high and then the
  low list: the whole line is packages in order, the last one complete (`LineSound`), the
  low list begins with a whole package and holds low priority only (`LowWhole`), every
  package of a line was sent before those still in the pipe (`Older`, `Sends`), and
  nothing was ever written for an id that has no socket yet (`Fresh`). `send_buffer` moves
  the border between wire and lists and leaves the line alone (`FlushedLine`, `SentLine`);
  `raise_uncomplete` moves the border between the lists (`RaisedLine`) and is what keeps
  `LowWhole`; a package is sent by putting its parts at the end of the line or between
  high and low (`StreamGrows`), which is in order because of `LowWhole`.

Only model-checked:

- liveness everywhere (`Ends`, `EventuallyPlays`, `RoomCloses`, `AgentsExit`, `Handled`,
  `Reclaimed`), which the prover does not reach;
- `PathFinding`, whose recursive operator the prover does not support.

## 5. What is not modelled

See the components of `PROJECT.json`. In short:

- of the game: movement, attacks, spells, statistics, drops, spawning and the
  artificial players (floating-point positions and times; what they do is in `Room` as
  kills and falling buildings, at any time); most of the agent's requests that are one
  change without a test apart from it; the rank list, central mail, activities and
  cooldowns; the save queue, which is switched off; tables of game data and message
  layouts; the web console, logging, chat, start-up and the load robots;
- of `Session`: account creation, the authentication timeout and the agents of robots
  (which are never given back a reference and so stay; they have no connection);
- of `Room`: `addOffLineTime` is one fact, off line too long or not;
- of skynet: UDP, socket options, harbours, the monitor thread, names of services,
  the Lua library's tables of sessions;
- third-party code: the Lua interpreter, jemalloc, cjson and the other libraries.
  They are used unchanged and are most of the repository's C lines, so the share of
  C lines the modules map stays small although the parts of skynet the server rests
  on are modelled; the game's own logic is Lua.

## 6. Plan

1. **Services** - central mail and its listeners together with `Session`, the rank list
   with its `olddata` flag.
2. **Combat** - the entity list under two update chains, drops given over a yield.
3. **Composition** - `Session` with two battles; `Match`, `PickHero` and `Room` as one
   life of a player, refining an abstract "idle, matching, picking, fighting"
   specification.

Runs of one module are merged where the size of the instance allows; the refuting runs
keep their counterexamples short by instances of their own.
