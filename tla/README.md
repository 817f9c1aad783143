# Verification of nyan-remote

nyan-remote lets a phone read and drive Claude Code sessions that run on a PC.
An *agent* on the PC serves a web app; a *relay* (Cloudflare Workers and Durable
Objects) carries end-to-end encrypted tunnels between phones and agents; an
*account* Worker sells plans and signs the tickets that raise the relay's limits.

This directory holds TLA+ models of the parts whose correctness depends on the
order of events, TLC configurations that check them on small instances, and
proofs checked by TLAPS. `PROJECT.json` maps every definition to the lines it
models, and lists hazards, mutants, findings and theorems; paths below are
relative to `src/`.

1. [Inventory](#1-inventory)
2. [Modules](#2-modules)
3. [Runs](#3-runs)
4. [Fairness](#4-fairness)
5. [Proofs](#5-proofs)
6. [Findings](#6-findings)
7. [What is assumed, and what is not modelled](#7-what-is-assumed-and-what-is-not-modelled)
8. [Plan](#8-plan)

## 1. Inventory

| component | state | operations | interacts with | what is hard | what makes it correct |
|---|---|---|---|---|---|
| relay room (`relay/src/room.ts`) | only the tags on its sockets: agent and phone wires, numbers, proofs, plan, marks | accept, prove, announce, admit, carry, evict, enforce, tickets, revocation | agent's link, phones, both ledgers (remote calls) | every await is a step boundary; replaced agents, late frames, late closes, calls back from a ledger that is being asked | a frame reaches whom it was meant for or nobody; limits hold when something is carried (one held message apart); no orphan slots |
| phone ledger (`relay/src/phoneLedger.ts`, `Phones` in `worker.ts`) | per phone: rooms with first and last use | claim, takeover, licensed release, pruning | rooms: tells the rooms that lose their place before it writes | marks in rooms cache it; lost calls; told but not written | one free machine per phone; marks are backed |
| account ledger (`relay/src/ledger.ts`, `Accounts` in `worker.ts`) | per account: machines with a slot, credentials per slot, removed numbers | claim, release (record, tell, free) | rooms, account Worker | removal racing claims of the same credential; retries; downgrades | a removed credential runs no room; a slot in use is not freed; plans bound machines |
| relay worker (`relay/src/worker.ts`) | wiring of the three Durable Objects; HTTP front with rate limits | routes, remote calls | all of the relay | failing calls | part of the modules of the three objects |
| agent's relay link (`agent/src/relayLink.ts`, `relayRun.ts`) | slots by number, backoff, keepalive | opened, data, closed, drop, reconnect, tickets | room, tunnel | slots of old wires, half-dead lines, stop while connecting | no two phones on a slot; one live link; retries go on until stopped |
| tunnel (`shared/tunnel.ts`, `agent/src/tunnel.ts`), with the web transport (`web/src/transport/*.ts`) | requests and streams by number, a chain of jobs and a chain of sends; the route's line, subscriptions, waiting requests | open, request, answer, subscribe, close; connect, reconnect, time out | link, HTTP routes, registrations | cancels crossing answers, revocation of an open line, half-dead lines, lines replaced | a request runs at most once; what is shown as live is live; revocation holds on open lines |
| tunnel cryptography (`shared/crypto.ts`, `relayAuth.ts`, `relayFrame.ts`) | handshakes started, the counters and the two queues of a session | start, finish, accept, seal, open | tunnel | calls that overlap at their awaits, frames that are repeated, reordered or misdirected | counters are used once; what is opened is what the peer sealed, in its order |
| pairing and devices (`agent/src/devices.ts`, `routes/devices.ts`, `scripts/pair.mjs`, `web/src/ui/pairRun.ts`) | registered devices in memory and file, one-time codes and outcomes | issue, register, revoke, cancel, poll | tunnel, push, web identity | a queue whose head may fail to save; answers that are lost; the agent stops | what is told of a code or a registration is so |
| account Worker (`account/src/app.ts`, `store.ts`, `worker.ts`, `shared/license.ts`) | rows of credentials, leases, Checkouts, subscriptions | sign in, bind, issue, remove, forget, buy, signals | account ledger, Stripe | two removals of one row, leases that expire, calls of unknown outcome, signals out of order | removed means gone; one subscription per account |
| account watcher (`account/src/ops.ts`, `stripe.ts`, `session.ts`, `pages.ts`) | alert marks | scheduled checks | Stripe, Cloudflare | alerts repeated or lost | each alert sent once |
| account on the agent (`agent/src/account.ts`) | sign-in, cached ticket and its file | sign in, out, renew, watch | account Worker, link | a new sign-in overtakes a fetch at each await | a ticket of an old sign-in is never used |
| remote approval (`agent/src/permission.ts`, `permissionSweep.ts`, `routes/permission.ts`, `routes/hook.ts`, `claude/hookState.ts`) | requests that wait, quiet timers, "shown once", label | hook, answer, list, sweep, end of turn | Claude Code (hooks and transcript), phones, push | hooks that fire again, equal calls, late records, answers on old cards | answers decide the request that was on the card; live approvals are not dropped; the end of a turn is told as it was |
| auto-approve (`agent/src/autoApprove.ts`, `routes/autoApprove.ts`) | entries in memory and file, timers, a chain of operations | on, off, session end, expiry, start | approvals, push, disk | toggles during saves, failing disk, restarts | off stays off; what passes is saved |
| push (`agent/src/push.ts`, `routes/push.ts`, `web/src/ui/push*.ts`) and service worker (`web/public/*.js`) | key, subscriptions in file and browser, notifications shown | subscribe, synchronise, turn off, send, clear | approvals, events, devices | several tabs, requests whose work is done later, late lists | off stays off; the notification of what waits stays |
| events and state (`agent/src/events.ts`, `state.ts`) | open streams, state directory | broadcast, write file | everything on the agent | crash during a write | files are old or new, never half |
| Claude sessions (`agent/src/claude/*.ts`) and the thread on the phone (`web/src/ui/Thread.tsx`, `follow.ts`, `pending.ts`) | pages cut from a growing transcript, watchers, entries shown, sends that wait | follow, pull, load older, reset, settle a send | Claude Code's files, events | files growing while read or made anew, lost streams, requests that overlap | a thread shows one stretch, without gap or repetition; a send is confirmed by its own record |
| keystrokes (`agent/src/claude/keys.ts`, `inbox.ts`, `routes/message.ts`, `interrupt.ts`, `command.ts`, `scripts/relay.py`) | queue per session, cooldowns, the pipe to the pane | send, interrupt, clear, command, fall back | terminal, Claude Code's input box | a body and its Enter apart, a slow terminal, ESC in between | one message, one route; no Enter submits what is not its own |
| list, machines and approvals on the phone (`web/src/main.tsx`, `ui/history.ts`, `ui/Endpoints.tsx`, `endpoints.ts`, `notifications.ts`) | fetched lists, rows of machines, a copy being edited | poll, signal, probe, pair, unlink, save | transport, service worker | overlapping fetches, edits during pairings | nothing older over something newer; the list is what the user made of it |
| scripts (`install.sh`, `scripts/*.mjs`) | service, tree, settings, rc files, state directory | install, update, uninstall | systemd or launchd, account | steps that fail, kills, reboots | what is removed is removed whole, the agent in use is spared, there is a way back |
| QR code (`shared/qr.ts`, `qrDecode.ts`) | – | draw, read | pairing | two block sizes, field arithmetic, damage | what is read is what was drawn |
| agent shell, landing pages and site | configuration, static files | serve | – | – | plain input and output |

## 2. Modules

| module | models | state ↔ code |
|---|---|---|
| `FreeTier` | a phone's free machine: rooms, wires and the phone's ledger | `st`, `free`, `stale` are the tag's `dpending`/`dprom`, `free`, `dstale`; `asked`, `tries`, `take`, `rpc` are the locals of `#checkDeviceProof` across its await; `ledger`, `job` are the `Phones` object and the claim it runs under `blockConcurrencyWhile`; `paid` is `#paid()` |
| `FreeSlot` | what one claim does to the set of rooms (limit one) | `claimRoom` without times |
| `PhoneLedger` | the ledger of one phone as stored: times, order, pruning, changing limits | `stored` is `PhoneLedger.rooms`; `claimRoom`, `prunePhoneLedger` as operators |
| `Room` | one room and the agent end of its wire | `ag`, `dev`, `num`, `held`, `bound`, `last` … are the tags of the sockets; `toAgent`, `toRoom` the frames in flight; `slot` the map of `openRelayLink` |
| `AccountSlots` | credentials, tickets, the account's ledger and the rooms' tickets | `row`, `key` are the row of the account Worker; `reg`, `mids`, `revoked` the ledger; `lic`, `seq`, `applied` the agent's tag; `on`, `tk`, `ph` the runs of `#onLicense`; `rem` the stages of a removal |
| `Billing` | buying, and re-reading a subscription | `lease`, `attempt`, `shown` are the columns of the account; `checkout`, `late`, `sub` what Stripe has; `at`, `prev`, `todo` the position of each tab's request; `signal`, `read`, `fresh` that of each handler |
| `RelayKeeper` | the line to the relay and the loop that keeps one | `state`, `attempts`, `before` are those of `keepRelayConnected`; `ws`, `half`, `proved`, `beat`, `missed` those of `connectRelay`'s socket |
| `Tunnel` | one phone and one agent over the relay | `live`, `opening`, `takeover` are `relayRoute`'s; `ph` the carrier and wire of each line; `up`, `dn`, `cut` the relay; `ag` the agent's slot and tunnel of each line; `gen`, `valid`, `token` the registration; `ran` the handlers started |
| `Handshake` | handshakes of phones and agents under way together, and the sessions they end in | `message`, `used` are what `startHandshake` gave and `finishHandshake` spent; `fin`, `acc` each call between two awaits; `out`, `lastIn` the counters of a session, `sealing`, `opening` its queues (`#sendChain`, `#chain`); `sealed` what the network has |
| `Exchange` | what a screen may count on of a request (abstract) | – |
| `Pairing` | codes, registrations, `devices.json`, `nyan pair`, the phone's steps | `devices`, `oneTimes`, `settled`, `chain` are those of `devices.ts`; `disk` the file; `pc`, `said` the script; `phone` `pairRun` |
| `AgentAccount` | sign-in, ticket, its copy, the link | `acct`, `lic`, `mtime`, `generation` are `account.ts`'s; `file`, `copy` the two files; `task` each refresh or watch between two awaits; `held` the ticket on the link |
| `Approvals` | requests of one session, their generations, timers and sweeps | `entry` is the map `pending`, `req` what the request's promise gives, `quiet` is `quietUntil`, `promoted` is `promotedOnce`, `items` what a sweep has still to look at, `telling` the notifications whose text is being made up, `label` the permission notice of `hookState` |
| `AutoApprove` | entries in memory and in the file, the chain, timers, restarts | `mem`, `timer` are `state.active` and `timers`; `queue`, `op` the promise chain and the stage of each operation; `file` is `auto-approve.json` |
| `TurnEnd` | what is told when a turn ends | `record` is the CLI's record of the session; `stop`, `fresh`, `asked` the notes of `hookState`; `task` each announcement between two awaits; `last` the label remembered |
| `Push` | key, subscriptions, synchronising, turning off | `vapidFile`, `subs` are the files; `subsWriteChain`, `read` the queue and what its head read; `browser`, `off`, `lock` the phone's; `task` each press |
| `Tray` | notifications of approvals, and who clears them | `tray` what is shown; `pushes`, `lists` what is under way; `jobs` each cleaning between its list and its closing |
| `Keys` | what is typed into one session | `at`, `chain` are the requests and `serializeBySession`; `cool` the cooldowns; `pipe` the bytes under way; `box` Claude Code's input box (external) |
| `Thread` | transcript, pages, watcher and the screen of one thread | `file`, `len`, `torn` the transcript; `entries`, `tail`, `cursor`, `puller` those of `Thread.tsx`; `subscribed`, `events` the event stream |
| `Sends` | sends that wait for their record | `pending`, `shown` are those of `pending.ts`; `records` the transcript |
| `PhoneList` | the list of sessions on the phone | `fetch` each refresh; `st` what the screen shows; `sig`, `line` signals and the stream |
| `Connections` | rows of machines, and the copy in Settings | `rows`, `stored` are `endpoints.ts`'s; `form`, `seen`, `dirty` the copy; `probing`, `pair`, `unlink` what is under way, with or without its screen; `outlived` (history) what such an unlinking took from the rows and not from the copy |
| `Setup` | install, update and uninstall, step by step | `tree`, `olds`, `svc`, `hooks`, `rc`, `shim` what is on the machine; `run` the command and its step |
| `RcBlock` | the block in an rc file | `file` as characters and marks |
| `Qr` | the code as drawn, damaged and read | `board` the dark modules; `blocks` what was corrected |
| `MCLedgers`, `MCRoom`, `MCAccount`, `MCPhones`, `MCSettles`, `MCSession`, `MCTunnel`, `MCScreen`, `MCMachine`, `MCApprovals`, `MCAutoApprove` | small instances: model values, scenes, bounds, symmetry, views | – |
| `FreeTierProofs`, `TunnelProofs`, `RoomProofs`, `AccountProofs`, `PhonesProofs`, `SessionProofs`, `ScreenProofs`, `SetupProofs` | theorems (section 5) | – |

How they compose: `FreeTier` and `PhoneLedger` share `FreeSlot`, and
`SlotOfFreeTier` shows that the stored ledger under a limit of one is what
`FreeTier` takes it to be. `Room` takes two things as given that other modules
model: the ledger's answer (`FreeTier`) and the validity of the Plus ticket
(`AccountSlots`); it lets both change at any moment. `Tunnel` takes the relay as
two queues that may be cut, which is what `Room` promises of a wire
(`CarriedAsMeant`), and a session as what `Handshake` gives of it
(`OneConversation`), and implements `Exchange`: the mapping takes a request as
asked, started (and how often) and ended. `Tunnel`'s registration is one device
of `Pairing`. `AgentAccount` hands its ticket to the link of `RelayKeeper`.
`TurnEnd` reads the cards of `Approvals` as a set that changes at any moment.

Each await, remote call and event callback in the code is a boundary between two
steps; what runs without one is one action. Definitions whose name ends in
`Fault` are deliberate mutations of the definition they stand beside: no
specification uses them, and under each of them a property listed with it is
violated.

Several variables hold a configuration that is chosen in `Init` and never
changes, so that one run explores every choice: `scene` or `scenes` (which acts
and faults a behaviour may show), `selfHosted` in `Room`, `keyOf` in
`Approvals` (which calls have equal arguments), `kind` in `Setup`.

## 3. Runs

Most runs put several instances side by side: *a behaviour is one of one part*,
chosen in `Init` by the variable `part`, and the parts share the variables. A
property of a part says so (`part = "..." => ...`), and the n-th fairness
conditions of all parts share a formula, which asks of each part what its own
condition asks, since the others' disjuncts are never enabled there. Bounds that a
proof generalises are CONSTANTS, given in the `.cfg`; the theorems about a part
(`SessionProofs`, `PhonesProofs`, `AccountProofs`, `ScreenProofs`, `FreeTierProofs`)
are about the MC module with these left open, and those of `SetupProofs` about
`Setup`.

| run | parts and bounds | checks | shows |
|---|---|---|---|
| `ledgers` | free tier: one phone, two machines, two wires, two checks in flight; ledger: three rooms, limits 1 and 3, `IdleTime` 2, `MaxTime` 5 | `OneFreeMachine`, `MarkIsBacked`, `InUseKept`, `ClaimSettles` | the free slot is held in one machine only, over every interleaving of claims, takeovers, tickets, closes and lost calls; claims settle; a lowered limit holds, places in use are kept, and the abstraction in `FreeTier` is right |
| `room` | two agent wires and three phones; with three phones one agent connection and one thing under way, with two connections two under way and one towards the room; self-hosted with three wires in all | `CarriedAsMeant`, `NoOrphanSlot`, `NamesProvenKey`, `WithinLimits` | late frames and closes reach the phone they were meant for or nobody while agents replace each other; waiting rooms and limits hold under a plan that comes and goes; what is carried is carried under the plan of that moment, and a message held during the check is of a phone just found entitled |
| `account` | removals (two credentials of one machine, one removal), tickets (one credential, two plans, two checks at once), plans (two machines, two checks; one issue in flight, two valid tickets), buying (two tabs, two keys, two signals), signals (a tab, two handlers, one key) | `RemovedIsGone`, `SlotsInPlan`, `LastTicketCounts`, `BilledOnce` | a removed credential runs no room; a downgrade is enforced; a room ends on the outcome of the last ticket; two subscriptions are never made, and a signal answered with 200 was read |
| `phones` | approvals (two requests, two equal calls or one of a subagent and one of the main agent), auto-approve (two sessions, two operations), pairing (two keys, two codes, a stop), push (two keys and two endpoints), account (two sign-ins, two tasks), sends (two sends) | `WaitersKept`, `AutoAsTold`, `PairedAsTold`, `SubscribedAsAsked`, `OwnTicket`, `OneEach` | what the agent and its phones must never do |
| `settles` | auto-approve, approvals, the line, the account: smaller, with fairness | `LineInOrder`, `AnnouncedWhenListed`, `NothingHangs` | every entry ends, quiet requests are announced or settled, an announcement begins once and of what can be listed, a dead line is given up, a paid ticket reaches the relay; one loop dials, with a wait that grows |
| `session` | three sets of handshakes (two handshakes with two finishes and one accept; one finish and two accepts; one of each with data both ways), counters up to 2, one frame or body waiting; four sets of two or three requests typed at once; a thread of three records over two files, one failed request, one time in the background | `OneConversation`, `TypedOnce`, `OneStretch`, `NobodyWaits` | two ends have one conversation whatever the network does; nothing is sent twice or submits what is not its own; a thread has no gap; nobody waits for ever |
| `link` | two lines, two registrations, seven sets of acts and faults | `EventsLiveTrue`, `RouteInOrder`, `ExchangeSpec`, `NoRevival`, `AllGo` | requests are exchanges, revocation holds on open lines, what is shown as live is live, every request and every abandoned stream ends |
| `screen` | list (a session, two fetches, four changes, two moves, one failure), notifications (two machines, approvals and pushes, one cleaning), machines (two, with two relays, five acts), ends of two turns with two askers, announced one at a time, and of one turn without subagents, announced two at a time | `AsTheUserLeftIt`, `TurnsToldAsTheyEnd`, `NeverBack`, `LiveNotificationStays`, `ShownInTheEnd` | what a phone shows and keeps |
| `machine` | two commands of any kind, or three updates; every rc file of up to seven characters; QR codes of one block (every mask, every damage it bears), two blocks, and four blocks of two sizes | `UninstalledIsClean`, `AgentSpared`, `Recoverable`, `BlockInAndOut`, `QrReadBack` | what is removed is removed whole, what must stay stays; a code is read back from a damaged or mirrored board |
| `auto_approve_announced_twice` | one session | `AnnouncedOnce`, **violated** | finding 1 |
| `approvals_shown_then_hidden` | one call | `ShownStays`, **violated** | finding 2 |
| `thread_shows_an_older_page` | the effect runs twice | `InOrder`, **violated** | finding 3 |

Why the bounds are enough for the questions asked:

- *Free tier.* A conflict needs two rooms of one phone and two calls that
  overlap; a wire that is out can be taken again, so two wires also give a
  third connection that moves or releases the slot. Phones share no state; the
  proofs cover every number of all of these.
- *Phone ledger.* A limit of three lowered to one, with three rooms of different
  age, is what trimming and idling need; the clock passes `IdleTime` twice.
- *Room.* Routing needs a replaced agent with frames under way and a new one,
  and two phones whose numbers could be confused. Limits need one phone more
  than the limit, and no second agent.
- *Account.* Two credentials of one machine are what sharing a slot needs, and
  two checks give every order of answers. Buying twice needs two tabs, and a
  second key after the first was given up.
- *Approvals, auto-approve, pairing, push, account on the agent.* Two requests
  under one key are what generations are for; two operations let one run while
  an opposite one waits, beside timers that fire on their own. Finished requests,
  operations and tasks are taken again.
- *Tunnel.* A reconnect needs a second line and a revival a second registration;
  the seven scenes pair the acts and faults that meet in one function of the
  code. The proofs cover every number of lines, registrations, requests and
  subscriptions, and all acts together.
- *Handshake.* Two ends that could be confused need one call more than a session
  has; a counter used twice needs two frames, and an agent that accepts one first
  message twice needs two accepts. The proofs cover every number of all of these.
- *Keystrokes.* What can go wrong is between a body and its Enter, or an ESC and
  its Ctrl-U: a second request, and a third that shares the line or the cool down,
  meet all of it. The proofs cover every number of requests and every set of them.
- *Thread.* Three records with pages of one give a follow, a page further back
  and a gap between them; the second file is a transcript made anew.
- *List.* A late fetch needs a second one beside it, and something that changed in
  between. *Notifications.* What a list may get wrong is an approval that is asked
  for again, or one of another machine. *Ends of turns.* A repetition needs a second
  announcement, of the same turn or of the next. The proofs cover every number of
  these, and of machines and acts in Settings.
- *Setup.* Whatever a first command leaves behind is what a second one meets;
  trees pile up over three updates only. The proofs cover every number of commands
  and trees.

Deadlock is checked wherever a model always has a step; the configurations that
bound the acts of users (`CHECK_DEADLOCK FALSE`) stop when these are used up.

## 4. Fairness

Safety is checked under the bare next-state relation. The liveness properties
use weak (WF) or strong (SF) fairness of what the runtime or the code itself
drives, and nothing of users, peers, disks or networks:

- `FreeTier`: WF of `Commit`, `Tell` and `Answer` (a remote call ends, and a
  continuation runs), SF of `StartClaim`: a Durable Object takes its calls in
  turn, so a queued one is not passed over for ever.
- `AutoApprove`: WF of time and of the operation that runs; SF of a timer that
  is due (a restart may rearm it in between). Each write may fail.
- `Approvals`: WF of handlers, timers, notifications that are being made up, the records Claude writes of calls it made,
  and the lists of a phone that is open; SF of a sweep's look at a file, as a
  sweep that fails tries again 15 seconds later.
- `RelayKeeper`: WF of `Beat` (the interval of the socket) and of `Connect` (the
  timer of the wait).
- `AgentAccount`: WF of `Step`, `Fetch` and `Watch` (timers of an hour and of
  seconds); SF of an answer and its body: a fetch that keeps failing is retried,
  and one in the end succeeds.
- `Keys`: WF of each request's own next step. `Thread`: WF of arrivals (those of a
  fetcher with its start and its read, of which one at a time can happen), of the
  subscription, of the watcher's tick, of reads, pulls and events; the slow poll
  of the phone is *not* assumed.
- `Tunnel`: WF of each line's sends, receipts, arrivals, jobs and seals, and of
  the two timeouts. Nothing is assumed of reconnecting.
- `PhoneList`: WF of the poll, of signals, and of the fetches that run.

## 5. Proofs

Every listed theorem is of the form `Spec => []Inv`, an action property or a
refinement, and every proof is checked to its leaves. `PROJECT.json` lists which
property of which run each one states for every value of the constants.

`FreeTierProofs`, for any sets of phones, rooms and wires and any `MaxCalls`; the
last line for any rooms, limits, cap and idle time of a stored ledger
(`PhoneLedgerAssumption`: rooms are numbers, limits and the cap are at least one):

| theorem | states | assumes |
|---|---|---|
| `TypeCorrect` | `Spec => []TypeOK` | `None \notin Wires`, `LongLivedWires \in BOOLEAN` |
| `FreeSlotInvariant` | `Spec => []FreeInv` | `LongLivedWires = FALSE` besides |
| `OneFreeMachineHolds` | `Spec => []OneFreeMachine` | the same |
| `MarkIsBackedHolds` | `Spec => []MarkIsBacked` | the same |
| `InUseKeptHolds` | `MCSpec => []InUseKept` | `PhoneLedgerAssumption` |

The argument. `OneFreeMachine` is about marks in rooms, which only cache the
ledger; what makes it true is that the ledger of a phone names at most one room
(`OneRoomEach`) and every mark is backed by it (`MarkIsBacked`). Neither is
inductive: a claim decides on the ledger long before it writes it, and tells the
rooms that lose their place in between. `FreeInv` therefore says of everything
that *relies* on a free answer, a marked wire or an answer that travels and is
not stale, that its room is in the ledger now and is either kept by the claim in
progress or still to be told by it (`RelianceBacked`). Three parts about the
caller of a claim complete it: it holds no mark while it waits
(`WaitingUnmarked`), the job in progress is the one it asked for
(`ServedByJob`), and it gets neither answer nor mark before the job ends
(`CallerUnmarked`), which is why the ledger may skip it when it tells the room
of a release. `StepType` and `StepFree` have one lemma or step per action, and
`FreeInvImplies` derives the two properties.

The ledger as stored. A room passes if fewer rooms than the limit are *older*, so
the argument counts them: the place of a room is the number of rooms older than it,
it is below the number of rooms (`RankBound`), and two rooms have different places,
so the rooms with places below the limit are at most as many (`WithinLimit`).
`LedgerInv` says that a room let through keeps a place below the limit
(`PassedRank`), since claims of others come behind it and pruning only moves it
forward; that `last` is when it was last let through, never when it was refused
(`AgesFromUse`); and that a room let through less than the idle time ago is not
pruned (`InUseKept`), as the cap is no smaller than what can be in use. With a
limit of one and one room at most there is no fold left to reason about, and a
case for each of the claim's three outcomes gives `SlotOfFreeTier`.

`TunnelProofs`, for any finite sets of requests and subscriptions, any number of
lines and registrations and every act and fault (`TunnelAssumption`: `MaxLine \in
Nat`, `MaxGen \in Nat \ {0}`, requests and subscriptions are finite and
disjoint):

| theorem | states | by the invariant |
|---|---|---|
| `TypeCorrect` | `Spec => []TypeOK` | itself |
| `RouteCorrect` | `Spec => []RouteInOrder` | `RouteInv` |
| `NoRevivalHolds` | `Spec => NoRevival` (an action property) | `TypeOK` |
| `RequestsAreExchanges` | `Spec => ExchangeSpec` (a refinement) | `OneCopy`, `AnswersBacked` |
| `EventsLiveCorrect` | `Spec => []EventsLiveTrue` | `StreamInv` |

The arguments:

- *Route.* `RouteInOrder` speaks of lines given up and of a line that came to
  pair. Its strengthening `RouteInv` adds that there is one line at a time, in
  use or being opened, and that lines not made yet are as in `Init`
  (`LinesInOrder`), and that a pairing line which has served its request is
  *spent*: closed for good, dead, or still occupied by that request
  (`PairingInOrder`).
- *Requests.* The mapping reads off `Tunnel` which requests were asked,
  started (and on how many lines) and how they ended. A step that starts a
  handler must map to the first start: `OneCopy` says that one frame of a
  request exists at most, counted over the phone's send chain, the network and
  the agent's jobs, and none once its handler was started. A step that ends a
  request well must find it started: `AnswersBacked` follows a good answer from
  the handler through the agent's send chain and the network.
  `ExchangeInit` and `ExchangeStep` are the two halves of the simulation.
- *Streams.* What the phone believes of a stream of events depends on answers that
  overtake nothing but may be late. `StreamInv` therefore follows the answers on
  their way back: behind every "accepted" of a stream that the agent no longer
  holds comes its end, in the agent's send chain and on the network, and a line
  that has not asked for a stream has no answer about it under way.
- `PathStep` is the lemma these rest on: a frame of some set `F` appears on
  the phone's way to the agent only by the five acts that put it there.

`TunnelProofs` and `RoomProofs` begin with the lemmas about queues that they rest on:
whether a queue holds a member of a set, holds it once, or has nothing of one kind
behind something of another kind, and how `Append`, `Tail`, `\o`, `SubSeq` and
`SetToSeq` change that.

`RoomProofs`, for any finite sets of agent wires and phone
wires (`WiresAssumption`) and any limits of at least one, of which that without a
ticket is the smallest (`LimitsAssumption`):

| theorem | states | by the invariant |
|---|---|---|
| `TypeCorrect` | `Spec => []TypeOK` | `RoomInv` |
| `CarriedAsMeantHolds` | `Spec => []CarriedAsMeant` | `OneMeaning` |
| `NoOrphanSlotHolds` | `Spec => []NoOrphanSlot` | `ClosedLater` |
| `NamesProvenKeyHolds` | `Spec => []NamesProvenKey` | itself |
| `WithinLimitsHolds` | `Spec => WithinLimits` (two invariants and an action property) | `LimitsInv` |

The arguments:

- *Numbers.* A number is said of a phone in three places: in frames on their way to
  the agent, in the agent's slot, and in frames on their way back (`Means`).
  `OneMeaning` says that at each agent's wire all of them agree, that the phone
  connected under that number, and that no other wire that is still here has it.
  It is inductive only with `Numbered`: the live agent's last number is the
  greatest that is still in the room, and a new agent goes on from there
  (`Carried`), even above phones of retired agents. No number passes the count of
  wires that have connected, so there is always another one. `OneAgent` adds that
  nothing is under way at a wire that never was the agent.
- *Slots.* `ClosedLater`: behind each "opened" that is on its way about a phone that
  is gone comes its "closed"; and where the slot is already open, a "closed" is on
  its way. It needs `OneMeaning`, since a "closed" names a number only.
- *Limits.* `#enforce` keeps at most as many phones as the plan allows because
  numbers differ (`KeptLimit`: take the kept phone with the greatest number; the
  others are below it). A frame then admits one phone at most, if there is room
  (`FrameAdmits`), since one wire has its number. The waiting rooms are counted
  before and after the sweep of late wires; when the waiting room is full, there is
  an oldest wire to give up (`Least`). `EnforcedStep` goes through whatever can
  carry a frame: each reply of an agent, and each message of a phone past its check,
  goes through `#enforce` first, so the plan holds for all that are admitted. The
  message that was held while a phone was checked does not (section 7); of it
  `HeldPassedOn` shows that its phone was found entitled in the same step. `LastTold`
  says which frame a queue got last.

`AccountProofs`, for any machines, credentials on them and plans, any number
of tickets being checked and removals in progress at a time (`SlotsAssumption`: a
credential has one machine, plans and bounds are at least one); and for any tabs,
signal handlers and numbers of Checkouts and signals (`BillingAssumption`: a handler
is no tab):

| theorem | states | by the invariant |
|---|---|---|
| `TypeCorrect` | `Spec => []TypeOK` | `AccountInv` |
| `RemovedIsGoneHolds` | `Spec => []RemovedIsGone` | `RemovalInv` |
| `SlotsInPlanHolds` | `Spec => []SlotsInPlan` | `SlotInv`, `OrderInv`, `PlanInv` |
| `LastTicketCountsHolds` | `Spec => []LastTicketCounts` | `CountInv` |
| `BilledOnceHolds` | `MCSpec => []BilledOnce` | `BuyInv`, `SignalInv` |

The arguments:

- *What rooms run on.* A room's ticket changes only to nothing or to one whose
  check passes: the ledger said yes, no removal has marked it, its wire is still
  the agent (`UseStep`). So what holds of passing checks comes to hold of rooms,
  and the parts of `AccountInv` speak of both.
- *Removal.* When a removal has told the room, its credential is *locked out*: its
  number is recorded, no room runs on it, no check of it passes. That lasts while
  the number is recorded, for a claim of it is refused (`LockedOutStays`), and the
  record lapses only when the credential has no tickets left (`Lasting`). What
  makes the short way sound, a removal that found no key bound and tells nobody, is
  that a credential without a key never had a ticket (`KeyInv`), and that a row
  under removal binds none, though an older removal of the same credential may
  fail and take the mark off again (`GoneInv`).
- *Slots.* Freeing a slot takes it from nobody who runs on it: a removal that
  reaches the ledger has its credential locked out, and pruning spares what is in
  use (`SlotStep`).
- *Plan.* The machines registered before a machine are a strict order
  (`OrderInv`) which only shrinks ahead of a machine that keeps its slot. So a
  room that once had fewer machines before it than its plan allows still has
  (`PlanInv`), and since no two machines with a slot have equally many before them,
  the rooms that run under a plan are no more than it allows (`PlanKept`).
- *Last ticket.* Each number between the last one applied and the last one sent is
  that of a check in progress (`CountInv`), though outcomes come in any order.
- *Buying.* That one subscription at most is open rests on the lease, but a lease
  may run out while its holder is on its way, so the invariant speaks only of a
  request that holds it now: it has held it since it began, and nobody else wrote
  in between. `BuyInv` counts what is *payable*, an open subscription or an open
  Checkout that somebody was handed: there is at most one (`Payable`). What the
  holder has found so far is so (`Found`): after the Checkouts none that was handed
  out is open but those still to be closed, after the subscriptions nothing is
  payable; then it may make one. A call whose outcome is lost leaves a Checkout that
  nobody was handed, under a key that is asked for again.
- *Signals.* What the row shows is what Stripe has, or a signal that was not answered
  will still be read for (`Unseen`); and what the holder of the lease is about to
  write is that, or it was told since that it must read again (`SignalInv`).

`PhonesProofs`, for any values of the constants of `MCPhones` (the assumptions of its
parts: keys, codes, tasks and requests are not the values that mean "none"):

| theorem | states | by the invariant |
|---|---|---|
| `TypeCorrect` | `Spec => []TypeOK` (of `AutoApprove`) | `AutoInv` |
| `AutoAsToldHolds` | `Spec => []AutoAsTold` | `AutoInv` |
| `OwnTicketHolds` | `MCSpec => []OwnTicket` | `AccountInv` |
| `PairedAsToldHolds` | `MCSpec => PairedAsTold` (an invariant and an action property) | `PairInv` |
| `SubscribedAsAskedHolds` | `MCSpec => []SubscribedAsAsked` | `PushInv` |
| `WaitersKeptHolds` | `MCSpec => WaitersKept` (an invariant and an action property) | `AskInv` |
| `AnnouncedWhenListedHolds` | `MCSpec => AnnouncedWhenListed` (an action property, the one the run `settles` checks) | `AskInv`, `TellInv` |

The arguments:

- *Auto-approve.* What the chain of promises gives is `QueueInv`: one operation
  runs, and the clean-up of a start is always the first. Then what an operation
  saves is the memory with its own entry (`SaveInv`), what it ends is out of the
  memory before it is saved (`RemovedInv`), and what was told off is neither in
  memory nor in the file nor in an operation that turns it on (`OffInv`). An end
  announced once needs that entries are told apart by their numbers and are in one
  place (`NumberInv`, `UniqueInv`), and that what was announced as saved is in no
  file that a restart could read (`ToldInv`).
- *Account on the agent.* A new sign-in overtakes a fetch at any await, and nothing
  stops the fetch. `FetchInv` says that a fetch of the present generation is for the
  present sign-in, and that what it has got is a ticket of the sign-in it asked for;
  the generation grows with every change of sign-in, so a fetch of an older one is
  no threat: it compares the generation before it writes.
- *Pairing.* A phone that was told it is in, or out, has nothing waiting in the
  queue that would change that (`PhoneInv`), and memory and file agree but for the
  head of the queue that is being saved (`FileInv`). What `nyan pair` ends with
  must stay true of its code, also of operations that come later: a code told as
  cancelled or failed is `Void`, neither registered with, nor valid, nor being saved;
  a code whose device is being saved is on record as registering (`CodeInv`).
- *Push.* The tabs take turns by a lock of the browser, but what the agent does for
  them is done later, and a tab may give up in between. `TurnInv` says who holds the
  lock and that one who turns notifications off leaves none behind; `KeyInv` that the
  key in use is the one on disk and any key being made is newer; `EntryInv` and
  `JobsInv` that what the agent stores, now or later, comes in the order in which the
  browser made it (`Fits`); `HolderInv` goes through the steps of the tab that holds
  the lock; `SyncInv` is what remains of a synchronisation that ended well.
- *Approvals.* A request that waits has its key, and the results of the equal calls
  before its own were there when it came (`WaitInv`): so a result that a sweep finds
  new is its own. That needs that equal calls run one after the other and that only
  what is done has a result (`CallInv`). An announcement begins at most once because
  a request whose announcement has begun has no timer any more (`TellInv`).

`SessionProofs`, for any phones, agents, calls, frames and bound on counters
(`HandshakeAssumption`: the kinds of keys and calls are told apart), any requests
and any sets of them typed at once (`KeysAssumption`), and transcripts and pages of
any length (`ThreadAssumption`: a page has at least one record):

| theorem | states | by the invariant |
|---|---|---|
| `HandshakeInvariant` | `Spec => []HandshakeInv` (of `Handshake`) | itself |
| `CounterOnceHolds`, `TakenInOrderHolds`, `SpeaksWithPeerHolds` | `Spec => []` each | `HandshakeInv` |
| `OneConversationHolds` | `Spec => []OneConversation` | these three |
| `SessionInvariant` | `MCSpec => [](TypingInv /\ ReadingInv)` | itself |
| `TypedOnceHolds` | `MCSpec => []TypedOnce` | `KeysInv` |
| `OneStretchHolds` | `MCSpec => []OneStretch` | `ThreadInv` |

The arguments:

- *Handshake.* A handshake has one call that goes on with it, since a call marks it as
  used before its first await (`FinishInv`); so a key, which is made of the key pairs
  of both sides, is of one call at each side (`KeyIsOfOne`). What an end sealed is
  under its key and below its counter, and the counter taken by the head of the queue
  is the last one given out (`SealingInv`, `SealedInv`): no counter is used twice.
  What was opened is below the last counter opened, and the head of the other queue
  was compared with that after it became the head (`OpeningInv`, `TakenInv`). The
  confirm frame is sealed by an agent's call before its phone can have the session
  (`OpenInv`), which is why a phone that has one speaks with that call.
- *Keystrokes.* The request in turn is the head of the chain (`Turns`); what went into
  the terminal is not sent elsewhere (`Ways`). `Carried` reads the bytes on their way
  in order: a body is followed by its Enter, or is the last with its Enter still to
  come, or its sender was told; an Enter follows its body; an ESC whose stop was
  answered "cleared" is followed by its Ctrl-U. So of whatever lies in the input box,
  somebody was told, or its Enter or a Ctrl-U is next, or everything was read and
  what comes next is still to be written (`Box`); when an Enter is read the box holds
  its own text and such as somebody was told of (`Submitted`). No two ESC: one is
  written only if none was within the cool down, and it is not read before it is
  written (`Rush`).
- *Thread.* The screen shows a stretch of one file, from the cursor to the tail
  (`Shown`); while it shows an older file the new one is still empty (`Stale`), so
  no page joins two files. What the one fetcher asks for starts at the tail, and its
  page continues the stretch in the same file, or replaces it (`PullFits`); a page of
  older records is asked for only in one file that grows, and ends at the cursor
  (`OlderFits`). That two stretches that meet are one is a lemma. `ThreadInv` holds
  as long as the follow effect runs once; finding 3 is what happens otherwise.

`ScreenProofs`, for any machines, relays, sessions, fetches, approvals, turns and
announcements (`ScreenAssumption`: an approval has one machine, and "no row", "no
page" and the like are no rows or pages); and for any set of sockets, any grace for
pongs and any bound on the failures that are counted (`RelayKeeperAssumption`):

| theorem | states | by the invariant |
|---|---|---|
| `TypeCorrect` | `Spec => []TypeOK` (of `RelayKeeper`) | `KeeperInv` |
| `LineInOrderHolds` | `Spec => []LineInOrder` | `KeeperInv` |
| `AsTheUserLeftItHolds` | `MCSpec => []AsTheUserLeftIt` | `KnownInv` |
| `NeverBackHolds` | `MCSpec => NeverBack` (an action property) | `ListInv` |
| `LiveNotificationStaysHolds` | `MCSpec => LiveNotificationStays` (an action property) | `NotesInv` |
| `TurnsToldAsTheyEndHolds` | `MCSpec => []TurnsToldAsTheyEnd` | `TurnInv` |

The arguments:

- *The line.* That one line at most is wanted is not inductive: a handshake may end
  after the loop has gone on. `KeeperInv` ties the state that the loop shows to
  its line (`LineOfLoop`), says that a line that is being dialed is the loop's or
  was given up by the stop (`NewWhenDialed`), and that a line that was torn down
  is never again pinged, open to the loop or its own (`TornIsOver`). The count
  that the wait grows with is `attempts` while the loop waits or dials, and
  `before` while a line is open (`CountKept`): that is why the count shown may go
  back to 0.
- *Machines.* The copy in Settings is merged with the rows whenever these change.
  `CopyInv` says what it was merged with last, and that a row typed in and not yet
  saved is nowhere else: so a merge takes over the one row that changed and leaves
  the others as the user has them (`CopyFollows`, `RowKept`). Settings may be left
  at any moment. An unlinking takes its row out of the copy only while its own screen
  is there; if that was left and Settings opened anew before the answer, the new copy
  keeps the row. The history variable `outlived` names those machines: only of them,
  and of rows typed in, may the copy differ from what the user did last, and saving
  it then is what the user does last. A pairing that found its machine listed and
  reached by its own way writes no row, so beside an unlinking of the same machine
  the row goes.
- *List.* One fetch is the newest, and what it has got is no older than what is
  shown (`ListInv`): it started after whatever is shown, and only it is shown.
- *Notifications.* A list, wherever it is, is *of its time*: what waits at that
  machine and is not in it was asked for later (`Since`). That is kept when an
  approval is asked for again, as its time moves on, and it passes from the answer to
  the push, to what the app knows and to the cleaning (`ListsInv`). A cleaning closes
  only what is older than the list, so nothing that waits. `Raise` is why the
  comparison must be strict.
- *Ends of turns.* An announcement decides from a record that may be behind the
  session, and from notes that may be ahead of it. `Heeds` says that whatever the
  record, the notes or a look at them may show, the announcement has seen come about
  since the hook was called; a record that says "busy" for a turn that is over is
  one that is owed (`CliInv`), and the announcement waits for that. What is
  remembered as sent is of a turn whose end the phone knows of (`LastInv`), so a
  repetition that is held back costs nothing.

`SetupProofs`, for any directories, accounts, rc files and service managers, and any
number of commands and trees (`SetupAssumption`: installs name directories that there
are, at least one tree can be had, and "none" is no directory and no version):

| theorem | states | by the invariant |
|---|---|---|
| `SetupInvariant` | `Spec => []SetupInv` | itself |
| `TypeCorrect` | `Spec => []TypeOK` | `SetupInv` |
| `UninstalledIsCleanHolds` | `Spec => UninstalledIsClean` (an action property) | `CleanInv`, `ServiceInv` |
| `AgentSparedHolds` | `Spec => AgentSpared` (an action property) | `SparedInv`, `ServiceInv` |
| `RecoverableHolds` | `OneInstallDir => (Spec => Recoverable)` (an invariant and an action property) | `TreeInv`, `WayInv` |

The arguments:

- *Steps.* `Onward` takes the next step from a list; `AfterUninstall`, `AfterInstall`
  and `AfterPull` say which one that is, so that the rest of the proof is about steps
  and never about positions. They are where the order of the scripts enters: with two
  steps swapped they fail.
- *What an uninstall leaves.* `CleanInv` says for each step what is gone when the
  command comes to it. It is kept because only a command places anything and one
  command runs at a time, and because a killed uninstall leaves no claim behind: the
  next one starts at its first step. What ties it to one directory is `ServiceInv`: as
  long as there is a service file, an uninstall is about the directory it names.
  Success is told by the last step only (`SuccessAtTheEnd`), the service file goes
  by one step only (`ServiceGone`).
- *What is spared.* A command looks at the agent, and acts on what it saw some steps
  later. `SparedInv` says what of it still holds then: an approval that waits came
  late, or was not looked for, for a reason that the property names; an agent that
  still runs after the look at "gone" was started by hand, and hangs, and the command
  was told to go on by force.
- *The way back.* That a tree is there as long as anything is placed needs that what
  is placed stands with a service file or in a checkout (`WayInv`), and which steps of
  an install have a tree, or the one moved aside (`TreeInv`). It needs
  `OneInstallDir`, all installs and updates name the same state directory: with two
  of them an uninstall clears the one that the service file names and takes the tree,
  and the shim in the other stays (section 7, *Setup*).

Only model-checked, and why:

- Liveness (`ClaimSettles`, `NothingHangs`, `NobodyWaits`, `AllGo`,
  `ShownInTheEnd`) and whatever needs ENABLED: out of the prover's reach.
- `QrReadBack`, `BlockInAndOut`: they are about functions that recurse or fold over
  data of any length; their inductions would need theorems with an operator as
  parameter.
- `OneEach`: its steps fold over the sends that wait and the records that come. The
  counting argument for a fold of any length, as the one of `PhoneLedger`, has not
  been carried over to it.

`RcBlock` alone has RECURSIVE operators (`FindBlocks`, `RemoveBlock`, `ApplyBlock`,
`LinesOf`); no module with theorems reaches it.

## 6. Findings

1. `auto_approve_announced_twice`: when an expiry timer cannot save, it announces
   the end all the same, and the next start announces it again
   (`agent/src/autoApprove.ts:444`, against lines 190 to 192). `AutoAsTold` of
   the run `phones` checks what does hold: an end that was saved is announced once.
2. `approvals_shown_then_hidden`: replacing a waiting request deletes the mark
   "shown once" that is to survive the replacement, so a shown card is hidden
   for six seconds when the hook fires again (`agent/src/permission.ts:324`,
   against lines 250 and 256).
3. `thread_shows_an_older_page`: when the features of the agent arrive, the
   follow effect runs again while a page is under way, and two fetchers answer
   for one screen (`web/src/ui/Thread.tsx:512`, against `ui/follow.ts:31`). The
   run `session` checks what holds with one fetcher.

## 7. What is assumed, and what is not modelled

Assumptions that the models make and the code relies on:

- No wire outlives 30 days (`LongLivedWires = FALSE` in `FreeTier`):
  `prunePhoneLedger` (`relay/src/phoneLedger.ts:66`) counts from a phone's last
  *connection*, so a room in use over one wire for longer drops out of the ledger
  and the phone could be free on a second machine. With `LongLivedWires = TRUE`
  TLC shows just that.
- A remote call whose caller has seen it fail is not begun later (`FreeTier`).
- A removal of a credential ends within 50 minutes of its record, before the
  record lapses (`AccountSlots`); machines do not register in the same
  millisecond.
- Connection numbers do not wrap at 2^32 - 1 (`Room`).
- Claude Code runs equal calls of one turn one after the other and writes its
  transcript in order (`Approvals`); it has written a turn's record within 1.5 s
  of its end (`TurnEnd`).
- A file is replaced as a whole (`writeJson` renames), so a crash leaves the old
  or the new one (`AutoApprove`, `Pairing`, `Push`).
- A deployment of the relay closes all wires (`PhoneLedger`).

What the code does not guard against, seen while modelling. Each is left out of
the instances by a bound or an act that the module names, since a property would
only restate it:

- *Relay room.* The message that was held while a phone was checked is passed on
  without `#enforce` (`relay/src/room.ts:802` to 810), which is to be gone through
  "every time before carrying anything" (`room.ts:431`). The phone it is of was found
  entitled in that step, but when the ticket has run out unnoticed, phones admitted
  under it stay in until the next frame. `CarriesEnforced` says just that.
- *Account.* Two refreshes at once (`agent/src/account.ts:129`, `:150`); the time
  of the copy is read after its content (`account.ts:221`, `AgentAccount!SignInSeen`
  fails); `nyan login` during a logout.
- *Devices.* A code that ran out while its registration was under way is told as
  expired and then registered (`devices.ts:354`, `Pairing!ExpiredIsFinal` fails);
  revoking again after a failed save (`devices.ts:502`).
- *Push.* A crash between a new `vapid.json` and the end of the old
  subscriptions; a subscription stored by a request that was authenticated before
  a revocation; two tabs where `navigator.locks` is missing; pushes of one tag out
  of order; the cleanup effect does not depend on `permissionsAt`; `sw.js` stores a
  new shell before its assets.
- *Thread and list.* An older page that arrives after a reset; refreshes that are
  overtaken as long as events keep coming.
- *Approvals and ends of turns.* A label remembered for a card that was not sent
  holds back a later "needs attention" (`routes/hook.ts:555`); an agent killed
  within 1.5 s loses the notification; `autoApprove.ts:380`. After the check that a
  request still waits, its push is sent when the title has been read from the
  transcript, with no second look (`routes/permission.ts:445`, `:527`): a request
  settled in between is announced all the same (`Approvals!Tells`). A sweep of the
  phone clears such a notification when it is told what waits.
- *Keystrokes.* `writeToSocket` in `claude/inbox.ts` ignores the error of a write.
- *Machines.* Two tabs share the stored rows; a copy of the rows that was opened
  while a screen left before was still unlinking a machine brings that machine back
  when it is saved (`ui/Endpoints.tsx:127`, `:234`; modelled, `outlived` in
  `Connections`); the row
  of the own origin is offered again after the last row was unlinked
  (`endpoints.ts:267`); a machine paired without a URL and then with one has two rows
  (`endpoints.ts:84`); two machines of one name.
- *Setup.* An update loses a state directory that the shell does not name
  (`install.sh:33`, `:240`, `nyan.mjs:321`); hooks are told by their URL with the
  current port; without a service file, uninstalling and a purge retried after a
  kill take the default directory; a failed stop of systemd is ignored; service
  files of others and a `bin/claude` of others are overwritten.

Where a model is wider or narrower than the code, with no effect on what is checked:

- `Sends` lets the records of sends that were typed come in another order than the
  sends; with texts that end in each other on three levels `NoneLeft` would fail in
  the model by that alone, and the instance has two levels.
- `TurnEnd` begins no permission notice while a stop is being announced; the code may.
- `Setup`: the restart of `nyan update` always ends with 1 while an agent started by
  hand holds the port; the code may find that one answering and end well.
- `RcBlock` has no blanks behind a marker (`scripts/install-relay.mjs:265` to 288
  takes them for part of it). `Qr` leaves out the fixed dark module, which is read only in the wrong
  orientation of a mirrored board.
- `PhoneList` can be told of a summary (`Summary`); within the changes that
  `Screen.cfg` allows it never happens.

Left out of modelled components: texts and HTTP shapes, rate limits of the HTTP
front, the caps `LEDGER_MAX` and `MIDS_MAX`, the encodings of challenges and
tickets (a ticket is its credential and its limit), what a card shows and answers
with choices, values of older or broken shapes, back pressure in the tunnel.

Not modelled: the cryptographic primitives (a Diffie-Hellman value is the set of its
two key pairs, a key what it was derived from), the direct HTTP transport, the account
watcher, static pages, React views without state of their own, how a QR board is
found in an image, the cache of `sw.js`, and calls to Stripe and Cloudflare beyond
their outcomes.

## 8. Plan

Done: the models of all components with logic of their own, their runs, and the
proofs above. What is next, in this order:

1. That a behaviour of `Room` with tickets refines what `AccountSlots` assumes of a
   room, so that the two results speak of the same room.
2. The key proof of `shared/relayAuth.ts` beside `Handshake`, so that `NamesProvenKey`
   of `Room` and `SpeaksWithPeer` speak of the same key.
