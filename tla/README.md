# Verification of the live-auction system

The repository is a live-streaming auction: an anchor publishes products as
auction sessions, buyers bid over HTTP or a WebSocket, a session ends when its
countdown runs out or a bid reaches the ceiling price, and the winner gets an
order to pay. Several instances of the Go API (`src/backend`) run behind nginx,
share one MySQL and one Redis, and broadcast to each other through Kafka or Redis
Pub/Sub. The web app (`src/frontend`) is where buyers follow a room, bid and pay, and
where sellers keep their catalogue and run the show. Nothing but the database, a
Redis lock and the `WHERE` of each `UPDATE` coordinates the instances, and nothing
but the order in which answers and events arrive coordinates a page with them.

This directory holds the TLA+ models of that code, the TLC configurations that
check them, and the proofs. Go paths below are relative to `src/backend/internal`,
TypeScript paths to `src/frontend/src`, unless they begin with `src/`.

## 1. Inventory

| Part | State | Operations | Talks to | What is hard |
|---|---|---|---|---|
| auction rules, engine (`domain/auction_rules.go`, `domain/session_status.go`, `engine/`) | none | validate rules, evaluate a bid, extend the end | called inside the bid transaction | boundaries: `now = endAt`, a cap off the grid, zero start |
| auction session (`service/bid_service.go`, `settlement_worker.go`, `auction_service.go`, `repository/session_repo.go`, `bid_repo.go`) | rows of `auction_sessions`, `bids`; `products.status` | PlaceBid, settlement worker, Cancel, UpdateRules | Redis lock, orders, cache, notifier | concurrency, lock TTL, aborted handlers, crashes, MySQL snapshots |
| order lifecycle (`service/order_service.go`, `repository/order_repo.go`) | rows of `orders` | pay, cancel, address, ship, confirm, refund, expiry worker | sessions, messages | races at the deadline and between buyer and seller |
| order pages (`user/pages/OrderPayPage.tsx`, `admin/pages/OrderDetailPage.tsx`, `admin/components/AftersaleForm.tsx`, `hooks/usePendingPayCount.ts`) | a copy of the order, busy flags, the badge | load, buttons, countdown, polling | order API | one busy flag per button, answers out of order, pages left and reopened |
| websocket hub (`ws/`, `infra/redis/ws_broadcast.go`, `infra/kafka/`) | rooms, clients, send buffers, the ring of events, sequence numbers | join, leave, publish, deliver, replay, tick | Redis, Kafka, bids | number, store and broadcast apart; full buffers; late registrations |
| socket client (`ws/auctionSocket.ts`, `useAuctionSocket.ts`) | socket, timer, `lastSeq`, snapshot, rank | connect, disconnect, reconnect, subscribe, apply | hub | handlers of forgotten sockets, gaps taken for seen |
| buyer's live room (`user/pages/LiveRoomPage.tsx`, `components/auction/AuctionLiveRoom.tsx`, `BidPanel.tsx`) | title, strip, banner, pay bar, bid button | load, events, effects, bid | socket client, REST | effects that see only the last event, bids that name no item |
| live room queue (`service/live_room_service.go`) | `live_rooms` row: status, current session; `seq_in_room` | Start, End, AddSession(s), EndCurrentAndSwitch | sessions, settlement, notifier | statements outside any transaction, stale pointers, duplicate numbers |
| seller's console (`admin/pages/LiveRoomConsolePage.tsx`, its forms) | a copy of the room, busy flags, a 15-second poll | start, switch, stop, end, quick create, add | live room API | reads that overtake each other, a switch that names no item |
| catalogue (`service/product_service.go`, Publish, UpdateRules, Cancel in `auction_service.go`) | `products`, pending sessions | CRUD, shelf, publish, rules, cancel | sessions | check-then-insert, whole-row updates |
| seller's product pages (`admin/pages/Product*.tsx`, `AuctionPublishPage.tsx`, `admin/components/ProductForm.tsx`) | what the tab shows, form fields, uploads | list, new, detail, edit, publish | catalogue API, uploads | late answers that navigate, handlers that remember old fields |
| room cache (`service/room_cache.go`, `cache_write.go`, `infra/redis/room_cache.go`) | snapshot, rank and countdown keys | read-through, write-through with retries, invalidate | sessions, notifier | unordered writers, long TTL |
| message centre (`service/message_service.go`, `composite_notifier.go`, `repository/message_repo.go`, `user/pages/MessagesPage.tsx`, `hooks/useUnreadMessageCount.ts`) | `user_messages`; the page's list, dots and pill, the badge | fan-out after each commit, list, count, mark one, mark all | sessions, orders | rows read again after the commit, deduplication keys, inserts nobody repeats, requests that cross |
| accounts, social, AI, uploads, streams, metrics, other pages, deployment | own tables or none | CRUD, I/O, views | | not concurrent with the auction's state |

What makes each correct: bids climb by the rules and are counted once; a session is
closed once, for the leading bid, and gets one order; an order moves only as
documented and no success answer is overtaken; a page never shows an order or a room
as something it was not; a reconnecting client misses nothing that could still be
replayed and comes to show the auction's last state; the queue passes over no item; a
switch ends the item the seller saw; a product's status tells its sessions; a buyer is
told of what happened to him, once, and of nothing else.
`PROJECT.json` lists every hazard at its line and the properties that cover it.

## 2. Modules

Definitions that a comment calls mutants are plausible bugs of the definition next to
them: nothing uses them, and each property has one (listed in `PROJECT.json`) that
breaks it in its run. `None` stands for a nil pointer, `null` or an absent value.

### The session: `AuctionRules`, `AuctionSession`, `AuctionContract`, `SessionContract`

`AuctionRules` is the pure part: `Validate`, `MinNextBid`, `IsCapReached`,
`MaybeExtendEnd`, `BidAcceptable` and `BidOutcome` (`EvaluateBid`). Amounts are natural
numbers (cents), times whole seconds.

`AuctionSession` is one session. Variables: the session row, the bids rows in order
of `seq`, the product's status, the orders rows of the session, the Redis lock, the
row lock of `SELECT ... FOR UPDATE`, the clock, and for each process its program
counter and what it has read. Processes: `Calls` (PlaceBid), `Workers` (one
settlement loop per API instance), `Switches` (the settlement half of
EndCurrentAndSwitch), `Cancels` (Cancel). A step is one statement or one Redis command.
The bid transaction is two steps, `evaluate` (FOR UPDATE and the checks) and `commit`
(the writes and COMMIT), because the row lock keeps every other writer of the row out
in between; its plain SELECTs read the snapshot MySQL takes at the first read
(`local.seen`), which is how a participant can be counted twice without the Redis lock.
`LockKind` chooses Redis or `NoopLocker`; `SlowHolders` lets the 5-second key
expire under a working holder; `Abort` is a database error or a cancelled request,
`Crash` the death of an instance at any step.

| Actions | Code |
|---|---|
| `PlaceBid`, `BeginTx`, `AcceptBid`, `RejectBid`, `CommitBid`, `FailBid`, `PublishBid` | `bid_service.go` 65-234 |
| `ScanExpired`, `RecheckExpired`, `ReadRunning` | `settlement_worker.go` 16-90 |
| `ResolveWinner`, `CloseRow`, `MarkSold`, `CreateOrder` | `settlement_worker.go` 92-138, `order_service.go` 389-417 |
| `ReadCurrent`, `RecheckStatus` | `live_room_service.go` 329-379, `auction_service.go` 197-213 |
| `CancelSession`, `RelistProduct`, `UpdateRules` | `auction_service.go` 126-195 |
| `Acquire`, `Finish`, `ExpireLock` | `infra/redis/client.go` 36-60 |

`AuctionContract` is what one auction promises, with no database, lock or process:
offers climb, the hammer falls once and not before the end, the leading offer is
what is sold, the sale is invoiced as made. `SessionContract` is the refinement
mapping: the bids rows are the offers, a settled row is the sale, the orders row its
invoice; `KeepsPromises` says that every behaviour of AuctionSession is one of the contract.

### The order: `OrderLifecycle`, `OrderPages`

`OrderLifecycle` is one order. Variables: the `orders` row with its status and
time columns, the clock, each request's place in its handler, the status a refund
has read. A handler is its read (`MockPay`, `ShipOrder`, ...), its conditional
`UPDATE` (`MarkPaid`, `MarkShipped`, ...; zero rows matched is a refusal) and
its reply. `CloseExpiredPending` is the workers' step and, as `Sweep`, the first
statement of payment and of the buyer's cancellation. Both creations are there:
`CreateFromSettledSession` with the configured timeout, `CreateAtCap` with the 30
minutes of a bid at the cap. What is left out answers before anything is
written: ownership, blank addresses and reasons. Times are in minutes.

`OrderPages` is the same order on the buyer's page, the seller's page and in the
badge that counts the orders to pay. Variables: the order, whether its deadline has
passed, which visit of a page is on screen, what it shows, the countdown's label, the
request of each button of each visit, the badge and its requests. The API's handlers
are single steps, since `OrderLifecycle` takes them apart. `Press` needs the button
to be offered for the order the page *shows* and to have no request of its own under
way; `Serve` decides on the order as it *is*; `Returns` replaces what the page shows
if the visit is still on screen. `Open` again starts a new visit, whose predecessor's
requests go on without a page.

| Actions | Code |
|---|---|
| `Serve`, `CloseExpired` | handlers of `order_service.go` |
| `Open`, `Countdown`, `Press`, `BuyerAnswer` | `OrderPayPage.tsx`: load, timer effect, `handlePay`, `handleCancel`, `handleAddress`, `handleConfirm` |
| `Press`, `SellerAnswer` | `OrderDetailPage.tsx`: load and `handleShip`; `AftersaleForm.tsx` |
| `Refresh`, `ServeCount`, `ShowCount`, `LoseCount` | `usePendingPayCount.ts` |

### The feed: `RoomChannel`, `RoomHub`, `AuctionSocket`, `RoomFeed`

One room of the hub and one page that follows it. An event's payload is abstracted to
the version of the auction, or of the leaderboard, that it shows.

`RoomChannel` is the wire: every browser socket with its readyState and two FIFO
queues; a send to a full channel drops the message, as `trySend` does.

`RoomHub` is the hub with Redis. Variables: the auction's version, the sequence number,
the ring of stored events, the broadcast queue, the pending tick, each publisher's
place between `Number`, `Store` and `Broadcast`, each subscription's place between
`ReadFrame`, `Register`, `Read` and `Answer`, who has joined and who has left. A
connection is subscribed twice: by the query of its URL, in a goroutine of its own, and
by the frame the page sends when it has a `lastSeq`. The query's goroutine may register
a connection that its read pump has already unregistered (`hub.go` 150, 295); that
entry stays and nobody reads what it is sent.

`AuctionSocket` is `auctionSocket.ts` with the hook: the handlers are functions from
one state of the object and its sockets to the next (`Disconnected`, `Connecting`,
`WithSocket`, `AfterClose`), and a handler of a socket the object has forgotten runs
like any other. `RoomFeed` joins the two by connections that open, close and break.

| Actions | Code |
|---|---|
| `Change`, `Number`, `Store`, `Broadcast`, `Deliver` | `ws/notifier.go`, `hub.go` 207-260, `infra/redis/ws_broadcast.go` |
| `ReadTick`, `DeliverTick` | the countdown loop of `ws/` |
| `Register`, `Read`, `Answer`, `ReadFrame`, `LeaveRoom` | `ws/handler.go`, `hub.go` `handleSubscribe`, `leaveRoom` |
| `Mount`, `Unmount`, `ClickReconnect`, `ReconnectTimer` | `useAuctionSocket.ts`, `auctionSocket.ts` `connect`, `disconnect`, `scheduleReconnect` |
| `Opened`, `Closed`, `HandleConnected`, `HandleSync`, `HandleServerEvent` | `auctionSocket.ts` 225-400 |

### The buyer's room: `LiveRoom`

A page of a room that sells one item after another. Variables: the items, the current
one, what each actor has committed and not yet published, the log of events; the
page's socket, reduced to what the page sees of it; the answer of the room's REST read;
what the page holds. React runs effects some time after the handlers that changed the
state, and only for the last event: `Render` is a step of its own. A bid on its way
carries an amount and no item: `TakeBid` is for whatever is current by then.

| Actions | Code |
|---|---|
| `RivalBids`, `TakeBid`, `WorkerSettles`, `EndCurrent`, `SwitchOn`, `Publish`, `Tick` | `bid_service.go`, `settlement_worker.go`, `live_room_service.go` 329-445, `hub.go` 400-460, `ws/notifier.go` |
| `ServeRoom`, `LoadRoom`, `LoadFails`, `Switched` | `LiveRoomPage.tsx` |
| `Connect`, `Break`, `HandleMessage`, `Applied`, `Synced` | `auctionSocket.ts`, `useAuctionSocket.ts` |
| `Render`, `BannerEffect`, `NotifyEffect`, `HideBanner`, `DismissBar` | `AuctionLiveRoom.tsx` |
| `PressBid`, `Offers`, `Biddable` | `BidPanel.tsx`, `AuctionLiveRoom.tsx` |

### The seller's room: `Console`

The room's row, its items in the order they were inserted, the console's copy of the
room, the request under way of the action buttons and of the forms, and the reads
that follow them or the timer. `Start`, `Stop` and `Create` are single steps;
`CloseCurrent`/`MovePointer`, `CheckEnd`/`End` and `CheckAdd`/`Add` are split where a
handler writes by what it has read. A batch is a list of products to add, and stops at
its first error. `crossed`, `misled` and `moves` are histories: whether a handler ran
between the steps of another, whether a request failed or a read was overtaken, how
often the pointer was set. Code: `live_room_service.go`, `LiveRoomConsolePage.tsx`,
`AddSessionPanel`, `QuickCreatePanel` and the batch form.

### The catalogue: `ProductForm`, `Catalogue`

`ProductForm` is the product form: its fields, the uploads of cover and gallery that
change the fields as they are by the time they answer, and when it can be submitted.
`Catalogue` is one product with its sessions and the seller's pages for it in one browser
tab. Variables: the product's row, its sessions, the requests under way, the page on screen, what
it shows, the list's filter, and `stale`, a history of the handlers that wrote after
what they had read was changed or that broke off half-way. Handlers: `CheckEdit`/`WriteEdit`
(the whole row is written back, with the status that was read), `CheckDelete`/`WriteDelete`,
`CheckPublish`/`InsertSession`/`ListDraft`, `CheckRules`/`WriteRules`,
`Cancel`/`Relist`. An answer that comes after its page was left may still take the tab
to another page (`Saved`). Code: `product_service.go`, `auction_service.go`,
`product_repo.go`, `session_repo.go`, `ProductListPage.tsx`, `ProductDetailPage.tsx`,
`ProductFormPage.tsx`, `AuctionPublishPage.tsx`, `ProductForm.tsx`.

### The message centre: `FanOut`, `Inbox`

`FanOut` is what a handler does after its commit: it reads the session again, composes
messages for everybody concerned and inserts them, each under a key that is unique for
its user. The module has the inbox of one buyer, "me", and one rival. Variables: each
session's bids with the leader their transactions have seen, its sale, what became
of the order; the handlers that have committed and not told; the inbox and what of it
is unread. `overtaken` is a history of bids whose session was changed, by another
handler's commit, before they were told of, or whose transaction saw an older leader;
`hit` of handlers a failure broke off. A commit here is one step: `AuctionSession` and
`OrderLifecycle` take the transactions apart.

`Inbox` adds the message page and the badge's hook. Every request is sent, served and
answered in separate steps; a second tab's load does not wait for the first one's.
`List` reads the messages and then counts, in two statements.

| Actions | Code |
|---|---|
| `PlaceBid`, `CompleteSettlement`, `Cancel`, `MoveOrder` | `bid_service.go` 89-233, `auction_service.go` 155-227, `order_service.go` 188-338 |
| `FanOut`, `Fail`, `Inserted` | `message_service.go` 66-288, `message_repo.go` 31-46 |
| `SetFilter`, `ListByUser`, `CountUnread`, `ShowList`, `LoseLoad` | `MessagesPage.tsx` 53-77 and 152-174, `message_service.go` 36-52 |
| `ReadCard`, `MarkRead`, `HandleRead`, `LoseRead` | `MessagesPage.tsx` 85-97, `message_repo.go` 95-109 |
| `ReadAll`, `MarkAllRead`, `HandleReadAll`, `LoseAll` | `MessagesPage.tsx` 99-111, `message_repo.go` 111-118 |
| `Refresh`, `UnreadCount`, `SetCount`, `LosePoll` | `useUnreadMessageCount.ts` |

The modules `MC...` give the constants values; `..._proofs` hold the theorems.

## 3. Runs

| Run | Question | Distinct states |
|---|---|---|
| `SessionLocked` | The lock works, one handler is aborted or one instance dies anywhere: the invariants behind the proofs, exact counts, the sale is the leading bid, and every step is the abstract auction's | 593 000 |
| `SessionUnlocked` | No lock at all, a repeated request and EndCurrentAndSwitch: what the database alone guarantees (and so also when the key expires under its holder) | 1 130 000 |
| `SessionLive` | The lock may be lost under its holder, one handler aborts or one instance dies: an expired session is settled, a settled one gets its order unless that failure hit it | 330 000 |
| `SessionSwitchSale` | Expects a violation: see Findings | |
| `OrderRaces` | Four of nine requests (two payments, both cancellations, two addresses, shipment, receipt, refund) and the worker around the deadline, on an order that is new or paid | 616 000 |
| `OrderPages` | Two visits of the buyer, one of the seller, three presses, one lost call: no page gets ahead of the order, the buyer's page never jumps back, the badge comes to the true number | 916 000 |
| `Inbox` | Three commits, or two while I have the message page open, one failure: I am told what happened, the page hides no unread message, the badge comes to the true number | 643 000 |
| `FeedSafe` | Two publishers, a ring of two and a connection that holds: whatever the page counts as seen was applied, is on its way, or was dropped by a full buffer or ring | 1 349 000 |
| `FeedLive` | One Redis error or broken connection and presses of the reconnect button: one living socket, a page that stays is connected again and comes to show the last state | 149 000 |
| `LiveRoomShows` | Two items, two bidders, one failure: what the page calls closed or won is, its title follows the switches, the bid button is not left waiting | 2 670 000 |
| `ConsoleQueue` | Two presses of actions or forms, two bids or settlements, one lost call: a switch ends the item the seller saw, the queue stays in order, the console catches up | 1 339 000 |
| `Catalogue` | Three presses, two bids, one lost call: status and sessions agree, rules stand once bid on, uploads lose no picture | 3 780 000 |

**Bounds.** Session times are in seconds; the clock moves by 5, an auction lasts 10 or
15, and a bid in the last 5 seconds extends it by 10. Two buyers, amounts up to 2 or 3,
rules with a cap two or three increments above the start and rules without a cap.
Three calls are enough for a bid, a rival, and a third that repeats, extends or
overtakes; one worker beside one switch or one cancellation gives every pair of
closers. Time runs past the end of an extended auction. For an order, time runs past
the deadline and every kind of request occurs, those that race with themselves twice;
four requests that begin are a move, its rival, and two that follow it.
`OrderPages`: an order is opened at any point of its life, so three presses reach every pair of overlapping
requests with a third after them; a second visit is enough for an answer to a page that was
left. Feed: two publishers give every interleaving of number, store and broadcast;
the ring of two and a send channel of three or four overflow; four sockets are
what one fault and one press can use, the orphan included.
`LiveRoom`: the second item is what a switch, a late bid and a late settlement can be mistaken
for. `Console`: the room is new, in the middle of its queue, or through it; two presses overlap an
action with a form. `Inbox`: three commits are an overbid, its answer and the next
one, or a session's cancellation beside that of the order of the same number; two
loads and two marks cross each other; the badge has one request under way, so that a
refresh by the page waits for the timer's. `Catalogue`: two sessions of one product, two rules, two pictures.
Faults are bounded by `MaxFaults`, clocks by `MaxTime`, everything else that has
no limit in the code by the constants commented "bound".

**Deadlock** is checked except in `ConsoleQueue`, `Catalogue` and `Inbox`: a user whose
presses are used up may just stop, with nothing under way. Elsewhere a stutter at
the end (`Terminated`, `Rest`) says when an execution may stop.

**Fairness.** `AuctionSession`: weak fairness of each handler once it has begun (a
request goroutine is scheduled until it returns), of each worker (its one-second
ticker keeps firing) and of the expiry of a lock key whose holder is dead. Weak fairness is enough because a
worker that finds the lock taken comes back to its scan. `OrderLifecycle`: the
one-minute ticker's `CloseExpiredPending`. `OrderPages`: the badge's thirty-second timer,
the API's answers to it and their arrival. `RoomFeed`: the goroutines of publishers,
subscriptions and delivery, the countdown loop (`HubFairness`), and the browser's
reconnect timer, socket events and messages (`PageFairness`). `Console`: the
fifteen-second timer while a live room is shown, the API's reads, their arrival. `Inbox`: the
badge's thirty-second timer, the count and its arrival (`BadgeFairness`). Nobody has to
call, press, bid, cancel or switch, nothing has to fail, and no clock has to advance.

**What the histories in the properties leave out.** Several properties hold unless
something named happened, and each condition is needed: without it TLC shows a
counterexample. `OneSocket` excepts a press of the reconnect button
while the object still holds a socket (`raced`); `SteadyPageMissesNothing` a broken
connection or a Redis error; `SwitchEndsWhatIsShown` and `QueueIsSound` handlers
that crossed, the first also an overtaken or lost answer; `ShelfTellsSessions`
handlers in `stale`; `TitleFollowsSwitches` a switch missed while nothing was
numbered; `AnswerIsComing` a connection that broke; `MessagesTellWhatHappened` handlers
that failed, messages of overtaken bids and cancellations of one number;
`CardsTellTheInbox` loads under way beside a mark or another load. Section 6 says what happens then.

## 4. Findings

`SessionSwitchSale` expects a violation: EndCurrentAndSwitch reads the winner and
the price without the session lock and settles with what it read; a bid committed in between
was accepted, leads, and is overtaken by a sale at another price or to another buyer (quotes in
`PROJECT.json`). `SaleIsLeadingBid` and the contract hold where the lock works and no
switch runs (`LockWorks`).

## 5. Proofs

Everything below is proved for every value of the constants: any number of callers, buyers, requests,
amounts, visits, sockets, events and faults, and every rule set that `Validate`
accepts. The assumptions are the named `ASSUME`s of the modules (constants have their types, process
sets are disjoint, `None` is not a value, there are rules to choose from, as the rules form starts with
some), which TLC evaluates in the runs.

**Session, with or without lock, with any faults** (`AuctionSession_proofs`).
`Inv` joins the type invariant with four facts about rows (`RowMatchesLedger`,
`LedgerObeysRules`, `OneBidPerRequest`, `OrderIsSale`) and three about
handlers in flight. `Committing` is the heart of it: a transaction that is about to commit holds
the row lock, what it read is still the row, and its outcome is what `EvaluateBid`
says of that row at some past moment. Without it no write could be shown to agree with the
rules. `Closing` and `StatusColumns` say what a closer knows at each label.
One lemma per action shows that the action keeps `Inv`. Theorems: `Invariance`,
`TypeCorrect`, `LedgerSafe`, `RowSafe`, `RequestsSafe`, `OrdersSafe`, `ReadsSafe`
(`ReadRowIsCurrent`, which like `LockInv` and the types of the order's pages is proved and no
longer run), and the action properties `ClosedSafe` and `EndSafe`.

**Session, with a lock that works** (further down in `AuctionSession_proofs`). Under `LockWorks`,
`LockInv` is inductive relative to `Inv`: whoever is between `Acquire` and `Finish` holds the lock
(`HoldersHold`), so a transaction's snapshot is still the ledger and a worker has
read the leading bid (`ReadsAreCurrent`). Theorems: `LockInvariance`, `SaleSafe`, `ParticipantsSafe`.

**Refinement** (the end of `AuctionSession_proofs`). `Implementation`: under `LockWorks`, `Spec => KeepsPromises`.
Each action maps to one step of the contract (CommitBid to an offer or a
buy-out, CloseRow to the hammer, CreateOrder to the invoice, CancelSession to the
withdrawal) or to a stutter; crashes and aborts are stutters.

**Order** (`OrderLifecycle_proofs`). `Inv` strengthens `RepliesHold` and
`OneSuccess` from the answered requests to those whose UPDATE has matched
(`Done`): from then on what the reply will say is true. `UpdateEffect` shows for each UPDATE that it
leaves a consistent row, breaks no word given and makes every rival's `WHERE`
fail. Theorems: `OrderInvariance`, `OrderTypes`, `RepliesSafe`, `OneSuccessSafe`, `RowTellsSafe`,
and the action properties `MovesSafe` and `ParcelSafe`, which rest on `RowStep`.

**Order pages** (`OrderPages_proofs`). A page is behind the order because every answer on its way is:
`Answers` says so of the replies, and is kept because the order only moves to `Later`
statuses. For `BuyerNeverGoesBack` that is not enough: two answers that are both behind the order may
arrive in the wrong order. `Results` says what each of the buyer's buttons answers with (a
payment with `paid`), and `Waiting` which requests can still be under way beside what the page
shows: a payment only beside the unpaid order it was pressed on, or beside what the rival
cancellation has made of it. Theorems: `PagesTyped`, `PagesBehind`, `NeverBack`.

**Socket and feed** (`RoomFeed_proofs`). `OneSocket` is not inductive: the close handler clears
whatever socket the object holds. `LinkInv` adds `Leaving`, that a socket is left closing only by a page
that is gone, which has no timer and means its close, and `Fresh`, the object nobody has
used. `SteadyPageMissesNothing` looks at `lastSeq` only, and is about a page whose `base` the hub has
told it. `SteadyInv` follows every number given out so far, from every number the page may still be
told to begin with (`Following`): each is accounted for on its whole way, from the publisher that
has taken it over the ring, the hub's queue and the wire to the page. Two facts about the hub carry it: an
event is stored before it is broadcast (`Recorded`), so that a replay finds what was sent to nobody,
and a connection is in the room before its number is read (`Asking`), so that what comes after that
number is sent to it. `TypeOK` looks the easiest and is not inductive: what a page shows after a
replay is its last event, and a set of events need not have one. `CountedInv` adds that no event in the ring,
a replay or a message has a number that has not been given out (`Counted`), so that each replay
has its last event by well-ordering (`LastIs`). Theorems: `OneSocketSafe`, `SteadySafe`, `FeedTyped`.

**Live room** (`LiveRoom_proofs`). `PageIsBehindTheRoom` is about what comes late and in the wrong
place: an answer, a replay, an effect. `ShownInv` follows every snapshot and strip from the handler
that wrote it over the log, the wire and the API's answer to the page: it was true of
the items once, and they only grow (`Grows`), so it stays behind them (`GrowthKeeps`). A replay is shown
by a fold, which `SyncedSteps` takes apart event by event. `AnswerInv` adds to `AnswerIsComing` that the
connection is up. `TitleInv` keeps, for `TitleFollowsSwitches`, that numbers on the wire are the
log's and come in order (`Numbered`), and that the last switch is either coming or shown with none coming
behind it (`Named`). A greeting not read yet has all that it does not count behind it (`Greeted`); on a first
connection what comes is new to the page (`Steady`), so that when it breaks the number the
page has seen still brings back what was lost (`Replayable`). Theorems: `PageTyped`, `PageBehindTheRoom`,
`AnswerOwed`, `TitleFollows`.

**Messages** (`Inbox_proofs`). `MessagesTellWhatHappened` compares the inbox with what the
handlers owe me (`Owed`). What is owed never changes again (`OwedStays`: bids are only
appended, and a closed session keeps its sale), so a message once true stays true. That a
handler writes just what it owes needs `Waits`: unless its bid was overtaken, it is still
the last one, its transaction saw the leader before it, and the session is open or was
settled by it. `KeysTell` says which keys may swallow another message.
`CardsTellTheInbox` is about answers still to come: `PageInv` says that a load which met
nothing is alone, belongs to the open tab and has not missed what was unread (`LoadAlone`),
and that an answered mark still has a dot of its own to take, so that the number over the
cards is never counted down twice for one card (`MarkCounts`). Theorems: `MessagesAreTrue`
and `CardsAreTrue`, for any number of sessions, bids, order moves, failures and requests.

**Catalogue** (`Catalogue_proofs`). `ShelfTellsSessions` depends on handlers between their
steps. `Checked` keeps what each has found: a status from which an edit, a deletion or a
publication may go on; each writes only where that has not changed, or its history says so.
A cancellation that has yet to put the product back (`Relisting`) explains a product in
auction that nobody bids for, and a new product is made once (`MadeOnce`). Of the pages the
proof needs only that they leave the requests under way as they are (`Kept`). That a form waits
exactly for the request it sent (`TypeOK`) needs what comes back: `TypesInv` says that every
request carries what its handler takes, that every answer has what its page reads (`Replied`), that
what is asked of a session is asked on the detail page, and that an edited product is loaded once
(`CallsFit`), so that no late answer puts a second form over one that waits. `UploadsAreKept` rests on
what the fold over a gallery's pictures keeps (`AppendImagesFacts`), by well-ordering since induction is
out of reach, and on the forms' types. Theorems: `ShelfIsTrue`, `RulesStand`, `FormsWait`, `PicturesStay`.

**Console** (`Console_proofs`). `SwitchEndsWhatIsShown` is about reads that overlap: the timer's, the
form's and the action's own may answer in any order around a switch. `InStep` says that once
the console has caught up (no switch is unanswered and the action's read is in) it shows the current
item or none, and that every answer still on its way either does too or counts fewer moves of the
pointer than what is shown (`Behind`), so that showing it would be an overtaken read. A pointer that
leaves an item is moved by the console's own switch, which ends that state until the read
after it. `QueueIsSound` is about handlers that write by what an earlier step found: `Found` says
that it still holds when they write, as bids and settlements only close items (`Milder`) and no other
handler ran; for a switch, that what waits comes after the item it is about to put up (`After`). That
`NextPending` finds a first item is the well-ordering of the numbers
(`Least`). Theorems: `SwitchIsSeen`, `QueueSafe`, `ConsoleTyped`.

**Only model-checked.** Liveness (`ExpiredGetsSettled`, `SettledGetsOrderOrFails`,
`UnpaidGetsClosed`, `BadgeCatchesUp`, `AlwaysReconnects`, `ViewCatchesUp`,
`ConsoleCatchesUp`, `UnreadBadgeCatchesUp`) is out of the prover's reach, as temporal reasoning about fairness and ENABLED
is. `SaleIsLeadingBid` is false with a switch and has its theorem under `LockWorks`.

## 6. Not modelled, and what the code does where properties except it

**Abstracted in what is modelled.** The texts of messages, columns only shown to
people, `started_at`. MySQL is modelled as
its documentation and the schema define it: FOR UPDATE blocks other writers of
the row, plain SELECTs of a transaction read one snapshot, a failed statement
undoes the transaction, `uk_session_request` and `uk_session` are unique. Redis is
a single key with an expiry, a counter and a list; its own failover is not modelled.
React applies a handler's state changes together; a request of the browser is
answered, refused or lost.

**Not modelled.** The room cache, since no cached value decides a bid (the feed reads a snapshot as
the row it was written from); the bid limiter, one timestamp under one mutex; the read side,
accounts, social features, AI, speech, uploads' storage, metrics, the other pages and
deployment, which have no state the auction's correctness rests on. In the modelled
parts: the hub's in-memory store without Redis, the heartbeat, the options no
page uses (`autoReconnect: false`, `persistLastSeq: false`); in the live room the throttle,
toasts for rank and outbid, likes and comments, rooms of a single session; in the
console creating a room and its stream addresses; in the catalogue names, keywords and
the AI requests that write them, pages of several products; of the messages their order,
the total and what is beyond the first fifty.

**The session and the order.** A first bid at the cap settles a session that is pending
(`repository/session_repo.go:508`), which `domain/session_status_test.go:12` calls an illegal move.
Settling at the cap skips `ApplyBid`, so `bid_count` stays one low
(`service/bid_service.go:163`). Without Redis the settlement worker may settle at a
price a bid has replaced (`settlement_worker.go:87`). A crash between `MarkSettled` and the
order's INSERT leaves a sale without an order (`settlement_worker.go:123`). A payment checked
before the deadline may be written after it (`repository/order_repo.go:215`). The order of a bid at the
cap has 30 minutes whatever `PAY_TIMEOUT_MINUTES` says (`bid_service.go:173`). All of
these behaviours are in the models, and the properties that hold are stated with them.

**Order pages.** A shipment and a refund may be under way together on the seller's page,
whose answers in the wrong order leave it showing "shipped" for a refunded order
(`OrderDetailPage.tsx` 36-48, 184-201): `BuyerNeverGoesBack` has no counterpart for the seller. A
refused request leaves the old view, with no reload. The seller ships to the address in
the row, which may be newer than the one on the page.

**The feed.** A press of the reconnect button while the socket is connecting leaves an orphan: the
old socket's close handler clears the new socket and arms the timer, so a third is opened beside it
(`auctionSocket.ts` 242-253, `useAuctionSocket.ts` 126-131). `handleSync` applies older events over a
newer snapshot (338-346), and `handleConnected` raises `lastSeq` before the replay has
come (332-336), so that a connection that breaks in between loses the replay,
which `src/docs/ws-protocol.md` 88-90 promises. Countdown ticks bring a stale view up to
date only while the session runs.

**The live room.** A WebSocket bid carries no item and counts for whatever is current when the hub takes it
(`hub.go:433`). A switch published between the REST read and the connection leaves the old title, and
one missed while `lastSeq` is 0 is not replayed (`LiveRoomPage.tsx` 56-108). The next event cancels the
timer that takes the banner away (`AuctionLiveRoom.tsx` 184-194); the pay bar may carry the next item's
name, or be lost when two events are rendered together. The bid button stays
waiting after a connection that closed without an error, and somebody else's bid releases it.

**The console.** A poll that answers late, or an answer that was lost, makes the next press
end an item the seller has not seen (`LiveRoomConsolePage.tsx:172`). Two forms, or a form and
an action, whose handlers cross give two items one number, or set the pointer
over another (`live_room_service.go:248`). A room started by an add whose read was lost is shown idle and
never polled. A quick create whose second request fails leaves a product without a session. An item
bid on before it is current is passed over by the search for pending ones.

**The catalogue.** The link to publish needs a listed product without a session, but a product is
listed only with one, and `AuctionPublishPage.tsx` 18-20 refuses any product that ever had a session
(`ProductDetailPage.tsx:87`, `ProductListPage.tsx:183`). Saving a product or rules without a
change is answered "not found", since MySQL counts no row (`product_repo.go:95`, `session_repo.go:114`).
`Update` writes the whole row back with the status it has read (`product_service.go` 161-186);
two publications may both pass the check (`auction_service.go:85`); a cancellation
broken off before it relists leaves "auctioning" (177). The rules form keeps its initial
values while the session it is for may change (`ProductDetailPage.tsx` 233-254). A late answer to a save,
a deletion or a publication takes the tab away from where the seller has gone (`ProductFormPage.tsx` 65-66).

**Messages.** A bid handler tells from the row as it is after its commit (`bid_service.go:207`):
if the session was meanwhile sold to somebody else, it congratulates its own bidder
(`message_service.go:102`), and an extension by a later bid is told as its own. A
bid whose transaction began before the last one was committed tells the older leader that he was
overbid. The cancellation of order 7 and of session 7 have one key (`message_service.go:141`, 220):
who is concerned by both is told of one. Nothing repeats an insert that failed. On the page the
answer of an older tab's load replaces the cards, and a mark counts the pill down although a
load has counted it already (`MessagesPage.tsx` 57-92).

## 7. Plan

Done: the session with its contract, the order and their proofs; then, the web app's
side: the feed, the order's pages, the buyer's room, the console, the catalogue, the message
centre, and the proofs about the order's pages, the socket and its feed, the buyer's room, the messages,
the catalogue and the console. Next, in this order:

1. `RoomCache`: write-through by several writers, read-through with the absent
   marker, invalidation on a switch; convergence to the row.
2. `RankScore`, pure: the order of the ZSET against (amount, seq) with 32-bit and
   float arithmetic.
3. The hub without Redis: the ring that vanishes with the room's last client.
