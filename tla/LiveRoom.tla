-------------------------------- MODULE LiveRoom --------------------------------
(***************************************************************************)
(* A buyer's page of a live room that sells one item after another         *)
(* (LiveRoomPage, AuctionLiveRoom, BidPanel and their hooks) over the room *)
(* of the API: bids, settlements and switches, each published after it was *)
(* committed and the room's snapshot in Redis was written.  The page reads *)
(* the room by HTTP, mounts its socket, and from then on lives on events.  *)
(* React runs a component's effects some time after the handlers that      *)
(* changed its state, and only for the last event: Render is a step of its *)
(* own, and takes the event with it.                                       *)
(*                                                                         *)
(* The socket is reduced to what the page sees of it: RoomFeed has the     *)
(* rest.  Items are numbered in the order of the queue.  Definitions that  *)
(* a comment calls mutants are plausible bugs of the one they precede;     *)
(* nothing uses them.                                                      *)
(***************************************************************************)
EXTENDS Naturals, Sequences, FiniteSets, SequencesExt

CONSTANTS
  Count,      \* items in the room's queue
  Cap,        \* an item's cap price, in increments above its start price
  MaxMoves,   \* bound: bids of the rival, presses of the bid button and
              \* countdown ticks
  MaxWire,    \* bound: messages on their way to the page at once
  MaxFaults,  \* bound: failed requests, Redis errors and broken connections
  None

ASSUME LiveRoomAssumption ==
  /\ Count \in Nat \ {0} /\ Cap \in Nat \ {0}
  /\ {MaxMoves, MaxWire, MaxFaults} \subseteq Nat
  /\ None \notin Nat

VARIABLES
  items,    \* items[i]: the session of item i, as a snapshot shows it
  current,  \* the live room's current item, or None
  closing,  \* the item the anchor's switch has settled, or None
  outbox,   \* outbox[a]: what actor a has committed and not yet published
  saving,   \* saving[a]: the snapshot actor a writes before it publishes, or None
  cache,    \* the room's snapshot in Redis, or None
  log,      \* the room's published events; an event's number is its index
  link,     \* the page's socket: "none", "open" or "down"
  wire,     \* messages on their way to the page
  sent,     \* bids on their way to the hub: what is offered, and for which item
  lastSeq,  \* the highest event number the page has seen
  base,     \* history: the number the hub's first greeting told the page
  withheld, \* history: the numbers a connection did not have replayed
  rest,     \* the answer of GET /live-rooms/{room}, or None
  page,     \* what the page holds
  moves, faults   \* bounds: how many so far

roomVars == <<items, current, closing, outbox, saving, cache, log>>
linkVars == <<link, wire, sent, lastSeq, base, withheld>>
vars == <<roomVars, linkVars, rest, page, moves, faults>>

Items   == 1..Count
Actors  == { "me", "rival", "worker", "anchor" }
Closed  == { "settled", "cancelled" }
Snapshots ==
  [ item : Items, status : { "pending", "running" } \cup Closed,
    price : 0..Cap, leader : { "me", "rival", None } ]
ASSUME NoneIsNoSnapshot == None \notin Snapshots

(* What the strip at the bottom of the page shows: some items, each with a *)
(* status.                                                                 *)
Strips == UNION { [ S -> { "pending", "running" } \cup Closed ] : S \in SUBSET Items }
NoStrip == [ i \in {} |-> "pending" ]

Event(type, snap) == [ type |-> type, seq |-> 0, snap |-> snap, strip |-> NoStrip ]
NoEvent == Event("none", None)

SyncMsg(seq, snap, events) == [ type |-> "sync", seq |-> seq, snap |-> snap, events |-> events ]
EventMsg(e) == [ type |-> "event", event |-> e ]
ErrorMsg == [ type |-> "error" ]

Fault == faults < MaxFaults /\ faults' = faults + 1

--------------------------------------------------------------------------------
(* The room                                                                *)

IsOpen(i) == items[i].status \notin Closed

(* The session a room id stands for: the current item, or the newest.      *)
ByRoom == IF current = None THEN Count ELSE current

(* A bid and a settlement hold the lock of the session until the snapshot  *)
(* is written; a cancellation and a switch take none.                      *)
Locked(i) ==
  \E a \in Actors : /\ saving[a] # None /\ saving[a].item = i
                    /\ saving[a].status \in { "running", "settled" }

Committed(a, i, snap, events) ==
  /\ items' = [ items EXCEPT ![i] = snap ]
  /\ outbox' = [ outbox EXCEPT ![a] = events ]
  /\ saving' = [ saving EXCEPT ![a] = snap ]

(* PlaceBid: at the cap the item is sold on the spot.                      *)
Bid(a, i, amount) ==
  LET snap == [ item |-> i, price |-> amount, leader |-> a,
                status |-> IF amount = Cap THEN "settled" ELSE "running" ]
  IN  /\ IsOpen(i) /\ ~Locked(i)
      /\ items[i].price < amount /\ amount <= Cap
      /\ outbox[a] = << >>
      /\ Committed(a, i, snap,
           << Event("bid.new", snap) >>
             \o (IF amount = Cap THEN << Event("auction.settled", snap) >> ELSE << >>))

RivalBids ==
  /\ current # None
  /\ moves < MaxMoves
  /\ moves' = moves + 1
  /\ Bid("rival", current, items[current].price + 1)
  /\ UNCHANGED <<current, closing, cache, log, linkVars, rest, page, faults>>

Sold(a, i) ==
  LET snap == [ items[i] EXCEPT !.status = "settled" ]
  IN  /\ outbox[a] = << >>
      /\ items[i].status = "running" /\ ~Locked(i)
      /\ Committed(a, i, snap, << Event("auction.settled", snap) >>)

Skipped(i) ==
  LET snap == [ items[i] EXCEPT !.status = "cancelled" ]
  IN  /\ outbox["anchor"] = << >>
      /\ items[i].status = "pending"
      /\ Committed("anchor", i, snap, << Event("auction.cancelled", snap) >>)

(* The settlement worker finds the item expired.                           *)
WorkerSettles(i) ==
  /\ Sold("worker", i)
  /\ UNCHANGED <<current, closing, cache, log, linkVars, rest, page, moves, faults>>

(* EndCurrentAndSwitch: first the current item is brought to an end ...    *)
EndCurrent ==
  /\ current # None
  /\ closing = None
  /\ \/ Sold("anchor", current)
     \/ Skipped(current)
     \/ ~IsOpen(current) /\ UNCHANGED <<items, outbox, saving>>
  /\ closing' = current
  /\ UNCHANGED <<current, cache, log, linkVars, rest, page, moves, faults>>

(* ... then, that published, the pointer moves to the next pending item.   *)
NextPending(i) == { j \in Items : j > i /\ items[j].status = "pending" }
Least(S) == CHOOSE j \in S : \A k \in S : j <= k

StripOf(next) ==
  [ i \in { j \in Items : ~IsOpen(j) } \cup ({next} \ {None}) |-> items[i].status ]

SwitchOn ==
  LET next == IF NextPending(closing) = {} THEN None ELSE Least(NextPending(closing))
  IN  /\ closing # None
      /\ outbox["anchor"] = << >>
      /\ current' = next
      /\ closing' = None
      /\ outbox' = [ outbox EXCEPT !["anchor"] =
                       << [ Event("session.switch", IF next = None THEN None ELSE items[next])
                              EXCEPT !.strip = StripOf(None) ] >> ]
      /\ saving' = IF next = None THEN saving ELSE [ saving EXCEPT !["anchor"] = items[next] ]
      /\ UNCHANGED <<items, cache, log, linkVars, rest, page, moves, faults>>

(* The snapshot is written first, and a switch or a cancellation deletes   *)
(* the old one before that; errors are ignored.  A reader that finds none  *)
(* writes what the row says.  (RoomHub has what can cross there.)          *)
Remember(a) ==
  /\ saving[a] # None
  /\ \/ cache' = saving[a] /\ UNCHANGED faults
     \/ Fault /\ cache' \in {cache} \cup (IF saving[a].status \in {"pending", "cancelled"}
                                         THEN {None} ELSE {})
  /\ saving' = [ saving EXCEPT ![a] = None ]
  /\ UNCHANGED <<items, current, closing, outbox, log, linkVars, rest, page, moves>>

Cached == IF cache = None THEN items[ByRoom] ELSE cache

(* The notifier of actor a publishes its next event.                       *)
ToPage(m) == IF link = "open" THEN Append(wire, m) ELSE wire

Publish(a) ==
  /\ outbox[a] # << >> /\ saving[a] = None
  /\ Len(wire) < MaxWire
  /\ LET e == [ Head(outbox[a]) EXCEPT !.seq = Len(log) + 1 ]
     IN  /\ log' = Append(log, e)
         /\ wire' = ToPage(EventMsg(e))
  /\ outbox' = [ outbox EXCEPT ![a] = Tail(@) ]
  /\ UNCHANGED <<items, current, closing, saving, cache>>
  /\ UNCHANGED <<link, sent, lastSeq, base, withheld, rest, page, moves, faults>>

(* The countdown of a running item: an event without a number.             *)
Tick ==
  /\ link = "open"
  /\ moves < MaxMoves
  /\ Len(wire) < MaxWire
  /\ Cached.status = "running"
  /\ cache' = Cached
  /\ wire' = ToPage(EventMsg(Event("countdown.tick", Cached)))
  /\ moves' = moves + 1
  /\ UNCHANGED <<items, current, closing, outbox, saving, log>>
  /\ UNCHANGED <<link, sent, lastSeq, base, withheld, rest, page, faults>>

(* (Mutant: a refused bid is not answered.)                                *)
RefusedSilently == UNCHANGED wire
Refused == wire' = ToPage(ErrorMsg)

(* A bid carries an amount and no item: it is for whatever is current when *)
(* the hub takes it.  The limiter may refuse any.                          *)
TakeBid ==
  /\ sent # << >>
  /\ sent' = Tail(sent)
  /\ \/ /\ Bid("me", ByRoom, Head(sent).amount)
        /\ UNCHANGED wire
     \/ /\ outbox["me"] = << >>
        /\ Refused
        /\ UNCHANGED <<items, outbox, saving>>
  /\ UNCHANGED <<current, closing, cache, log, link, lastSeq, base, withheld>>
  /\ UNCHANGED <<rest, page, moves, faults>>

--------------------------------------------------------------------------------
(* Loading the page                                                        *)

PageInit ==
  [ phase |-> "loading", title |-> None, strip |-> NoStrip, snap |-> None,
    event |-> NoEvent, handled |-> 0, isBidding |-> FALSE,
    bar |-> None, nextUp |-> None, hiding |-> FALSE ]

Init ==
  /\ items = [ i \in Items |-> [ item |-> i, status |-> "pending", price |-> 0, leader |-> None ] ]
  /\ current = 1
  /\ closing = None
  /\ outbox = [ a \in Actors |-> << >> ]
  /\ saving = [ a \in Actors |-> None ]
  /\ cache = items[1]
  /\ log = << >>
  /\ link = "none" /\ wire = << >> /\ sent = << >>
  /\ lastSeq = 0 /\ base = None /\ withheld = {}
  /\ rest = None
  /\ page = PageInit
  /\ moves = 0 /\ faults = 0

(* The API answers with the closed items and the current one.              *)
ServeRoom ==
  /\ page.phase = "loading"
  /\ rest = None
  /\ rest' = [ strip |-> StripOf(current), title |-> current ]
  /\ UNCHANGED <<roomVars, linkVars, page, moves, faults>>

LoadRoom ==
  /\ page.phase = "loading"
  /\ rest # None
  /\ page' = [ page EXCEPT !.phase = "ready", !.strip = rest.strip,
                           !.title = IF rest.title = None THEN @ ELSE rest.title ]
  /\ rest' = None
  /\ UNCHANGED <<roomVars, linkVars, moves, faults>>

(* Without the room's answer the page falls back to the item its address   *)
(* names, if it does and that is found.                                    *)
LoadFails ==
  /\ page.phase = "loading"
  /\ Fault
  /\ \/ \E i \in Items : page' = [ page EXCEPT !.phase = "ready", !.title = i ]
     \/ page' = [ page EXCEPT !.phase = "error" ]
  /\ rest' = None
  /\ UNCHANGED <<roomVars, linkVars, moves>>

--------------------------------------------------------------------------------
(* The socket, as the page sees it                                         *)

(* The hub answers the query's subscription with the room's snapshot, and  *)
(* the frame's, which tells a number, with the events after it as well.    *)
Greeting == SyncMsg(Len(log), Cached, << >>)

Greets ==
  /\ Cached.status # "cancelled"
  /\ wire' = << Greeting >>
              \o (IF 0 < lastSeq /\ lastSeq < Len(log)
                  THEN << SyncMsg(Len(log), Cached, SubSeq(log, lastSeq + 1, Len(log))) >>
                  ELSE << >>)
  /\ UNCHANGED <<withheld, faults>>

(* A cancelled item is not public: both subscriptions are answered with an *)
(* error alone, and stay in the room.  So is one whose snapshot cannot be  *)
(* read: here the frame's.  (RoomFeed has the room that is not found.)     *)
TurnsAway ==
  /\ \/ /\ Cached.status = "cancelled"
        /\ wire' = << ErrorMsg, ErrorMsg >>
        /\ UNCHANGED faults
     \/ /\ Cached.status # "cancelled" /\ Fault
        /\ wire' = << Greeting, ErrorMsg >>
  /\ withheld' = withheld \cup (lastSeq + 1)..Len(log)

Connect ==
  /\ page.phase = "ready"
  /\ link # "open"
  /\ link' = "open"
  /\ cache' = Cached
  /\ Greets \/ TurnsAway
  /\ UNCHANGED <<items, current, closing, outbox, saving, log>>
  /\ UNCHANGED <<sent, lastSeq, base, rest, page, moves>>

(* A broken connection may or may not raise an error before it closes.     *)
Break ==
  /\ link = "open"
  /\ Fault
  /\ link' = "down" /\ wire' = << >> /\ sent' = << >>
  /\ \/ UNCHANGED page
     \/ page' = [ page EXCEPT !.isBidding = FALSE ]
  /\ UNCHANGED <<roomVars, lastSeq, base, withheld, rest, moves>>

--------------------------------------------------------------------------------
(* Handling messages: what a handler does to the page                      *)

(* handleSessionSwitch, called from the socket's handler: the strip is the *)
(* event's history and the new item, whose name becomes the title.         *)
Switched(p, e) ==
  LET next == e.snap
  IN  IF next = None THEN [ p EXCEPT !.strip = e.strip ]
      ELSE [ p EXCEPT !.title = next.item,
                      !.strip = [ i \in DOMAIN e.strip \cup {next.item} |->
                                    IF i \in DOMAIN e.strip THEN e.strip[i] ELSE next.status ] ]

(* onRoomEvent and applyRoomEvent: every event that carries a snapshot     *)
(* shows it.                                                               *)
Applied(p, e) ==
  LET q == [ p EXCEPT !.event = e,
                      !.isBidding = @ /\ e.type # "bid.new",
                      !.snap = IF e.snap = None THEN @ ELSE e.snap ]
  IN  IF e.type = "session.switch" THEN Switched(q, e) ELSE q

(* (Mutant: the events of a sync are not applied.)                         *)
SyncedSnapshotOnly(p, m) == [ p EXCEPT !.snap = m.snap ]
Synced(p, m) == FoldLeft(Applied, [ p EXCEPT !.snap = m.snap ], m.events)

MaxOf(a, b) == IF a > b THEN a ELSE b

HandleMessage ==
  /\ link = "open"
  /\ wire # << >>
  /\ wire' = Tail(wire)
  /\ LET m == Head(wire)
     IN  \/ /\ m.type = "sync"
            /\ page' = Synced(page, m)
            /\ lastSeq' = MaxOf(lastSeq, m.seq)
            /\ base' = IF base = None THEN m.seq ELSE base
         \/ /\ m.type = "event"
            /\ page' = Applied(page, m.event)
            /\ lastSeq' = MaxOf(lastSeq, m.event.seq)
            /\ UNCHANGED base
         \/ /\ m.type = "error"
            /\ page' = [ page EXCEPT !.isBidding = FALSE ]
            /\ UNCHANGED <<lastSeq, base>>
  /\ UNCHANGED <<roomVars, link, sent, withheld, rest, moves, faults>>

--------------------------------------------------------------------------------
(* The effects of a render                                                 *)

(* The effect for the banner: another event cancels the timer that would   *)
(* take the last banner away.                                              *)
BannerEffect(p) ==
  LET q == [ p EXCEPT !.hiding = FALSE ]
  IN  IF p.event.type = "session.switch" /\ p.event.snap # None
      THEN [ q EXCEPT !.nextUp = p.event.snap.item, !.hiding = TRUE, !.bar = None ]
      ELSE q

(* (Mutant: everybody gets a pay bar.)                                     *)
SettledForAnyone(p, snap) ==
  [ p EXCEPT !.strip = [ i \in DOMAIN @ |-> IF i = snap.item THEN "settled" ELSE @[i] ],
             !.bar = [ item |-> snap.item, name |-> p.title ] ]

(* handleSettled: the strip, and the winner's pay bar.                     *)
Settled(p, snap) ==
  LET q == [ p EXCEPT !.strip = [ i \in DOMAIN @ |-> IF i = snap.item THEN "settled" ELSE @[i] ] ]
  IN  IF snap.leader = "me" THEN [ q EXCEPT !.bar = [ item |-> snap.item, name |-> p.title ] ] ELSE q

(* The effect for notifications looks at numbered events it has not seen.  *)
NotifyEffect(p) ==
  IF p.event.seq <= p.handled THEN p
  ELSE LET q == [ p EXCEPT !.handled = p.event.seq ]
       IN  IF p.event.type = "auction.settled" THEN Settled(q, p.event.snap) ELSE q

Render ==
  /\ page.phase = "ready"
  /\ page.event # NoEvent
  /\ page' = [ NotifyEffect(BannerEffect(page)) EXCEPT !.event = NoEvent ]
  /\ UNCHANGED <<roomVars, linkVars, rest, moves, faults>>

HideBanner ==
  /\ page.hiding
  /\ page' = [ page EXCEPT !.nextUp = None, !.hiding = FALSE ]
  /\ UNCHANGED <<roomVars, linkVars, rest, moves, faults>>

DismissBar ==
  /\ page.bar # None
  /\ page' = [ page EXCEPT !.bar = None ]
  /\ UNCHANGED <<roomVars, linkVars, rest, moves, faults>>

--------------------------------------------------------------------------------
(* Bidding                                                                 *)

Biddable(p) ==
  /\ p.phase = "ready" /\ link = "open"
  /\ p.snap # None
  /\ p.snap.status \in { "pending", "running" }

(* The amounts the panel lets through: from the next minimum to the cap.   *)
(* (Mutant: the quick buttons go past the cap.)                            *)
OffersPastCap(snap) == (snap.price + 1)..(snap.price + 2)
Offers(snap) == (snap.price + 1)..Cap

PressBid ==
  /\ moves < MaxMoves
  /\ Biddable(page)
  /\ ~page.isBidding
  /\ \E amount \in Offers(page.snap) :
       sent' = Append(sent, [ amount |-> amount, item |-> page.snap.item ])
  /\ page' = [ page EXCEPT !.isBidding = TRUE ]
  /\ moves' = moves + 1
  /\ UNCHANGED <<roomVars, link, wire, lastSeq, base, withheld, rest, faults>>

(* The show is over when the queue is.                                     *)
Rest == current = None /\ UNCHANGED vars

Next ==
  \/ RivalBids \/ EndCurrent \/ SwitchOn \/ Tick \/ TakeBid
  \/ \E i \in Items : WorkerSettles(i)
  \/ \E a \in Actors : Remember(a) \/ Publish(a)
  \/ ServeRoom \/ LoadRoom \/ LoadFails
  \/ Connect \/ Break \/ HandleMessage
  \/ Render \/ HideBanner \/ DismissBar \/ PressBid
  \/ Rest

Spec == Init /\ [][Next]_vars

--------------------------------------------------------------------------------
(* "none" is for a page that has seen no event.                            *)
EventTypes == { "none", "bid.new", "auction.settled", "auction.cancelled",
                "session.switch", "countdown.tick" }
Events == [ type : EventTypes, seq : Nat, snap : Snapshots \cup {None}, strip : Strips ]

Messages ==
  [ type : {"sync"}, seq : Nat, snap : Snapshots, events : Seq(Events) ]
    \cup [ type : {"event"}, event : Events ]
    \cup { ErrorMsg }

(* Types; and a title, a strip and a banner only of items of the room.     *)
TypeOK ==
  /\ items \in [ Items -> Snapshots ]
  /\ current \in Items \cup {None} /\ closing \in Items \cup {None}
  /\ cache \in Snapshots \cup {None}
  /\ link \in { "none", "open", "down" }
  /\ wire \in Seq(Messages)
  /\ sent \in Seq([ amount : 1..Cap, item : Items ])
  /\ lastSeq \in 0..Len(log)
  /\ page.phase \in { "loading", "ready", "error" }
  /\ page.title \in Items \cup {None}
  /\ page.strip \in Strips
  /\ page.snap \in Snapshots \cup {None}
  /\ page.bar \in [ item : Items, name : Items \cup {None} ] \cup {None}
  /\ page.nextUp \in Items \cup {None}
  /\ {page.isBidding, page.hiding} \subseteq BOOLEAN

(* The page never gets ahead of the room: a pay bar is offered to the      *)
(* buyer who won the item, and what the strip or the panel calls closed is *)
(* closed, in whatever order events, answers and effects come.             *)
PageIsBehindTheRoom ==
  /\ page.bar # None => /\ items[page.bar.item].status = "settled"
                        /\ items[page.bar.item].leader = "me"
  /\ \A i \in DOMAIN page.strip : page.strip[i] \in Closed => page.strip[i] = items[i].status
  /\ page.snap # None =>
       LET i == page.snap.item
       IN  /\ page.snap.price <= items[i].price
           /\ page.snap.status \in Closed => page.snap = items[i]

(* The name of the item on the page is that of the last switch the room    *)
(* published since the hub first greeted the page, once all has arrived;   *)
(* even if the connection broke once and the switch came in a replay, had  *)
(* the greeting told a number to replay from.  What a connection met by an *)
(* item that was just cancelled did not have replayed, stays unknown.      *)
SwitchesSince == { n \in DOMAIN log : base < n /\ log[n].type = "session.switch" /\ log[n].snap # None }

TitleFollowsSwitches ==
  (/\ link = "open" /\ wire = << >> /\ base # None
   /\ faults = 0 \/ (faults = 1 /\ base > 0)
   /\ SwitchesSince # {})
    => LET last == CHOOSE n \in SwitchesSince : \A k \in SwitchesSince : k <= n
       IN  last \in withheld \/ page.title = log[last].snap.item

(* The bid button comes back on a connection that holds: while it waits,   *)
(* the bid, the refusal or somebody's accepted bid is on its way.          *)
Releases(m) == m.type = "error" \/ (m.type = "event" /\ m.event.type = "bid.new")

AnswerIsComing ==
  (page.isBidding /\ faults = 0)
    => \/ sent # << >>
       \/ \E i \in DOMAIN wire : Releases(wire[i])
       \/ \E i \in DOMAIN outbox["me"] : outbox["me"][i].type = "bid.new"
================================================================================
