-------------------------------- MODULE FanOut --------------------------------
(***************************************************************************)
(* The message service writes into every user's inbox what happens to his  *)
(* auctions and orders ("fan-out on write").  This module has the inbox of *)
(* one buyer, "me"; all other bidders of a session are "rival".            *)
(*                                                                         *)
(* A handler that has committed a bid, a sale, a cancellation or a move of *)
(* an order goes on to read the session again, composes its messages and   *)
(* inserts them one after the other.  Nothing repeats it when it fails.    *)
(* What other handlers commit in the meantime it may see or not; with the  *)
(* Redis lock only a cancellation can come in between a bid and its        *)
(* messages.                                                               *)
(***************************************************************************)
EXTENDS Naturals, Sequences

CONSTANTS
  Sessions,     \* numbers (AUTO_INCREMENT) of the sessions I may bid in
  Earlier,      \* the one I have bought in before
  MaxWork,      \* bound: what is committed and what the page's user does
  MaxFaults,    \* bound: failed statements and dead instances
  None

Users == { "me", "rival" }

ASSUME FanOutConstants ==
  /\ Sessions \subseteq Nat /\ Earlier \in Sessions
  /\ MaxWork \in Nat /\ MaxFaults \in Nat
  /\ None \notin Users

AuctionEvents == { "outbid", "extended", "settled_win", "settled", "cancelled" }
OrderEvents   == { "order_cancelled", "order_shipped", "order_refunded" }
Events        == AuctionEvents \cup OrderEvents

VARIABLES
  sale,        \* each session with its bids, its sale and what became of the order
  orders,      \* how many orders there are: the number of the last one
  handlers,    \* handlers that have committed and not told everybody
  inbox,       \* my messages
  unread,      \* those that are not read
  hit,         \* history: handlers whose telling failed somewhere
  overtaken,   \* history: bids told of, or written, from rows that had changed
  work, faults

saleVars == <<sale, orders>>
fanVars  == <<sale, orders, handlers, inbox, unread, hit, overtaken, work, faults>>

Open == [ status |-> "open", bids |-> <<>>, winner |-> None, order |-> 0, moves |-> {} ]

Message(event, id, seq) == [ event |-> event, id |-> id, seq |-> seq ]

(* The deduplication key, unique for each user.  A cancelled order and a   *)
(* cancelled session share their prefix.  (Mutant: a session tells me of   *)
(* one overbid only.)                                                      *)
Prefix == [ e \in Events |-> IF e = "order_cancelled" THEN "cancelled" ELSE e ]

KeyOfSession(m) == <<Prefix[m.event], m.id>>

Key(m) == <<Prefix[m.event], m.id, m.seq>>

(* A handler: the session it has written to, what it has written there,    *)
(* and the number of the bid.                                              *)
Whats == { "bid", "sale", "cancel" } \cup OrderEvents
Handler(s, what, n) == [ of |-> s, what |-> what, seq |-> n ]

Work  == work < MaxWork /\ work' = work + 1
Fault == faults < MaxFaults /\ faults' = faults + 1

-------------------------------------------------------------------------------
(* Commits                                                                 *)

Untold(s) == { h \in handlers : h.of = s /\ h.what = "bid" }

Commit(s, what, seq, row) ==
  /\ Work
  /\ sale' = [ sale EXCEPT ![s] = row ]
  /\ handlers' = handlers \cup { Handler(s, what, seq) }
  /\ UNCHANGED <<inbox, unread, hit, faults>>

Sold(row, u) == [ row EXCEPT !.status = "sold", !.winner = u, !.order = orders + 1 ]

Leader(s, n) == IF n = 0 THEN None ELSE sale[s].bids[n].by

(* A bid, perhaps in the last seconds, perhaps at the cap.  Its            *)
(* transaction has seen the first k bids and their leader: all of them,    *)
(* unless it began before the last one was committed and then waited for   *)
(* the row.                                                                *)
PlaceBid(s, u, extends, caps, k) ==
  LET n   == Len(sale[s].bids) + 1
      row == [ sale[s] EXCEPT
                 !.bids = Append(@, [ by |-> u, prev |-> Leader(s, k),
                                      extends |-> extends, caps |-> caps ]) ]
  IN  /\ sale[s].status = "open"
      /\ extends => n > 1 /\ ~caps
      /\ Commit(s, "bid", n, IF caps THEN Sold(row, u) ELSE row)
      /\ orders' = IF caps THEN orders + 1 ELSE orders
      /\ overtaken' = overtaken \cup Untold(s)
                        \cup (IF Leader(s, k) # Leader(s, n - 1) THEN { Handler(s, "bid", n) } ELSE {})

(* The worker or EndCurrentAndSwitch settles: for the leading bidder, or   *)
(* for an earlier one the switch has read.                                 *)
CompleteSettlement(s, u) ==
  /\ sale[s].status = "open"
  /\ \E i \in DOMAIN sale[s].bids : sale[s].bids[i].by = u
  /\ Commit(s, "sale", 0, Sold(sale[s], u))
  /\ orders' = orders + 1
  /\ overtaken' = overtaken \cup Untold(s)

Cancel(s) ==
  /\ sale[s].status = "open"
  /\ Commit(s, "cancel", 0, [ sale[s] EXCEPT !.status = "cancelled" ])
  /\ overtaken' = overtaken \cup Untold(s)
  /\ UNCHANGED orders

(* My order is cancelled unpaid, shipped, or refunded, shipped or not.     *)
MayFollow(event, moves) ==
  \/ event = "order_refunded" /\ moves \subseteq { "order_shipped" }
  \/ event \in { "order_cancelled", "order_shipped" } /\ moves = {}

MoveOrder(s, event) ==
  /\ sale[s].winner = "me"
  /\ MayFollow(event, sale[s].moves)
  /\ Commit(s, event, 0, [ sale[s] EXCEPT !.moves = @ \cup {event} ])
  /\ UNCHANGED <<orders, overtaken>>

-------------------------------------------------------------------------------
(* Telling me                                                              *)

Participates(s) == \E i \in DOMAIN sale[s].bids : sale[s].bids[i].by = "me"

If(condition, m) == IF condition THEN {m} ELSE {}

ToldOfSale(s, winner) ==
  Message(IF winner = "me" THEN "settled_win" ELSE "settled", s, 0)

(* What FanOutOnBid inserts for me.  The session has been read again after *)
(* the commit: its end has moved if this bid or a later one has moved it,  *)
(* and it may be settled for somebody else.                                *)
FanOutOnBid(s, n) ==
  LET bids == sale[s].bids
      by   == bids[n].by
  IN  If(by # "me" /\ bids[n].prev = "me", Message("outbid", s, n))
      \cup If(/\ by # "me" /\ Participates(s) /\ sale[s].status = "open"
              /\ \E i \in n..Len(bids) : bids[i].extends,
              Message("extended", s, n))
      \cup If(sale[s].status = "sold" /\ Participates(s), ToldOfSale(s, by))

Messages(h) ==
  CASE h.what = "bid"    -> FanOutOnBid(h.of, h.seq)
    [] h.what = "sale"   -> If(Participates(h.of), ToldOfSale(h.of, sale[h.of].winner))
    [] h.what = "cancel" -> If(Participates(h.of), Message("cancelled", h.of, 0))
    [] OTHER             -> { Message(h.what, sale[h.of].order, 0) }

(* INSERT ... ON DUPLICATE KEY UPDATE id = id                              *)
Inserted(messages) ==
  { m \in messages : \A k \in inbox : Key(k) # Key(m) }

(* The session and its participants are read and the messages written.     *)
(* (The inserts of one handler are a step: each is for itself and repeats  *)
(* nothing.)                                                               *)
Tell(h, messages) ==
  /\ handlers' = handlers \ {h}
  /\ inbox'    = inbox \cup Inserted(messages)
  /\ unread'   = unread \cup Inserted(messages)
  /\ UNCHANGED <<saleVars, overtaken, work>>

FanOut(h) == Tell(h, Messages(h)) /\ UNCHANGED <<hit, faults>>

(* A statement fails: the read, after which nothing is told, or an insert, *)
(* whose error is ignored.  Or the instance dies.                          *)
Fail(h) ==
  /\ Fault
  /\ hit' = hit \cup {h}
  /\ \E some \in SUBSET Messages(h) : some # Messages(h) /\ Tell(h, some)

-------------------------------------------------------------------------------
(* I lead everywhere but where I have bought, which I have not read of.    *)
MyBid(caps) == [ by |-> "me", prev |-> None, extends |-> FALSE, caps |-> caps ]
Leading == [ Open EXCEPT !.bids = << MyBid(FALSE) >> ]
Bought  == [ Open EXCEPT !.bids = << MyBid(TRUE) >>,
                         !.status = "sold", !.winner = "me", !.order = 1 ]

FanInit ==
  /\ sale = [ s \in Sessions |-> IF s = Earlier THEN Bought ELSE Leading ]
  /\ inbox = { Message("settled_win", Earlier, 0) }
  /\ orders = 1
  /\ unread = inbox
  /\ handlers = {} /\ hit = {} /\ overtaken = {}
  /\ faults = 0

FanNext ==
  \/ \E s \in Sessions :
       \/ \E u \in Users, extends, caps \in BOOLEAN, k \in 0..Len(sale[s].bids) :
            PlaceBid(s, u, extends, caps, k)
       \/ \E u \in Users : CompleteSettlement(s, u)
       \/ Cancel(s)
       \/ \E event \in OrderEvents : MoveOrder(s, event)
  \/ \E h \in handlers : FanOut(h) \/ Fail(h)

-------------------------------------------------------------------------------
(* What has happened to me, by which handler I should have been told, and  *)
(* how.                                                                    *)
InByThen(s, n) == \E i \in 1..n : sale[s].bids[i].by = "me"

OwedForBid(s, n) ==
  LET bids == sale[s].bids
      by   == bids[n].by
  IN  { m \in { Message("outbid", s, n), Message("extended", s, n), ToldOfSale(s, by) } :
          \/ m.event = "outbid" /\ by # "me" /\ n > 1 /\ bids[n - 1].by = "me"
          \/ m.event = "extended" /\ by # "me" /\ bids[n].extends /\ InByThen(s, n)
          \/ m.event \in { "settled_win", "settled" } /\ bids[n].caps /\ InByThen(s, n) }

Capped(s) == \E i \in DOMAIN sale[s].bids : sale[s].bids[i].caps

Owed(h) ==
  CASE h.what = "bid"    -> IF h.seq \in DOMAIN sale[h.of].bids THEN OwedForBid(h.of, h.seq) ELSE {}
    [] h.what = "sale"   -> If(sale[h.of].status = "sold" /\ ~Capped(h.of) /\ Participates(h.of),
                               ToldOfSale(h.of, sale[h.of].winner))
    [] h.what = "cancel" -> If(sale[h.of].status = "cancelled" /\ Participates(h.of),
                               Message("cancelled", h.of, 0))
    [] OTHER             -> If(h.what \in sale[h.of].moves, Message(h.what, sale[h.of].order, 0))

Handlers ==
  UNION { { Handler(s, "bid", n) : n \in DOMAIN sale[s].bids }
          \cup { Handler(s, what, 0) : what \in Whats \ {"bid"} } : s \in Sessions }

(* An order's cancellation and a session's, of the same number.            *)
Swallowed(m) ==
  \E k \in inbox :
    k.id = m.id /\ { k.event, m.event } = { "cancelled", "order_cancelled" }

(* What a bid that was overtaken may tell me wrongly: an overbid of an     *)
(* older leader, another bid's extension, a sale to its bidder.            *)
MayClaim(h) ==
  { Message("outbid", h.of, h.seq), Message("extended", h.of, h.seq),
    Message("settled_win", h.of, 0), Message("settled", h.of, 0) }

(* I am told everything that concerns me, exactly once, and nothing else,  *)
(* whatever order the handlers write in.  Excepted are handlers hit by a   *)
(* failure, bids that were overtaken, and cancellations whose key collides.*)
MessagesTellWhatHappened ==
  /\ \A h \in Handlers : \A m \in Owed(h) :
       m \in inbox \/ Swallowed(m) \/ h \in handlers \cup hit \cup overtaken
  /\ \A m \in inbox : \E h \in Handlers :
       m \in Owed(h) \/ (h \in overtaken /\ m \in MayClaim(h))
===============================================================================
