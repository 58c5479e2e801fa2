----------------------------- MODULE Inbox_proofs -----------------------------
(***************************************************************************)
(* Proofs about FanOut and Inbox, for any sessions, any number of bids, of *)
(* failures and of requests of the page.                                   *)
(*                                                                         *)
(* What has happened to me does not change any more (OwedStays), so a      *)
(* message that was true when it was written stays true.  That a handler   *)
(* writes all of it needs what the session looks like while the handler is *)
(* waiting (Waits): unless it was overtaken, its bid is still the last     *)
(* one, and the session open or settled by it.                             *)
(*                                                                         *)
(* That the cards tell the inbox needs what an answer under way will do to *)
(* the page: what it hides (Told), counts (Counted) and belongs to         *)
(* (Fitting), each as long as its own kind of crossing has not happened.   *)
(***************************************************************************)
EXTENDS Inbox, FiniteSetTheorems, TLAPS

Bids == [ by : Users, prev : Users \cup {None}, extends : BOOLEAN, caps : BOOLEAN ]

Rows == [ status : { "open", "sold", "cancelled" }, bids : Seq(Bids),
          winner : Users \cup {None}, order : Nat, moves : SUBSET OrderEvents ]

FanTypes ==
  /\ sale \in [ Sessions -> Rows ]
  /\ orders \in Nat
  /\ handlers \subseteq [ of : Sessions, what : Whats, seq : Nat ]
  /\ inbox \subseteq [ event : Events, id : Nat, seq : Nat ]

(* An open session is not settled by a bid and has neither winner nor      *)
(* order.                                                                  *)
OpenIsOpen ==
  \A s \in Sessions :
    sale[s].status = "open" => ~Capped(s) /\ sale[s].winner = None /\ sale[s].moves = {}

(* A handler that has not told everybody, and the session it writes about. *)
Waits(h) ==
  LET row == sale[h.of]
      n   == h.seq
  IN  /\ h.what = "bid" => n \in DOMAIN row.bids
      /\ h.what = "bid" /\ h \notin overtaken =>
           /\ n = Len(row.bids)
           /\ row.bids[n].prev = Leader(h.of, n - 1)
           /\ row.bids[n].extends => ~row.bids[n].caps
           /\ row.status = "open" \/ (row.status = "sold" /\ row.bids[n].caps)
      /\ h.what # "bid" => n = 0
      /\ h.what = "sale" => row.status = "sold" /\ ~Capped(h.of)
      /\ h.what = "cancel" => row.status = "cancelled"
      /\ h.what \in OrderEvents => h.what \in row.moves

HandlersWait == \A h \in handlers : Waits(h)

FanInv == FanTypes /\ OpenIsOpen /\ HandlersWait

--------------------------------------------------------------------------------
(* Facts about bids                                                        *)

LEMMA AppendFacts ==
  ASSUME NEW S, NEW q \in Seq(S), NEW e \in S
  PROVE  /\ Append(q, e) \in Seq(S)
         /\ Len(q) \in Nat /\ Len(Append(q, e)) = Len(q) + 1
         /\ DOMAIN q = 1..Len(q) /\ DOMAIN Append(q, e) = 1..(Len(q) + 1)
         /\ \A i \in 1..Len(q) : Append(q, e)[i] = q[i]
         /\ Append(q, e)[Len(q) + 1] = e
OBVIOUS

LEMMA RowFacts ==
  ASSUME FanTypes, NEW s \in Sessions
  PROVE  /\ sale[s] \in Rows /\ sale[s].bids \in Seq(Bids)
         /\ Len(sale[s].bids) \in Nat /\ DOMAIN sale[s].bids = 1..Len(sale[s].bids)
         /\ \A i \in DOMAIN sale[s].bids : sale[s].bids[i] \in Bids
BY DEF FanTypes, Rows

LEMMA LeaderType ==
  ASSUME FanTypes, NEW s \in Sessions, NEW k \in 0..Len(sale[s].bids)
  PROVE  Leader(s, k) \in Users \cup {None}
BY RowFacts DEF Leader, Bids

LEMMA WhatsAre == Whats = { "bid", "sale", "cancel", "order_cancelled", "order_shipped", "order_refunded" }
BY DEF Whats, OrderEvents

(* How a commit changes a session.                                         *)
Grows(r, q) ==
  /\ q.bids = r.bids \/ (r.status = "open" /\ \E b \in Bids : q.bids = Append(r.bids, b))
  /\ r.status # "open" => q = [ r EXCEPT !.moves = q.moves ]
  /\ r.moves \subseteq q.moves

(* One session may have changed.                                           *)
OneGrows(s) ==
  /\ sale' \in [ Sessions -> Rows ]
  /\ Grows(sale[s], sale'[s])
  /\ \A t \in Sessions \ {s} : sale'[t] = sale[t]

LEMMA GrowsFacts ==
  ASSUME FanTypes, NEW s \in Sessions, OneGrows(s), NEW t \in Sessions
  PROVE  /\ DOMAIN sale[t].bids \subseteq DOMAIN sale'[t].bids
         /\ \A i \in DOMAIN sale[t].bids : sale'[t].bids[i] = sale[t].bids[i]
         /\ sale[t].status # "open" =>
              /\ sale'[t].status = sale[t].status /\ sale'[t].bids = sale[t].bids
              /\ sale'[t].winner = sale[t].winner /\ sale'[t].order = sale[t].order
         /\ sale[t].moves \subseteq sale'[t].moves
<1>1. sale[t] \in Rows /\ sale'[t] \in Rows /\ sale[t].bids \in Seq(Bids)
  BY DEF FanTypes, OneGrows, Rows
<1>2. CASE t # s
  <2>1. sale'[t] = sale[t]
    BY <1>2 DEF OneGrows
  <2> QED BY <2>1
<1>3. CASE t = s
  <2>1. Grows(sale[t], sale'[t])
    BY <1>3 DEF OneGrows
  <2>2. CASE sale'[t].bids = sale[t].bids
    BY <1>1, <2>1, <2>2 DEF Grows, Rows
  <2>3. CASE sale[t].status = "open" /\ \E b \in Bids : sale'[t].bids = Append(sale[t].bids, b)
    <3> PICK b \in Bids : sale'[t].bids = Append(sale[t].bids, b)
      BY <2>3
    <3> QED BY <1>1, <2>1, <2>3, AppendFacts DEF Grows
  <2> QED BY <2>1, <2>2, <2>3 DEF Grows
<1> QED BY <1>2, <1>3

--------------------------------------------------------------------------------
(* What has happened to me, part by part                                   *)

LEMMA OwedCases ==
  ASSUME NEW h
  PROVE  /\ h.what = "bid" /\ h.seq \in DOMAIN sale[h.of].bids => Owed(h) = OwedForBid(h.of, h.seq)
         /\ h.what = "bid" /\ h.seq \notin DOMAIN sale[h.of].bids => Owed(h) = {}
         /\ h.what = "sale" =>
              Owed(h) = If(sale[h.of].status = "sold" /\ ~Capped(h.of) /\ Participates(h.of),
                           ToldOfSale(h.of, sale[h.of].winner))
         /\ h.what = "cancel" =>
              Owed(h) = If(sale[h.of].status = "cancelled" /\ Participates(h.of),
                           Message("cancelled", h.of, 0))
         /\ h.what \in OrderEvents =>
              Owed(h) = If(h.what \in sale[h.of].moves, Message(h.what, sale[h.of].order, 0))
BY DEF Owed, OrderEvents

(* An earlier bid is told of as before.                                    *)
LEMMA OwedForBidStays ==
  ASSUME FanTypes, NEW s \in Sessions, OneGrows(s), NEW t \in Sessions, NEW n \in DOMAIN sale[t].bids
  PROVE  OwedForBid(t, n)' = OwedForBid(t, n)
<1>1. /\ n \in 1..Len(sale[t].bids)
      /\ \A i \in 1..n : i \in DOMAIN sale[t].bids
  BY RowFacts
<1>2. \A i \in 1..n : sale'[t].bids[i] = sale[t].bids[i]
  BY <1>1, GrowsFacts
<1>3. sale'[t].bids[n] = sale[t].bids[n] /\ (n > 1 => sale'[t].bids[n - 1] = sale[t].bids[n - 1])
  BY <1>1, <1>2
<1>4. InByThen(t, n)' = InByThen(t, n)
  BY <1>2 DEF InByThen
<1> QED BY <1>3, <1>4 DEF OwedForBid, ToldOfSale

(* Whatever I was owed I am owed after any commit.                         *)
LEMMA OwedStays ==
  ASSUME FanTypes, OpenIsOpen, NEW s \in Sessions, OneGrows(s), NEW h \in Handlers
  PROVE  Owed(h) \subseteq Owed(h)'
<1>1. h.of \in Sessions /\ h.what \in Whats
  BY DEF Handlers, Handler, Whats
<1>2. CASE h.what = "bid"
  <2>1. h.seq \in DOMAIN sale[h.of].bids
    BY <1>2 DEF Handlers, Handler
  <2>2. h.seq \in DOMAIN sale'[h.of].bids
    BY <1>1, <2>1, GrowsFacts
  <2> QED BY <1>1, <1>2, <2>1, <2>2, OwedForBidStays, OwedCases DEF Owed
<1>3. CASE h.what = "sale"
  <2>1. SUFFICES ASSUME sale[h.of].status = "sold" PROVE Owed(h) \subseteq Owed(h)'
    BY <1>3, OwedCases DEF If
  <2>2. /\ sale'[h.of].status = sale[h.of].status /\ sale'[h.of].bids = sale[h.of].bids
        /\ sale'[h.of].winner = sale[h.of].winner
    BY <1>1, <2>1, GrowsFacts
  <2> QED BY <1>3, <2>2 DEF Owed, Capped, Participates, ToldOfSale
<1>4. CASE h.what = "cancel"
  <2>1. SUFFICES ASSUME sale[h.of].status = "cancelled" PROVE Owed(h) \subseteq Owed(h)'
    BY <1>4, OwedCases DEF If
  <2>2. sale'[h.of].status = sale[h.of].status /\ sale'[h.of].bids = sale[h.of].bids
    BY <1>1, <2>1, GrowsFacts
  <2> QED BY <1>4, <2>2 DEF Owed, Participates
<1>5. CASE h.what \in OrderEvents
  <2>1. SUFFICES ASSUME h.what \in sale[h.of].moves PROVE Owed(h) \subseteq Owed(h)'
    BY <1>5, OwedCases DEF If
  <2>2. sale[h.of].status # "open"
    BY <1>1, <2>1 DEF OpenIsOpen
  <2>3. sale'[h.of].order = sale[h.of].order /\ h.what \in sale'[h.of].moves
    BY <1>1, <2>1, <2>2, GrowsFacts
  <2> QED BY <1>5, <2>1, <2>3 DEF Owed, OrderEvents
<1> QED BY <1>1, <1>2, <1>3, <1>4, <1>5 DEF Whats

--------------------------------------------------------------------------------
(* What a handler writes                                                   *)

LEMMA HandlersAre ==
  ASSUME FanInv, NEW h \in handlers
  PROVE  /\ h \in [ of : Sessions, what : Whats, seq : Nat ] /\ Waits(h)
         /\ h = Handler(h.of, h.what, h.seq) /\ h \in Handlers
<1>1. h \in [ of : Sessions, what : Whats, seq : Nat ] /\ Waits(h)
  BY DEF FanInv, FanTypes, HandlersWait
<1>2. h = Handler(h.of, h.what, h.seq)
  BY <1>1 DEF Handler
<1>3. CASE h.what = "bid"
  <2>1. h.seq \in DOMAIN sale[h.of].bids
    BY <1>1, <1>3 DEF Waits
  <2> QED BY <1>1, <1>2, <1>3, <2>1 DEF Handlers
<1>4. CASE h.what # "bid"
  <2>1. h.seq = 0
    BY <1>1, <1>4 DEF Waits
  <2> QED BY <1>1, <1>2, <1>4, <2>1 DEF Handlers
<1> QED BY <1>1, <1>2, <1>3, <1>4

(* A bid's handler that was not overtaken tells me what I am owed.         *)
LEMMA BidTells ==
  ASSUME FanInv, NEW h \in handlers, h.what = "bid", h \notin overtaken
  PROVE  Messages(h) = Owed(h)
<1> DEFINE s == h.of
           n == h.seq
           bids == sale[s].bids
<1>1. s \in Sessions /\ n \in DOMAIN bids /\ Waits(h)
  BY HandlersAre DEF Waits
<1>2. FanTypes /\ OpenIsOpen
  BY DEF FanInv
<1>3. /\ n = Len(bids) /\ n \in Nat /\ n >= 1 /\ DOMAIN bids = 1..n
      /\ \A i \in 1..n : bids[i] \in Bids
  BY <1>1, <1>2, RowFacts DEF Waits
<1>4. /\ bids[n].prev = Leader(s, n - 1) /\ (bids[n].extends => ~bids[n].caps)
      /\ sale[s].status = "open" \/ (sale[s].status = "sold" /\ bids[n].caps)
  BY <1>1 DEF Waits
<1>5. bids[n].prev = "me" <=> (n > 1 /\ bids[n - 1].by = "me")
  <2>1. None # "me"
    BY FanOutConstants DEF Users
  <2>2. Leader(s, n - 1) = IF n = 1 THEN None ELSE bids[n - 1].by
    BY <1>3 DEF Leader
  <2> HIDE DEF s, n, bids
  <2> QED BY <1>3, <1>4, <2>1, <2>2
<1>6. Participates(s) <=> InByThen(s, n)
  BY <1>3 DEF Participates, InByThen
<1>7. (sale[s].status = "open" /\ \E i \in n..Len(bids) : bids[i].extends) <=> bids[n].extends
  BY <1>3, <1>4 DEF Bids
<1>8. sale[s].status = "sold" <=> bids[n].caps
  <2>1. sale[s].status = "open" => ~bids[n].caps
    BY <1>1, <1>2 DEF OpenIsOpen, Capped
  <2> QED BY <1>4, <2>1
<1>9. Messages(h) = FanOutOnBid(s, n)
  BY DEF Messages
<1>10. Owed(h) = OwedForBid(s, n)
  BY <1>1 DEF Owed
<1>11. FanOutOnBid(s, n) = OwedForBid(s, n)
  <2>1. \A m : m \in FanOutOnBid(s, n) <=>
          \/ bids[n].by # "me" /\ bids[n].prev = "me" /\ m = Message("outbid", s, n)
          \/ /\ bids[n].by # "me" /\ Participates(s) /\ sale[s].status = "open"
             /\ \E i \in n..Len(bids) : bids[i].extends
             /\ m = Message("extended", s, n)
          \/ sale[s].status = "sold" /\ Participates(s) /\ m = ToldOfSale(s, bids[n].by)
    BY DEF FanOutOnBid, If
  <2>2. \A m : m \in OwedForBid(s, n) <=>
          \/ bids[n].by # "me" /\ n > 1 /\ bids[n - 1].by = "me" /\ m = Message("outbid", s, n)
          \/ bids[n].by # "me" /\ bids[n].extends /\ InByThen(s, n) /\ m = Message("extended", s, n)
          \/ bids[n].caps /\ InByThen(s, n) /\ m = ToldOfSale(s, bids[n].by)
    BY DEF OwedForBid, Message, ToldOfSale
  <2> QED BY <1>5, <1>6, <1>7, <1>8, <2>1, <2>2
<1> QED BY <1>9, <1>10, <1>11

LEMMA OthersTell ==
  ASSUME FanInv, NEW h \in handlers, h.what # "bid"
  PROVE  Messages(h) = Owed(h)
<1>1. h.what \in Whats /\ Waits(h)
  BY HandlersAre
<1>2. CASE h.what = "sale"
  BY <1>1, <1>2 DEF Messages, Owed, Waits, If
<1>3. CASE h.what = "cancel"
  BY <1>1, <1>3 DEF Messages, Owed, Waits, If
<1>4. CASE h.what \in OrderEvents
  BY <1>1, <1>4 DEF Messages, Owed, Waits, If, OrderEvents
<1> QED BY <1>1, <1>2, <1>3, <1>4 DEF Whats

LEMMA OvertakenClaims ==
  ASSUME NEW h, h.what = "bid"
  PROVE  Messages(h) \subseteq MayClaim(h)
BY DEF Messages, FanOutOnBid, If, MayClaim, ToldOfSale

(* Whatever a handler writes is a message.                                 *)
LEMMA MessagesType ==
  ASSUME FanInv, Sessions \subseteq Nat, NEW h \in handlers
  PROVE  Messages(h) \subseteq [ event : Events, id : Nat, seq : Nat ]
<1>1. h.of \in Sessions /\ h.of \in Nat /\ h.what \in Whats /\ h.seq \in Nat
  BY HandlersAre
<1>2. sale[h.of].order \in Nat
  BY <1>1, RowFacts DEF FanInv, Rows
<1>3. CASE h.what = "bid"
  BY <1>1, <1>3, OvertakenClaims DEF MayClaim, Message, Events, AuctionEvents
<1>4. CASE h.what # "bid"
  BY <1>1, <1>2, <1>4 DEF Messages, If, Message, ToldOfSale, Whats, Events, AuctionEvents, OrderEvents
<1> QED BY <1>3, <1>4

--------------------------------------------------------------------------------
(* Commits                                                                 *)

(* What a commit adds to what I am owed it leaves to a waiting handler.    *)
LeavesToHandlers ==
  \A h \in Handlers' : h \in handlers' \/ (h \in Handlers /\ Owed(h)' \subseteq Owed(h)) \/ Owed(h)' = {}

LEMMA HandlersStay ==
  ASSUME FanTypes, NEW s \in Sessions, OneGrows(s)
  PROVE  Handlers \subseteq Handlers'
<1>1. SUFFICES ASSUME NEW h \in Handlers PROVE h \in Handlers'
  OBVIOUS
<1>2. PICK t \in Sessions : \/ h \in { Handler(t, "bid", n) : n \in DOMAIN sale[t].bids }
                            \/ h \in { Handler(t, what, 0) : what \in Whats \ {"bid"} }
  BY <1>1 DEF Handlers
<1>3. DOMAIN sale[t].bids \subseteq DOMAIN sale'[t].bids
  BY GrowsFacts
<1> QED BY <1>2, <1>3 DEF Handlers

LEMMA CommitTells ==
  ASSUME FanInv, MessagesTellWhatHappened, NEW s \in Sessions, OneGrows(s), LeavesToHandlers,
         handlers \subseteq handlers', overtaken \subseteq overtaken', UNCHANGED <<inbox, hit>>
  PROVE  MessagesTellWhatHappened'
<1>1. FanTypes /\ OpenIsOpen
  BY DEF FanInv
<1>2. ASSUME NEW h \in Handlers', NEW m \in Owed(h)'
      PROVE  m \in inbox' \/ Swallowed(m)' \/ h \in handlers' \cup hit' \cup overtaken'
  <2>1. CASE h \in handlers'
    BY <2>1
  <2>2. CASE h \in Handlers /\ Owed(h)' \subseteq Owed(h)
    <3>1. m \in inbox \/ Swallowed(m) \/ h \in handlers \cup hit \cup overtaken
      BY <1>2, <2>2 DEF MessagesTellWhatHappened
    <3> QED BY <3>1 DEF Swallowed
  <2> QED BY <1>2, <2>1, <2>2 DEF LeavesToHandlers
<1>3. ASSUME NEW m \in inbox'
      PROVE  \E h \in Handlers' : m \in Owed(h)' \/ (h \in overtaken' /\ m \in MayClaim(h))
  <2>1. PICK h \in Handlers : m \in Owed(h) \/ (h \in overtaken /\ m \in MayClaim(h))
    BY <1>3 DEF MessagesTellWhatHappened
  <2>2. h \in Handlers' /\ Owed(h) \subseteq Owed(h)'
    BY <1>1, OwedStays, HandlersStay
  <2> QED BY <2>1, <2>2
<1>4. \A m : MayClaim(m)' = MayClaim(m)
  BY DEF MayClaim
<1> QED BY <1>2, <1>3, <1>4 DEF MessagesTellWhatHappened

(* The handlers of another session wait as before.                         *)
LEMMA OthersWait ==
  ASSUME FanInv, NEW h \in handlers, sale'[h.of] = sale[h.of], overtaken \subseteq overtaken'
  PROVE  Waits(h)'
<1>1. Waits(h)
  BY HandlersAre
<1>2. Leader(h.of, h.seq - 1)' = Leader(h.of, h.seq - 1) /\ Capped(h.of)' = Capped(h.of)
  BY DEF Leader, Capped
<1> QED BY <1>1, <1>2 DEF Waits

(* So do those of the same session when nothing but its open auction       *)
(* changes, and its bidders' handlers are overtaken.                       *)
LEMMA OvertakenWait ==
  ASSUME FanInv, NEW s \in Sessions, OneGrows(s), sale[s].status = "open",
         overtaken \cup Untold(s) \subseteq overtaken', NEW h \in handlers
  PROVE  Waits(h)'
<1>1. /\ h \in [ of : Sessions, what : Whats, seq : Nat ] /\ Waits(h)
      /\ FanTypes /\ OpenIsOpen
  BY HandlersAre DEF FanInv
<1>2. CASE h.of # s
  BY <1>1, <1>2, OthersWait DEF OneGrows
<1>3. CASE h.of = s
  <2>1. h.what = "bid"
    BY <1>1, <1>3 DEF Waits, OpenIsOpen, Whats
  <2>2. h \in overtaken'
    BY <1>3, <2>1 DEF Untold
  <2>3. h.seq \in DOMAIN sale'[s].bids
    BY <1>1, <1>3, <2>1, GrowsFacts DEF Waits
  <2> QED BY <1>3, <2>1, <2>2, <2>3 DEF Waits, OrderEvents
<1> QED BY <1>2, <1>3

LEMMA SoldRow ==
  ASSUME orders \in Nat, NEW r \in Rows, NEW u \in Users
  PROVE  /\ Sold(r, u) \in Rows /\ Sold(r, u).status = "sold"
         /\ Sold(r, u).bids = r.bids /\ Sold(r, u).moves = r.moves
<1>1. PICK n \in Nat : n = orders + 1
  OBVIOUS
<1>2. Sold(r, u) = [ r EXCEPT !.status = "sold", !.winner = u, !.order = n ]
  BY <1>1 DEF Sold
<1>3. u \in Users \cup {None}
  OBVIOUS
<1>4. Sold(r, u) \in Rows
  BY <1>2, <1>3 DEF Rows
<1> QED BY <1>2, <1>4 DEF Rows

LEMMA PlaceBidStep ==
  ASSUME FanInv, Sessions \subseteq Nat, NEW s \in Sessions, NEW u \in Users,
         NEW extends \in BOOLEAN, NEW caps \in BOOLEAN, NEW k \in 0..Len(sale[s].bids),
         PlaceBid(s, u, extends, caps, k)
  PROVE  FanInv' /\ OneGrows(s) /\ LeavesToHandlers
<1> PICK n : n = Len(sale[s].bids) + 1
  OBVIOUS
<1> PICK b : b = [ by |-> u, prev |-> Leader(s, k), extends |-> extends, caps |-> caps ]
  OBVIOUS
<1> PICK new : new = Handler(s, "bid", n)
  OBVIOUS
<1> PICK q : q = sale'[s]
  OBVIOUS
<1>1. FanTypes /\ OpenIsOpen /\ sale[s] \in Rows /\ sale[s].bids \in Seq(Bids) /\ n \in Nat /\ n >= 1
  BY RowFacts DEF FanInv
<1>2. b \in Bids
  BY <1>1, LeaderType DEF Bids
<1>3. /\ Append(sale[s].bids, b) \in Seq(Bids) /\ DOMAIN Append(sale[s].bids, b) = 1..n
      /\ Len(Append(sale[s].bids, b)) = n /\ Append(sale[s].bids, b)[n] = b
      /\ \A i \in 1..(n - 1) : Append(sale[s].bids, b)[i] = sale[s].bids[i]
  BY <1>1, <1>2, AppendFacts
<1>4. /\ sale[s].status = "open" /\ (extends => ~caps)
      /\ handlers' = handlers \cup {new}
      /\ UNCHANGED <<inbox, hit>>
      /\ orders' = IF caps THEN orders + 1 ELSE orders
      /\ sale' = [ sale EXCEPT ![s] = q ]
      /\ q = IF caps THEN Sold([ sale[s] EXCEPT !.bids = Append(@, b) ], u)
                     ELSE [ sale[s] EXCEPT !.bids = Append(@, b) ]
      /\ overtaken \cup Untold(s) \subseteq overtaken'
      /\ new \notin overtaken' => Leader(s, k) = Leader(s, n - 1)
  BY <1>1 DEF PlaceBid, Commit, FanTypes
<1>5. /\ q \in Rows /\ q.bids = Append(sale[s].bids, b) /\ q.moves = sale[s].moves
      /\ q.status = IF caps THEN "sold" ELSE "open"
  <2>1. PICK r : r = [ sale[s] EXCEPT !.bids = Append(@, b) ]
    OBVIOUS
  <2>2. /\ r \in Rows /\ r.bids = Append(sale[s].bids, b)
        /\ r.moves = sale[s].moves /\ r.status = "open"
    BY <1>1, <1>3, <1>4, <2>1 DEF Rows
  <2>3. q = IF caps THEN Sold(r, u) ELSE r
    BY <1>4, <2>1
  <2>4. orders \in Nat /\ u \in Users \cup {None}
    BY <1>1 DEF FanTypes
  <2>5. CASE caps
    BY <2>2, <2>3, <2>4, <2>5, SoldRow
  <2>6. CASE ~caps
    BY <2>2, <2>3, <2>6
  <2> QED BY <2>5, <2>6
<1>6. OneGrows(s)
  <2>1. Grows(sale[s], q)
    BY <1>2, <1>4, <1>5 DEF Grows
  <2> QED BY <1>1, <1>4, <1>5, <2>1 DEF OneGrows, FanTypes
<1>7. FanTypes'
  BY <1>1, <1>4, <1>6 DEF FanTypes, OneGrows, Handler, Whats
<1>8. OpenIsOpen'
  <2>1. ASSUME NEW t \in Sessions, sale'[t].status = "open"
        PROVE  ~Capped(t)' /\ sale'[t].winner = None /\ sale'[t].moves = {}
    <3>1. CASE t # s
      <4>1. sale'[t] = sale[t]
        BY <3>1, <1>6 DEF OneGrows
      <4> QED BY <1>1, <2>1, <4>1 DEF OpenIsOpen, Capped
    <3>2. CASE t = s
      <4>1. ~caps /\ ~Capped(s) /\ q.winner = None /\ q.moves = {}
        BY <1>1, <1>4, <1>5, <2>1, <3>2 DEF OpenIsOpen
      <4>2. \A i \in 1..n : ~q.bids[i].caps
        BY <1>1, <1>3, <1>5, <4>1, RowFacts DEF Capped
      <4> QED BY <1>3, <1>5, <3>2, <4>1, <4>2 DEF Capped
    <3> QED BY <3>1, <3>2
  <2> QED BY <2>1 DEF OpenIsOpen
<1>9. Waits(new)'
  <2>1. /\ n \in DOMAIN q.bids /\ n = Len(q.bids) /\ q.bids[n] = b
    BY <1>1, <1>3, <1>5
  <2>2. Leader(s, n - 1)' = Leader(s, n - 1)
    BY <1>1, <1>3, <1>5 DEF Leader
  <2> QED BY <1>4, <1>5, <2>1, <2>2 DEF Waits, Handler, OrderEvents
<1>10. HandlersWait'
  BY <1>4, <1>6, <1>9, OvertakenWait DEF HandlersWait
<1>11. LeavesToHandlers
  <2>1. SUFFICES ASSUME NEW h \in Handlers'
                 PROVE  h \in handlers' \/ (h \in Handlers /\ Owed(h)' \subseteq Owed(h)) \/ Owed(h)' = {}
    BY DEF LeavesToHandlers
  <2>2. h.of \in Sessions /\ h.what \in Whats
    BY DEF Handlers, Handler, Whats
  <2>3. CASE h.what = "bid"
    <3>1. h = Handler(h.of, "bid", h.seq) /\ h.seq \in DOMAIN sale'[h.of].bids
      BY <2>3 DEF Handlers, Handler
    <3>2. CASE h.seq \in DOMAIN sale[h.of].bids
      <4>1. h \in Handlers
        BY <2>2, <3>1, <3>2 DEF Handlers
      <4>2. Owed(h)' = Owed(h)
        BY <1>1, <1>6, <2>2, <2>3, <3>1, <3>2, OwedForBidStays DEF Owed
      <4> QED BY <4>1, <4>2
    <3>3. CASE h.seq \notin DOMAIN sale[h.of].bids
      <4>1. h.of = s
        BY <1>6, <2>2, <3>1, <3>3 DEF OneGrows
      <4>2. h.seq = n
        BY <1>1, <1>3, <1>5, <3>1, <3>3, <4>1, RowFacts
      <4> QED BY <1>4, <3>1, <4>1, <4>2
    <3> QED BY <3>2, <3>3
  <2>4. CASE h.what # "bid" /\ h.of # s
    <3>1. h \in Handlers /\ sale'[h.of] = sale[h.of]
      BY <1>6, <2>2, <2>4 DEF Handlers, Handler, OneGrows
    <3> QED BY <2>2, <2>4, <3>1 DEF Owed, Capped, Participates
  <2>5. CASE h.what # "bid" /\ h.of = s
    <3>1. q.status = "sold" => Capped(s)'
      BY <1>1, <1>3, <1>5 DEF Capped
    <3>2. q.moves = {} /\ q.status # "cancelled"
      BY <1>1, <1>4, <1>5 DEF OpenIsOpen
    <3> QED BY <2>2, <2>5, <3>1, <3>2 DEF Owed, If, Whats
  <2> QED BY <2>3, <2>4, <2>5
<1> QED BY <1>6, <1>7, <1>8, <1>10, <1>11 DEF FanInv

(* A commit that adds no bid.                                              *)
LEMMA SameBids ==
  ASSUME FanTypes, NEW s \in Sessions, OneGrows(s), sale'[s].bids = sale[s].bids, NEW h \in Handlers'
  PROVE  /\ h \in Handlers /\ h.of \in Sessions /\ h.what \in Whats
         /\ Capped(h.of)' = Capped(h.of) /\ Participates(h.of)' = Participates(h.of)
         /\ h.what = "bid" => Owed(h)' = Owed(h)
         /\ h.of # s => Owed(h)' = Owed(h)
<1>1. h.of \in Sessions /\ h.what \in Whats
  BY DEF Handlers, Handler, Whats
<1>2. \A t \in Sessions : sale'[t].bids = sale[t].bids
  BY DEF OneGrows
<1>3. h \in Handlers
  BY <1>2 DEF Handlers
<1>4. Capped(h.of)' = Capped(h.of) /\ Participates(h.of)' = Participates(h.of)
  BY <1>1, <1>2 DEF Capped, Participates
<1>5. CASE h.what = "bid"
  <2>1. h.seq \in DOMAIN sale[h.of].bids
    BY <1>3, <1>5 DEF Handlers, Handler
  <2>2. Owed(h)' = Owed(h)
    BY <1>1, <1>2, <1>5, <2>1, OwedForBidStays DEF Owed
  <2> QED BY <1>1, <1>3, <1>4, <2>2
<1>6. CASE h.what # "bid"
  <2>1. h.of # s => sale'[h.of] = sale[h.of]
    BY <1>1 DEF OneGrows
  <2> QED BY <1>1, <1>3, <1>4, <1>6, <2>1 DEF Owed
<1> QED BY <1>5, <1>6

(* A settlement and a cancellation close an open session.                  *)
LEMMA CloseStep ==
  ASSUME FanInv, Sessions \subseteq Nat, NEW s \in Sessions, NEW what \in { "sale", "cancel" },
         sale[s].status = "open",
         sale'[s] \in Rows, sale'[s].bids = sale[s].bids, sale'[s].moves = sale[s].moves,
         sale'[s].status = (IF what = "sale" THEN "sold" ELSE "cancelled"),
         sale' = [ sale EXCEPT ![s] = sale'[s] ],
         handlers' = handlers \cup { Handler(s, what, 0) },
         UNCHANGED <<inbox, hit>>, orders' \in Nat,
         overtaken' = overtaken \cup Untold(s)
  PROVE  FanInv' /\ OneGrows(s) /\ LeavesToHandlers
<1>1. FanTypes /\ OpenIsOpen /\ sale[s] \in Rows
  BY RowFacts DEF FanInv
<1>2. OneGrows(s)
  BY <1>1 DEF OneGrows, Grows, FanTypes
<1>3. FanTypes'
  BY <1>1, <1>2 DEF FanTypes, OneGrows, Handler, Whats
<1>4. OpenIsOpen'
  <2>1. \A t \in Sessions : sale'[t].status = "open" => sale'[t] = sale[t]
    BY <1>2 DEF OneGrows
  <2> QED BY <1>1, <2>1 DEF OpenIsOpen, Capped
<1>5. Waits(Handler(s, what, 0))'
  <2>1. ~Capped(s)'
    BY <1>1 DEF OpenIsOpen, Capped
  <2> QED BY <2>1 DEF Waits, Handler, OrderEvents
<1>6. HandlersWait'
  BY <1>2, <1>5, OvertakenWait DEF HandlersWait
<1>7. LeavesToHandlers
  <2>1. SUFFICES ASSUME NEW h \in Handlers'
                 PROVE  h \in handlers' \/ (h \in Handlers /\ Owed(h)' \subseteq Owed(h)) \/ Owed(h)' = {}
    BY DEF LeavesToHandlers
  <2>2. h \in Handlers /\ h.what \in Whats
    BY <1>1, <1>2, SameBids
  <2>3. CASE h.what = "bid" \/ h.of # s
    BY <1>1, <1>2, <2>2, <2>3, SameBids
  <2>4. CASE h.what \in { "sale", "cancel" } /\ h.of = s
    <3>1. h = Handler(s, h.what, 0)
      BY <2>2, <2>4 DEF Handlers, Handler
    <3> QED BY <2>4, <3>1 DEF Owed, If
  <2>5. CASE h.what \in OrderEvents /\ h.of = s
    BY <1>1, <2>5 DEF Owed, If, OpenIsOpen, OrderEvents
  <2> QED BY <2>2, <2>3, <2>4, <2>5 DEF Whats
<1> QED BY <1>2, <1>3, <1>4, <1>6, <1>7 DEF FanInv

LEMMA SettleStep ==
  ASSUME FanInv, Sessions \subseteq Nat, NEW s \in Sessions, NEW u \in Users, CompleteSettlement(s, u)
  PROVE  FanInv' /\ OneGrows(s) /\ LeavesToHandlers
<1>1. FanTypes /\ sale[s] \in Rows
  BY RowFacts DEF FanInv
<1>2. /\ sale[s].status = "open" /\ sale' = [ sale EXCEPT ![s] = Sold(sale[s], u) ]
      /\ handlers' = handlers \cup { Handler(s, "sale", 0) }
      /\ orders' = orders + 1 /\ overtaken' = overtaken \cup Untold(s) /\ UNCHANGED <<inbox, hit>>
  BY DEF CompleteSettlement, Commit
<1>3. sale'[s] = Sold(sale[s], u) /\ orders \in Nat
  BY <1>1, <1>2 DEF FanTypes
<1>4. /\ sale'[s] \in Rows /\ sale'[s].bids = sale[s].bids /\ sale'[s].moves = sale[s].moves
      /\ sale'[s].status = "sold"
  BY <1>1, <1>3, SoldRow
<1>5. orders' \in Nat
  BY <1>2, <1>3
<1>6. sale' = [ sale EXCEPT ![s] = sale'[s] ]
  BY <1>2, <1>3
<1> QED BY <1>2, <1>4, <1>5, <1>6, CloseStep

LEMMA CancelStep ==
  ASSUME FanInv, Sessions \subseteq Nat, NEW s \in Sessions, Cancel(s)
  PROVE  FanInv' /\ OneGrows(s) /\ LeavesToHandlers
<1>1. FanTypes /\ sale[s] \in Rows /\ orders \in Nat
  BY RowFacts DEF FanInv, FanTypes
<1>2. /\ sale[s].status = "open"
      /\ sale' = [ sale EXCEPT ![s] = [ sale[s] EXCEPT !.status = "cancelled" ] ]
      /\ handlers' = handlers \cup { Handler(s, "cancel", 0) }
      /\ orders' = orders /\ overtaken' = overtaken \cup Untold(s) /\ UNCHANGED <<inbox, hit>>
  BY DEF Cancel, Commit
<1>3. sale'[s] = [ sale[s] EXCEPT !.status = "cancelled" ]
  BY <1>1, <1>2 DEF FanTypes
<1>4. /\ sale'[s] \in Rows /\ sale'[s].bids = sale[s].bids /\ sale'[s].moves = sale[s].moves
      /\ sale'[s].status = "cancelled"
  BY <1>1, <1>3 DEF Rows
<1> QED BY <1>1, <1>2, <1>3, <1>4, CloseStep

LEMMA MoveStep ==
  ASSUME FanInv, Sessions \subseteq Nat, NEW s \in Sessions, NEW event \in OrderEvents, MoveOrder(s, event)
  PROVE  FanInv' /\ OneGrows(s) /\ LeavesToHandlers
<1> PICK new : new = Handler(s, event, 0)
  OBVIOUS
<1>1. FanTypes /\ OpenIsOpen /\ sale[s] \in Rows /\ event \in Whats /\ event # "bid"
  BY RowFacts DEF FanInv, Whats, OrderEvents
<1>2. /\ sale[s].winner = "me"
      /\ sale' = [ sale EXCEPT ![s] = [ sale[s] EXCEPT !.moves = @ \cup {event} ] ]
      /\ handlers' = handlers \cup {new}
      /\ UNCHANGED <<orders, overtaken, inbox, hit>>
  BY DEF MoveOrder, Commit
<1>3. sale[s].status # "open"
  BY <1>1, <1>2, FanOutConstants DEF OpenIsOpen, Users
<1>4. sale'[s] = [ sale[s] EXCEPT !.moves = @ \cup {event} ]
  BY <1>1, <1>2 DEF FanTypes
<1>5. /\ sale'[s] \in Rows /\ sale'[s].bids = sale[s].bids /\ sale'[s].status = sale[s].status
      /\ sale'[s].winner = sale[s].winner /\ sale'[s].order = sale[s].order
      /\ sale'[s].moves = sale[s].moves \cup {event}
  BY <1>1, <1>4 DEF Rows
<1>6. OneGrows(s)
  <2>1. Grows(sale[s], sale'[s])
    BY <1>1, <1>3, <1>4, <1>5 DEF Grows, Rows
  <2> QED BY <1>1, <1>2, <1>5, <2>1 DEF OneGrows, FanTypes
<1>7. FanTypes'
  BY <1>1, <1>2, <1>6 DEF FanTypes, OneGrows, Handler
<1>8. OpenIsOpen'
  <2>1. \A t \in Sessions : sale'[t].status = "open" => sale'[t] = sale[t]
    BY <1>3, <1>5, <1>6 DEF OneGrows
  <2> QED BY <1>1, <2>1 DEF OpenIsOpen, Capped
<1>9. ASSUME NEW h \in handlers'
      PROVE  Waits(h)'
  <2>1. CASE h = new
    BY <1>1, <1>5, <2>1 DEF Waits, Handler, OrderEvents
  <2>2. CASE h \in handlers /\ h.of # s
    <3>1. sale'[h.of] = sale[h.of]
      BY <1>6, <2>2, HandlersAre DEF OneGrows
    <3> QED BY <1>2, <2>2, <3>1, OthersWait
  <2>3. CASE h \in handlers /\ h.of = s
    <3>1. Waits(h)
      BY <2>3, HandlersAre
    <3>2. Leader(s, h.seq - 1)' = Leader(s, h.seq - 1) /\ Capped(s)' = Capped(s)
      BY <1>5 DEF Leader, Capped
    <3> QED BY <1>2, <1>5, <2>3, <3>1, <3>2 DEF Waits
  <2> QED BY <1>2, <1>9, <2>1, <2>2, <2>3
<1>10. LeavesToHandlers
  <2>1. SUFFICES ASSUME NEW h \in Handlers'
                 PROVE  h \in handlers' \/ (h \in Handlers /\ Owed(h)' \subseteq Owed(h)) \/ Owed(h)' = {}
    BY DEF LeavesToHandlers
  <2>2. /\ h \in Handlers /\ h.what \in Whats
        /\ Capped(h.of)' = Capped(h.of) /\ Participates(h.of)' = Participates(h.of)
    BY <1>1, <1>5, <1>6, SameBids
  <2>3. CASE h.what = "bid" \/ h.of # s
    BY <1>1, <1>5, <1>6, <2>2, <2>3, SameBids
  <2>4. CASE h.what \in { "sale", "cancel" } /\ h.of = s
    BY <1>5, <2>2, <2>4 DEF Owed
  <2>5. CASE h.what \in OrderEvents /\ h.of = s
    <3>1. CASE h.what = event
      <4>1. h = new
        BY <1>1, <2>5, <3>1 DEF Handlers, Handler
      <4> QED BY <1>2, <4>1
    <3>2. CASE h.what # event
      BY <1>5, <2>2, <2>5, <3>2 DEF Owed, OrderEvents
    <3> QED BY <3>1, <3>2
  <2> QED BY <2>2, <2>3, <2>4, <2>5 DEF Whats
<1> QED BY <1>6, <1>7, <1>8, <1>9, <1>10 DEF FanInv, HandlersWait

--------------------------------------------------------------------------------
(* Telling me                                                              *)

(* Different messages of mine have different keys, but for an order's and  *)
(* a session's cancellation of the same number.                            *)
LEMMA KeysTell ==
  ASSUME NEW k \in [ event : Events, id : Nat, seq : Nat ],
         NEW m \in [ event : Events, id : Nat, seq : Nat ], Key(k) = Key(m)
  PROVE  k = m \/ (k.id = m.id /\ { k.event, m.event } = { "cancelled", "order_cancelled" })
<1>1. Prefix[k.event] = Prefix[m.event] /\ k.id = m.id /\ k.seq = m.seq
  BY DEF Key
<1>2. \A e \in Events : Prefix[e] = IF e = "order_cancelled" THEN "cancelled" ELSE e
  BY DEF Prefix
<1>3. k.event = m.event \/ { k.event, m.event } = { "cancelled", "order_cancelled" }
  BY <1>1, <1>2
<1> QED BY <1>1, <1>3

LEMMA TellStep ==
  ASSUME FanInv, MessagesTellWhatHappened, Sessions \subseteq Nat,
         NEW h \in handlers, NEW some \in SUBSET Messages(h), Tell(h, some),
         hit \subseteq hit', some = Messages(h) \/ h \in hit'
  PROVE  FanInv' /\ MessagesTellWhatHappened'
<1>1. /\ handlers' = handlers \ {h} /\ inbox' = inbox \cup Inserted(some)
      /\ UNCHANGED <<sale, orders, overtaken>>
  BY DEF Tell, saleVars
<1>2. some \subseteq [ event : Events, id : Nat, seq : Nat ] /\ inbox \subseteq [ event : Events, id : Nat, seq : Nat ]
  BY MessagesType DEF FanInv, FanTypes
<1>3. Inserted(some) \subseteq some
  BY DEF Inserted
<1>4. FanInv'
  <2>1. FanTypes'
    BY <1>1, <1>2, <1>3 DEF FanInv, FanTypes
  <2>2. OpenIsOpen'
    BY <1>1 DEF FanInv, OpenIsOpen, Capped
  <2>3. HandlersWait'
    BY <1>1 DEF FanInv, HandlersWait, Waits, Leader, Capped
  <2> QED BY <2>1, <2>2, <2>3 DEF FanInv
<1>5. Handlers' = Handlers /\ \A g : Owed(g)' = Owed(g)
  BY <1>1 DEF Handlers, Owed, OwedForBid, InByThen, Capped, Participates
<1>6. h \in Handlers
  BY HandlersAre
<1>7. h.what # "bid" \/ h \notin overtaken => Messages(h) = Owed(h)
  BY BidTells, OthersTell
<1>8. ASSUME NEW g \in Handlers, NEW m \in Owed(g)
      PROVE  m \in inbox' \/ Swallowed(m)' \/ g \in handlers' \cup hit' \cup overtaken'
  <2>1. m \in inbox \/ Swallowed(m) \/ g \in handlers \cup hit \cup overtaken
    BY <1>8 DEF MessagesTellWhatHappened
  <2>2. CASE m \in inbox \/ Swallowed(m) \/ g # h
    BY <1>1, <2>1, <2>2 DEF Swallowed
  <2>3. CASE g = h /\ h \notin hit' /\ h \notin overtaken
    <3>1. m \in some
      BY <1>7, <1>8, <2>3
    <3>2. CASE m \in Inserted(some)
      BY <1>1, <3>2
    <3>3. CASE m \notin Inserted(some)
      <4>1. PICK k \in inbox : Key(k) = Key(m)
        BY <3>1, <3>3 DEF Inserted
      <4>2. k = m \/ (k.id = m.id /\ { k.event, m.event } = { "cancelled", "order_cancelled" })
        BY <1>2, <3>1, <4>1, KeysTell
      <4> QED BY <1>1, <4>1, <4>2 DEF Swallowed
    <3> QED BY <3>2, <3>3
  <2>4. CASE g = h /\ (h \in hit' \/ h \in overtaken)
    BY <1>1, <2>4
  <2> QED BY <2>2, <2>3, <2>4
<1>9. ASSUME NEW m \in inbox'
      PROVE  \E g \in Handlers : m \in Owed(g) \/ (g \in overtaken /\ m \in MayClaim(g))
  <2>1. CASE m \in inbox
    BY <2>1 DEF MessagesTellWhatHappened
  <2>2. CASE m \in Messages(h) /\ h.what = "bid" /\ h \in overtaken
    BY <1>6, <2>2, OvertakenClaims
  <2>3. CASE m \in Messages(h) /\ (h.what # "bid" \/ h \notin overtaken)
    BY <1>6, <1>7, <2>3
  <2> QED BY <1>1, <1>3, <1>9, <2>1, <2>2, <2>3
<1>10. \A g : MayClaim(g)' = MayClaim(g)
  BY DEF MayClaim
<1>11. MessagesTellWhatHappened'
  BY <1>1, <1>5, <1>8, <1>9, <1>10 DEF MessagesTellWhatHappened
<1> QED BY <1>4, <1>11

--------------------------------------------------------------------------------
(* Init and Next                                                           *)

LEMMA FanInitTells ==
  ASSUME FanInit, FanOutConstants
  PROVE  FanInv /\ MessagesTellWhatHappened
<1>1. /\ Sessions \subseteq Nat /\ Earlier \in Sessions /\ None \notin Users
      /\ orders = 1 /\ handlers = {} /\ hit = {} /\ overtaken = {}
      /\ inbox = { Message("settled_win", Earlier, 0) }
      /\ sale = [ s \in Sessions |-> IF s = Earlier THEN Bought ELSE Leading ]
  BY DEF FanInit, FanOutConstants
<1>2. \A caps \in BOOLEAN :
        /\ MyBid(caps) \in Bids /\ MyBid(caps).caps = caps /\ MyBid(caps).by = "me"
        /\ MyBid(caps).extends = FALSE
        /\ << MyBid(caps) >> \in Seq(Bids) /\ DOMAIN << MyBid(caps) >> = {1}
        /\ << MyBid(caps) >>[1] = MyBid(caps)
  <2>1. \A caps \in BOOLEAN : MyBid(caps) \in Bids /\ MyBid(caps).caps = caps
                              /\ MyBid(caps).by = "me" /\ MyBid(caps).extends = FALSE
    BY DEF MyBid, Bids, Users
  <2>2. \A b \in Bids : << b >> \in Seq(Bids) /\ DOMAIN << b >> = {1} /\ << b >>[1] = b
    OBVIOUS
  <2> QED BY <2>1, <2>2
<1>3. Open = [ status |-> "open", bids |-> <<>>, winner |-> None, order |-> 0, moves |-> {} ]
  BY DEF Open
<1>4. /\ Leading.bids = << MyBid(FALSE) >> /\ Leading.status = "open" /\ Leading.winner = None
      /\ Leading.moves = {} /\ Leading \in Rows
  BY <1>2, <1>3 DEF Leading, Rows
<1>5. /\ Bought.bids = << MyBid(TRUE) >> /\ Bought.status = "sold" /\ Bought.winner = "me"
      /\ Bought.moves = {} /\ Bought \in Rows
  BY <1>2, <1>3 DEF Bought, Rows, Users
<1>6. \A s \in Sessions : /\ DOMAIN sale[s].bids = {1} /\ sale[s].bids[1].by = "me"
                          /\ ~sale[s].bids[1].extends /\ (sale[s].bids[1].caps <=> s = Earlier)
                          /\ sale[s].status = (IF s = Earlier THEN "sold" ELSE "open")
                          /\ sale[s].winner = (IF s = Earlier THEN "me" ELSE None)
                          /\ sale[s].moves = {}
  <2>1. TAKE s \in Sessions
  <2>2. CASE s = Earlier
    <3>1. sale[s] = Bought
      BY <1>1, <2>2
    <3> QED BY <1>2, <1>5, <2>2, <3>1
  <2>3. CASE s # Earlier
    <3>1. sale[s] = Leading
      BY <1>1, <2>3
    <3> QED BY <1>2, <1>4, <2>3, <3>1
  <2> QED BY <2>2, <2>3
<1>7. FanTypes
  BY <1>1, <1>4, <1>5 DEF FanTypes, Message, Events, AuctionEvents
<1>8. OpenIsOpen
  BY <1>6 DEF OpenIsOpen, Capped
<1>9. FanInv
  BY <1>1, <1>8, <1>7 DEF FanInv, HandlersWait
<1>10. ASSUME NEW h \in Handlers, NEW m \in Owed(h)
      PROVE  m \in inbox
  <2>1. h.of \in Sessions /\ h.what \in Whats
    BY DEF Handlers, Handler, Whats
  <2>2. CASE h.what = "bid"
    <3>1. h.seq = 1
      BY <1>6, <2>2 DEF Handlers, Handler
    <3>2. m \in OwedForBid(h.of, 1)
      BY <1>6, <1>10, <2>1, <2>2, <3>1 DEF Owed
    <3>3. /\ sale[h.of].bids[1].by = "me" /\ ~sale[h.of].bids[1].extends
          /\ sale[h.of].bids[1].caps => h.of = Earlier
      BY <1>6, <2>1
    <3>4. m = ToldOfSale(h.of, "me") /\ sale[h.of].bids[1].caps
      BY <3>2, <3>3 DEF OwedForBid, Message
    <3> QED BY <1>1, <3>3, <3>4 DEF ToldOfSale
  <2>3. CASE h.what # "bid"
    <3>1. h.of = Earlier => Capped(h.of)
      BY <1>6, <2>1 DEF Capped
    <3>2. sale[h.of].status = "sold" => h.of = Earlier
      BY <1>6, <2>1
    <3>3. sale[h.of].status # "cancelled" /\ sale[h.of].moves = {}
      BY <1>6, <2>1
    <3>4. Owed(h) = {}
      BY <2>1, <2>3, <3>1, <3>2, <3>3 DEF Owed, If, Whats
    <3> QED BY <1>10, <3>4
  <2> QED BY <2>2, <2>3
<1>11. Handler(Earlier, "bid", 1) \in Handlers
  BY <1>1, <1>6 DEF Handlers
<1>12. Message("settled_win", Earlier, 0) \in Owed(Handler(Earlier, "bid", 1))
  <2>1. /\ 1 \in DOMAIN sale[Earlier].bids /\ sale[Earlier].bids[1].by = "me"
        /\ sale[Earlier].bids[1].caps
    BY <1>1, <1>6
  <2>2. InByThen(Earlier, 1)
    BY <2>1 DEF InByThen
  <2> QED BY <2>1, <2>2 DEF Owed, Handler, OwedForBid, ToldOfSale, Message
<1> QED BY <1>1, <1>9, <1>10, <1>11, <1>12 DEF MessagesTellWhatHappened

LEMMA FanStep ==
  ASSUME FanOutConstants, FanInv, MessagesTellWhatHappened, FanNext
  PROVE  FanInv' /\ MessagesTellWhatHappened'
<1>1. Sessions \subseteq Nat
  BY DEF FanOutConstants
<1>2. ASSUME NEW s \in Sessions, NEW u \in Users, NEW extends \in BOOLEAN, NEW caps \in BOOLEAN,
             NEW k \in 0..Len(sale[s].bids), PlaceBid(s, u, extends, caps, k)
      PROVE  FanInv' /\ MessagesTellWhatHappened'
  <2>1. FanInv' /\ OneGrows(s) /\ LeavesToHandlers
    BY <1>1, <1>2, PlaceBidStep
  <2>2. handlers \subseteq handlers' /\ overtaken \subseteq overtaken' /\ UNCHANGED <<inbox, hit>>
    BY <1>2 DEF PlaceBid, Commit
  <2> QED BY <2>1, <2>2, CommitTells
<1>3. ASSUME NEW s \in Sessions, NEW u \in Users, CompleteSettlement(s, u)
      PROVE  FanInv' /\ MessagesTellWhatHappened'
  <2>1. FanInv' /\ OneGrows(s) /\ LeavesToHandlers
    BY <1>1, <1>3, SettleStep
  <2>2. handlers \subseteq handlers' /\ overtaken \subseteq overtaken' /\ UNCHANGED <<inbox, hit>>
    BY <1>3 DEF CompleteSettlement, Commit
  <2> QED BY <2>1, <2>2, CommitTells
<1>4. ASSUME NEW s \in Sessions, Cancel(s)
      PROVE  FanInv' /\ MessagesTellWhatHappened'
  <2>1. FanInv' /\ OneGrows(s) /\ LeavesToHandlers
    BY <1>1, <1>4, CancelStep
  <2>2. handlers \subseteq handlers' /\ overtaken \subseteq overtaken' /\ UNCHANGED <<inbox, hit>>
    BY <1>4 DEF Cancel, Commit
  <2> QED BY <2>1, <2>2, CommitTells
<1>5. ASSUME NEW s \in Sessions, NEW event \in OrderEvents, MoveOrder(s, event)
      PROVE  FanInv' /\ MessagesTellWhatHappened'
  <2>1. FanInv' /\ OneGrows(s) /\ LeavesToHandlers
    BY <1>1, <1>5, MoveStep
  <2>2. handlers \subseteq handlers' /\ overtaken \subseteq overtaken' /\ UNCHANGED <<inbox, hit>>
    BY <1>5 DEF MoveOrder, Commit
  <2> QED BY <2>1, <2>2, CommitTells
<1>6. ASSUME NEW h \in handlers, FanOut(h)
      PROVE  FanInv' /\ MessagesTellWhatHappened'
  BY <1>1, <1>6, TellStep DEF FanOut
<1>7. ASSUME NEW h \in handlers, Fail(h)
      PROVE  FanInv' /\ MessagesTellWhatHappened'
  BY <1>1, <1>7, TellStep DEF Fail
<1> QED BY <1>2, <1>3, <1>4, <1>5, <1>6, <1>7 DEF FanNext

(* The page changes nothing of what I am told.                             *)
LEMMA PageStep ==
  ASSUME FanInv, MessagesTellWhatHappened, UNCHANGED <<saleVars, handlers, inbox, hit, overtaken>>
  PROVE  FanInv' /\ MessagesTellWhatHappened'
<1>1. UNCHANGED <<sale, orders, handlers, inbox, hit, overtaken>>
  BY DEF saleVars
<1>2. FanInv'
  BY <1>1 DEF FanInv, FanTypes, OpenIsOpen, HandlersWait, Waits, Leader, Capped
<1>3. Handlers' = Handlers /\ \A g : Owed(g)' = Owed(g)
  BY <1>1 DEF Handlers, Owed, OwedForBid, InByThen, Capped, Participates
<1>4. \A g : MayClaim(g)' = MayClaim(g)
  BY DEF MayClaim
<1>5. MessagesTellWhatHappened'
  BY <1>1, <1>3, <1>4 DEF MessagesTellWhatHappened, Swallowed
<1> QED BY <1>2, <1>5

LEMMA PageNextIsPageStep ==
  ASSUME PageNext
  PROVE  UNCHANGED <<saleVars, handlers, inbox, hit, overtaken>>
BY DEF PageNext, SetFilter, ListByUser, CountUnread, LoseLoad, ShowList, FallsOver, ReadCard,
       ReadElsewhere, MarkRead, LoseRead, HandleRead, ReadAll, MarkAllRead, LoseAll, HandleReadAll,
       Asks, Poll, Step

(* For any number of auctions, bidders' bids, late or failed handlers and  *)
(* requests: I am told what happened to me and nothing else, but for the   *)
(* handlers hit by a failure, overtaken bids and cancellations of one      *)
(* number.                                                                 *)
THEOREM MessagesAreTrue == Spec => []MessagesTellWhatHappened
<1>1. Init => FanInv /\ MessagesTellWhatHappened
  BY FanInitTells, FanOutConstants DEF Init
<1>2. FanInv /\ MessagesTellWhatHappened /\ [Next]_vars => (FanInv /\ MessagesTellWhatHappened)'
  <2>1. SUFFICES ASSUME FanInv, MessagesTellWhatHappened, [Next]_vars
                 PROVE  FanInv' /\ MessagesTellWhatHappened'
    OBVIOUS
  <2>2. CASE FanNext
    BY <2>1, <2>2, FanStep, FanOutConstants
  <2>3. CASE PageNext
    BY <2>1, <2>3, PageStep, PageNextIsPageStep
  <2>4. CASE UNCHANGED vars
    BY <2>1, <2>4, PageStep DEF vars, fanVars, saleVars
  <2> QED BY <2>1, <2>2, <2>3, <2>4 DEF Next
<1> QED BY <1>1, <1>2, PTL DEF Spec

--------------------------------------------------------------------------------
(* The page                                                                *)

PageTypes ==
  /\ IsFiniteSet(inbox) /\ unread \subseteq inbox
  /\ filter \in Filters /\ cards \subseteq inbox /\ dots \subseteq cards /\ pill \in Nat
  /\ load \in [ Loads -> [ at : { "idle", "sent", "listed", "done", "failed" }, filter : Filters,
                          items : SUBSET inbox, dots : SUBSET inbox, count : Nat ] ]
  /\ read \in [ Reads -> [ at : { "idle", "sent", "done", "failed" }, message : inbox \cup {None} ] ]
  /\ \A k \in Loads : load[k].at = "failed" => load[k].items = {}

(* No answer hides what is unread, and what is answered as marked is read. *)
(* Marking all is alone, unless the history says otherwise.                *)
LoadTells(k) ==
  load[k].at \in { "listed", "done" } => load[k].items \cap unread \subseteq load[k].dots

MarkTells(j) == read[j].at = "done" => read[j].message \in inbox \ unread

AllAlone ==
  /\ cards \cap unread \subseteq dots
  /\ all # "idle" => \A k \in Loads : load[k].at = "idle"
  /\ all = "done" => cards \cap unread = {}

Told ==
  /\ \A k \in Loads : LoadTells(k)
  /\ \A j \in Reads : MarkTells(j)
  /\ "all" \notin crossed => AllAlone

(* A load that met no mark will count its dots at least.                   *)
LoadCounts(k) ==
  load[k].at # "idle" =>
    /\ all = "idle" /\ \A j \in Reads : read[j].at = "idle"
    /\ load[k].at = "listed" => load[k].dots \subseteq unread
    /\ load[k].at = "done" => Cardinality(load[k].dots) <= load[k].count

(* A mark that has been answered counts a dot of its own, if any is left.  *)
MarkCounts(j) ==
  /\ read[j].at \in { "sent", "done" } => read[j].message \in cards
  /\ read[j].at = "done" =>
       /\ read[j].message \in dots \/ dots = {}
       /\ \A i \in Reads \ {j} : read[i].at = "done" => read[i].message # read[j].message

Counts ==
  /\ Cardinality(dots) <= pill
  /\ \A k \in Loads : LoadCounts(k)
  /\ \A j \in Reads : MarkCounts(j)

Counted == crossed \subseteq {"loads"} => Counts

(* A load that met no other is for the tab that is open.                   *)
LoadFits(k) ==
  load[k].at # "idle" =>
    /\ loading /\ (load[k].at # "failed" => load[k].filter = filter)
    /\ \A i \in Loads \ {k} : load[i].at = "idle"

AllFit ==
  /\ ~loading => \A m \in cards : Fits(m, filter)
  /\ \A k \in Loads : LoadFits(k)

Fitting == "loads" \notin crossed => AllFit

PageInv == PageTypes /\ Told /\ Counted /\ Fitting

LEMMA PageFacts ==
  ASSUME PageTypes
  PROVE  /\ IsFiniteSet(unread) /\ IsFiniteSet(cards) /\ IsFiniteSet(dots)
         /\ Cardinality(unread) \in Nat /\ Cardinality(dots) \in Nat
         /\ \A k \in Loads : IsFiniteSet(load[k].dots) /\ Cardinality(load[k].dots) \in Nat
<1>1. \A S \in SUBSET inbox : IsFiniteSet(S) /\ Cardinality(S) \in Nat
  BY FS_Subset, FS_CardinalityType DEF PageTypes
<1> QED BY <1>1 DEF PageTypes

LEMMA PageInit ==
  ASSUME Init, FanOutConstants, InboxConstants
  PROVE  PageInv
<1>1. inbox = { Message("settled_win", Earlier, 0) } /\ unread = inbox
  BY DEF Init, FanInit
<1>2. IsFiniteSet(inbox)
  BY <1>1, FS_Singleton
<1>3. /\ filter = "all" /\ cards = {} /\ dots = {} /\ pill = 0 /\ loading = open /\ all = "idle"
      /\ load = [ k \in Loads |-> IF k = 1 /\ open THEN SentLoad("all") ELSE NoLoad ]
      /\ read = [ j \in Reads |-> NoRead ]
  BY DEF Init
<1>4. PageTypes
  BY <1>1, <1>2, <1>3 DEF PageTypes, SentLoad, NoLoad, NoRead, Filters
<1>5. \A k \in Loads : load[k].at # "idle" => k = 1 /\ loading /\ load[k] = SentLoad("all")
  BY <1>3 DEF NoLoad
<1>6. \A j \in Reads : read[j].at = "idle"
  BY <1>3 DEF NoRead
<1>7. Told
  <2>1. \A k \in Loads : LoadTells(k)
    BY <1>5 DEF LoadTells, SentLoad, NoLoad
  <2> QED BY <1>3, <1>6, <2>1 DEF Told, MarkTells, AllAlone
<1>8. Counted
  <2>1. \A k \in Loads : LoadCounts(k)
    BY <1>3, <1>5, <1>6 DEF LoadCounts, SentLoad, NoLoad
  <2> QED BY <1>3, <1>6, <2>1, FS_EmptySet DEF Counted, Counts, MarkCounts
<1>9. Fitting
  <2>1. \A k \in Loads : LoadFits(k)
    BY <1>3, <1>5 DEF LoadFits, SentLoad, NoLoad
  <2> QED BY <1>3, <2>1 DEF Fitting, AllFit
<1> QED BY <1>4, <1>7, <1>8, <1>9 DEF PageInv

(* What a handler writes is new.                                           *)
LEMMA TellFacts ==
  ASSUME FanNext, PageInv
  PROVE  /\ \E new : /\ inbox' = inbox \cup new /\ unread' = unread \cup new
                     /\ new \cap inbox = {} /\ IsFiniteSet(new)
<1>1. \A condition \in BOOLEAN : \A m : IsFiniteSet(If(condition, m))
  BY FS_EmptySet, FS_Singleton DEF If
<1>2. \A h : IsFiniteSet(Messages(h))
  <2>1. \A s, n : IsFiniteSet(FanOutOnBid(s, n))
    BY <1>1, FS_Union DEF FanOutOnBid
  <2>2. TAKE h
  <2>3. CASE h.what = "bid"
    BY <2>1, <2>3 DEF Messages
  <2>4. CASE h.what # "bid"
    <3>1. Messages(h) = {} \/ \E m : Messages(h) = {m}
      <4>1. CASE h.what = "sale"
        BY <4>1 DEF Messages, If
      <4>2. CASE h.what = "cancel"
        BY <4>2 DEF Messages, If
      <4>3. CASE h.what \notin { "bid", "sale", "cancel" }
        BY <4>3 DEF Messages
      <4> QED BY <2>4, <4>1, <4>2, <4>3
    <3>2. CASE Messages(h) = {}
      BY <3>2, FS_EmptySet
    <3>3. ASSUME NEW m, Messages(h) = {m}
          PROVE  IsFiniteSet(Messages(h))
      <4>1. IsFiniteSet({m})
        BY FS_Singleton
      <4> QED BY <3>3, <4>1
    <3> QED BY <3>1, <3>2, <3>3
  <2> QED BY <2>3, <2>4
<1>3. ASSUME NEW h, NEW some \in SUBSET Messages(h), Tell(h, some)
      PROVE  \E new : /\ inbox' = inbox \cup new /\ unread' = unread \cup new
                      /\ new \cap inbox = {} /\ IsFiniteSet(new)
  <2>1. Inserted(some) \subseteq Messages(h) /\ Inserted(some) \cap inbox = {}
    BY DEF Inserted
  <2>2. IsFiniteSet(Inserted(some))
    BY <1>2, <2>1, FS_Subset
  <2> QED BY <1>3, <2>1, <2>2 DEF Tell
<1>4. ASSUME UNCHANGED <<inbox, unread>>
      PROVE  \E new : /\ inbox' = inbox \cup new /\ unread' = unread \cup new
                      /\ new \cap inbox = {} /\ IsFiniteSet(new)
  <2>1. inbox' = inbox \cup {} /\ unread' = unread \cup {} /\ {} \cap inbox = {} /\ IsFiniteSet({})
    BY <1>4, FS_EmptySet
  <2> QED BY <2>1
<1>5. \/ UNCHANGED <<inbox, unread>>
      \/ \E h \in handlers : \E some \in SUBSET Messages(h) : Tell(h, some)
  <2>1. \A h \in handlers : FanOut(h) => \E some \in SUBSET Messages(h) : Tell(h, some)
    BY DEF FanOut
  <2>2. \A h \in handlers : Fail(h) => \E some \in SUBSET Messages(h) : Tell(h, some)
    BY DEF Fail
  <2>3. \A s, what, seq, row : Commit(s, what, seq, row) => UNCHANGED <<inbox, unread>>
    BY DEF Commit
  <2>4. \A s, u, extends, caps, k : PlaceBid(s, u, extends, caps, k) => UNCHANGED <<inbox, unread>>
    BY <2>3 DEF PlaceBid
  <2>5. \A s, u : CompleteSettlement(s, u) => UNCHANGED <<inbox, unread>>
    BY <2>3 DEF CompleteSettlement
  <2>6. \A s, event : MoveOrder(s, event) => UNCHANGED <<inbox, unread>>
    BY <2>3 DEF MoveOrder
  <2>7. \A s : Cancel(s) => UNCHANGED <<inbox, unread>>
    BY <2>3 DEF Cancel
  <2> QED BY <2>1, <2>2, <2>4, <2>5, <2>6, <2>7 DEF FanNext
<1> QED BY <1>3, <1>4, <1>5

(* Messages that are told leave the page as it is.                         *)
LEMMA TellKeepsPage ==
  ASSUME PageInv, FanNext, UNCHANGED <<open, shownVars, load, read, all, badgeVars, crossed>>
  PROVE  PageInv'
<1>1. PICK new : /\ inbox' = inbox \cup new /\ unread' = unread \cup new
                 /\ new \cap inbox = {} /\ IsFiniteSet(new)
  BY TellFacts
<1>2. PageTypes /\ UNCHANGED <<filter, cards, dots, pill, loading, load, read, all, crossed>>
  BY DEF PageInv, shownVars
<1>3. PageTypes'
  <2>1. IsFiniteSet(inbox')
    BY <1>1, <1>2, FS_Union DEF PageTypes
  <2>2. /\ unread' \subseteq inbox' /\ cards' \subseteq inbox' /\ dots' \subseteq cards'
        /\ filter' \in Filters /\ pill' \in Nat
    BY <1>1, <1>2 DEF PageTypes
  <2>3. load' \in [ Loads -> [ at : { "idle", "sent", "listed", "done", "failed" }, filter : Filters,
                              items : SUBSET inbox', dots : SUBSET inbox', count : Nat ] ]
    <3>1. SUBSET inbox \subseteq SUBSET inbox'
      BY <1>1
    <3> QED BY <1>2, <3>1 DEF PageTypes
  <2>4. read' \in [ Reads -> [ at : { "idle", "sent", "done", "failed" }, message : inbox' \cup {None} ] ]
    BY <1>1, <1>2 DEF PageTypes
  <2> QED BY <1>2, <2>1, <2>2, <2>3, <2>4 DEF PageTypes
<1>4. \A S \in SUBSET inbox : S \cap unread' = S \cap unread
  BY <1>1
<1>5. Told'
  <2>1. \A k \in Loads : LoadTells(k)'
    <3>1. \A k \in Loads : load[k].items \cap unread' = load[k].items \cap unread
      BY <1>2, <1>4 DEF PageTypes
    <3> QED BY <1>2, <3>1 DEF PageInv, Told, LoadTells
  <2>2. \A j \in Reads : MarkTells(j)'
    BY <1>1, <1>2 DEF PageInv, Told, MarkTells
  <2>3. AllAlone => AllAlone'
    BY <1>2, <1>4 DEF AllAlone, PageTypes
  <2> QED BY <1>2, <2>1, <2>2, <2>3 DEF PageInv, Told
<1>6. Counted'
  <2>1. \A k \in Loads : LoadCounts(k) => LoadCounts(k)'
    BY <1>1, <1>2 DEF LoadCounts
  <2>2. \A j \in Reads : MarkCounts(j) => MarkCounts(j)'
    BY <1>2 DEF MarkCounts
  <2> QED BY <1>2, <2>1, <2>2 DEF PageInv, Counted, Counts
<1>7. Fitting'
  BY <1>2 DEF PageInv, Fitting, AllFit, LoadFits, Fits, Category
<1> QED BY <1>3, <1>5, <1>6, <1>7 DEF PageInv

(* A load is sent; what it meets is noted.                                 *)
LEMMA SetFilterKeeps ==
  ASSUME PageInv, NEW f \in Filters, SetFilter(f)
  PROVE  PageInv'
<1>1. PICK k \in Loads : load[k].at = "idle" /\ load' = [ load EXCEPT ![k] = SentLoad(f) ]
  BY DEF SetFilter
<1>2. /\ PageTypes /\ filter' = f /\ loading' = TRUE
      /\ crossed' = crossed \cup Kind("loads", UnderWay(load)) \cup Kind("mark", UnderWay(read))
                      \cup Kind("all", all # "idle")
      /\ UNCHANGED <<inbox, unread, cards, dots, pill, read, all>>
  BY DEF PageInv, SetFilter, Step
<1>3. SentLoad(f) \in [ at : { "idle", "sent", "listed", "done", "failed" }, filter : Filters,
                       items : SUBSET inbox, dots : SUBSET inbox, count : Nat ]
  BY DEF SentLoad, NoLoad
<1>4. PageTypes'
  BY <1>1, <1>2, <1>3 DEF PageTypes, SentLoad, NoLoad
<1>5. load'[k] = SentLoad(f) /\ \A i \in Loads \ {k} : load'[i] = load[i]
  BY <1>1, <1>2 DEF PageTypes
<1>6. load'[k].at = "sent" /\ load'[k].filter = f
  BY <1>5 DEF SentLoad, NoLoad
<1>7. Told'
  <2>1. \A i \in Loads : LoadTells(i)'
    BY <1>2, <1>5, <1>6 DEF PageInv, Told, LoadTells
  <2>2. \A j \in Reads : MarkTells(j)'
    BY <1>2 DEF PageInv, Told, MarkTells
  <2>3. "all" \notin crossed' => AllAlone /\ all = "idle"
    BY <1>2 DEF PageInv, Told, Kind
  <2>4. "all" \notin crossed' => AllAlone'
    BY <1>2, <2>3 DEF AllAlone
  <2> QED BY <2>1, <2>2, <2>4 DEF Told
<1>8. Counted'
  <2>1. SUFFICES ASSUME crossed' \subseteq {"loads"}
                 PROVE  Counts'
    BY DEF Counted
  <2>2. Counts /\ ~UnderWay(read) /\ all = "idle"
    BY <1>2, <2>1 DEF PageInv, Counted, Kind
  <2>3. \A j \in Reads : read[j].at = "idle"
    BY <1>2, <2>2 DEF UnderWay, PageTypes
  <2>4. \A i \in Loads : LoadCounts(i)'
    BY <1>2, <1>5, <1>6, <2>2, <2>3 DEF Counts, LoadCounts
  <2>5. \A j \in Reads : MarkCounts(j)'
    BY <1>2, <2>3 DEF MarkCounts
  <2> QED BY <1>2, <2>2, <2>4, <2>5 DEF Counts
<1>9. Fitting'
  <2>1. SUFFICES ASSUME "loads" \notin crossed'
                 PROVE  AllFit'
    BY DEF Fitting
  <2>2. \A i \in Loads : load[i].at = "idle"
    BY <1>2, <2>1 DEF Kind, UnderWay, PageTypes
  <2>3. \A i \in Loads : LoadFits(i)'
    BY <1>2, <1>5, <1>6, <2>2 DEF LoadFits
  <2> QED BY <1>2, <2>3 DEF AllFit
<1> QED BY <1>4, <1>7, <1>8, <1>9 DEF PageInv

(* The steps of a load.                                                    *)
LoadSteps(k) == ListByUser(k) \/ CountUnread(k) \/ LoseLoad(k)

LEMMA LoadStepsKeep ==
  ASSUME PageInv, NEW k \in Loads, LoadSteps(k)
  PROVE  PageInv'
<1>1. /\ PageTypes /\ load[k].at # "idle"
      /\ UNCHANGED <<inbox, unread, filter, cards, dots, pill, loading, read, all, crossed>>
      /\ \A i \in Loads \ {k} : load'[i] = load[i]
  BY DEF PageInv, PageTypes, LoadSteps, ListByUser, CountUnread, LoseLoad, Step, shownVars
<1>2. /\ load[k] \in [ at : { "idle", "sent", "listed", "done", "failed" }, filter : Filters,
                       items : SUBSET inbox, dots : SUBSET inbox, count : Nat ]
      /\ unread \subseteq inbox /\ Cardinality(unread) \in Nat /\ IsFiniteSet(unread)
  BY <1>1, PageFacts DEF PageTypes
<1>3. \/ /\ load[k].at = "sent" /\ load'[k].at = "listed" /\ load'[k].dots = unread
         /\ load'[k].items = IF load[k].filter = "unread" THEN unread ELSE inbox
         /\ load'[k].count = load[k].count /\ load'[k].filter = load[k].filter
      \/ /\ load[k].at = "listed" /\ load'[k].at = "done" /\ load'[k].count = Cardinality(unread)
         /\ load'[k].items = load[k].items /\ load'[k].dots = load[k].dots
         /\ load'[k].filter = load[k].filter
      \/ load'[k] = [ NoLoad EXCEPT !.at = "failed" ]
  BY <1>1, <1>2 DEF LoadSteps, ListByUser, CountUnread, LoseLoad, PageTypes
<1>4. load'[k] \in [ at : { "idle", "sent", "listed", "done", "failed" }, filter : Filters,
                    items : SUBSET inbox, dots : SUBSET inbox, count : Nat ]
      /\ (load'[k].at = "failed" => load'[k].items = {})
  <2>1. CASE ListByUser(k)
    <3>1. load'[k] = [ load[k] EXCEPT !.at = "listed", !.dots = unread,
                         !.items = IF load[k].filter = "unread" THEN unread ELSE inbox ]
      BY <1>1, <2>1 DEF ListByUser, PageTypes
    <3> QED BY <1>2, <3>1
  <2>2. CASE CountUnread(k)
    <3>1. load'[k] = [ load[k] EXCEPT !.at = "done", !.count = Cardinality(unread) ]
      BY <1>1, <2>2 DEF CountUnread, PageTypes
    <3> QED BY <1>2, <3>1
  <2>3. CASE LoseLoad(k)
    <3>1. load'[k] = [ NoLoad EXCEPT !.at = "failed" ]
      BY <1>1, <2>3 DEF LoseLoad, PageTypes
    <3> QED BY <3>1 DEF NoLoad, Filters
  <2> QED BY <2>1, <2>2, <2>3 DEF LoadSteps
<1>5. PageTypes'
  <2>1. load' = [ load EXCEPT ![k] = load'[k] ]
    BY <1>1 DEF PageTypes, LoadSteps, ListByUser, CountUnread, LoseLoad
  <2> QED BY <1>1, <1>4, <2>1 DEF PageTypes
<1>6. Told'
  <2>1. LoadTells(k)'
    BY <1>1, <1>2, <1>3 DEF PageInv, Told, LoadTells, NoLoad
  <2>2. \A i \in Loads : LoadTells(i)'
    BY <1>1, <2>1 DEF PageInv, Told, LoadTells
  <2>3. AllAlone => AllAlone'
    BY <1>1 DEF AllAlone
  <2> QED BY <1>1, <2>2, <2>3 DEF PageInv, Told, MarkTells
<1>7. Counted'
  <2>1. SUFFICES ASSUME Counts
                 PROVE  Counts'
    BY <1>1 DEF PageInv, Counted
  <2>2. LoadCounts(k)'
    <3>1. LoadCounts(k)
      BY <2>1 DEF Counts
    <3>2. Cardinality(load[k].dots) \in Nat
      BY <1>1, PageFacts
    <3>3. load[k].dots \subseteq unread => Cardinality(load[k].dots) <= Cardinality(unread)
      BY <1>2, FS_Subset
    <3>4. CASE load'[k].at = "listed"
      BY <1>1, <1>3, <3>1, <3>4 DEF LoadCounts, NoLoad
    <3>5. CASE load'[k].at = "done"
      BY <1>1, <1>3, <3>1, <3>2, <3>3, <3>5 DEF LoadCounts, NoLoad
    <3>6. CASE load'[k].at = "failed"
      BY <1>1, <3>1, <3>6 DEF LoadCounts
    <3> QED BY <1>3, <3>4, <3>5, <3>6 DEF NoLoad
  <2>3. \A i \in Loads : LoadCounts(i)'
    BY <1>1, <2>1, <2>2 DEF Counts, LoadCounts
  <2>4. \A j \in Reads : MarkCounts(j)'
    BY <1>1, <2>1 DEF Counts, MarkCounts
  <2> QED BY <1>1, <2>1, <2>3, <2>4 DEF Counts
<1>8. Fitting'
  <2>1. SUFFICES ASSUME AllFit
                 PROVE  AllFit'
    BY <1>1 DEF PageInv, Fitting
  <2>2. loading /\ \A i \in Loads \ {k} : load[i].at = "idle" /\ load'[i].at = "idle"
    BY <1>1, <2>1 DEF AllFit, LoadFits
  <2>3. LoadFits(k)'
    BY <1>1, <1>3, <2>1, <2>2 DEF AllFit, LoadFits, NoLoad
  <2>4. \A i \in Loads : LoadFits(i)'
    BY <2>2, <2>3 DEF LoadFits
  <2> QED BY <1>1, <2>2, <2>4 DEF AllFit
<1> QED BY <1>5, <1>6, <1>7, <1>8 DEF PageInv

(* What a load answers with.                                               *)
LEMMA ShowListKeeps ==
  ASSUME PageInv, NEW k \in Loads, ShowList(k)
  PROVE  PageInv'
<1>1. /\ PageTypes /\ load[k].at \in { "done", "failed" }
      /\ cards' = { m \in load[k].items : Fits(m, load[k].filter) }
      /\ dots' = cards' \cap load[k].dots
      /\ pill' = (IF load[k].items # {} THEN load[k].count ELSE pill)
      /\ loading' = FALSE
      /\ load' = [ load EXCEPT ![k] = NoLoad ]
      /\ UNCHANGED <<inbox, unread, filter, read, all, crossed>>
  BY DEF PageInv, ShowList, Step
<1>2. load[k] \in [ at : { "idle", "sent", "listed", "done", "failed" }, filter : Filters,
                   items : SUBSET inbox, dots : SUBSET inbox, count : Nat ]
  BY <1>1 DEF PageTypes
<1>3. NoLoad \in [ at : { "idle", "sent", "listed", "done", "failed" }, filter : Filters,
                  items : SUBSET inbox, dots : SUBSET inbox, count : Nat ]
  BY DEF NoLoad, Filters
<1>4. PageTypes'
  <2>1. cards' \subseteq inbox' /\ dots' \subseteq cards' /\ pill' \in Nat
    BY <1>1, <1>2 DEF PageTypes
  <2> QED BY <1>1, <1>3, <2>1 DEF PageTypes, NoLoad
<1>5. load'[k].at = "idle" /\ \A i \in Loads \ {k} : load'[i] = load[i]
  BY <1>1 DEF PageTypes, NoLoad
<1>6. load[k].items = {} => cards' = {} /\ dots' = {}
  BY <1>1
<1>7. load[k].items # {} => load[k].at = "done"
  BY <1>1 DEF PageTypes
<1>8. Told'
  <2>1. \A i \in Loads : LoadTells(i)'
    BY <1>1, <1>5 DEF PageInv, Told, LoadTells
  <2>2. cards' \cap unread' \subseteq dots'
    BY <1>1, <1>6, <1>7 DEF PageInv, Told, LoadTells
  <2>3. AllAlone => AllAlone'
    BY <1>1, <2>2 DEF AllAlone
  <2> QED BY <1>1, <2>1, <2>3 DEF PageInv, Told, MarkTells
<1>9. Counted'
  <2>1. SUFFICES ASSUME Counts
                 PROVE  Counts'
    BY <1>1 DEF PageInv, Counted
  <2>2. \A i \in Loads : LoadCounts(i)'
    BY <1>1, <1>5, <2>1 DEF Counts, LoadCounts
  <2>3. \A j \in Reads : MarkCounts(j)'
    BY <1>1, <2>1 DEF Counts, LoadCounts, MarkCounts
  <2>4. CASE load[k].items # {}
    <3>1. Cardinality(dots') <= Cardinality(load[k].dots)
      BY <1>1, PageFacts, FS_Subset
    <3>2. Cardinality(dots') \in Nat /\ Cardinality(load[k].dots) \in Nat /\ load[k].count \in Nat
      BY <1>1, <1>2, <1>4, PageFacts, FS_Subset, FS_CardinalityType
    <3>3. Cardinality(dots') <= pill'
      BY <1>1, <1>7, <2>1, <2>4, <3>1, <3>2 DEF Counts, LoadCounts
    <3> QED BY <2>2, <2>3, <3>3 DEF Counts
  <2>5. CASE load[k].items = {}
    <3>1. dots' = {} /\ pill' \in Nat
      BY <1>4, <1>6, <2>5 DEF PageTypes
    <3>2. Cardinality(dots') = 0
      BY <3>1, FS_EmptySet
    <3> QED BY <2>2, <2>3, <3>1, <3>2 DEF Counts
  <2> QED BY <2>4, <2>5
<1>10. Fitting'
  <2>1. SUFFICES ASSUME AllFit
                 PROVE  AllFit'
    BY <1>1 DEF PageInv, Fitting
  <2>2. \A i \in Loads \ {k} : load[i].at = "idle"
    BY <1>1, <2>1 DEF AllFit, LoadFits
  <2>3. \A i \in Loads : LoadFits(i)'
    BY <1>5, <2>2 DEF LoadFits
  <2>4. \A m \in cards' : Fits(m, filter)
    BY <1>1, <1>6, <1>7, <2>1 DEF AllFit, LoadFits
  <2> QED BY <1>1, <2>3, <2>4 DEF AllFit, Fits, Category
<1> QED BY <1>4, <1>8, <1>9, <1>10 DEF PageInv

(* A page that has fallen over shows nothing.                              *)
LEMMA FallsOverKeeps ==
  ASSUME PageInv, NEW k \in Loads, FallsOver(k)
  PROVE  PageInv'
<1>1. /\ PageTypes /\ load[k].at # "idle"
      /\ cards' = {} /\ dots' = {} /\ pill' = 0 /\ loading' = FALSE
      /\ load' = [ i \in Loads |-> NoLoad ]
      /\ UNCHANGED <<inbox, unread, filter, read, all, crossed>>
  BY DEF PageInv, FallsOver, IsNull
<1>2. NoLoad \in [ at : { "idle", "sent", "listed", "done", "failed" }, filter : Filters,
                  items : SUBSET inbox, dots : SUBSET inbox, count : Nat ]
  BY DEF NoLoad, Filters
<1>3. \A i \in Loads : load'[i].at = "idle"
  BY <1>1 DEF NoLoad
<1>4. PageTypes'
  BY <1>1, <1>2, <1>3 DEF PageTypes
<1>5. Told'
  BY <1>1, <1>3 DEF PageInv, Told, LoadTells, MarkTells, AllAlone
<1>6. Counted'
  <2>1. SUFFICES ASSUME Counts
                 PROVE  Counts'
    BY <1>1 DEF PageInv, Counted
  <2>2. \A j \in Reads : MarkCounts(j)'
    BY <1>1, <2>1 DEF Counts, LoadCounts, MarkCounts
  <2> QED BY <1>1, <1>3, <2>2, FS_EmptySet DEF Counts, LoadCounts
<1>7. Fitting'
  BY <1>1, <1>3 DEF Fitting, AllFit, LoadFits
<1> QED BY <1>4, <1>5, <1>6, <1>7 DEF PageInv

(* A mark of what is shown is sent.                                        *)
LEMMA ReadCardKeeps ==
  ASSUME PageInv, NEW m \in inbox, ReadCard(m)
  PROVE  PageInv'
<1>1. PICK j \in Reads : read[j].at = "idle" /\ read' = [ read EXCEPT ![j] = [ at |-> "sent", message |-> m ] ]
  BY DEF ReadCard
<1>2. /\ PageTypes /\ m \in dots /\ crossed' = crossed \cup Kind("mark", UnderWay(load))
      /\ UNCHANGED <<inbox, unread, filter, cards, dots, pill, loading, load, all>>
  BY DEF PageInv, ReadCard, Step, shownVars
<1>3. PageTypes'
  BY <1>1, <1>2 DEF PageTypes
<1>4. read'[j] = [ at |-> "sent", message |-> m ] /\ \A i \in Reads \ {j} : read'[i] = read[i]
  BY <1>1, <1>2 DEF PageTypes
<1>5. Told'
  <2>1. \A i \in Reads : MarkTells(i)'
    BY <1>2, <1>4 DEF PageInv, Told, MarkTells
  <2>2. "all" \notin crossed' => AllAlone'
    BY <1>2 DEF PageInv, Told, AllAlone
  <2> QED BY <1>2, <2>1, <2>2 DEF PageInv, Told, LoadTells
<1>6. Counted'
  <2>1. SUFFICES ASSUME crossed' \subseteq {"loads"}
                 PROVE  Counts'
    BY DEF Counted
  <2>2. Counts /\ ~UnderWay(load)
    BY <1>2, <2>1 DEF PageInv, Counted, Kind
  <2>3. \A k \in Loads : LoadCounts(k)'
    BY <1>2, <2>2 DEF LoadCounts, UnderWay, PageTypes
  <2>4. \A i \in Reads : MarkCounts(i)'
    BY <1>2, <1>4, <2>2 DEF Counts, MarkCounts, PageTypes
  <2> QED BY <1>2, <2>2, <2>3, <2>4 DEF Counts
<1>7. Fitting'
  BY <1>2 DEF PageInv, Fitting, AllFit, LoadFits, Fits, Category, Kind
<1> QED BY <1>3, <1>5, <1>6, <1>7 DEF PageInv

(* While a mark that counts is under way no load is.                       *)
LEMMA MarkAlone ==
  ASSUME Counts, NEW j \in Reads, read[j].at # "idle"
  PROVE  \A k \in Loads : load[k].at = "idle"
BY DEF Counts, LoadCounts

LEMMA MarkReadKeeps ==
  ASSUME PageInv, NEW j \in Reads, MarkRead(j) \/ LoseRead(j)
  PROVE  PageInv'
<1>1. /\ PageTypes /\ read[j].at \in { "sent", "done" }
      /\ UNCHANGED <<inbox, filter, cards, dots, pill, loading, load, all, crossed>>
  BY DEF PageInv, MarkRead, LoseRead, Step, shownVars
<1>2. /\ \A i \in Reads \ {j} : read'[i] = read[i]
      /\ read'[j].message = read[j].message /\ unread' \subseteq unread
      /\ \/ read'[j].at = "failed" /\ (unread' = unread \/ unread' = unread \ { read[j].message })
         \/ /\ read[j].at = "sent" /\ read'[j].at = "done" /\ read[j].message \in unread
            /\ unread' = unread \ { read[j].message }
  BY <1>1 DEF MarkRead, LoseRead, Step, PageTypes
<1>3. PageTypes'
  <2>1. PICK at \in { "done", "failed" } : read' = [ read EXCEPT ![j].at = at ]
    BY <1>1 DEF MarkRead, LoseRead
  <2>2. read' \in [ Reads -> [ at : { "idle", "sent", "done", "failed" }, message : inbox \cup {None} ] ]
    BY <1>1, <2>1 DEF PageTypes
  <2> QED BY <1>1, <1>2, <2>2 DEF PageTypes
<1>4. Told'
  <2>1. \A i \in Reads : MarkTells(i)'
    BY <1>1, <1>2 DEF PageInv, Told, MarkTells, PageTypes
  <2>2. \A k \in Loads : LoadTells(k)'
    BY <1>1, <1>2 DEF PageInv, Told, LoadTells
  <2>3. AllAlone => AllAlone'
    BY <1>1, <1>2 DEF AllAlone
  <2> QED BY <1>1, <2>1, <2>2, <2>3 DEF PageInv, Told
<1>5. Counted'
  <2>1. SUFFICES ASSUME crossed \subseteq {"loads"}, Counts
                 PROVE  Counts'
    BY <1>1 DEF PageInv, Counted
  <2>2. \A k \in Loads : load[k].at = "idle"
    BY <1>1, <2>1, MarkAlone
  <2>3. \A k \in Loads : LoadCounts(k)'
    BY <1>1, <2>2 DEF LoadCounts
  <2>4. \A i \in Reads : MarkCounts(i)
    BY <2>1 DEF Counts
  <2>5. \A i \in Reads : read[i].at = "done" => read[i].message \notin unread
    BY DEF PageInv, Told, MarkTells
  <2>6. ASSUME NEW i \in Reads \ {j}
        PROVE  MarkCounts(i)'
    BY <1>1, <1>2, <2>4, <2>5 DEF MarkCounts
  <2>7. MarkCounts(j)'
    <3>1. CASE read'[j].at = "failed"
      BY <3>1 DEF MarkCounts
    <3>2. CASE read'[j].at = "done"
      <4>1. read[j].at = "sent" /\ read[j].message \in unread
        BY <1>2, <3>2
      <4>2. read[j].message \in cards /\ read[j].message \in dots
        BY <2>1, <2>4, <4>1 DEF PageInv, Told, AllAlone, MarkCounts
      <4>3. \A i \in Reads \ {j} : read[i].at = "done" => read[i].message # read[j].message
        BY <2>5, <4>1
      <4> QED BY <1>1, <1>2, <4>2, <4>3 DEF MarkCounts
    <3> QED BY <1>2, <3>1, <3>2
  <2> QED BY <1>1, <2>1, <2>3, <2>6, <2>7 DEF Counts
<1>6. Fitting'
  BY <1>1 DEF PageInv, Fitting, AllFit, LoadFits, Fits, Category
<1> QED BY <1>3, <1>4, <1>5, <1>6 DEF PageInv

(* An answered mark takes one dot and counts one down.                     *)
LEMMA HandleReadKeeps ==
  ASSUME PageInv, NEW j \in Reads, HandleRead(j)
  PROVE  PageInv'
<1> PICK m : m = read[j].message
  OBVIOUS
<1>1. /\ PageTypes /\ read[j].at \in { "done", "failed" }
      /\ read' = [ read EXCEPT ![j] = NoRead ]
      /\ \/ read[j].at = "done" /\ dots' = dots \ {m} /\ pill' = Less(pill)
         \/ UNCHANGED <<dots, pill>>
      /\ UNCHANGED <<inbox, unread, filter, cards, loading, load, all, crossed>>
  BY DEF PageInv, HandleRead, Step
<1>2. Less(pill) \in Nat /\ (pill > 0 => Less(pill) = pill - 1)
  BY <1>1 DEF PageTypes, Less
<1>3. PageTypes'
  BY <1>1, <1>2 DEF PageTypes, NoRead
<1>4. read'[j] = NoRead /\ \A i \in Reads \ {j} : read'[i] = read[i]
  BY <1>1 DEF PageTypes
<1>5. Told'
  <2>1. \A i \in Reads : MarkTells(i)'
    BY <1>1, <1>4 DEF PageInv, Told, MarkTells, NoRead
  <2>2. AllAlone => AllAlone'
    BY <1>1 DEF PageInv, Told, MarkTells, AllAlone
  <2> QED BY <1>1, <2>1, <2>2 DEF PageInv, Told, LoadTells
<1>6. Counted'
  <2>1. SUFFICES ASSUME crossed \subseteq {"loads"}, Counts
                 PROVE  Counts'
    BY <1>1 DEF PageInv, Counted
  <2>2. \A k \in Loads : load[k].at = "idle"
    BY <1>1, <2>1, MarkAlone
  <2>3. \A k \in Loads : LoadCounts(k)'
    BY <1>1, <2>2 DEF LoadCounts
  <2>4. MarkCounts(j)
    BY <2>1 DEF Counts
  <2>5. \A i \in Reads : MarkCounts(i)'
    <3>1. MarkCounts(j)'
      BY <1>4 DEF MarkCounts, NoRead
    <3>2. ASSUME NEW i \in Reads \ {j}
          PROVE  MarkCounts(i)'
      <4>1. MarkCounts(i)
        BY <2>1 DEF Counts
      <4>2. \A l \in Reads : read'[l].at = "done" => read[l].at = "done" /\ read'[l].message = read[l].message
        BY <1>4 DEF NoRead
      <4>3. read[j].at = "done" /\ read[i].at = "done" => read[i].message # m
        BY <4>1 DEF MarkCounts
      <4>4. read'[i] = read[i]
        BY <1>4
      <4> QED BY <1>1, <4>1, <4>2, <4>3, <4>4 DEF MarkCounts
    <3> QED BY <3>1, <3>2
  <2>6. Cardinality(dots') <= pill'
    <3>1. /\ IsFiniteSet(dots) /\ Cardinality(dots) \in Nat /\ pill \in Nat
          /\ Cardinality(dots) <= pill
      BY <1>1, <2>1, PageFacts DEF Counts, PageTypes
    <3>2. CASE UNCHANGED <<dots, pill>>
      BY <3>1, <3>2
    <3>3. CASE read[j].at = "done" /\ dots' = dots \ {m} /\ pill' = Less(pill) /\ m \in dots
      <4>1. Cardinality(dots') = Cardinality(dots) - 1
        BY <3>1, <3>3, FS_RemoveElement
      <4>2. Cardinality(dots) > 0
        BY <3>1, <3>3, FS_EmptySet
      <4> QED BY <1>2, <3>1, <3>3, <4>1, <4>2
    <3>4. CASE read[j].at = "done" /\ dots' = dots \ {m} /\ pill' = Less(pill) /\ dots = {}
      BY <1>2, <3>4, FS_EmptySet
    <3> QED BY <1>1, <2>4, <3>2, <3>3, <3>4 DEF MarkCounts
  <2> QED BY <2>3, <2>5, <2>6 DEF Counts
<1>7. Fitting'
  BY <1>1 DEF PageInv, Fitting, AllFit, LoadFits, Fits, Category
<1> QED BY <1>3, <1>5, <1>6, <1>7 DEF PageInv

(* Marking all is sent; what it meets is noted.                            *)
LEMMA ReadAllKeeps ==
  ASSUME PageInv, ReadAll
  PROVE  PageInv'
<1>1. /\ PageTypes /\ all = "idle" /\ all' = "sent" /\ crossed' = crossed \cup Kind("all", UnderWay(load))
      /\ UNCHANGED <<inbox, unread, filter, cards, dots, pill, loading, load, read>>
  BY DEF PageInv, ReadAll, Step, shownVars
<1>2. PageTypes'
  BY <1>1 DEF PageTypes
<1>3. "all" \notin crossed' => "all" \notin crossed /\ \A k \in Loads : load[k].at = "idle"
  BY <1>1 DEF Kind, UnderWay, PageTypes
<1>4. Told'
  <2>1. "all" \notin crossed' => AllAlone'
    BY <1>1, <1>3 DEF PageInv, Told, AllAlone
  <2> QED BY <1>1, <2>1 DEF PageInv, Told, LoadTells, MarkTells
<1>5. Counted'
  <2>1. SUFFICES ASSUME crossed' \subseteq {"loads"}
                 PROVE  Counts'
    BY DEF Counted
  <2>2. Counts /\ \A k \in Loads : load[k].at = "idle"
    BY <1>1, <1>3, <2>1 DEF PageInv, Counted
  <2>3. \A k \in Loads : LoadCounts(k)'
    BY <1>1, <2>2 DEF LoadCounts
  <2>4. \A j \in Reads : MarkCounts(j)'
    BY <1>1, <2>2 DEF Counts, MarkCounts
  <2> QED BY <1>1, <2>2, <2>3, <2>4 DEF Counts
<1>6. Fitting'
  BY <1>1 DEF PageInv, Fitting, AllFit, LoadFits, Fits, Category, Kind
<1> QED BY <1>2, <1>4, <1>5, <1>6 DEF PageInv

(* It leaves nothing unread, or nothing happens at all.                    *)
LEMMA MarkAllKeeps ==
  ASSUME PageInv, MarkAllRead \/ LoseAll
  PROVE  PageInv'
<1>1. /\ PageTypes /\ all # "idle" /\ all' # "idle" /\ unread' \subseteq unread
      /\ all' = "done" => unread' = {}
      /\ UNCHANGED <<inbox, filter, cards, dots, pill, loading, load, read, crossed>>
  BY DEF PageInv, MarkAllRead, LoseAll, Step, shownVars
<1>2. PageTypes'
  BY <1>1 DEF PageTypes
<1>3. Told'
  BY <1>1 DEF PageInv, Told, LoadTells, MarkTells, AllAlone
<1>4. Counted'
  <2>1. SUFFICES ASSUME Counts
                 PROVE  Counts'
    BY <1>1 DEF PageInv, Counted
  <2>2. \A k \in Loads : load[k].at = "idle"
    BY <1>1, <2>1 DEF Counts, LoadCounts
  <2>3. \A k \in Loads : LoadCounts(k)'
    BY <1>1, <2>2 DEF LoadCounts
  <2>4. \A j \in Reads : MarkCounts(j)'
    BY <1>1, <2>1 DEF Counts, MarkCounts
  <2> QED BY <1>1, <2>1, <2>3, <2>4 DEF Counts
<1>5. Fitting'
  BY <1>1 DEF PageInv, Fitting, AllFit, LoadFits, Fits, Category
<1> QED BY <1>2, <1>3, <1>4, <1>5 DEF PageInv

LEMMA HandleReadAllKeeps ==
  ASSUME PageInv, HandleReadAll
  PROVE  PageInv'
<1>1. /\ PageTypes /\ all # "idle" /\ all' = "idle"
      /\ \/ all = "done" /\ dots' = {} /\ pill' = 0
         \/ UNCHANGED <<dots, pill>>
      /\ UNCHANGED <<inbox, unread, filter, cards, loading, load, read, crossed>>
  BY DEF PageInv, HandleReadAll, Step
<1>2. PageTypes'
  BY <1>1 DEF PageTypes
<1>3. Told'
  <2>1. AllAlone => AllAlone'
    BY <1>1 DEF AllAlone
  <2> QED BY <1>1, <2>1 DEF PageInv, Told, LoadTells, MarkTells
<1>4. Counted'
  <2>1. SUFFICES ASSUME Counts
                 PROVE  Counts'
    BY <1>1 DEF PageInv, Counted
  <2>2. \A k \in Loads : load[k].at = "idle"
    BY <1>1, <2>1 DEF Counts, LoadCounts
  <2>3. \A k \in Loads : LoadCounts(k)'
    BY <1>1, <2>2 DEF LoadCounts
  <2>4. \A j \in Reads : MarkCounts(j)'
    BY <1>1, <2>1 DEF Counts, MarkCounts
  <2>5. Cardinality(dots') <= pill'
    BY <1>1, <2>1, FS_EmptySet DEF Counts
  <2> QED BY <2>3, <2>4, <2>5 DEF Counts
<1>5. Fitting'
  BY <1>1 DEF PageInv, Fitting, AllFit, LoadFits, Fits, Category
<1> QED BY <1>2, <1>3, <1>4, <1>5 DEF PageInv

(* What is read elsewhere is shown as unread, not the other way round.     *)
LEMMA ReadElsewhereKeeps ==
  ASSUME PageInv, NEW m \in inbox, ReadElsewhere(m)
  PROVE  PageInv'
<1>1. /\ PageTypes /\ unread' \subseteq unread
      /\ crossed' = crossed \cup Kind("elsewhere", \E k \in Loads : load[k].at = "listed")
      /\ UNCHANGED <<inbox, filter, cards, dots, pill, loading, load, read, all>>
  BY DEF PageInv, ReadElsewhere, Step, shownVars
<1>2. PageTypes'
  BY <1>1 DEF PageTypes
<1>3. Told'
  <2>1. "all" \notin crossed' => AllAlone'
    BY <1>1 DEF PageInv, Told, AllAlone
  <2> QED BY <1>1, <2>1 DEF PageInv, Told, LoadTells, MarkTells
<1>4. Counted'
  <2>1. SUFFICES ASSUME crossed' \subseteq {"loads"}
                 PROVE  Counts'
    BY DEF Counted
  <2>2. Counts /\ \A k \in Loads : load[k].at # "listed"
    BY <1>1, <2>1 DEF PageInv, Counted, Kind
  <2>3. \A k \in Loads : LoadCounts(k)'
    BY <1>1, <2>2 DEF Counts, LoadCounts
  <2>4. \A j \in Reads : MarkCounts(j)'
    BY <1>1, <2>2 DEF Counts, MarkCounts
  <2> QED BY <1>1, <2>2, <2>3, <2>4 DEF Counts
<1>5. Fitting'
  BY <1>1 DEF PageInv, Fitting, AllFit, LoadFits, Fits, Category, Kind
<1> QED BY <1>2, <1>3, <1>4, <1>5 DEF PageInv

(* The badge is not on the page.                                           *)
LEMMA StutterKeeps ==
  ASSUME PageInv,
         UNCHANGED <<inbox, unread, filter, cards, dots, pill, loading, load, read, all, crossed>>
  PROVE  PageInv'
<1>1. PageTypes'
  BY DEF PageInv, PageTypes
<1>2. Told'
  BY DEF PageInv, Told, LoadTells, MarkTells, AllAlone
<1>3. Counted'
  BY DEF PageInv, Counted, Counts, LoadCounts, MarkCounts
<1>4. Fitting'
  BY DEF PageInv, Fitting, AllFit, LoadFits, Fits, Category
<1> QED BY <1>1, <1>2, <1>3, <1>4 DEF PageInv

LEMMA PageNextKeeps ==
  ASSUME PageInv, PageNext
  PROVE  PageInv'
<1>1. ASSUME NEW f \in Filters, SetFilter(f)
      PROVE  PageInv'
  BY <1>1, SetFilterKeeps
<1>2. ASSUME NEW k \in Loads,
             ListByUser(k) \/ CountUnread(k) \/ LoseLoad(k) \/ ShowList(k) \/ FallsOver(k)
      PROVE  PageInv'
  BY <1>2, LoadStepsKeep, ShowListKeeps, FallsOverKeeps DEF LoadSteps
<1>3. ASSUME NEW m \in inbox, ReadCard(m) \/ ReadElsewhere(m)
      PROVE  PageInv'
  BY <1>3, ReadCardKeeps, ReadElsewhereKeeps
<1>4. ASSUME NEW j \in Reads, MarkRead(j) \/ LoseRead(j) \/ HandleRead(j)
      PROVE  PageInv'
  BY <1>4, MarkReadKeeps, HandleReadKeeps
<1>5. CASE ReadAll \/ MarkAllRead \/ LoseAll \/ HandleReadAll
  BY <1>5, ReadAllKeeps, MarkAllKeeps, HandleReadAllKeeps
<1>6. CASE Asks \/ \E p \in Polls : Poll(p) \/ (LosePoll(p) /\ Step(Elsewhere))
  <2>1. UNCHANGED <<inbox, unread, filter, cards, dots, pill, loading, load, read, all, crossed>>
    BY <1>6 DEF Asks, Poll, Step, Elsewhere, shownVars
  <2> QED BY <2>1, StutterKeeps
<1> QED BY <1>1, <1>2, <1>3, <1>4, <1>5, <1>6 DEF PageNext

(* For any number of requests under way, lost or not, empty answers        *)
(* included, and whatever is read elsewhere: no unread message is shown as *)
(* read unless all were marked while a load was under way, the number over *)
(* the cards is at least that of the dots unless a mark met a load, and a  *)
(* tab shows what belongs to it unless a load met another.                 *)
THEOREM CardsAreTrue == Spec => []CardsTellTheInbox
<1>1. Init => PageInv
  BY PageInit, FanOutConstants, InboxConstants
<1>2. PageInv /\ [Next]_vars => PageInv'
  <2>1. SUFFICES ASSUME PageInv, [Next]_vars
                 PROVE  PageInv'
    OBVIOUS
  <2>2. CASE FanNext /\ UNCHANGED <<open, shownVars, load, read, all, badgeVars, crossed>>
    BY <2>1, <2>2, TellKeepsPage
  <2>3. CASE PageNext
    BY <2>1, <2>3, PageNextKeeps
  <2>4. CASE UNCHANGED vars
    BY <2>1, <2>4, StutterKeeps DEF vars, fanVars, shownVars
  <2> QED BY <2>1, <2>2, <2>3, <2>4 DEF Next
<1>3. PageInv => CardsTellTheInbox
  BY DEF PageInv, Told, AllAlone, Counted, Counts, Fitting, AllFit, CardsTellTheInbox
<1> QED BY <1>1, <1>2, <1>3, PTL DEF Spec
================================================================================
