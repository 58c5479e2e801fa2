------------------------- MODULE AuctionSession_proofs -------------------------
(***************************************************************************)
(* Proofs about AuctionSession, for every set of calls, workers, switches, *)
(* buyers, requests, rules and amounts, both lock kinds, with or without   *)
(* slow lock holders, crashes and aborts; then what a lock that works adds *)
(* to them, and last that with such a lock, handlers within its TTL and no *)
(* EndCurrentAndSwitch, AuctionSession implements the safety half of       *)
(* AuctionContract.                                                        *)
(***************************************************************************)
EXTENDS SessionContract, FiniteSetTheorems, TLAPS

-------------------------------------------------------------------------------
(* The rule engine.                                                        *)

(* MaybeExtendEnd never moves the end towards the bidders.                 *)
LEMMA ExtensionOnlyExtends ==
  ASSUME NEW r \in ValidRules, NEW e \in Nat, NEW t \in Nat
  PROVE  MaybeExtendEnd(r, e, t) \in Nat /\ MaybeExtendEnd(r, e, t) >= e
  BY DEF ValidRules, Rules, Validate, MaybeExtendEnd

(* What EvaluateBid returns for an amount it accepts: the amount itself,   *)
(* at least the minimum and at most the cap, a status that closes the      *)
(* session exactly at the cap, and an end no earlier than before.          *)
LEMMA OutcomeFacts ==
  ASSUME NEW s \in Sessions, NEW a \in Nat, NEW t \in Nat, BidAcceptable(s, a, t),
         NEW out, out = BidOutcome(s, a, t)
  PROVE  /\ out \in Outcomes
         /\ out.accepted = a
         /\ a >= MinNextBid(s.rules, s.price, s.bidCount > 0)
         /\ s.rules.cap # NoCap => a <= s.rules.cap
         /\ out.settled <=> (s.rules.cap # NoCap /\ a = s.rules.cap)
         /\ out.settled => out.status = "settled"
         /\ ~out.settled => out.status = "running"
         /\ s.status = "pending" => out.endAt # NoTime
         /\ s.status = "running" /\ s.endAt # NoTime =>
              out.endAt # NoTime /\ out.endAt >= s.endAt
<1> DEFINE capped == IsCapReached(s.rules, a)
<1>1. s.rules \in ValidRules /\ s.rules.cap \in Nat \cup {NoCap} /\ s.rules.duration \in Nat
      /\ s.endAt \in Nat \cup {NoTime}
  BY DEF Sessions, ValidRules, Rules
<1>2. s.rules.cap # NoCap => a <= s.rules.cap
  BY DEF BidAcceptable
<1>3. capped <=> (s.rules.cap # NoCap /\ a = s.rules.cap)
  BY <1>1, <1>2 DEF IsCapReached, NoCap
<1>4. capped \in BOOLEAN
  BY DEF IsCapReached
<1>5. out = [accepted |-> IF capped THEN s.rules.cap ELSE a, settled |-> capped,
             status |-> IF capped THEN "settled" ELSE "running",
             endAt |-> EndAfterBid(s, capped, t)]
  BY DEF BidOutcome
<1>6. EndAfterBid(s, capped, t) \in Nat \cup {NoTime}
      /\ (s.status = "pending" => EndAfterBid(s, capped, t) # NoTime)
      /\ (s.status = "running" /\ s.endAt # NoTime =>
             EndAfterBid(s, capped, t) # NoTime /\ EndAfterBid(s, capped, t) >= s.endAt)
  <2>1. s.endAt # NoTime => /\ MaybeExtendEnd(s.rules, s.endAt, t) \in Nat
                            /\ MaybeExtendEnd(s.rules, s.endAt, t) >= s.endAt
    BY <1>1, ExtensionOnlyExtends
  <2> HIDE DEF capped
  <2>2. CASE s.status = "pending"
    BY <1>1, <2>2 DEF EndAfterBid, NoTime
  <2>3. CASE s.status # "pending" /\ (capped \/ s.endAt = NoTime)
    BY <1>1, <2>3 DEF EndAfterBid, NoTime
  <2>4. CASE s.status # "pending" /\ ~(capped \/ s.endAt = NoTime)
    BY <1>1, <2>1, <2>4 DEF EndAfterBid, NoTime
  <2> QED BY <2>2, <2>3, <2>4
<1>7. a >= MinNextBid(s.rules, s.price, s.bidCount > 0)
  BY DEF BidAcceptable
<1> HIDE DEF capped
<1>8. out.accepted = a
  BY <1>3, <1>5
<1>9. /\ out.settled = capped
      /\ capped => out.status = "settled"
      /\ ~capped => out.status = "running"
      /\ out.endAt = EndAfterBid(s, capped, t)
  BY <1>5
<1>10. out \in Outcomes
  BY <1>4, <1>5, <1>6, <1>8, <1>9 DEF Outcomes, Statuses
<1> QED BY <1>2, <1>3, <1>6, <1>7, <1>8, <1>9, <1>10

(* BidRepo.Create: the older bids only lose their flag, the new one has it.*)
LEMMA InsertBidFacts ==
  ASSUME NEW rows \in Seq(BidRows), NEW bid \in BidRows
  PROVE  /\ InsertBid(rows, bid) \in Seq(BidRows)
         /\ Len(InsertBid(rows, bid)) = Len(rows) + 1
         /\ InsertBid(rows, bid)[Len(rows) + 1] = bid
         /\ \A i \in 1..Len(rows) :
               /\ InsertBid(rows, bid)[i].user = rows[i].user
               /\ InsertBid(rows, bid)[i].amount = rows[i].amount
               /\ InsertBid(rows, bid)[i].request = rows[i].request
               /\ InsertBid(rows, bid)[i].winning = FALSE
<1> DEFINE cleared == [i \in DOMAIN rows |-> [rows[i] EXCEPT !.winning = FALSE]]
<1>1. DOMAIN rows = 1..Len(rows) /\ Len(rows) \in Nat
      /\ \A i \in 1..Len(rows) : rows[i] \in BidRows
  OBVIOUS
<1>2. \A i \in 1..Len(rows) : /\ cleared[i] \in BidRows
                              /\ cleared[i].user = rows[i].user
                              /\ cleared[i].amount = rows[i].amount
                              /\ cleared[i].request = rows[i].request
                              /\ cleared[i].winning = FALSE
  BY <1>1 DEF BidRows
<1>3. cleared \in [1..Len(rows) -> BidRows]
  BY <1>1, <1>2
<1>4. InsertBid(rows, bid) = Append(cleared, bid)
  BY DEF InsertBid
<1> HIDE DEF cleared
<1>5. cleared \in Seq(BidRows) /\ Len(cleared) = Len(rows)
  BY <1>1, <1>3
<1> QED BY <1>1, <1>2, <1>4, <1>5

-------------------------------------------------------------------------------
(* What the steps do to the database rows.                                 *)

(* Return from a handler: nothing but the locks and the handler's own      *)
(* locals and program counter.                                             *)
LEMMA FinishTypes ==
  ASSUME TypeOK, NEW p \in Procs, Finish(p)
  PROVE  /\ lock' \in Procs \cup {None} /\ rowLock' \in Calls \cup {None}
         /\ pc' \in [Procs -> Labels] /\ local' \in [Procs -> Locals]
<1>1. NoLocals \in Locals
  BY DEF NoLocals, Locals
<1> QED BY <1>1 DEF TypeOK, Finish, Goto, Rest, Release, Labels

(* Only six actions write the session, its bids or its orders.             *)
LEMMA Writers ==
  ASSUME [Next]_vars
  PROVE  \/ UNCHANGED <<session, bids, orders>>
         \/ \E c \in Calls : CommitBid(c)
         \/ \E p \in Procs : CloseRow(p) \/ CreateOrder(p) \/ CancelSession(p)
         \/ \E r \in RuleChoices : UpdateRules(r)
<1> DEFINE Quiet == UNCHANGED <<session, bids, orders>>
<1>1. ASSUME NEW c \in Calls, CallStep(c)
      PROVE  Quiet \/ CommitBid(c)
  BY <1>1 DEF CallStep, PlaceBid, Acquire, BeginTx, AcceptBid, RejectBid, FailBid,
              PublishBid, dbVars
<1>2. ASSUME NEW p \in Procs, SettleStep(p)
      PROVE  Quiet \/ CloseRow(p) \/ CreateOrder(p)
  BY <1>2 DEF SettleStep, Acquire, ResolveWinner, MarkSold, dbVars
<1>3. ASSUME NEW p \in Procs, CancelStep(p)
      PROVE  Quiet \/ CancelSession(p)
  BY <1>3 DEF CancelStep, RelistProduct, dbVars
<1>4. ASSUME NEW w \in Workers, ScanExpired(w) \/ RecheckExpired(w) \/ Restart(w)
      PROVE  Quiet
  BY <1>4 DEF ScanExpired, RecheckExpired, Restart, dbVars
<1>5. ASSUME NEW s \in Switches, ReadCurrent(s) \/ RecheckStatus(s)
      PROVE  Quiet
  BY <1>5 DEF ReadCurrent, RecheckStatus, dbVars
<1>6. ASSUME NEW p \in Procs, Abort(p) \/ Crash(p)
      PROVE  Quiet
  BY <1>6 DEF Abort, Crash, dbVars
<1>7. ASSUME ExpireLock \/ Tick \/ Terminated \/ UNCHANGED vars
      PROVE  Quiet
  BY <1>7 DEF ExpireLock, Tick, Terminated, vars, dbVars
<1> QED BY <1>1, <1>2, <1>3, <1>4, <1>5, <1>6, <1>7
        DEF Next, WorkerStep, SwitchStep, Procs

(* What a bid's COMMIT writes, in terms of the row as it is.               *)
LEMMA CommitEffect ==
  ASSUME Inv, NEW c \in Calls, CommitBid(c)
  PROVE  \E a \in Nat :
           /\ a \in Amounts
           /\ session.status \in {"pending", "running"}
           /\ a >= MinNextBid(session.rules, session.price, session.bidCount > 0)
           /\ session.rules.cap # NoCap => a <= session.rules.cap
           /\ \A i \in DOMAIN bids : bids[i].request # RequestOf[c]
           /\ bids' \in Seq(BidRows) /\ Len(bids') = Len(bids) + 1
           /\ bids'[Len(bids) + 1] = [ user |-> UserOf[c], amount |-> a,
                                      request |-> RequestOf[c], winning |-> TRUE ]
           /\ \A i \in 1..Len(bids) : /\ bids'[i].user = bids[i].user
                                      /\ bids'[i].amount = bids[i].amount
                                      /\ bids'[i].request = bids[i].request
                                      /\ bids'[i].winning = FALSE
           /\ session' \in Sessions
           /\ session'.rules = session.rules /\ session'.price = a
           /\ \/ /\ session.rules.cap # NoCap /\ a = session.rules.cap
                 /\ session'.status = "settled" /\ session'.winner = UserOf[c]
                 /\ session'.endAt = session.endAt
                 /\ orders' = {[buyer |-> UserOf[c], amount |-> a]}
              \/ /\ ~(session.rules.cap # NoCap /\ a = session.rules.cap)
                 /\ session'.status = "running" /\ session'.winner = session.winner
                 /\ session'.bidCount = session.bidCount + 1
                 /\ session'.endAt # NoTime
                 /\ session.endAt # NoTime => session'.endAt >= session.endAt
                 /\ orders' = orders
<1>1. PICK a \in Amounts, t \in 0..now :
        /\ BidAcceptable(session, a, t)
        /\ local[c].out = BidOutcome(session, a, t)
  BY DEF Inv, Committing, CommitBid
<1> DEFINE out == local[c].out
<1>2. session \in Sessions /\ bids \in Seq(BidRows) /\ a \in Nat /\ t \in Nat
      /\ local[c].row = session /\ UserOf[c] \in Users /\ RequestOf[c] \in Requests
  BY <1>1, ConstantTypes DEF Inv, TypeOK, Committing, CommitBid, Procs
<1>3. /\ out \in Outcomes
      /\ out.accepted = a
      /\ a >= MinNextBid(session.rules, session.price, session.bidCount > 0)
      /\ session.rules.cap # NoCap => a <= session.rules.cap
      /\ out.settled <=> (session.rules.cap # NoCap /\ a = session.rules.cap)
      /\ out.settled => out.status = "settled"
      /\ ~out.settled => out.status = "running"
      /\ session.status = "pending" => out.endAt # NoTime
      /\ session.status = "running" /\ session.endAt # NoTime =>
           out.endAt # NoTime /\ out.endAt >= session.endAt
  BY <1>1, <1>2, OutcomeFacts
<1>4. session.status \in {"pending", "running"}
  BY <1>1 DEF BidAcceptable
<1>5. /\ session.status = "pending" => session.endAt = NoTime
      /\ session.status = "running" => session.endAt # NoTime
  BY DEF Inv, StatusColumns, RowMatchesLedger, Running
<1>6. \A i \in DOMAIN bids : bids[i].request # RequestOf[c]
  BY <1>2 DEF CommitBid, StatementsSucceed, RequestKnown
<1> DEFINE bid == [ user |-> UserOf[c], amount |-> a,
                    request |-> RequestOf[c], winning |-> TRUE ]
<1>7. bids' = InsertBid(bids, bid) /\ bid \in BidRows
  BY <1>2, <1>3 DEF CommitBid, BidRows
<1> HIDE DEF bid
<1>8. /\ bids' \in Seq(BidRows) /\ Len(bids') = Len(bids) + 1
      /\ bids'[Len(bids) + 1] = bid
      /\ \A i \in 1..Len(bids) : /\ bids'[i].user = bids[i].user
                                 /\ bids'[i].amount = bids[i].amount
                                 /\ bids'[i].request = bids[i].request
                                 /\ bids'[i].winning = FALSE
  BY <1>2, <1>7, InsertBidFacts, ZenonT(40)
<1>9. CASE out.settled
  <2>1. session' = Settled(UserOf[c], a) /\ orders' = {[buyer |-> UserOf[c], amount |-> a]}
    BY <1>3, <1>9 DEF CommitBid
  <2>2. /\ session' \in Sessions
        /\ session'.rules = session.rules /\ session'.price = a
        /\ session'.status = "settled" /\ session'.winner = UserOf[c]
        /\ session'.endAt = session.endAt
    BY <2>1, <1>2 DEF Settled, Sessions, Statuses
  <2>3. session.rules.cap # NoCap /\ a = session.rules.cap
    BY <1>3, <1>9
  <2> QED BY <1>2, <1>3, <1>4, <1>6, <1>8, <1>1, <2>1, <2>2, <2>3 DEF bid
<1>10. CASE ~out.settled
  <2>1. session' = ApplyBid(c) /\ orders' = orders
    BY <1>10 DEF CommitBid
  <2>2. out.status = "running" /\ out.endAt \in Nat \cup {NoTime} /\ out.accepted = a
    BY <1>3, <1>10 DEF Outcomes
  <2>3. /\ session' \in Sessions
        /\ session'.rules = session.rules /\ session'.price = a
        /\ session'.status = "running" /\ session'.winner = session.winner
        /\ session'.bidCount = session.bidCount + 1
        /\ session'.endAt = out.endAt
    <3> DEFINE plus == IF HadBid(c) THEN 0 ELSE 1
    <3>1. plus \in Nat
      OBVIOUS
    <3>2. session' = [ session EXCEPT !.status = "running", !.price = a,
                         !.bidCount = session.bidCount + 1,
                         !.participants = session.participants + plus,
                         !.version = session.version + 1, !.endAt = out.endAt ]
      BY <2>1, <2>2, <1>2 DEF ApplyBid
    <3>3. /\ session.bidCount + 1 \in Nat /\ session.participants + plus \in Nat
          /\ session.version + 1 \in Nat
      BY <1>2, <3>1 DEF Sessions
    <3> HIDE DEF plus, out
    <3> QED BY <3>2, <3>3, <2>2, <1>2 DEF Sessions, Statuses
  <2>4. ~(session.rules.cap # NoCap /\ a = session.rules.cap)
    BY <1>3, <1>10
  <2>5. /\ session'.endAt # NoTime
        /\ session.endAt # NoTime => session'.endAt >= session.endAt
    BY <1>3, <1>4, <1>5, <2>3
  <2> HIDE DEF out
  <2> QED BY <1>2, <1>3, <1>4, <1>6, <1>8, <1>1, <2>1, <2>3, <2>4, <2>5 DEF bid
<1> QED BY <1>9, <1>10

(* The hammer: a running session gets a winner and the price that was      *)
(* read, or nothing happens; the failing branch is dead.                   *)
LEMMA CloseEffect ==
  ASSUME Inv, NEW p \in Procs, CloseRow(p)
  PROVE  /\ UNCHANGED <<bids, orders>>
         /\ \/ session' = session
            \/ /\ session.status = "running" /\ session'.status = "settled"
               /\ session' \in Sessions /\ session'.winner # None
               /\ session'.rules = session.rules /\ session'.endAt = session.endAt
               /\ session' = Settled(local[p].winner, local[p].price)
<1>1. pc[p] = "close" /\ local[p].winner # None
  BY DEF CloseRow, Inv, Closing
<1>2. local[p].winner \in Users /\ local[p].price \in Nat /\ session \in Sessions
  BY <1>1 DEF Inv, TypeOK, Locals
<1>3. session' = session \/ (Running /\ session' = Settled(local[p].winner, local[p].price))
  BY <1>1 DEF CloseRow
<1>4. LET s == Settled(local[p].winner, local[p].price)
      IN  /\ s \in Sessions
          /\ s.status = "settled" /\ s.winner = local[p].winner
          /\ s.rules = session.rules /\ s.endAt = session.endAt
  BY <1>2 DEF Settled, Sessions, Statuses
<1> QED BY <1>1, <1>2, <1>3, <1>4 DEF CloseRow, Running

-------------------------------------------------------------------------------
(* The rows keep agreeing.                                                 *)

(* The countdown runs from the first bid; a sale has a winner.             *)
LEMMA StatusColumnsStep ==
  ASSUME Inv, [Next]_vars
  PROVE  StatusColumns'
<1>1. session \in Sessions /\ StatusColumns
  BY DEF Inv, TypeOK
<1>2. CASE UNCHANGED <<session, bids, orders>>
  BY <1>1, <1>2 DEF StatusColumns
<1>3. ASSUME NEW c \in Calls, CommitBid(c)
      PROVE  StatusColumns'
  <2>1. UserOf[c] # None
    BY ConstantTypes
  <2>2. \/ session'.status = "settled" /\ session'.winner = UserOf[c]
        \/ session'.status = "running"
    BY <1>3, CommitEffect
  <2> QED BY <2>1, <2>2 DEF StatusColumns
<1>4. ASSUME NEW p \in Procs, CloseRow(p)
      PROVE  StatusColumns'
  BY <1>1, <1>4, CloseEffect DEF StatusColumns
<1>5. ASSUME NEW p \in Procs, CreateOrder(p)
      PROVE  StatusColumns'
  BY <1>1, <1>5 DEF StatusColumns, CreateOrder
<1>6. ASSUME NEW p \in Procs, CancelSession(p)
      PROVE  StatusColumns'
  BY <1>1, <1>6 DEF StatusColumns, CancelSession, Sessions
<1>7. ASSUME NEW r \in RuleChoices, UpdateRules(r)
      PROVE  StatusColumns'
  BY <1>1, <1>7 DEF StatusColumns, UpdateRules, Sessions
<1> QED BY <1>2, <1>3, <1>4, <1>5, <1>6, <1>7, Writers

(* A bid moves the row and the ledger together, a sale ends the promise.   *)
LEMMA RowMatchesLedgerStep ==
  ASSUME Inv, [Next]_vars
  PROVE  RowMatchesLedger'
<1>1. /\ session \in Sessions /\ bids \in Seq(BidRows)
      /\ RowMatchesLedger /\ StatusColumns
  BY DEF Inv, TypeOK
<1>2. CASE UNCHANGED <<session, bids, orders>>
  BY <1>1, <1>2 DEF RowMatchesLedger, Running
<1>3. ASSUME NEW c \in Calls, CommitBid(c)
      PROVE  RowMatchesLedger'
  <2>1. PICK a \in Nat :
           /\ session.status \in {"pending", "running"}
           /\ bids' \in Seq(BidRows) /\ Len(bids') = Len(bids) + 1
           /\ bids'[Len(bids) + 1] = [ user |-> UserOf[c], amount |-> a,
                                      request |-> RequestOf[c], winning |-> TRUE ]
           /\ \A i \in 1..Len(bids) : bids'[i].winning = FALSE
           /\ session'.price = a
           /\ \/ session'.status = "settled"
              \/ /\ session'.status = "running"
                 /\ session'.bidCount = session.bidCount + 1
                 /\ session'.endAt # NoTime
    BY <1>3, CommitEffect
  <2>2. session.bidCount = Len(bids)
    BY <1>1, <2>1 DEF RowMatchesLedger
  <2>3. \A i \in DOMAIN bids' : bids'[i].winning <=> i = Len(bids')
    <3>1. DOMAIN bids' = 1..(Len(bids) + 1) /\ Len(bids) \in Nat
      BY <1>1, <2>1
    <3> TAKE i \in DOMAIN bids'
    <3>2. CASE i = Len(bids) + 1
      BY <2>1, <3>2
    <3>3. CASE i \in 1..Len(bids)
      BY <2>1, <3>1, <3>3
    <3> QED BY <3>1, <3>2, <3>3
  <2>4. bids' # <<>> /\ bids'[Len(bids')].amount = a
    BY <1>1, <2>1
  <2>5. session'.status # "failed" /\ (session'.status # "settled" => session'.status = "running")
    BY <2>1
  <2> QED BY <2>1, <2>2, <2>3, <2>4, <2>5 DEF RowMatchesLedger, Running
<1>4. ASSUME NEW p \in Procs, CloseRow(p)
      PROVE  RowMatchesLedger'
  BY <1>1, <1>4, CloseEffect DEF RowMatchesLedger, Running
<1>5. ASSUME NEW p \in Procs, CreateOrder(p)
      PROVE  RowMatchesLedger'
  BY <1>1, <1>5 DEF RowMatchesLedger, Running, CreateOrder
<1>6. ASSUME NEW p \in Procs, CancelSession(p)
      PROVE  RowMatchesLedger'
  BY <1>1, <1>6 DEF RowMatchesLedger, Running, CancelSession, Cancellable, Sessions
<1>7. ASSUME NEW r \in RuleChoices, UpdateRules(r)
      PROVE  RowMatchesLedger'
  <2>1. bids = <<>>
    BY <1>1, <1>7 DEF RowMatchesLedger, UpdateRules
  <2> QED BY <1>1, <1>7, <2>1 DEF RowMatchesLedger, Running, UpdateRules, Sessions
<1> QED BY <1>2, <1>3, <1>4, <1>5, <1>6, <1>7, Writers

(* An accepted bid tops every earlier one; the rules only change while     *)
(* there is none.                                                          *)
LEMMA LedgerObeysRulesStep ==
  ASSUME Inv, [Next]_vars
  PROVE  LedgerObeysRules'
<1>1. /\ session \in Sessions /\ bids \in Seq(BidRows)
      /\ RowMatchesLedger /\ LedgerObeysRules
  BY DEF Inv, TypeOK
<1>2. CASE UNCHANGED <<session, bids, orders>>
  BY <1>1, <1>2 DEF LedgerObeysRules
<1>3. ASSUME NEW c \in Calls, CommitBid(c)
      PROVE  LedgerObeysRules'
  <2> DEFINE r == session.rules  n == Len(bids)
  <2>1. PICK a \in Nat :
           /\ session.status \in {"pending", "running"}
           /\ a >= MinNextBid(r, session.price, session.bidCount > 0)
           /\ r.cap # NoCap => a <= r.cap
           /\ bids' \in Seq(BidRows) /\ Len(bids') = n + 1
           /\ bids'[n + 1] = [ user |-> UserOf[c], amount |-> a,
                               request |-> RequestOf[c], winning |-> TRUE ]
           /\ \A i \in 1..n : bids'[i].amount = bids[i].amount
           /\ session'.rules = r
           /\ r.cap # NoCap /\ a = r.cap => session'.status = "settled"
    BY <1>3, CommitEffect
  <2>2. /\ n \in Nat /\ DOMAIN bids' = 1..(n + 1) /\ DOMAIN bids = 1..n
        /\ \A i \in 1..n : bids[i].amount \in Nat
        /\ r.start \in Nat /\ r.increment \in Nat /\ r.increment > 0
        /\ r.cap \in Nat \cup {NoCap}
        /\ bids'[n + 1].amount = a
    <3>1. r \in ValidRules
      BY <1>1 DEF Sessions
    <3>2. r.start \in Nat /\ r.increment \in Nat /\ r.increment > 0
          /\ r.cap \in Nat \cup {NoCap}
      BY <3>1 DEF ValidRules, Rules, Validate
    <3>3. \A i \in 1..n : bids[i].amount \in Nat
      <4>1. \A i \in 1..n : bids[i] \in BidRows
        BY <1>1
      <4> QED BY <4>1 DEF BidRows
    <3>4. n \in Nat /\ DOMAIN bids' = 1..(n + 1) /\ DOMAIN bids = 1..n
      BY <1>1, <2>1
    <3>5. bids'[n + 1].amount = a
      BY <2>1
    <3> QED BY <3>2, <3>3, <3>4, <3>5
  <2>3. session.bidCount = n /\ (n > 0 => session.price = bids[n].amount)
    BY <1>1, <2>1, <2>2 DEF RowMatchesLedger
  <2>4. \A i \in 1..n : a >= bids[i].amount + r.increment
    <3> TAKE i \in 1..n
    <3>1. a >= bids[n].amount + r.increment
      BY <2>1, <2>2, <2>3 DEF MinNextBid
    <3>2. CASE i = n
      BY <3>1, <3>2
    <3>3. CASE i < n
      <4>1. bids[n].amount >= bids[i].amount + r.increment
        BY <1>1, <2>2, <3>3 DEF LedgerObeysRules
      <4>2. bids[n].amount \in Nat /\ bids[i].amount \in Nat
        BY <2>2, <3>3
      <4> QED BY <2>2, <3>1, <4>1, <4>2
    <3>4. n \in Nat
      BY <2>2
    <3> HIDE DEF n
    <3> QED BY <3>2, <3>3, <3>4
  <2>5. a >= r.start
    <3>1. CASE n = 0
      BY <2>1, <2>2, <2>3, <3>1 DEF MinNextBid
    <3>2. CASE n > 0
      <4>1. bids[n].amount >= r.start
        BY <1>1, <2>2, <3>2 DEF LedgerObeysRules
      <4>2. a >= bids[n].amount + r.increment /\ bids[n].amount \in Nat
        BY <2>2, <2>4, <3>2
      <4> QED BY <2>2, <4>1, <4>2
    <3> QED BY <2>2, <3>1, <3>2
  <2>6. \A i \in 1..n : bids[i].amount >= r.start
    BY <1>1, <2>2 DEF LedgerObeysRules
  <2>7. \A i, j \in 1..n : i < j => bids[j].amount >= bids[i].amount + r.increment
    BY <1>1, <2>2 DEF LedgerObeysRules
  <2>8. r.cap # NoCap => \A i \in 1..n : bids[i].amount <= r.cap /\ bids[i].amount # r.cap
    BY <1>1, <2>1, <2>2 DEF LedgerObeysRules
  <2> HIDE DEF r, n
  <2>9. \A i \in DOMAIN bids' : bids'[i].amount >= r.start
    BY <2>1, <2>2, <2>5, <2>6
  <2>10. \A i, j \in DOMAIN bids' : i < j => bids'[j].amount >= bids'[i].amount + r.increment
    BY <2>1, <2>2, <2>4, <2>7
  <2>11. r.cap # NoCap => \A i \in DOMAIN bids' :
            bids'[i].amount <= r.cap /\ (bids'[i].amount = r.cap => session'.status = "settled")
    BY <2>1, <2>2, <2>8
  <2> QED BY <2>1, <2>9, <2>10, <2>11 DEF LedgerObeysRules
<1>4. ASSUME NEW p \in Procs, CloseRow(p)
      PROVE  LedgerObeysRules'
  BY <1>1, <1>4, CloseEffect DEF LedgerObeysRules
<1>5. ASSUME NEW p \in Procs, CreateOrder(p)
      PROVE  LedgerObeysRules'
  BY <1>1, <1>5 DEF LedgerObeysRules, CreateOrder
<1>6. ASSUME NEW p \in Procs, CancelSession(p)
      PROVE  LedgerObeysRules'
  BY <1>1, <1>6 DEF LedgerObeysRules, CancelSession, Cancellable, Sessions
<1>7. ASSUME NEW r \in RuleChoices, UpdateRules(r)
      PROVE  LedgerObeysRules'
  <2>1. bids' = <<>>
    BY <1>1, <1>7 DEF RowMatchesLedger, UpdateRules
  <2> QED BY <2>1 DEF LedgerObeysRules
<1> QED BY <1>2, <1>3, <1>4, <1>5, <1>6, <1>7, Writers

(* COMMIT refuses a requestId that the ledger already holds.               *)
LEMMA OneBidPerRequestStep ==
  ASSUME Inv, [Next]_vars
  PROVE  OneBidPerRequest'
<1>1. bids \in Seq(BidRows) /\ OneBidPerRequest
  BY DEF Inv, TypeOK
<1>2. CASE UNCHANGED bids
  BY <1>1, <1>2 DEF OneBidPerRequest
<1>3. ASSUME NEW c \in Calls, CommitBid(c)
      PROVE  OneBidPerRequest'
  <2>1. PICK a \in Nat :
           /\ \A i \in DOMAIN bids : bids[i].request # RequestOf[c]
           /\ bids' \in Seq(BidRows) /\ Len(bids') = Len(bids) + 1
           /\ bids'[Len(bids) + 1] = [ user |-> UserOf[c], amount |-> a,
                                      request |-> RequestOf[c], winning |-> TRUE ]
           /\ \A i \in 1..Len(bids) : bids'[i].request = bids[i].request
    BY <1>3, CommitEffect
  <2>3. bids'[Len(bids) + 1].request = RequestOf[c]
    BY <2>1
  <2>2. DOMAIN bids' = 1..(Len(bids) + 1) /\ DOMAIN bids = 1..Len(bids) /\ Len(bids) \in Nat
    BY <1>1, <2>1
  <2> QED BY <1>1, <2>1, <2>2, <2>3 DEF OneBidPerRequest
<1>4. ASSUME NEW p \in Procs, CloseRow(p) \/ CreateOrder(p) \/ CancelSession(p)
      PROVE  UNCHANGED bids
  BY <1>4 DEF CloseRow, CreateOrder, CancelSession
<1>5. ASSUME NEW r \in RuleChoices, UpdateRules(r)
      PROVE  UNCHANGED bids
  BY <1>5 DEF UpdateRules
<1> QED BY <1>2, <1>3, <1>4, <1>5, Writers

(* Orders are made from a settled row, which never changes again.          *)
LEMMA OrderIsSaleStep ==
  ASSUME Inv, [Next]_vars
  PROVE  OrderIsSale'
<1>1. session \in Sessions /\ OrderIsSale /\ Closing
  BY DEF Inv, TypeOK
<1>2. CASE UNCHANGED <<session, bids, orders>>
  BY <1>1, <1>2 DEF OrderIsSale
<1>3. ASSUME NEW c \in Calls, CommitBid(c)
      PROVE  OrderIsSale'
  <2>1. PICK a \in Nat :
           /\ session.status \in {"pending", "running"}
           /\ session'.price = a
           /\ \/ /\ session'.status = "settled" /\ session'.winner = UserOf[c]
                 /\ orders' = {[buyer |-> UserOf[c], amount |-> a]}
              \/ orders' = orders
    BY <1>3, CommitEffect
  <2>2. orders = {}
    BY <1>1, <2>1 DEF OrderIsSale
  <2> QED BY <2>1, <2>2 DEF OrderIsSale
<1>4. ASSUME NEW p \in Procs, CloseRow(p)
      PROVE  OrderIsSale'
  BY <1>1, <1>4, CloseEffect DEF OrderIsSale
<1>5. ASSUME NEW p \in Procs, CreateOrder(p)
      PROVE  OrderIsSale'
  BY <1>1, <1>5 DEF OrderIsSale, CreateOrder, SettledOrder, Closing
<1>6. ASSUME NEW p \in Procs, CancelSession(p)
      PROVE  OrderIsSale'
  BY <1>1, <1>6 DEF OrderIsSale, CancelSession, Cancellable
<1>7. ASSUME NEW r \in RuleChoices, UpdateRules(r)
      PROVE  OrderIsSale'
  BY <1>1, <1>7 DEF OrderIsSale, UpdateRules
<1> QED BY <1>2, <1>3, <1>4, <1>5, <1>6, <1>7, Writers

(* The closed row is never written again, and no bid joins its ledger.     *)
LEMMA ClosedStep ==
  ASSUME Inv, [Next]_vars, session.status \in Terminal
  PROVE  UNCHANGED <<session, bids>>
<1>1. ASSUME NEW c \in Calls, CommitBid(c)
      PROVE  FALSE
  <2>1. session.status \in {"pending", "running"}
    BY <1>1, CommitEffect
  <2> QED BY <2>1 DEF Terminal
<1>2. ASSUME NEW p \in Procs, CloseRow(p) \/ CreateOrder(p) \/ CancelSession(p)
      PROVE  UNCHANGED <<session, bids>>
  BY <1>2 DEF CloseRow, CreateOrder, CancelSession, Running, Cancellable, Terminal
<1>3. ASSUME NEW r \in RuleChoices, UpdateRules(r)
      PROVE  FALSE
  BY <1>3 DEF UpdateRules, Terminal
<1> QED BY <1>1, <1>2, <1>3, Writers

(* Bids are never taken back.                                              *)
LEMMA BidsStay ==
  ASSUME Inv, [Next]_vars, bids # <<>>
  PROVE  bids' # <<>>
<1>1. bids \in Seq(BidRows)
  BY DEF Inv, TypeOK
<1>2. ASSUME NEW c \in Calls, CommitBid(c)
      PROVE  bids' # <<>>
  <2>1. bids' \in Seq(BidRows) /\ Len(bids') = Len(bids) + 1
    BY <1>2, CommitEffect
  <2> QED BY <1>1, <2>1
<1>3. ASSUME NEW p \in Procs, CloseRow(p) \/ CreateOrder(p) \/ CancelSession(p)
      PROVE  UNCHANGED bids
  BY <1>3 DEF CloseRow, CreateOrder, CancelSession
<1>4. ASSUME NEW r \in RuleChoices, UpdateRules(r)
      PROVE  UNCHANGED bids
  BY <1>4 DEF UpdateRules
<1> QED BY <1>2, <1>3, <1>4, Writers

-------------------------------------------------------------------------------
(* The processes keep what they know.                                      *)

(* A step of one process.                                                  *)
ProcStep(p) ==
  \/ p \in Calls /\ CallStep(p)
  \/ p \in Workers /\ WorkerStep(p)
  \/ p \in Switches /\ SwitchStep(p)
  \/ p \in Cancels /\ CancelStep(p)
  \/ Abort(p) \/ Crash(p)

(* A step belongs to one process, to the anchor's edit, to the lock's TTL  *)
(* or to the clock.                                                        *)
LEMMA Steps ==
  ASSUME [Next]_vars
  PROVE  \/ \E p \in Procs : ProcStep(p)
         \/ \E r \in RuleChoices : UpdateRules(r)
         \/ ExpireLock \/ Tick \/ UNCHANGED vars
  BY DEF Next, ProcStep, Procs, Terminated

(* A step of p leaves the other processes, the clock and, unless p has the *)
(* row lock or takes it, the session row alone.                            *)
LEMMA Frame ==
  ASSUME Inv, NEW p \in Procs, ProcStep(p)
  PROVE  /\ now' = now
         /\ \A q \in Procs \ {p} : pc'[q] = pc[q] /\ local'[q] = local[q]
         /\ rowLock # None /\ rowLock # p => rowLock' = rowLock /\ session' = session
<1> USE DEF dbVars, RowFree
<1>1. pc \in [Procs -> Labels] /\ local \in [Procs -> Locals]
  BY DEF Inv, TypeOK
<1>2. ASSUME p \in Calls, CallStep(p)
      PROVE  /\ now' = now
             /\ \A q \in Procs \ {p} : pc'[q] = pc[q] /\ local'[q] = local[q]
             /\ rowLock # None /\ rowLock # p => rowLock' = rowLock /\ session' = session
  <2>1. CommitBid(p) => rowLock = p
    BY <1>2 DEF CommitBid, Inv, Committing
  <2>2. CASE PlaceBid(p) \/ Acquire(p) \/ BeginTx(p)
    BY <1>1, <2>2 DEF PlaceBid, Acquire, BeginTx, Finish, Goto
  <2>3. CASE AcceptBid(p) \/ RejectBid(p)
    BY <1>1, <2>3 DEF AcceptBid, RejectBid, Finish, Goto
  <2>4. CASE CommitBid(p)
    BY <1>1, <2>1, <2>4 DEF CommitBid, Goto
  <2>5. CASE FailBid(p) \/ PublishBid(p)
    BY <1>1, <2>5 DEF FailBid, PublishBid, Finish, Goto
  <2> QED BY <1>2, <2>2, <2>3, <2>4, <2>5 DEF CallStep
<1>3. ASSUME SettleStep(p)
      PROVE  /\ now' = now
             /\ \A q \in Procs \ {p} : pc'[q] = pc[q] /\ local'[q] = local[q]
             /\ rowLock # None /\ rowLock # p => rowLock' = rowLock /\ session' = session
  <2>1. CASE Acquire(p) \/ ResolveWinner(p) \/ MarkSold(p)
    BY <1>1, <2>1 DEF Acquire, ResolveWinner, MarkSold, Finish, Goto
  <2>2. CASE CloseRow(p) \/ CreateOrder(p)
    BY <1>1, <2>2 DEF CloseRow, CreateOrder, Finish, Goto
  <2> QED BY <1>3, <2>1, <2>2 DEF SettleStep
<1>4. ASSUME \/ CancelStep(p)
             \/ ScanExpired(p) \/ RecheckExpired(p) \/ Restart(p)
             \/ ReadCurrent(p) \/ RecheckStatus(p)
             \/ Abort(p) \/ Crash(p)
      PROVE  /\ now' = now
             /\ \A q \in Procs \ {p} : pc'[q] = pc[q] /\ local'[q] = local[q]
             /\ rowLock # None /\ rowLock # p => rowLock' = rowLock /\ session' = session
  <2>1. CASE CancelStep(p)
    BY <1>1, <2>1 DEF CancelStep, CancelSession, RelistProduct, Goto
  <2>2. CASE ScanExpired(p) \/ RecheckExpired(p) \/ Restart(p)
    BY <1>1, <2>2 DEF ScanExpired, RecheckExpired, ReadRunning, Restart, Finish, Goto
  <2>3. CASE ReadCurrent(p) \/ RecheckStatus(p)
    BY <1>1, <2>3 DEF ReadCurrent, RecheckStatus, ReadRunning, Finish, Goto
  <2>4. CASE Abort(p) \/ Crash(p)
    BY <1>1, <2>4 DEF Abort, Crash, Finish, Goto
  <2> QED BY <1>4, <2>1, <2>2, <2>3, <2>4
<1> QED BY <1>2, <1>3, <1>4 DEF ProcStep, WorkerStep, SwitchStep

(* Nobody writes the row between SELECT ... FOR UPDATE and COMMIT.         *)
LEMMA CommittingStep ==
  ASSUME Inv, [Next]_vars
  PROVE  Committing'
<1> SUFFICES ASSUME NEW c \in Calls, pc'[c] = "commit"
             PROVE  /\ rowLock' = c /\ local'[c].row = session'
                    /\ \E amount \in Amounts, t \in 0..now' :
                          /\ BidAcceptable(session', amount, t)
                          /\ local'[c].out = BidOutcome(session', amount, t)
  BY DEF Committing
<1>1. /\ pc \in [Procs -> Labels] /\ local \in [Procs -> Locals] /\ now \in Nat
      /\ c \in Procs /\ c # None
  BY ConstantTypes DEF Inv, TypeOK, Procs
<1>2. pc[c] = "commit" =>
        /\ rowLock = c /\ local[c].row = session
        /\ \E amount \in Amounts, t \in 0..now :
              /\ BidAcceptable(session, amount, t)
              /\ local[c].out = BidOutcome(session, amount, t)
  BY DEF Inv, Committing
<1>3. CASE pc[c] = "commit" /\ rowLock' = rowLock /\ local'[c] = local[c]
           /\ session' = session /\ now' >= now /\ now' \in Nat
  <2>1. PICK amount \in Amounts, t \in 0..now :
          /\ BidAcceptable(session, amount, t)
          /\ local[c].out = BidOutcome(session, amount, t)
    BY <1>2, <1>3
  <2>2. t \in 0..now'
    BY <1>1, <1>3
  <2> QED BY <1>2, <1>3, <2>1, <2>2
<1>4. ASSUME NEW p \in Procs, ProcStep(p), p # c
      PROVE  pc[c] = "commit" /\ rowLock' = rowLock /\ local'[c] = local[c]
             /\ session' = session /\ now' = now
  BY <1>1, <1>2, <1>4, Frame
<1>5. CASE ProcStep(c)
  <2>1. AcceptBid(c)
    <3>1. CallStep(c) \/ Abort(c) \/ Crash(c)
      BY <1>5, ProcsDisjoint DEF ProcStep
    <3>2. Rest(c) # "commit"
      BY DEF Rest
    <3> QED BY <1>1, <3>1, <3>2 DEF CallStep, PlaceBid, Acquire, BeginTx, RejectBid,
               CommitBid, FailBid, PublishBid, Abort, Crash, Finish, Goto
  <2>2. PICK amount \in Amounts :
          /\ BidAcceptable(session, amount, now)
          /\ local' = [local EXCEPT ![c].row = session,
                                    ![c].out = BidOutcome(session, amount, now)]
    BY <2>1 DEF AcceptBid
  <2>3. local'[c].row = session /\ local'[c].out = BidOutcome(session, amount, now)
    BY <1>1, <2>2 DEF Locals
  <2>4. rowLock' = c /\ session' = session /\ now' = now
    BY <2>1 DEF AcceptBid, dbVars
  <2> QED BY <1>1, <2>2, <2>3, <2>4
<1>6. ASSUME NEW r \in RuleChoices, UpdateRules(r)
      PROVE  FALSE
  BY <1>1, <1>2, <1>6 DEF UpdateRules, RowFree
<1>7. CASE ExpireLock \/ Tick \/ UNCHANGED vars
  BY <1>1, <1>3, <1>7, ConstantTypes DEF ExpireLock, Tick, vars, dbVars
<1> QED BY <1>1, <1>3, <1>4, <1>5, <1>6, <1>7, Steps

(* A closer gets past the winner's label only with a bid, and past the     *)
(* close only with a sale.                                                 *)
LEMMA ClosingStep ==
  ASSUME Inv, [Next]_vars
  PROVE  Closing'
<1> DEFINE Knows(q) ==
      /\ pc[q] = "winner" => bids # <<>>
      /\ pc[q] = "close" => local[q].winner # None
      /\ q \in Switches /\ pc[q] \in {"acquire", "recheck"} => local[q].winner # None
      /\ pc[q] \in {"sold", "order"} => session.status = "settled"
<1> SUFFICES ASSUME NEW q \in Procs
             PROVE  Knows(q)'
  BY DEF Closing
<1>1. /\ pc \in [Procs -> Labels] /\ local \in [Procs -> Locals] /\ now \in Nat
      /\ session \in Sessions /\ bids \in Seq(BidRows)
  BY DEF Inv, TypeOK
<1>2. Knows(q)
  BY DEF Inv, Closing
<1>3. /\ bids # <<>> => bids' # <<>>
      /\ session.status = "settled" => session'.status = "settled"
  BY BidsStay, ClosedStep DEF Terminal
<1>4. CASE pc'[q] = pc[q] /\ local'[q] = local[q]
  BY <1>2, <1>3, <1>4
<1>5. Running => bids # <<>> /\ session.bidCount # 0
  BY <1>1 DEF Inv, RowMatchesLedger, Running
<1>6. CASE ProcStep(q)
  <2>1. ASSUME Goto(q, "done") \/ Goto(q, "dead") \/ Goto(q, "scan")
        PROVE  Knows(q)'
    BY <1>1, <2>1 DEF Goto
  <2>2. ASSUME Finish(q)
        PROVE  Knows(q)'
    BY <1>1, <2>2, <2>1 DEF Finish, Rest
  <2>3. CASE q \in Calls /\ CallStep(q)
    <3>1. q \notin Switches
      BY <2>3, ProcsDisjoint
    <3>2. \/ Finish(q)
          \/ pc'[q] \in {"done", "acquire", "begin", "evaluate", "commit", "publish"}
      BY <1>1, <2>3 DEF CallStep, PlaceBid, Acquire, BeginTx, AcceptBid, RejectBid,
                        CommitBid, FailBid, PublishBid, Goto
    <3> QED BY <2>2, <3>1, <3>2
  <2>4. CASE (q \in Workers \/ q \in Switches) /\ Acquire(q)
    BY <1>1, <1>2, <2>2, <2>4, ProcsDisjoint DEF Acquire, Goto
  <2>5. CASE (q \in Workers \/ q \in Switches) /\ ResolveWinner(q)
    <3>1. PICK u \in WinnerChoices :
            /\ local' = [local EXCEPT ![q].winner = u]
            /\ Goto(q, IF q \in Workers THEN "close" ELSE IF u = None THEN "done" ELSE "acquire")
      BY <2>5 DEF ResolveWinner
    <3>2. bids # <<>>
      BY <1>2, <2>5 DEF ResolveWinner
    <3>3. \A i \in DOMAIN bids : bids[i].user # None
      <4>1. \A i \in DOMAIN bids : bids[i] \in BidRows
        BY <1>1
      <4> QED BY <4>1, ConstantTypes DEF BidRows
    <3>4. u # None
      BY <3>1, <3>2, <3>3 DEF WinnerChoices
    <3>5. local'[q].winner = u
      BY <1>1, <3>1 DEF Locals
    <3>6. pc'[q] \in {"close", "acquire"}
      BY <1>1, <3>1, <3>4 DEF Goto
    <3> QED BY <3>4, <3>5, <3>6
  <2>6. CASE CloseRow(q)
    <3>1. Finish(q) \/ (session'.status = "settled" /\ Goto(q, "sold"))
      BY <1>1, <1>2, <2>6 DEF CloseRow, Settled, Sessions
    <3> QED BY <1>1, <2>2, <3>1 DEF Goto
  <2>7. CASE MarkSold(q) \/ CreateOrder(q)
    BY <1>1, <1>2, <1>3, <2>2, <2>7 DEF MarkSold, CreateOrder, Goto
  <2>8. CASE q \in Workers /\ (ScanExpired(q) \/ RecheckExpired(q) \/ Restart(q))
    <3>1. q \notin Switches
      BY <2>8, ProcsDisjoint
    <3>2. \/ Finish(q) \/ pc'[q] \in {"acquire", "scan"}
          \/ pc'[q] = "winner" /\ Running
      BY <1>1, <1>5, <2>8 DEF ScanExpired, RecheckExpired, ReadRunning, Restart, Goto, Expired
    <3> QED BY <1>3, <1>5, <2>2, <3>1, <3>2
  <2>9. CASE q \in Switches /\ (ReadCurrent(q) \/ RecheckStatus(q))
    <3>1. CASE ReadCurrent(q)
      BY <1>1, <1>3, <1>5, <3>1 DEF ReadCurrent, ReadRunning, Goto
    <3>2. CASE RecheckStatus(q)
      BY <1>1, <1>2, <1>3, <2>2, <2>9, <3>2 DEF RecheckStatus, Goto, Running
    <3> QED BY <2>9, <3>1, <3>2
  <2>10. CASE CancelStep(q)
    BY <1>1, <2>10 DEF CancelStep, CancelSession, RelistProduct, Goto
  <2>11. CASE Abort(q) \/ Crash(q)
    BY <2>1, <2>2, <2>11 DEF Abort, Crash
  <2> QED BY <1>6, <2>3, <2>4, <2>5, <2>6, <2>7, <2>8, <2>9, <2>10, <2>11
          DEF ProcStep, WorkerStep, SwitchStep, SettleStep
<1>7. ASSUME NEW p \in Procs, ProcStep(p), p # q
      PROVE  pc'[q] = pc[q] /\ local'[q] = local[q]
  BY <1>7, Frame
<1>8. ASSUME NEW r \in RuleChoices, UpdateRules(r)
      PROVE  pc'[q] = pc[q] /\ local'[q] = local[q]
  BY <1>8 DEF UpdateRules
<1>9. CASE ExpireLock \/ Tick \/ UNCHANGED vars
  BY <1>4, <1>9 DEF ExpireLock, Tick, vars
<1> HIDE DEF Knows
<1> QED BY <1>4, <1>6, <1>7, <1>8, <1>9, Steps

-------------------------------------------------------------------------------
(* Types.                                                                  *)

(* The rows stay rows.                                                     *)
LEMMA RowTypesStep ==
  ASSUME Inv, [Next]_vars
  PROVE  /\ session' \in Sessions /\ bids' \in Seq(BidRows)
         /\ orders' \subseteq [buyer : Users, amount : Nat]
<1>1. /\ session \in Sessions /\ bids \in Seq(BidRows)
      /\ orders \subseteq [buyer : Users, amount : Nat]
  BY DEF Inv, TypeOK
<1>2. ASSUME NEW c \in Calls, CommitBid(c)
      PROVE  /\ session' \in Sessions /\ bids' \in Seq(BidRows)
             /\ orders' \subseteq [buyer : Users, amount : Nat]
  <2>1. PICK a \in Nat :
          /\ session' \in Sessions /\ bids' \in Seq(BidRows)
          /\ orders' = orders \/ orders' = {[buyer |-> UserOf[c], amount |-> a]}
    BY <1>2, CommitEffect
  <2>2. UserOf[c] \in Users
    BY ConstantTypes
  <2> QED BY <1>1, <2>1, <2>2
<1>3. ASSUME NEW p \in Procs, CloseRow(p)
      PROVE  /\ session' \in Sessions /\ UNCHANGED <<bids, orders>>
  BY <1>1, <1>3, CloseEffect
<1>4. ASSUME NEW p \in Procs, CreateOrder(p)
      PROVE  /\ UNCHANGED <<session, bids>>
             /\ orders' \subseteq [buyer : Users, amount : Nat]
  <2>1. session.status = "settled" /\ session.winner # None
    BY <1>4 DEF CreateOrder, Inv, Closing, StatusColumns
  <2>2. SettledOrder(p) \in [buyer : Users, amount : Nat]
    BY <1>1, <2>1 DEF SettledOrder, Sessions
  <2> QED BY <1>1, <1>4, <2>2 DEF CreateOrder
<1>5. ASSUME NEW p \in Procs, CancelSession(p)
      PROVE  /\ session' \in Sessions /\ UNCHANGED <<bids, orders>>
  BY <1>1, <1>5 DEF CancelSession, Sessions, Statuses
<1>6. ASSUME NEW r \in RuleChoices, UpdateRules(r)
      PROVE  /\ session' \in Sessions /\ UNCHANGED <<bids, orders>>
  <2>1. r \in ValidRules /\ r.start \in Nat
    BY ConstantTypes DEF ValidRules, Rules
  <2> QED BY <1>1, <1>6, <2>1 DEF UpdateRules, Sessions
<1> QED BY <1>1, <1>2, <1>3, <1>4, <1>5, <1>6, Writers

(* A handler stores one thing it has read.                                 *)
LEMMA LocalTypes ==
  ASSUME local \in [Procs -> Locals], NEW p \in Procs
  PROVE  /\ \A n \in Nat : /\ [local EXCEPT ![p].seen = n] \in [Procs -> Locals]
                           /\ [local EXCEPT ![p].tick = n] \in [Procs -> Locals]
                           /\ [local EXCEPT ![p].price = n] \in [Procs -> Locals]
         /\ \A u \in Users \cup {None} : [local EXCEPT ![p].winner = u] \in [Procs -> Locals]
<1>1. local[p] \in Locals
  OBVIOUS
<1>2. ASSUME NEW n \in Nat
      PROVE  /\ [local[p] EXCEPT !.seen = n] \in Locals
             /\ [local[p] EXCEPT !.tick = n] \in Locals
             /\ [local[p] EXCEPT !.price = n] \in Locals
  BY <1>1 DEF Locals
<1>3. ASSUME NEW u \in Users \cup {None}
      PROVE  [local[p] EXCEPT !.winner = u] \in Locals
  BY <1>1 DEF Locals
<1> QED BY <1>2, <1>3

(* A handler's step keeps the locks, its label and its locals in domain.   *)
LEMMA ProcTypesStep ==
  ASSUME Inv, NEW p \in Procs, ProcStep(p)
  PROVE  /\ lock' \in Procs \cup {None} /\ rowLock' \in Calls \cup {None}
         /\ pc' \in [Procs -> Labels] /\ local' \in [Procs -> Locals]
         /\ faults' \in Nat /\ product' \in {"listed", "auctioning", "sold"}
<1> DEFINE Typed ==
      /\ lock' \in Procs \cup {None} /\ rowLock' \in Calls \cup {None}
      /\ pc' \in [Procs -> Labels] /\ local' \in [Procs -> Locals]
      /\ faults' \in Nat /\ product' \in {"listed", "auctioning", "sold"}
<1> USE DEF dbVars
<1>1. TypeOK
  BY DEF Inv
<1>2. /\ lock \in Procs \cup {None} /\ rowLock \in Calls \cup {None}
      /\ pc \in [Procs -> Labels] /\ local \in [Procs -> Locals]
      /\ faults \in Nat /\ product \in {"listed", "auctioning", "sold"}
      /\ now \in Nat /\ session \in Sessions /\ bids \in Seq(BidRows)
  BY <1>1 DEF TypeOK
<1>3. Finish(p) /\ faults' \in Nat /\ product' \in {"listed", "auctioning", "sold"} => Typed
  BY <1>1, FinishTypes
<1>4. ASSUME NEW l \in Labels, Goto(p, l)
      PROVE  pc' \in [Procs -> Labels]
  BY <1>2, <1>4 DEF Goto
<1>5. /\ \A n \in Nat : /\ [local EXCEPT ![p].seen = n] \in [Procs -> Locals]
                        /\ [local EXCEPT ![p].tick = n] \in [Procs -> Locals]
                        /\ [local EXCEPT ![p].price = n] \in [Procs -> Locals]
       /\ \A u \in Users \cup {None} : [local EXCEPT ![p].winner = u] \in [Procs -> Locals]
  BY <1>2, LocalTypes
<1>6. Len(bids) \in Nat /\ session.price \in Nat
  BY <1>2 DEF Sessions
<1>7. CASE p \in Calls /\ CallStep(p)
  <2>1. CASE PlaceBid(p)
    BY <1>2, <1>4, <2>1 DEF PlaceBid, Labels
  <2>2. CASE Acquire(p)
    BY <1>2, <1>3, <1>4, <2>2 DEF Acquire, Labels
  <2>3. CASE BeginTx(p)
    BY <1>2, <1>3, <1>4, <1>5, <1>6, <2>3, ZenonT(40) DEF BeginTx, Labels
  <2>4. CASE AcceptBid(p)
    <3>1. PICK amount \in Amounts :
            /\ BidAcceptable(session, amount, now)
            /\ local' = [local EXCEPT ![p].row = session,
                                      ![p].out = BidOutcome(session, amount, now)]
      BY <2>4 DEF AcceptBid
    <3>2. BidOutcome(session, amount, now) \in Outcomes
      BY <1>2, <3>1, OutcomeFacts, ConstantTypes
    <3>3. local' \in [Procs -> Locals]
      BY <1>2, <3>1, <3>2, ZenonT(40) DEF Locals
    <3> QED BY <1>2, <1>4, <1>7, <2>4, <3>3 DEF AcceptBid, Labels
  <2>5. CASE RejectBid(p) \/ FailBid(p) \/ PublishBid(p)
    BY <1>2, <1>3, <2>5 DEF RejectBid, FailBid, PublishBid
  <2>6. CASE CommitBid(p)
    BY <1>2, <1>4, <2>6 DEF CommitBid, Labels
  <2> QED BY <1>7, <2>1, <2>2, <2>3, <2>4, <2>5, <2>6 DEF CallStep
<1>8. CASE SettleStep(p)
  <2>1. CASE Acquire(p)
    BY <1>2, <1>3, <1>4, <2>1 DEF Acquire, Labels
  <2>2. CASE ResolveWinner(p)
    <3>1. WinnerChoices \subseteq Users \cup {None}
      <4>1. \A i \in DOMAIN bids : bids[i] \in BidRows
        BY <1>2
      <4> QED BY <4>1 DEF WinnerChoices, BidRows
    <3>2. local' \in [Procs -> Locals]
      <4>1. PICK u \in WinnerChoices : local' = [local EXCEPT ![p].winner = u]
        BY <2>2 DEF ResolveWinner
      <4>2. u \in Users \cup {None}
        BY <3>1, <4>1
      <4> QED BY <1>5, <4>1, <4>2
    <3>3. pc' \in [Procs -> Labels]
      BY <1>2, <2>2 DEF ResolveWinner, Goto, Labels
    <3> QED BY <1>2, <2>2, <3>2, <3>3 DEF ResolveWinner
  <2>3. CASE CloseRow(p)
    BY <1>2, <1>3, <1>4, <2>3 DEF CloseRow, Labels
  <2>4. CASE MarkSold(p)
    BY <1>2, <1>4, <2>4 DEF MarkSold, Labels
  <2>5. CASE CreateOrder(p)
    BY <1>2, <1>3, <2>5 DEF CreateOrder
  <2> QED BY <1>8, <2>1, <2>2, <2>3, <2>4, <2>5 DEF SettleStep
<1>9. CASE ScanExpired(p) \/ RecheckExpired(p) \/ Restart(p)
  <2>1. CASE ScanExpired(p)
    BY <1>2, <1>4, <1>5, <2>1 DEF ScanExpired, Labels
  <2>2. CASE RecheckExpired(p)
    BY <1>2, <1>3, <1>4, <1>5, <1>6, <2>2 DEF RecheckExpired, ReadRunning, Labels
  <2>3. CASE Restart(p)
    BY <1>2, <1>4, <2>3 DEF Restart, Labels
  <2> QED BY <1>9, <2>1, <2>2, <2>3
<1>10. CASE ReadCurrent(p) \/ RecheckStatus(p)
  <2>1. CASE ReadCurrent(p)
    BY <1>2, <1>4, <1>5, <1>6, <2>1 DEF ReadCurrent, ReadRunning, Labels
  <2>2. CASE RecheckStatus(p)
    BY <1>2, <1>3, <1>4, <2>2 DEF RecheckStatus, Labels
  <2> QED BY <1>10, <2>1, <2>2
<1>11. CASE CancelStep(p)
  BY <1>2, <1>4, <1>11 DEF CancelStep, CancelSession, RelistProduct, Labels
<1>12. CASE Abort(p)
  BY <1>2, <1>3, <1>12 DEF Abort
<1>13. CASE Crash(p)
  <2>1. NoLocals \in Locals
    BY DEF NoLocals, Locals
  <2> QED BY <1>2, <1>4, <1>13, <2>1 DEF Crash, Labels
<1> QED BY <1>7, <1>8, <1>9, <1>10, <1>11, <1>12, <1>13 DEF ProcStep, WorkerStep, SwitchStep

(* Every step keeps every variable in its domain.                          *)
LEMMA TypeStep ==
  ASSUME Inv, [Next]_vars
  PROVE  TypeOK'
<1>1. TypeOK
  BY DEF Inv
<1>2. ASSUME NEW p \in Procs, ProcStep(p)
      PROVE  TypeOK'
  BY <1>1, <1>2, RowTypesStep, ProcTypesStep, Frame DEF TypeOK
<1>3. ASSUME NEW r \in RuleChoices, UpdateRules(r)
      PROVE  TypeOK'
  BY <1>1, <1>3, RowTypesStep DEF TypeOK, UpdateRules
<1>4. CASE ExpireLock
  BY <1>1, <1>4 DEF TypeOK, ExpireLock, dbVars
<1>5. CASE Tick
  BY <1>1, <1>5, ConstantTypes DEF TypeOK, Tick, dbVars
<1>6. CASE UNCHANGED vars
  BY <1>1, <1>6 DEF TypeOK, vars, dbVars
<1> QED BY <1>2, <1>3, <1>4, <1>5, <1>6, Steps

-------------------------------------------------------------------------------
(* The theorems.                                                           *)

(* A freshly published session satisfies the invariant.                    *)
LEMMA InitInv ==
  ASSUME Init
  PROVE  Inv
<1>1. PICK r \in RuleChoices : session = Fresh(r)
  BY DEF Init
<1>2. r \in ValidRules /\ r.start \in Nat
  BY ConstantTypes DEF ValidRules, Rules
<1>3. session \in Sessions /\ session.status = "pending" /\ session.endAt = NoTime
      /\ session.bidCount = 0
  BY <1>1, <1>2 DEF Fresh, Sessions, Statuses
<1>4. pc \in [Procs -> Labels] /\ local \in [Procs -> Locals]
      /\ \A p \in Procs : pc[p] \in {"lookup", "scan", "current", "cancel"}
  BY DEF Init, Start, Labels, NoLocals, Locals
<1>5. TypeOK
  BY <1>3, <1>4 DEF Init, TypeOK
<1>6. Committing /\ Closing
  BY <1>4 DEF Committing, Closing, Procs
<1>7. StatusColumns /\ RowMatchesLedger /\ LedgerObeysRules /\ OneBidPerRequest /\ OrderIsSale
  BY <1>3 DEF Init, StatusColumns, RowMatchesLedger, Running, LedgerObeysRules,
              OneBidPerRequest, OrderIsSale
<1> QED BY <1>5, <1>6, <1>7 DEF Inv

(* Inv is an invariant of the specification: it holds initially and every  *)
(* step of every handler, of the clock and of the faults preserves it.     *)
THEOREM Invariance == Spec => []Inv
<1>1. Init => Inv
  BY InitInv
<1>2. Inv /\ [Next]_vars => Inv'
  <2> SUFFICES ASSUME Inv, [Next]_vars
               PROVE  Inv'
    OBVIOUS
  <2> QED BY TypeStep, CommittingStep, ClosingStep, StatusColumnsStep, RowMatchesLedgerStep,
             LedgerObeysRulesStep, OneBidPerRequestStep, OrderIsSaleStep DEF Inv
<1> QED BY <1>1, <1>2, PTL DEF Spec

(* The rows, the locks and the handlers' locals stay in their domains.     *)
THEOREM TypeCorrect == Spec => []TypeOK
  BY Invariance, PTL DEF Inv

(* The committed bids respect the rules, through every edit of the rules,  *)
(* every interleaving of transactions and every fault, whatever the lock.  *)
THEOREM LedgerSafe == Spec => []LedgerObeysRules
  BY Invariance, PTL DEF Inv

(* Until the settlement, the session row and the bids table agree; the     *)
(* branches that give up on a session without a bid are dead.              *)
THEOREM RowSafe == Spec => []RowMatchesLedger
  BY Invariance, PTL DEF Inv

(* uk_session_request suffices for idempotency, with or without Redis.     *)
THEOREM RequestsSafe == Spec => []OneBidPerRequest
  BY Invariance, PTL DEF Inv

(* Whoever creates it, the order is that of the settled row.               *)
THEOREM OrdersSafe == Spec => []OrderIsSale
  BY Invariance, PTL DEF Inv

(* SELECT ... FOR UPDATE suffices to keep what a bid transaction has read  *)
(* current until it commits; the optimistic lock never refuses.            *)
THEOREM ReadsSafe == Spec => []ReadRowIsCurrent
<1>1. Inv => ReadRowIsCurrent
  BY DEF Inv, Committing, ReadRowIsCurrent
<1> QED BY <1>1, Invariance, PTL

(* A settled or cancelled session is closed for good.                      *)
THEOREM ClosedSafe == Spec => ClosedIsFinal
<1>1. Inv /\ [Next]_vars => [session.status \in Terminal => UNCHANGED <<session, bids>>]_vars
  BY ClosedStep
<1> QED BY <1>1, Invariance, PTL DEF Spec, ClosedIsFinal

(* Every write of the row keeps the end or moves it away.                  *)
LEMMA EndStep ==
  ASSUME Inv, [Next]_vars, session.endAt # NoTime
  PROVE  session'.endAt >= session.endAt
<1>1. session \in Sessions /\ session.endAt \in Nat
  BY DEF Inv, TypeOK, Sessions
<1>2. session' \in Sessions
  BY TypeStep DEF TypeOK
<1>3. session'.endAt = session.endAt => session'.endAt >= session.endAt
  BY <1>1
<1>4. CASE UNCHANGED <<session, bids, orders>>
  BY <1>3, <1>4
<1>5. ASSUME NEW c \in Calls, CommitBid(c)
      PROVE  session'.endAt >= session.endAt
  <2>1. session'.endAt = session.endAt
        \/ (session.endAt # NoTime => session'.endAt >= session.endAt)
    BY <1>5, CommitEffect
  <2> QED BY <1>3, <2>1
<1>6. ASSUME NEW p \in Procs, CloseRow(p)
      PROVE  session'.endAt = session.endAt
  BY <1>6, CloseEffect
<1>7. ASSUME NEW p \in Procs, CreateOrder(p) \/ CancelSession(p)
      PROVE  session'.endAt = session.endAt
  BY <1>1, <1>7 DEF CreateOrder, CancelSession, Sessions
<1>8. ASSUME NEW r \in RuleChoices, UpdateRules(r)
      PROVE  session'.endAt = session.endAt
  BY <1>1, <1>8 DEF UpdateRules, Sessions
<1> QED BY <1>3, <1>4, <1>5, <1>6, <1>7, <1>8, Writers

(* The end of a session only moves away from the bidders.                  *)
THEOREM EndSafe == Spec => EndNeverEarlier
<1>1. Inv /\ [Next]_vars => [session.endAt # NoTime => session'.endAt >= session.endAt]_vars
  BY EndStep
<1> QED BY <1>1, Invariance, PTL DEF Spec, EndNeverEarlier

-------------------------------------------------------------------------------
(* What the session lock adds: with Redis, handlers that return within the *)
(* lock's TTL, and no EndCurrentAndSwitch, a session is sold to its leading*)
(* bid and its participants are counted exactly, through crashes and       *)
(* aborted handlers.                                                       *)

(* Only the holder of the lock takes it, keeps it or gives it back.        *)
LEMMA LockFrame ==
  ASSUME NEW p \in Procs, NEW q \in Procs \ {p}, ProcStep(p), lock = q
  PROVE  lock' = q
<1> USE ConstantTypes DEF dbVars
<1>1. q # None
  OBVIOUS
<1>2. ASSUME Finish(p)
      PROVE  lock' = q
  BY <1>2 DEF Finish, Release
<1>3. CASE p \in Calls /\ CallStep(p)
  BY <1>1, <1>2, <1>3 DEF CallStep, PlaceBid, Acquire, BeginTx, AcceptBid, RejectBid,
                          CommitBid, FailBid, PublishBid
<1>4. CASE SettleStep(p)
  BY <1>1, <1>2, <1>4 DEF SettleStep, Acquire, ResolveWinner, CloseRow, MarkSold, CreateOrder
<1>5. CASE ScanExpired(p) \/ RecheckExpired(p) \/ Restart(p) \/ ReadCurrent(p) \/ RecheckStatus(p)
  BY <1>2, <1>5 DEF ScanExpired, RecheckExpired, Restart, ReadCurrent, RecheckStatus
<1>6. CASE CancelStep(p)
  BY <1>6 DEF CancelStep, CancelSession, RelistProduct
<1>7. CASE Abort(p) \/ Crash(p)
  BY <1>2, <1>7 DEF Abort, Crash
<1> QED BY <1>3, <1>4, <1>5, <1>6, <1>7 DEF ProcStep, WorkerStep, SwitchStep

(* A handler is between Acquire and Finish only while it holds the lock.   *)
LEMMA HoldersHoldStep ==
  ASSUME Inv, LockWorks, HoldersHold, [Next]_vars
  PROVE  HoldersHold'
<1> SUFFICES ASSUME NEW q \in Procs, pc'[q] \in Critical
             PROVE  lock' = q
  BY DEF HoldersHold
<1> USE DEF dbVars
<1>1. /\ pc \in [Procs -> Labels] /\ local \in [Procs -> Locals] /\ q # None
      /\ (pc[q] \in Critical => lock = q)
  BY ConstantTypes DEF Inv, TypeOK, HoldersHold
<1>2. CASE pc[q] \in Critical /\ lock' = lock
  BY <1>1, <1>2
<1>3. ~Finish(q)
  BY <1>1 DEF Finish, Goto, Rest, Critical
<1>4. CASE ProcStep(q)
  <2>1. q \notin Switches
    BY DEF LockWorks
  <2>2. CASE Acquire(q)
    BY <1>1, <1>3, <2>2 DEF Acquire, LockWorks
  <2>3. CASE PlaceBid(q) \/ ScanExpired(q) \/ Restart(q) \/ CancelStep(q) \/ Crash(q)
    BY <1>1, <2>3 DEF PlaceBid, ScanExpired, Restart, CancelStep, CancelSession,
                      RelistProduct, Crash, Goto, Critical
  <2>4. CASE BeginTx(q) \/ AcceptBid(q) \/ RejectBid(q) \/ CommitBid(q) \/ FailBid(q) \/ PublishBid(q)
    BY <1>1, <1>3, <2>4 DEF BeginTx, AcceptBid, RejectBid, CommitBid, FailBid, PublishBid, Critical
  <2>5. CASE RecheckExpired(q) \/ ResolveWinner(q) \/ CloseRow(q) \/ MarkSold(q) \/ CreateOrder(q)
    BY <1>1, <1>3, <2>5 DEF RecheckExpired, ResolveWinner, CloseRow, MarkSold, CreateOrder, Critical
  <2>6. ~Abort(q)
    BY <1>3 DEF Abort
  <2> QED BY <1>4, <2>1, <2>2, <2>3, <2>4, <2>5, <2>6
          DEF ProcStep, CallStep, WorkerStep, SettleStep
<1>5. ASSUME NEW p \in Procs, ProcStep(p), p # q
      PROVE  lock' = q
  <2>1. pc[q] \in Critical
    BY <1>5, Frame
  <2> QED BY <1>1, <1>5, <2>1, LockFrame
<1>6. ASSUME NEW r \in RuleChoices, UpdateRules(r)
      PROVE  lock' = q
  BY <1>1, <1>6 DEF UpdateRules
<1>7. CASE ExpireLock
  BY <1>1, <1>7 DEF ExpireLock, TTLOver, LockWorks, Critical
<1>8. CASE Tick \/ UNCHANGED vars
  BY <1>1, <1>8 DEF Tick, vars
<1> QED BY <1>4, <1>5, <1>6, <1>7, <1>8, Steps

(* While q holds the lock, nobody else adds a bid or settles the session.  *)
LEMMA HolderAlone ==
  ASSUME Inv, HoldersHold, NEW q \in Procs, pc[q] \in Critical,
         NEW p \in Procs \ {q}, ProcStep(p)
  PROVE  /\ UNCHANGED bids
         /\ session' = session \/ session'.status = "cancelled"
<1> USE DEF dbVars
<1>1. pc[p] \notin Critical /\ session \in Sessions
  BY DEF HoldersHold, Inv, TypeOK
<1>2. CASE p \in Calls /\ CallStep(p)
  BY <1>1, <1>2 DEF CallStep, PlaceBid, Acquire, BeginTx, AcceptBid, RejectBid,
                    CommitBid, FailBid, PublishBid, Critical
<1>3. CASE SettleStep(p)
  BY <1>1, <1>3 DEF SettleStep, Acquire, ResolveWinner, CloseRow, MarkSold, CreateOrder, Critical
<1>4. CASE ScanExpired(p) \/ RecheckExpired(p) \/ Restart(p) \/ ReadCurrent(p) \/ RecheckStatus(p)
  BY <1>4 DEF ScanExpired, RecheckExpired, Restart, ReadCurrent, RecheckStatus
<1>5. CASE CancelStep(p)
  BY <1>1, <1>5 DEF CancelStep, CancelSession, RelistProduct, Sessions
<1>6. CASE Abort(p) \/ Crash(p)
  BY <1>6 DEF Abort, Crash
<1> QED BY <1>2, <1>3, <1>4, <1>5, <1>6 DEF ProcStep, WorkerStep, SwitchStep

(* The winning flag marks the last bid, so that is the winner resolved.    *)
LEMMA WinnerIsLeader ==
  ASSUME Inv, bids # <<>>
  PROVE  WinnerChoices = {bids[Len(bids)].user}
<1>1. bids \in Seq(BidRows) /\ Len(bids) \in Nat /\ Len(bids) # 0
      /\ DOMAIN bids = 1..Len(bids)
  BY DEF Inv, TypeOK
<1>2. {i \in DOMAIN bids : bids[i].winning} = {Len(bids)}
  BY <1>1 DEF Inv, RowMatchesLedger
<1> QED BY <1>2 DEF WinnerChoices

(* What a holder of the lock has read stays what the ledger says.          *)
LEMMA ReadsAreCurrentStep ==
  ASSUME Inv, LockWorks, HoldersHold, ReadsAreCurrent, [Next]_vars
  PROVE  ReadsAreCurrent'
<1> DEFINE Knows(q) ==
      /\ local[q].tick <= now
      /\ q \in Calls /\ pc[q] \in {"evaluate", "commit"} => local[q].seen = Len(bids)
      /\ q \in Workers =>
           /\ pc[q] \in {"winner", "close"} =>
                /\ bids # <<>>
                /\ local[q].price = bids[Len(bids)].amount
                /\ Running => session.endAt <= now
           /\ pc[q] = "close" => local[q].winner = bids[Len(bids)].user
<1> SUFFICES ASSUME NEW q \in Procs
             PROVE  Knows(q)'
  BY DEF ReadsAreCurrent, Procs
<1> USE DEF dbVars
<1>1. /\ pc \in [Procs -> Labels] /\ local \in [Procs -> Locals] /\ now \in Nat
      /\ session \in Sessions /\ bids \in Seq(BidRows)
      /\ local[q].tick \in Nat /\ session.endAt \in Nat \cup {NoTime}
  BY DEF Inv, TypeOK, Locals, Sessions
<1>2. Knows(q)
  BY DEF ReadsAreCurrent, Procs
<1>3. ASSUME pc'[q] = pc[q], local'[q] = local[q], now' = now \/ (now' \in Nat /\ now' >= now),
             pc[q] \in Critical =>
               UNCHANGED bids /\ (session' = session \/ session'.status = "cancelled")
      PROVE  Knows(q)'
  BY <1>1, <1>2, <1>3 DEF Critical, Running, NoTime
<1>4. CASE ProcStep(q)
  <2>1. q \notin Switches
    BY DEF LockWorks
  <2>2. ASSUME Finish(q), now' = now
        PROVE  Knows(q)'
    BY <1>1, <2>2 DEF Finish, Goto, Rest, NoLocals
  <2>3. ASSUME local'[q] = local[q], now' = now,
               pc'[q] \notin {"evaluate", "commit", "winner", "close"}
        PROVE  Knows(q)'
    BY <1>1, <1>2, <2>3
  <2>4. CASE q \in Calls /\ CallStep(q)
    <3>1. q \notin Workers
      BY <2>4, ProcsDisjoint
    <3>2. CASE PlaceBid(q) \/ Acquire(q)
      BY <1>1, <2>2, <2>3, <2>4, <3>2 DEF PlaceBid, Acquire, Goto
    <3>3. CASE BeginTx(q)
      <4>1. CASE Finish(q)
        BY <2>2, <3>3, <4>1 DEF BeginTx
      <4>2. CASE local' = [local EXCEPT ![q].seen = Len(bids)]
        <5>1. local'[q].seen = Len(bids) /\ local'[q].tick = local[q].tick
          BY <1>1, <4>2 DEF Locals
        <5> QED BY <1>2, <3>1, <3>3, <5>1 DEF BeginTx
      <4> QED BY <3>3, <4>1, <4>2 DEF BeginTx
    <3>4. CASE AcceptBid(q)
      <4>1. PICK row, out : local' = [local EXCEPT ![q].row = row, ![q].out = out]
        BY <3>4 DEF AcceptBid
      <4>2. local'[q].seen = local[q].seen /\ local'[q].tick = local[q].tick
        BY <1>1, <4>1 DEF Locals
      <4> QED BY <1>2, <2>4, <3>1, <3>4, <4>2 DEF AcceptBid
    <3>5. CASE RejectBid(q) \/ FailBid(q) \/ PublishBid(q)
      BY <2>2, <3>5 DEF RejectBid, FailBid, PublishBid
    <3>6. CASE CommitBid(q)
      BY <1>1, <2>3, <3>6 DEF CommitBid, Goto
    <3> QED BY <2>4, <3>2, <3>3, <3>4, <3>5, <3>6 DEF CallStep
  <2>5. CASE q \in Workers /\ WorkerStep(q)
    <3>1. q \notin Calls
      BY <2>5, ProcsDisjoint
    <3>2. CASE ScanExpired(q)
      <4>1. local'[q].tick = now /\ pc'[q] = "acquire" /\ now' = now
        BY <1>1, <3>2 DEF ScanExpired, Goto, Locals
      <4> QED BY <1>1, <3>1, <4>1
    <3>3. CASE RecheckExpired(q)
      <4>1. CASE Finish(q)
        BY <2>2, <3>3, <4>1 DEF RecheckExpired
      <4>2. CASE Expired(local[q].tick) /\ ReadRunning(q)
        <5>1. /\ Running /\ session.endAt # NoTime /\ session.endAt <= local[q].tick
              /\ bids # <<>> /\ session.bidCount # 0
              /\ session.price = bids[Len(bids)].amount
          BY <1>1, <4>2 DEF Expired, Running, Inv, RowMatchesLedger
        <5>2. local'[q].price = session.price /\ local'[q].tick = local[q].tick
              /\ pc'[q] = "winner"
          BY <1>1, <4>2, <5>1 DEF ReadRunning, Goto, Locals
        <5>3. session.endAt <= now
          BY <1>1, <1>2, <5>1
        <5> QED BY <1>2, <3>1, <3>3, <5>1, <5>2, <5>3 DEF RecheckExpired
      <4> QED BY <3>3, <4>1, <4>2 DEF RecheckExpired
    <3>4. CASE Acquire(q)
      BY <1>1, <2>2, <2>3, <3>4, <3>1 DEF Acquire, Goto
    <3>5. CASE ResolveWinner(q)
      <4>1. bids # <<>> /\ pc[q] = "winner"
        BY <1>2, <2>5, <3>5 DEF ResolveWinner
      <4>2. local' = [local EXCEPT ![q].winner = bids[Len(bids)].user] /\ now' = now
            /\ UNCHANGED <<session, bids>>
        BY <3>5, <4>1, WinnerIsLeader DEF ResolveWinner
      <4>3. /\ local'[q].winner = bids[Len(bids)].user
            /\ local'[q].price = local[q].price /\ local'[q].tick = local[q].tick
        BY <1>1, <4>2 DEF Locals
      <4> QED BY <1>2, <2>5, <3>1, <4>1, <4>2, <4>3 DEF Running
    <3>6. CASE CloseRow(q)
      BY <1>1, <2>2, <2>3, <3>6 DEF CloseRow, Goto
    <3>7. CASE MarkSold(q) \/ CreateOrder(q)
      BY <1>1, <2>2, <2>3, <3>7 DEF MarkSold, CreateOrder, Goto
    <3>8. CASE Restart(q)
      BY <1>1, <2>3, <3>8 DEF Restart, Goto
    <3> QED BY <2>5, <3>2, <3>3, <3>4, <3>5, <3>6, <3>7, <3>8 DEF WorkerStep, SettleStep
  <2>6. CASE CancelStep(q)
    BY <1>1, <2>3, <2>6 DEF CancelStep, CancelSession, RelistProduct, Goto
  <2>7. CASE Abort(q)
    BY <2>2, <2>7 DEF Abort
  <2>8. CASE Crash(q)
    BY <1>1, <2>8 DEF Crash, Goto, NoLocals
  <2> QED BY <1>4, <2>1, <2>4, <2>5, <2>6, <2>7, <2>8 DEF ProcStep
<1>5. ASSUME NEW p \in Procs, ProcStep(p), p # q
      PROVE  Knows(q)'
  BY <1>3, <1>5, Frame, HolderAlone
<1>6. ASSUME NEW r \in RuleChoices, UpdateRules(r)
      PROVE  Knows(q)'
  BY <1>1, <1>2, <1>6 DEF UpdateRules, Running, Sessions
<1>7. CASE ExpireLock \/ Tick \/ UNCHANGED vars
  BY <1>1, <1>3, <1>7, ConstantTypes DEF ExpireLock, Tick, vars
<1> HIDE DEF Knows
<1> QED BY <1>4, <1>5, <1>6, <1>7, Steps

(* A session is sold to its leading bid: a bid at the cap is the leading   *)
(* one, and a worker closes the row with the leading bid it has read.      *)
LEMMA SaleStep ==
  ASSUME Inv, LockWorks, ReadsAreCurrent, SaleIsLeadingBid, [Next]_vars
  PROVE  SaleIsLeadingBid'
<1> USE DEF dbVars
<1>1. session \in Sessions /\ bids \in Seq(BidRows)
  BY DEF Inv, TypeOK
<1>2. CASE session.status = "settled"
  BY <1>2, ClosedStep DEF SaleIsLeadingBid, Terminal
<1>3. ASSUME session.status # "settled", session'.status = session.status
      PROVE  SaleIsLeadingBid'
  BY <1>3 DEF SaleIsLeadingBid
<1>4. ASSUME NEW c \in Calls, CommitBid(c)
      PROVE  SaleIsLeadingBid'
  <2>1. PICK a \in Nat :
          /\ bids' \in Seq(BidRows) /\ Len(bids') = Len(bids) + 1
          /\ bids'[Len(bids) + 1] = [ user |-> UserOf[c], amount |-> a,
                                     request |-> RequestOf[c], winning |-> TRUE ]
          /\ session'.price = a
          /\ session'.status = "settled" => session'.winner = UserOf[c]
    BY <1>4, CommitEffect
  <2>2. bids' # <<>> /\ bids'[Len(bids')].user = UserOf[c] /\ bids'[Len(bids')].amount = a
    BY <1>1, <2>1
  <2> QED BY <2>1, <2>2 DEF SaleIsLeadingBid
<1>5. ASSUME NEW w \in Workers, CloseRow(w)
      PROVE  SaleIsLeadingBid'
  <2>1. /\ bids # <<>> /\ local[w].price = bids[Len(bids)].amount
        /\ local[w].winner = bids[Len(bids)].user
    BY <1>5 DEF CloseRow, ReadsAreCurrent
  <2>2. bids' = bids /\ (session' = session \/ session' = Settled(local[w].winner, local[w].price))
    BY <1>5, CloseEffect DEF Procs
  <2>3. LET s == Settled(local[w].winner, local[w].price)
        IN  s.winner = local[w].winner /\ s.price = local[w].price
    BY <1>1 DEF Settled, Sessions
  <2> QED BY <2>1, <2>2, <2>3 DEF SaleIsLeadingBid
<1>6. ASSUME NEW p \in Procs, CancelStep(p)
      PROVE  SaleIsLeadingBid'
  <2>1. session' = session \/ session'.status = "cancelled"
    BY <1>1, <1>6 DEF CancelStep, CancelSession, RelistProduct, Sessions
  <2>2. bids' = bids
    BY <1>6 DEF CancelStep, CancelSession, RelistProduct
  <2> QED BY <2>1, <2>2 DEF SaleIsLeadingBid
<1>7. ASSUME NEW p \in Procs, ProcStep(p)
      PROVE  SaleIsLeadingBid' \/ UNCHANGED <<session, bids>>
  <2>1. p \notin Switches
    BY DEF LockWorks
  <2>2. CASE p \in Calls /\ CallStep(p)
    BY <1>4, <2>2 DEF CallStep, PlaceBid, Acquire, BeginTx, AcceptBid, RejectBid,
                      FailBid, PublishBid
  <2>3. CASE p \in Workers /\ WorkerStep(p)
    BY <1>5, <2>3 DEF WorkerStep, SettleStep, ScanExpired, RecheckExpired, Restart, Acquire,
                      ResolveWinner, MarkSold, CreateOrder
  <2>4. CASE Abort(p) \/ Crash(p)
    BY <2>4 DEF Abort, Crash
  <2> QED BY <1>6, <1>7, <2>1, <2>2, <2>3, <2>4 DEF ProcStep
<1>8. ASSUME UNCHANGED <<session, bids>>
      PROVE  SaleIsLeadingBid'
  BY <1>8 DEF SaleIsLeadingBid
<1>9. ASSUME NEW r \in RuleChoices, UpdateRules(r)
      PROVE  session'.status = session.status
  BY <1>1, <1>9 DEF UpdateRules, Sessions
<1>10. CASE ExpireLock \/ Tick \/ UNCHANGED vars
  BY <1>8, <1>10 DEF ExpireLock, Tick, vars
<1> QED BY <1>2, <1>3, <1>7, <1>8, <1>9, <1>10, Steps

(* The users who have bid; there are finitely many.                        *)
LEMMA BiddersFinite ==
  ASSUME NEW rows \in Seq(BidRows)
  PROVE  IsFiniteSet({rows[i].user : i \in DOMAIN rows})
<1> DEFINE U == {rows[i].user : i \in DOMAIN rows}
           f == [i \in 1..Len(rows) |-> rows[i].user]
<1>1. DOMAIN rows = 1..Len(rows) /\ Len(rows) \in Nat
  OBVIOUS
<1>2. f \in Surjection(1..Len(rows), U)
  BY <1>1 DEF Surjection
<1>3. IsFiniteSet(1..Len(rows))
  BY <1>1, FS_Interval
<1> HIDE DEF f, U
<1>4. IsFiniteSet(U)
  BY <1>2, <1>3, FS_Surjection
<1> QED BY <1>4 DEF U

(* A bid counts its user exactly when the user is new: under the lock the  *)
(* transaction's snapshot is the whole ledger.                             *)
LEMMA ParticipantsStep ==
  ASSUME Inv, ReadsAreCurrent, ParticipantsExact, [Next]_vars
  PROVE  ParticipantsExact'
<1> DEFINE Bidders == {bids[i].user : i \in DOMAIN bids}
<1>1. session \in Sessions /\ bids \in Seq(BidRows)
  BY DEF Inv, TypeOK
<1>2. ASSUME bids' = bids, session'.participants = session.participants,
             session.status # "settled"
      PROVE  ParticipantsExact'
  BY <1>2 DEF ParticipantsExact
<1>3. ASSUME NEW c \in Calls, CommitBid(c), session'.status # "settled"
      PROVE  ParticipantsExact'
  <2>1. PICK a \in Nat :
          /\ session.status \in {"pending", "running"}
          /\ bids' \in Seq(BidRows) /\ Len(bids') = Len(bids) + 1
          /\ bids'[Len(bids) + 1] = [ user |-> UserOf[c], amount |-> a,
                                     request |-> RequestOf[c], winning |-> TRUE ]
          /\ \A i \in 1..Len(bids) : bids'[i].user = bids[i].user
    BY <1>3, CommitEffect
  <2>2. session.participants = Cardinality(Bidders) /\ IsFiniteSet(Bidders)
    BY <1>1, <2>1, BiddersFinite DEF ParticipantsExact
  <2>3. HadBid(c) <=> UserOf[c] \in Bidders
    <3>1. local[c].seen = Len(bids) /\ DOMAIN bids = 1..Len(bids)
      BY <1>1, <1>3 DEF CommitBid, ReadsAreCurrent
    <3> QED BY <3>1 DEF HadBid
  <2>4. session'.participants = session.participants + (IF HadBid(c) THEN 0 ELSE 1)
    <3>1. local[c].row = session
      BY <1>3 DEF CommitBid, Inv, Committing
    <3>2. session' = ApplyBid(c)
      BY <1>3, <1>1 DEF CommitBid, Settled, Sessions
    <3> QED BY <1>1, <3>1, <3>2 DEF ApplyBid, Sessions
  <2>5. {bids'[i].user : i \in DOMAIN bids'} = Bidders \cup {UserOf[c]}
    <3>1. /\ DOMAIN bids = 1..Len(bids) /\ DOMAIN bids' = 1..(Len(bids) + 1)
          /\ Len(bids) \in Nat /\ bids'[Len(bids) + 1].user = UserOf[c]
      BY <1>1, <2>1
    <3>2. \A i \in 1..(Len(bids) + 1) : i \in 1..Len(bids) \/ i = Len(bids) + 1
      BY <3>1
    <3>3. \A i \in 1..Len(bids) : i \in 1..(Len(bids) + 1)
      BY <3>1
    <3>4. Len(bids) + 1 \in 1..(Len(bids) + 1)
      BY <3>1
    <3> QED BY <2>1, <3>1, <3>2, <3>3, <3>4
  <2>6. Cardinality(Bidders \cup {UserOf[c]}) =
          IF UserOf[c] \in Bidders THEN Cardinality(Bidders) ELSE Cardinality(Bidders) + 1
    BY <2>2, FS_AddElement
  <2>7. Cardinality(Bidders) \in Nat
    BY <2>2, FS_CardinalityType
  <2> HIDE DEF Bidders
  <2>8. session'.participants = Cardinality(Bidders \cup {UserOf[c]})
    BY <2>2, <2>3, <2>4, <2>6, <2>7
  <2> QED BY <2>5, <2>8 DEF ParticipantsExact
<1>4. CASE session'.status = "settled"
  BY <1>4 DEF ParticipantsExact
<1>5. CASE UNCHANGED <<session, bids, orders>>
  BY <1>5 DEF ParticipantsExact
<1>6. ASSUME NEW p \in Procs, CloseRow(p), session'.status # "settled"
      PROVE  ParticipantsExact'
  <2>1. session' = session /\ bids' = bids
    BY <1>6, CloseEffect
  <2> QED BY <2>1 DEF ParticipantsExact
<1>7. ASSUME NEW p \in Procs, CreateOrder(p)
      PROVE  UNCHANGED <<session, bids>>
  BY <1>7 DEF CreateOrder
<1>8. ASSUME NEW p \in Procs, CancelSession(p), session'.status # "settled"
      PROVE  ParticipantsExact'
  <2>1. /\ bids' = bids /\ session'.participants = session.participants
        /\ session.status # "settled"
    BY <1>1, <1>8 DEF CancelSession, Cancellable, Sessions
  <2> QED BY <1>2, <2>1
<1>9. ASSUME NEW r \in RuleChoices, UpdateRules(r)
      PROVE  ParticipantsExact'
  <2>1. /\ bids' = bids /\ session'.participants = session.participants
        /\ session.status # "settled"
    BY <1>1, <1>9 DEF UpdateRules, Sessions
  <2> QED BY <1>2, <2>1
<1>10. ASSUME UNCHANGED <<session, bids>>
       PROVE  ParticipantsExact'
  BY <1>10 DEF ParticipantsExact
<1> HIDE DEF Bidders
<1> QED BY <1>3, <1>4, <1>5, <1>6, <1>7, <1>8, <1>9, <1>10, Writers

-------------------------------------------------------------------------------
(* With the lock, what its holders have read is current, the sale is the   *)
(* leading bid and the participants are counted exactly, in every reachable*)
(* state, whatever is aborted, crashes or is edited.                       *)
THEOREM LockInvariance ==
  ASSUME LockWorks
  PROVE  Spec => []LockInv
<1>1. Init => LockInv
  <2> SUFFICES ASSUME Init
               PROVE  LockInv
    OBVIOUS
  <2>1. \A p \in Procs : pc[p] \in {"lookup", "scan", "current", "cancel"}
                         /\ local[p] = NoLocals
    BY DEF Init, Start
  <2>2. HoldersHold
    BY <2>1 DEF HoldersHold, Critical
  <2>3. ReadsAreCurrent
    <3>1. now = 0 /\ \A p \in Procs : local[p].tick = 0
      BY <2>1 DEF Init, NoLocals
    <3>2. \A p \in Procs : local[p].tick <= now
      BY <3>1
    <3>3. \A p \in Calls \cup Workers : pc[p] \notin {"evaluate", "commit", "winner", "close"}
      BY <2>1 DEF Procs
    <3> QED BY <3>2, <3>3 DEF ReadsAreCurrent
  <2>4. SaleIsLeadingBid
    BY DEF Init, Fresh, SaleIsLeadingBid
  <2>5. ParticipantsExact
    <3>1. bids = <<>> /\ session.participants = 0
      BY DEF Init, Fresh
    <3>2. {bids[i].user : i \in DOMAIN bids} = {}
      BY <3>1
    <3> QED BY <3>1, <3>2, FS_EmptySet DEF ParticipantsExact
  <2> QED BY <2>2, <2>3, <2>4, <2>5 DEF LockInv
<1>2. Inv /\ LockInv /\ [Next]_vars => LockInv'
  BY HoldersHoldStep, ReadsAreCurrentStep, SaleStep, ParticipantsStep DEF LockInv
<1> QED BY <1>1, <1>2, Invariance, PTL DEF Spec

(* A settled session was won by its leading bid, at that bid's amount.     *)
THEOREM SaleSafe ==
  ASSUME LockWorks
  PROVE  Spec => []SaleIsLeadingBid
<1>1. LockInv => SaleIsLeadingBid
  BY DEF LockInv
<1> QED BY <1>1, LockInvariance, PTL

(* Until the sale, participant_count is the number of distinct bidders.    *)
THEOREM ParticipantsSafe ==
  ASSUME LockWorks
  PROVE  Spec => []ParticipantsExact
<1>1. LockInv => ParticipantsExact
  BY DEF LockInv
<1> QED BY <1>1, LockInvariance, PTL
-------------------------------------------------------------------------------
(* The abstract auction as the rows show it.                               *)

(* A function on 1..n is a sequence of length n.                           *)
LEMMA SeqOfFunction ==
  ASSUME NEW S, NEW n \in Nat, NEW f \in [1..n -> S]
  PROVE  f \in Seq(S) /\ Len(f) = n /\ (f = <<>> <=> n = 0)
  OBVIOUS

(* The offers are the bids, without request and flag.                      *)
LEMMA OffersMirrorBids ==
  ASSUME NEW rows \in Seq(BidRows)
  PROVE  /\ Offers(rows) \in Seq([buyer : Users, amount : Nat])
         /\ Len(Offers(rows)) = Len(rows)
         /\ \A i \in 1..Len(rows) :
               Offers(rows)[i] = [buyer |-> rows[i].user, amount |-> rows[i].amount]
         /\ Offers(rows) = <<>> <=> rows = <<>>
<1> DEFINE os == Offers(rows)
<1>1. DOMAIN rows = 1..Len(rows) /\ Len(rows) \in Nat
      /\ \A i \in 1..Len(rows) : rows[i] \in BidRows
  OBVIOUS
<1>2. /\ os \in [1..Len(rows) -> [buyer : Users, amount : Nat]]
      /\ \A i \in 1..Len(rows) :
            os[i] = [buyer |-> rows[i].user, amount |-> rows[i].amount]
  BY <1>1 DEF BidRows, Offers
<1> HIDE DEF os
<1>3. /\ os \in Seq([buyer : Users, amount : Nat]) /\ Len(os) = Len(rows)
      /\ (os = <<>> <=> Len(rows) = 0)
  BY <1>1, <1>2, SeqOfFunction
<1>4. rows = <<>> <=> Len(rows) = 0
  OBVIOUS
<1> QED BY <1>1, <1>2, <1>3, <1>4 DEF os

(* A bid that is appended is an offer that is appended.                    *)
LEMMA OffersAppend ==
  ASSUME NEW rows \in Seq(BidRows), NEW rows1 \in Seq(BidRows), Len(rows1) = Len(rows) + 1,
         \A i \in 1..Len(rows) : rows1[i].user = rows[i].user /\ rows1[i].amount = rows[i].amount
  PROVE  Offers(rows1) = Append(Offers(rows), [ buyer |-> rows1[Len(rows1)].user,
                                                amount |-> rows1[Len(rows1)].amount ])
<1> DEFINE Offer == [buyer : Users, amount : Nat]
           os == Offers(rows)
           os1 == Offers(rows1)
           n == Len(rows1)
           o == [buyer |-> rows1[n].user, amount |-> rows1[n].amount]
<1>1. /\ os \in Seq(Offer) /\ Len(os) = Len(rows)
      /\ \A i \in 1..Len(rows) :
            os[i] = [buyer |-> rows[i].user, amount |-> rows[i].amount]
  BY OffersMirrorBids
<1>2. /\ os1 \in Seq(Offer) /\ Len(os1) = n
      /\ \A i \in 1..n : os1[i] = [buyer |-> rows1[i].user, amount |-> rows1[i].amount]
  BY OffersMirrorBids
<1>3. n \in Nat /\ Len(rows) \in Nat /\ n = Len(rows) + 1
  OBVIOUS
<1>4. n \in 1..n /\ \A i \in 1..Len(rows) : i \in 1..n
  BY <1>3
<1> HIDE DEF os, os1, n, Offer
<1>5. \A i \in 1..Len(rows) : os1[i] = os[i]
  BY <1>1, <1>2, <1>4
<1>6. os1[n] = o
  BY <1>2, <1>4
<1>7. os1[n] \in Offer
  BY <1>2, <1>4
<1> HIDE DEF o
<1>8. os1 = Append(os, o)
  BY <1>1, <1>2, <1>3, <1>5, <1>6, <1>7
<1> QED BY <1>8 DEF os, os1, n, o

(* Nothing the auction knows of changes.                                   *)
LEMMA ContractStutters ==
  ASSUME UNCHANGED <<session, bids, orders, now>>
  PROVE  UNCHANGED Contract!vars
  BY DEF Contract!vars, Offers, Sale

-------------------------------------------------------------------------------
(* The steps.                                                              *)

(* A bid's COMMIT is an offer, or buys the item.                           *)
LEMMA CommitIsOffer ==
  ASSUME Inv, NEW c \in Calls, CommitBid(c), now' = now
  PROVE  \E u \in Users : Contract!Offer(u) \/ Contract!BuyOut(u)
<1>1. PICK a \in Nat :
        /\ a \in Amounts
        /\ session.status \in {"pending", "running"}
        /\ a >= MinNextBid(session.rules, session.price, session.bidCount > 0)
        /\ session.rules.cap # NoCap => a <= session.rules.cap
        /\ bids' \in Seq(BidRows) /\ Len(bids') = Len(bids) + 1
        /\ bids'[Len(bids) + 1] = [ user |-> UserOf[c], amount |-> a,
                                   request |-> RequestOf[c], winning |-> TRUE ]
        /\ \A i \in 1..Len(bids) : bids'[i].user = bids[i].user /\ bids'[i].amount = bids[i].amount
        /\ session' \in Sessions
        /\ session'.rules = session.rules /\ session'.price = a
        /\ \/ /\ session.rules.cap # NoCap /\ a = session.rules.cap
              /\ session'.status = "settled" /\ session'.winner = UserOf[c]
              /\ session'.endAt = session.endAt
              /\ orders' = {[buyer |-> UserOf[c], amount |-> a]}
           \/ /\ ~(session.rules.cap # NoCap /\ a = session.rules.cap)
              /\ session'.status = "running"
              /\ session'.endAt # NoTime
              /\ session.endAt # NoTime => session'.endAt >= session.endAt
              /\ orders' = orders
  BY CommitEffect
<1> DEFINE o == [buyer |-> UserOf[c], amount |-> a]
<1>2. /\ session \in Sessions /\ bids \in Seq(BidRows) /\ UserOf[c] \in Users
      /\ session.rules.start \in Nat /\ session.rules.increment \in Nat
      /\ session.rules.cap \in Nat \cup {NoCap}
  BY ConstantTypes DEF Inv, TypeOK, Sessions, ValidRules, Rules
<1>3. Offers(bids)' = Append(Offers(bids), o)
  <2>1. /\ bids \in Seq(BidRows) /\ bids' \in Seq(BidRows) /\ Len(bids') = Len(bids) + 1
        /\ \A i \in 1..Len(bids) : bids'[i].user = bids[i].user /\ bids'[i].amount = bids[i].amount
    BY <1>1, <1>2
  <2>2. Offers(bids') = Append(Offers(bids), [ buyer |-> bids'[Len(bids')].user,
                                              amount |-> bids'[Len(bids')].amount ])
    BY <2>1, OffersAppend
  <2>3. bids'[Len(bids')].user = UserOf[c] /\ bids'[Len(bids')].amount = a
    BY <1>1
  <2> QED BY <2>2, <2>3
<1>4. a >= Contract!Floor
  <2>1. /\ Offers(bids) = <<>> <=> bids = <<>>
        /\ Len(Offers(bids)) = Len(bids)
        /\ bids # <<>> => Offers(bids)[Len(bids)].amount = bids[Len(bids)].amount
    <3>1. /\ Offers(bids) = <<>> <=> bids = <<>>
          /\ Len(Offers(bids)) = Len(bids)
      BY <1>2, OffersMirrorBids
    <3>2. ASSUME bids # <<>>
          PROVE  Offers(bids)[Len(bids)].amount = bids[Len(bids)].amount
      <4>1. Len(bids) \in 1..Len(bids)
        BY <1>2, <3>2
      <4>2. Offers(bids)[Len(bids)] = [buyer |-> bids[Len(bids)].user, amount |-> bids[Len(bids)].amount]
        BY <1>2, <4>1, OffersMirrorBids
      <4> QED BY <4>2
    <3> QED BY <3>1, <3>2
  <2>2. /\ session.bidCount > 0 <=> bids # <<>>
        /\ bids # <<>> => session.price = bids[Len(bids)].amount
    BY <1>1, <1>2 DEF Inv, RowMatchesLedger
  <2> QED BY <1>1, <2>1, <2>2 DEF Contract!Floor, Contract!Leading, MinNextBid
<1>5. session.status \notin Terminal
  BY <1>1 DEF Terminal
<1>6. orders = {}
  BY <1>1 DEF Inv, OrderIsSale
<1>7. CASE session.rules.cap # NoCap /\ a = session.rules.cap
  <2>1. /\ session'.status = "settled" /\ session'.winner = UserOf[c] /\ session'.price = a
        /\ session'.rules = session.rules /\ session'.endAt = session.endAt
        /\ orders' = {o}
    BY <1>1, <1>7
  <2>2. Sale' = o
    BY <2>1 DEF Sale
  <2>3. (IF orders = {} THEN None ELSE CHOOSE x \in orders : TRUE)' = o
    BY <2>1
  <2>4. ~(session'.status \notin Terminal)
    BY <2>1 DEF Terminal
  <2>5. Contract!BuyOut(UserOf[c])
    <3>1. o = [buyer |-> UserOf[c], amount |-> session.rules.cap]
      BY <1>7
    <3>2. session.rules.cap # Contract!NoCap /\ session.rules.cap >= Contract!Floor
      BY <1>4, <1>7 DEF Contract!NoCap, NoCap
    <3>3. UNCHANGED <<session.rules, session.endAt, now>>
      BY <2>1
    <3> HIDE DEF o
    <3> QED BY <1>3, <1>5, <2>2, <2>3, <2>4, <3>1, <3>2, <3>3, Zenon DEF Contract!BuyOut
  <2> QED BY <1>2, <2>5
<1>8. CASE ~(session.rules.cap # NoCap /\ a = session.rules.cap)
  <2>1. /\ session'.status = "running" /\ orders' = orders /\ session'.rules = session.rules
        /\ session'.endAt # NoTime /\ (session.endAt # NoTime => session'.endAt >= session.endAt)
    BY <1>1, <1>8
  <2>2. session'.endAt >= session.endAt
    BY <1>1, <1>2, <2>1 DEF Sessions, NoTime
  <2>3. Sale = None /\ Sale' = None
    BY <1>1, <2>1 DEF Sale
  <2>4. session'.status \notin Terminal
    BY <2>1 DEF Terminal
  <2>5. session.rules.cap # NoCap => a < session.rules.cap
    BY <1>1, <1>2, <1>8 DEF NoCap
  <2>6. Contract!Offer(UserOf[c])
    <3>1. /\ a \in Amounts /\ a >= Contract!Floor
          /\ session.rules.cap # Contract!NoCap => a < session.rules.cap
          /\ session'.endAt # Contract!NoTime
      BY <1>1, <1>4, <2>1, <2>5 DEF Contract!NoCap, NoCap, Contract!NoTime, NoTime
    <3>2. (session.status \notin Terminal)' = (session.status \notin Terminal)
      BY <1>5, <2>4
    <3>3. /\ session'.rules = session.rules /\ Sale' = Sale /\ now' = now
          /\ (IF orders = {} THEN None ELSE CHOOSE x \in orders : TRUE)'
               = (IF orders = {} THEN None ELSE CHOOSE x \in orders : TRUE)
      BY <2>1, <2>3
    <3> QED BY <1>3, <1>5, <2>2, <3>1, <3>2, <3>3, Zenon DEF Contract!Offer
  <2> QED BY <1>2, <2>6
<1> QED BY <1>7, <1>8

(* The worker's hammer: nothing happens, or the leading offer is sold, and *)
(* the end has come.                                                       *)
LEMMA CloseIsSell ==
  ASSUME Inv, ReadsAreCurrent, NEW w \in Workers, CloseRow(w), now' = now
  PROVE  Contract!Sell \/ UNCHANGED Contract!vars
<1>1. pc[w] = "close" /\ session \in Sessions /\ bids \in Seq(BidRows) /\ now \in Nat
  BY DEF CloseRow, Inv, TypeOK
<1>2. /\ bids # <<>> /\ local[w].price = bids[Len(bids)].amount
      /\ local[w].winner = bids[Len(bids)].user
      /\ Running => session.endAt <= now
  BY <1>1 DEF ReadsAreCurrent
<1>3. /\ UNCHANGED <<bids, orders>>
      /\ \/ session' = session
         \/ /\ session.status = "running" /\ session'.status = "settled"
            /\ session'.rules = session.rules /\ session'.endAt = session.endAt
            /\ session' = Settled(local[w].winner, local[w].price)
  BY CloseEffect DEF Procs
<1>4. CASE session' = session
  BY <1>3, <1>4, ContractStutters
<1>5. CASE session' # session
  <2>1. /\ session.status = "running" /\ session'.status = "settled"
        /\ session'.rules = session.rules /\ session'.endAt = session.endAt
        /\ session'.winner = local[w].winner /\ session'.price = local[w].price
    BY <1>1, <1>3, <1>5 DEF Settled, Sessions
  <2>2. Len(bids) \in 1..Len(bids)
    BY <1>1, <1>2
  <2>3. /\ Offers(bids) # <<>> /\ Len(Offers(bids)) = Len(bids)
        /\ Offers(bids)[Len(bids)] = [buyer |-> local[w].winner, amount |-> local[w].price]
    BY <1>1, <1>2, <2>2, OffersMirrorBids
  <2>4. Sale' = Contract!Leading
    BY <2>1, <2>3 DEF Sale, Contract!Leading
  <2>5. session.status \notin Terminal /\ ~(session'.status \notin Terminal)
    BY <2>1 DEF Terminal
  <2>6. session.endAt <= now
    BY <1>2, <2>1 DEF Running
  <2>7. /\ Offers(bids)' = Offers(bids) /\ session'.rules = session.rules
        /\ session'.endAt = session.endAt
        /\ (IF orders = {} THEN None ELSE CHOOSE x \in orders : TRUE)'
             = (IF orders = {} THEN None ELSE CHOOSE x \in orders : TRUE)
    BY <1>3, <2>1
  <2> QED BY <2>3, <2>4, <2>5, <2>6, <2>7, Zenon DEF Contract!Sell
<1> QED BY <1>4, <1>5

(* The order is the invoice of the sale; one already there stays.          *)
LEMMA OrderIsInvoice ==
  ASSUME Inv, NEW p \in Procs, CreateOrder(p), now' = now
  PROVE  Contract!Invoice \/ UNCHANGED Contract!vars
<1>1. UNCHANGED <<session, bids>> /\ session.status = "settled"
  BY DEF CreateOrder, Inv, Closing
<1>2. CASE orders # {}
  BY <1>1, <1>2, ContractStutters DEF CreateOrder
<1>3. CASE orders = {}
  <2>1. orders' = {SettledOrder(p)}
    BY <1>3 DEF CreateOrder
  <2>2. Sale = SettledOrder(p) /\ Sale' = Sale
    BY <1>1 DEF Sale, SettledOrder
  <2>3. (IF orders = {} THEN None ELSE CHOOSE x \in orders : TRUE)' = Sale
    BY <2>1, <2>2
  <2>4. (IF orders = {} THEN None ELSE CHOOSE x \in orders : TRUE) = None
    BY <1>3
  <2>5. Sale # None
    <3>1. session.winner \in Users /\ session.price \in Nat
      BY <1>1 DEF Inv, TypeOK, Sessions, StatusColumns
    <3> QED BY <1>1, <3>1, NoneIsNoSale DEF Sale
  <2>6. UNCHANGED <<session.rules, Offers(bids), session.status \notin Terminal, session.endAt, now>>
    BY <1>1
  <2> QED BY <2>2, <2>3, <2>4, <2>5, <2>6, Zenon DEF Contract!Invoice
<1> QED BY <1>2, <1>3

(* Cancelling withdraws the item; relisting the product is not its affair. *)
LEMMA CancelIsWithdraw ==
  ASSUME Inv, NEW p \in Procs, CancelStep(p), now' = now
  PROVE  Contract!Withdraw \/ UNCHANGED Contract!vars
<1>1. session \in Sessions /\ UNCHANGED <<bids, orders>>
  BY DEF Inv, TypeOK, CancelStep, CancelSession, RelistProduct
<1>2. CASE session' = session
  BY <1>1, <1>2, ContractStutters
<1>3. CASE session' # session
  <2>1. /\ session.status \in Cancellable
        /\ session' = [session EXCEPT !.status = "cancelled"]
    BY <1>3 DEF CancelStep, CancelSession, RelistProduct
  <2>2. /\ session'.status = "cancelled" /\ session'.rules = session.rules
        /\ session'.endAt = session.endAt
    BY <1>1, <2>1 DEF Sessions
  <2>3. session.status \notin Terminal /\ ~(session'.status \notin Terminal)
    BY <2>1, <2>2 DEF Terminal, Cancellable
  <2>4. Sale' = Sale
    BY <2>1, <2>2 DEF Sale, Cancellable
  <2>5. /\ Offers(bids)' = Offers(bids) /\ session'.rules = session.rules
        /\ session'.endAt = session.endAt
        /\ (IF orders = {} THEN None ELSE CHOOSE x \in orders : TRUE)'
             = (IF orders = {} THEN None ELSE CHOOSE x \in orders : TRUE)
    BY <1>1, <2>2
  <2> QED BY <2>3, <2>4, <2>5, Zenon DEF Contract!Withdraw
<1> QED BY <1>2, <1>3

(* Only a session nobody has bid on can be edited.                         *)
LEMMA UpdateIsEdit ==
  ASSUME Inv, NEW r \in RuleChoices, UpdateRules(r)
  PROVE  Contract!Edit(r)
<1>1. session \in Sessions /\ bids \in Seq(BidRows) /\ UNCHANGED <<bids, orders, now>>
  BY DEF Inv, TypeOK, UpdateRules
<1>2. /\ session'.status = session.status /\ session'.rules = r
      /\ session'.endAt = session.endAt /\ session'.winner = session.winner
      /\ session.status = "pending" /\ session.bidCount = 0
  BY <1>1 DEF UpdateRules, Sessions
<1>3. bids = <<>>
  BY <1>1, <1>2 DEF Inv, RowMatchesLedger
<1>4. Offers(bids) = <<>> /\ Offers(bids)' = Offers(bids)
  BY <1>1, <1>3, OffersMirrorBids
<1>5. session.status \notin Terminal
      /\ (session.status \notin Terminal)' = (session.status \notin Terminal)
  BY <1>2 DEF Terminal
<1>6. Sale' = Sale
  BY <1>2 DEF Sale
<1>7. (IF orders = {} THEN None ELSE CHOOSE x \in orders : TRUE)'
        = (IF orders = {} THEN None ELSE CHOOSE x \in orders : TRUE)
  BY <1>1
<1> QED BY <1>1, <1>2, <1>4, <1>5, <1>6, <1>7, Zenon DEF Contract!Edit

(* Every step of a handler is a step of the auction, or none.              *)
LEMMA HandlerStep ==
  ASSUME Inv, LockWorks, ReadsAreCurrent, NEW p \in Procs, ProcStep(p)
  PROVE  Contract!Next \/ UNCHANGED Contract!vars
<1> USE DEF dbVars
<1>1. now' = now /\ p \notin Switches
  BY Frame DEF LockWorks
<1>2. ASSUME UNCHANGED <<session, bids, orders>>
      PROVE  UNCHANGED Contract!vars
  BY <1>1, <1>2, ContractStutters
<1>3. CASE p \in Calls /\ CallStep(p)
  <2>1. CASE CommitBid(p)
    BY <1>1, <1>3, <2>1, CommitIsOffer DEF Contract!Next
  <2>2. CASE ~CommitBid(p)
    BY <1>2, <1>3, <2>2 DEF CallStep, PlaceBid, Acquire, BeginTx, AcceptBid, RejectBid,
                            FailBid, PublishBid
  <2> QED BY <2>1, <2>2
<1>4. CASE p \in Workers /\ WorkerStep(p)
  <2>1. CASE CloseRow(p)
    BY <1>1, <1>4, <2>1, CloseIsSell DEF Contract!Next
  <2>2. CASE CreateOrder(p)
    BY <1>1, <2>2, OrderIsInvoice DEF Contract!Next
  <2>3. CASE ~CloseRow(p) /\ ~CreateOrder(p)
    BY <1>2, <1>4, <2>3 DEF WorkerStep, SettleStep, ScanExpired, RecheckExpired, Restart,
                            Acquire, ResolveWinner, MarkSold
  <2> QED BY <2>1, <2>2, <2>3
<1>5. CASE CancelStep(p)
  BY <1>1, <1>5, CancelIsWithdraw DEF Contract!Next
<1>6. CASE Abort(p) \/ Crash(p)
  BY <1>2, <1>6 DEF Abort, Crash
<1> QED BY <1>1, <1>3, <1>4, <1>5, <1>6 DEF ProcStep

(* The clock moves, or time stands still when TickSec is 0.                *)
LEMMA TickIsWait ==
  ASSUME Inv, Tick
  PROVE  Contract!Wait \/ UNCHANGED Contract!vars
<1>1. now \in Nat /\ now' = now + TickSec /\ TickSec \in Nat
      /\ UNCHANGED <<session, bids, orders>>
  BY ConstantTypes DEF Inv, TypeOK, Tick, dbVars
<1>2. CASE TickSec = 0
  BY <1>1, <1>2, ContractStutters
<1>3. CASE TickSec # 0
  <2>1. now' > now
    BY <1>1, <1>3
  <2>2. /\ Offers(bids)' = Offers(bids) /\ UNCHANGED <<session.rules, session.endAt>>
        /\ (session.status \notin Terminal)' = (session.status \notin Terminal)
        /\ (IF orders = {} THEN None ELSE CHOOSE x \in orders : TRUE)'
             = (IF orders = {} THEN None ELSE CHOOSE x \in orders : TRUE)
    BY <1>1
  <2>3. Sale' = Sale
    BY <1>1 DEF Sale
  <2> QED BY <2>1, <2>2, <2>3, Zenon DEF Contract!Wait
<1> QED BY <1>2, <1>3

-------------------------------------------------------------------------------
(* The bid path, the settlement worker, cancellation and rule edits are    *)
(* together an auction: every step is an offer within the rules, a sale of *)
(* the leading offer after the end, a withdrawal, an edit before the first *)
(* offer, the invoice of the sale, or nothing the bidders could notice.    *)
THEOREM Implementation ==
  ASSUME LockWorks
  PROVE  Spec => KeepsPromises
<1>1. Init => Contract!Init
  <2> SUFFICES ASSUME Init
               PROVE  Contract!Init
    OBVIOUS
  <2>1. PICK r \in RuleChoices : session = Fresh(r)
    BY DEF Init
  <2>2. /\ session.rules = r /\ session.status = "pending" /\ session.endAt = NoTime
        /\ bids = <<>> /\ orders = {} /\ now = 0
    BY <2>1 DEF Init, Fresh
  <2>3. Offers(bids) = <<>>
    BY <2>2, OffersMirrorBids DEF Offers
  <2> QED BY <2>2, <2>3 DEF Contract!Init, Contract!NoTime, NoTime, Sale, Terminal
<1>2. Inv /\ LockInv /\ [Next]_vars => [Contract!Next]_(Contract!vars)
  <2> SUFFICES ASSUME Inv, LockInv, [Next]_vars
               PROVE  Contract!Next \/ UNCHANGED Contract!vars
    OBVIOUS
  <2>1. ASSUME NEW r \in RuleChoices, UpdateRules(r)
        PROVE  Contract!Next
    BY <2>1, UpdateIsEdit DEF Contract!Next
  <2>2. CASE Tick
    BY <2>2, TickIsWait DEF Contract!Next
  <2>3. CASE ExpireLock \/ UNCHANGED vars
    BY <2>3, ContractStutters DEF ExpireLock, vars, dbVars
  <2> QED BY <2>1, <2>2, <2>3, HandlerStep, Steps DEF LockInv
<1> QED BY <1>1, <1>2, Invariance, LockInvariance, PTL DEF Spec, KeepsPromises, Contract!Spec
===============================================================================
