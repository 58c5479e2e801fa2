---------------------------- MODULE AuctionSession ----------------------------
(***************************************************************************)
(* One auction session from publication to its order: the rows of          *)
(* auction_sessions, bids, products and orders that belong to it, the      *)
(* Redis session lock, and the four kinds of activity that race on them:   *)
(*                                                                         *)
(*   Calls     BidService.PlaceBid invocations (REST or WebSocket)         *)
(*   Workers   the settlement worker loop of each API instance             *)
(*   Switches  LiveRoomService.EndCurrentAndSwitch invocations             *)
(*   Cancels   AuctionService.Cancel invocations                           *)
(*                                                                         *)
(* A step is one database statement or one Redis command, except that the  *)
(* statements of the bid transaction between SELECT ... FOR UPDATE and     *)
(* COMMIT are two steps (evaluate, commit): the row lock taken by the      *)
(* first keeps every other writer of the row out until the second.         *)
(***************************************************************************)
EXTENDS AuctionRules, Sequences, FiniteSets

CONSTANTS
  Calls, Workers, Switches, Cancels,   \* the processes, see above
  Users, Requests,    \* buyers, and the requestId values clients generate
  UserOf, RequestOf,  \* who makes a call, and with which requestId
  RuleChoices,        \* the rules the anchor may publish or edit
  Amounts,            \* the amounts buyers offer
  LockKind,           \* "redis" (SETNX, 5 s TTL) or "noop" (NoopLocker)
  SlowHolders,        \* may a live holder keep the lock longer than its TTL?
  MaxFaults,          \* bound: how many aborts and crashes may happen
  TickSec, MaxTime,   \* bound: the clock moves by TickSec up to MaxTime
  None                \* SQL NULL, a free lock, no transaction

Procs   == Calls \cup Workers \cup Switches \cup Cancels

ASSUME ProcsDisjoint ==
  /\ Calls \cap (Workers \cup Switches \cup Cancels) = {}
  /\ Workers \cap (Switches \cup Cancels) = {}
  /\ Switches \cap Cancels = {}

ASSUME ConstantTypes ==
  /\ UserOf \in [Calls -> Users] /\ RequestOf \in [Calls -> Requests]
  /\ RuleChoices \subseteq ValidRules /\ Amounts \subseteq Nat
  /\ LockKind \in {"redis", "noop"} /\ SlowHolders \in BOOLEAN
  /\ MaxFaults \in Nat /\ TickSec \in Nat /\ MaxTime \in Nat
  /\ None \notin Users \cup Procs

VARIABLES
  session,   \* the auction_sessions row (started_at is not modelled)
  bids,      \* the bids rows of the session, indexed by seq
  product,   \* products.status of the session's product
  orders,    \* the orders rows of the session
  lock,      \* zhibo:lock:session:{id}: the holder, or None
  rowLock,   \* the call whose transaction holds the session row, or None
  now,       \* wall clock
  pc,        \* what each process does next
  local,     \* what each process has read so far, see Locals
  faults     \* bound: aborts and crashes so far

dbVars == <<session, bids, product, orders>>
vars   == <<dbVars, lock, rowLock, now, pc, local, faults>>

Fresh(r) ==
  [ status |-> "pending", rules |-> r, price |-> r.start, bidCount |-> 0,
    participants |-> 0, winner |-> None, version |-> 0, endAt |-> NoTime ]

(* The local variables of a handler.  A call: the number of bids in its    *)
(* transaction's snapshot, the row it locked, what EvaluateBid returned.   *)
(* A closer: the `now` of the worker's tick, the winner and price it read. *)
NoLocals ==
  [seen |-> 0, row |-> None, out |-> None, tick |-> 0, winner |-> None, price |-> 0]

Start(p) ==
  IF p \in Calls THEN "lookup" ELSE IF p \in Workers THEN "scan"
  ELSE IF p \in Switches THEN "current" ELSE "cancel"

Init ==
  /\ \E r \in RuleChoices : session = Fresh(r)
  /\ bids = <<>> /\ product = "listed" /\ orders = {}
  /\ lock = None /\ rowLock = None /\ now = 0
  /\ pc = [p \in Procs |-> Start(p)]
  /\ local = [p \in Procs |-> NoLocals]
  /\ faults = 0

-------------------------------------------------------------------------------
(* Control flow of a process, and the session lock.  Definitions that a    *)
(* comment calls mutants are plausible bugs of the definition they precede;*)
(* nothing uses them, they only show that the properties notice.           *)

(* A handler returns; a worker waits for its next tick.  (Mutant: the      *)
(* worker's loop ends with its first pass.)                                *)
RestForever(p) == "done"

Rest(p) == IF p \in Workers THEN "scan" ELSE "done"

Goto(p, label) == pc' = [pc EXCEPT ![p] = label]

(* The deferred release script: DEL only while the key holds our token.    *)
(* (Mutant: DEL whatever it holds.)                                        *)
ReleaseAny(p) == lock' = None

Release(p) == lock' = IF lock = p THEN None ELSE lock

(* Return from the handler, through the deferred release and rollback.     *)
Finish(p) ==
  /\ Goto(p, Rest(p))
  /\ local' = [local EXCEPT ![p] = NoLocals]
  /\ Release(p)
  /\ rowLock' = IF rowLock = p THEN None ELSE rowLock

(* WithSessionLock: SETNX succeeds, or the caller gets ErrSessionLockBusy. *)
Acquire(p) ==
  /\ pc[p] = "acquire"
  /\ \/ /\ LockKind = "noop" \/ lock = None
        /\ lock' = IF LockKind = "noop" THEN lock ELSE p
        /\ Goto(p, IF p \in Calls THEN "begin" ELSE "recheck")
        /\ UNCHANGED <<rowLock, local>>
     \/ /\ LockKind = "redis" /\ lock # None
        /\ Finish(p)
  /\ UNCHANGED <<dbVars, now, faults>>

(* The key's TTL: five seconds after SETNX, whatever its holder is doing.  *)
TTLOver == SlowHolders \/ pc[lock] = "dead"

ExpireLock ==
  /\ lock # None /\ TTLOver
  /\ lock' = None
  /\ UNCHANGED <<dbVars, rowLock, now, pc, local, faults>>

(* The row lock of SELECT ... FOR UPDATE, which every other writer of the  *)
(* row waits for.                                                          *)
RowFree == rowLock = None

-------------------------------------------------------------------------------
(* PlaceBid.                                                               *)

RequestKnown(c, n) == \E i \in 1..n : bids[i].request = RequestOf[c]

(* The idempotency read outside the lock.                                  *)
PlaceBid(c) ==
  /\ pc[c] = "lookup"
  /\ Goto(c, IF RequestKnown(c, Len(bids)) THEN "done" ELSE "acquire")
  /\ UNCHANGED <<dbVars, lock, rowLock, now, local, faults>>

(* BEGIN and the second idempotency read, which fixes the REPEATABLE READ  *)
(* snapshot that the transaction's other plain reads will see.             *)
BeginTx(c) ==
  /\ pc[c] = "begin"
  /\ IF RequestKnown(c, Len(bids))
     THEN Finish(c)
     ELSE /\ local' = [local EXCEPT ![c].seen = Len(bids)]
          /\ Goto(c, "evaluate")
          /\ UNCHANGED <<lock, rowLock>>
  /\ UNCHANGED <<dbVars, now, faults>>

(* SELECT ... FOR UPDATE waits for the row, then EvaluateBid accepts.      *)
AcceptBid(c) ==
  /\ pc[c] = "evaluate"
  /\ RowFree
  /\ \E amount \in Amounts :
        /\ BidAcceptable(session, amount, now)
        /\ local' = [local EXCEPT ![c].row = session,
                                  ![c].out = BidOutcome(session, amount, now)]
  /\ rowLock' = c
  /\ Goto(c, "commit")
  /\ UNCHANGED <<dbVars, lock, now, faults>>

(* ... or it refuses, and the handler returns the error.                   *)
RejectBid(c) ==
  /\ pc[c] = "evaluate"
  /\ RowFree
  /\ \E amount \in Amounts : ~BidAcceptable(session, amount, now)
  /\ Finish(c)
  /\ UNCHANGED <<dbVars, now, faults>>

(* BidRepo.Create: clear the flag of the previous winner, insert the bid.  *)
(* (Mutant: the flag is not cleared.)                                      *)
InsertBidOnly(rows, bid) == Append(rows, bid)

InsertBid(rows, bid) ==
  Append([i \in DOMAIN rows |-> [rows[i] EXCEPT !.winning = FALSE]], bid)

(* UserHasBid, in the transaction's snapshot.  (Mutant: it only looks at   *)
(* the latest bid.)                                                        *)
HadLastBid(c) == local[c].seen # 0 /\ bids[local[c].seen].user = UserOf[c]

HadBid(c) == \E i \in 1..local[c].seen : bids[i].user = UserOf[c]

(* SessionRepo.ApplyBid: every running column, from the row that was read. *)
ApplyBid(c) ==
  LET row == local[c].row  out == local[c].out
  IN  [ session EXCEPT !.status = out.status, !.price = out.accepted,
                       !.bidCount = row.bidCount + 1,
                       !.participants = row.participants + (IF HadBid(c) THEN 0 ELSE 1),
                       !.version = session.version + 1, !.endAt = out.endAt ]

(* SessionRepo.MarkSettledTx and MarkSettled write the same columns; the   *)
(* counters, version and end_at keep what the previous bid left there.     *)
(* (Mutant: the price is not written either.)                              *)
SettledAtOldPrice(winner, price) ==
  [session EXCEPT !.status = "settled", !.winner = winner]

Settled(winner, price) ==
  [session EXCEPT !.status = "settled", !.winner = winner, !.price = price]

(* What the statements of the transaction require of the rows they touch:  *)
(* uk_session_request, the optimistic lock, the status test of the settle, *)
(* and uk_session of orders.  (Mutant: no unique key on the request.)      *)
StatementsSucceedTwice(c) ==
  IF local[c].out.settled
  THEN session.status \in {"pending", "running"} /\ orders = {}
  ELSE session.version = local[c].row.version

StatementsSucceed(c) ==
  /\ ~RequestKnown(c, Len(bids))
  /\ IF local[c].out.settled
     THEN session.status \in {"pending", "running"} /\ orders = {}
     ELSE session.version = local[c].row.version

CommitBid(c) ==
  LET out == local[c].out
  IN  /\ pc[c] = "commit"
      /\ StatementsSucceed(c)
      /\ bids' = InsertBid(bids, [ user |-> UserOf[c], amount |-> out.accepted,
                                   request |-> RequestOf[c], winning |-> TRUE ])
      /\ session' = IF out.settled THEN Settled(UserOf[c], out.accepted) ELSE ApplyBid(c)
      /\ product' = IF out.settled THEN "sold"
                    ELSE IF local[c].row.status = "pending" THEN "auctioning" ELSE product
      /\ orders' = IF out.settled THEN {[buyer |-> UserOf[c], amount |-> out.accepted]}
                   ELSE orders
      /\ rowLock' = None
      /\ Goto(c, "publish")
      /\ UNCHANGED <<lock, now, local, faults>>

(* A statement fails: the deferred rollback undoes the transaction.        *)
FailBid(c) ==
  /\ pc[c] = "commit"
  /\ ~StatementsSucceed(c)
  /\ Finish(c)
  /\ UNCHANGED <<dbVars, now, faults>>

(* After COMMIT, still under the lock: re-read, write the cache, notify.   *)
PublishBid(c) ==
  /\ pc[c] = "publish"
  /\ Finish(c)
  /\ UNCHANGED <<dbVars, now, faults>>

-------------------------------------------------------------------------------
(* Settlement: the worker's tick, and the anchor ending the current item.  *)

Running == session.status = "running"

(* The worker's condition.  (Mutant: it does not look at the clock.)       *)
StartedRunning(t) == Running /\ session.endAt # NoTime

Expired(t) == Running /\ session.endAt # NoTime /\ session.endAt <= t

(* ListExpiredRunning; the tick's own `now` is reused in the re-check.     *)
ScanExpired(w) ==
  /\ pc[w] = "scan"
  /\ Expired(now)
  /\ local' = [local EXCEPT ![w].tick = now]
  /\ Goto(w, "acquire")
  /\ UNCHANGED <<dbVars, lock, rowLock, now, faults>>

(* A closer read a running session: it knows the price, and asks for the   *)
(* winner unless there are no bids, in which case it will mark it failed.  *)
ReadRunning(p) ==
  /\ local' = [local EXCEPT ![p].price = session.price]
  /\ Goto(p, IF session.bidCount = 0 THEN "close" ELSE "winner")

(* settleExpiredSession re-reads the session under the lock.               *)
RecheckExpired(w) ==
  /\ pc[w] = "recheck"
  /\ IF Expired(local[w].tick)
     THEN ReadRunning(w) /\ UNCHANGED <<lock, rowLock>>
     ELSE Finish(w)
  /\ UNCHANGED <<dbVars, now, faults>>

(* EndCurrentAndSwitch reads the current session, holding no lock.         *)
ReadCurrent(s) ==
  /\ pc[s] = "current"
  /\ IF Running
     THEN ReadRunning(s)
     ELSE /\ Goto(s, IF session.status = "pending" THEN "cancel" ELSE "done")
          /\ UNCHANGED local
  /\ UNCHANGED <<dbVars, lock, rowLock, now, faults>>

(* resolveWinner: the user of a bid flagged is_winning (LIMIT 1), else of  *)
(* a highest bid, else nobody.                                             *)
WinnerChoices ==
  LET flagged == {i \in DOMAIN bids : bids[i].winning}
      top == {i \in DOMAIN bids : \A j \in DOMAIN bids : bids[j].amount <= bids[i].amount}
  IN  IF bids = <<>> THEN {None}
      ELSE {bids[i].user : i \in IF flagged # {} THEN flagged ELSE top}

ResolveWinner(p) ==
  /\ pc[p] = "winner"
  /\ \E u \in WinnerChoices :
        /\ local' = [local EXCEPT ![p].winner = u]
        /\ Goto(p, IF p \in Workers THEN "close" ELSE IF u = None THEN "done" ELSE "acquire")
  /\ UNCHANGED <<dbVars, lock, rowLock, now, faults>>

(* CompleteSettlement re-reads the status, not the price or the winner.    *)
RecheckStatus(s) ==
  /\ pc[s] = "recheck"
  /\ IF session.status \in {"running", "settled"}
     THEN /\ Goto(s, IF Running THEN "close" ELSE "order")
          /\ UNCHANGED <<lock, rowLock, local>>
     ELSE Finish(s)
  /\ UNCHANGED <<dbVars, now, faults>>

(* MarkSettled, or MarkFailed without a winner.  Both are one UPDATE ...   *)
(* WHERE status = 'running', which waits for the row and may match nothing.*)
CloseRow(p) ==
  LET sold == local[p].winner # None
  IN  /\ pc[p] = "close"
      /\ RowFree
      /\ session' = IF ~Running THEN session
                    ELSE IF sold THEN Settled(local[p].winner, local[p].price)
                    ELSE [session EXCEPT !.status = "failed"]
      /\ IF Running /\ sold
         THEN Goto(p, "sold") /\ UNCHANGED <<lock, rowLock, local>>
         ELSE Finish(p)
      /\ UNCHANGED <<bids, product, orders, now, faults>>

(* The error of this UPDATE is ignored: the order is created all the same. *)
(* (Mutant: it returns after the update.)                                  *)
MarkSoldAndReturn(p) ==
  /\ pc[p] = "sold"
  /\ product' = "sold"
  /\ Finish(p)
  /\ UNCHANGED <<session, bids, orders, now, faults>>

MarkSold(p) ==
  /\ pc[p] = "sold"
  /\ \/ product' = "sold" /\ UNCHANGED faults
     \/ faults < MaxFaults /\ faults' = faults + 1 /\ UNCHANGED product
  /\ Goto(p, "order")
  /\ UNCHANGED <<session, bids, orders, lock, rowLock, now, local>>

(* CreateFromSettledSession, from the settled row; an order already there  *)
(* is returned as it is.  (Mutant: from what the closer had read.)         *)
ClaimedOrder(p) == [buyer |-> local[p].winner, amount |-> local[p].price]

SettledOrder(p) == [buyer |-> session.winner, amount |-> session.price]

CreateOrder(p) ==
  /\ pc[p] = "order"
  /\ orders' = IF orders # {} THEN orders ELSE {SettledOrder(p)}
  /\ Finish(p)
  /\ UNCHANGED <<session, bids, product, now, faults>>

-------------------------------------------------------------------------------
(* The anchor: cancel and edit.  Neither takes the session lock.           *)

(* Cancel: UPDATE ... WHERE status IN ('pending','running').               *)
CancelSession(p) ==
  /\ pc[p] = "cancel"
  /\ RowFree
  /\ IF session.status \in Cancellable
     THEN session' = [session EXCEPT !.status = "cancelled"] /\ Goto(p, "relist")
     ELSE UNCHANGED session /\ Goto(p, "done")
  /\ UNCHANGED <<bids, product, orders, lock, rowLock, now, local, faults>>

(* Cancel's second half: the product goes back from auctioning to listed.  *)
RelistProduct(p) ==
  /\ pc[p] = "relist"
  /\ product' = IF product = "auctioning" THEN "listed" ELSE product
  /\ Goto(p, "done")
  /\ UNCHANGED <<session, bids, orders, lock, rowLock, now, local, faults>>

(* UpdateRules: UPDATE ... WHERE status = 'pending' AND bid_count = 0.     *)
UpdateRules(r) ==
  /\ RowFree
  /\ session.status = "pending" /\ session.bidCount = 0
  /\ session' = [session EXCEPT !.rules = r, !.price = r.start]
  /\ UNCHANGED <<bids, product, orders, lock, rowLock, now, pc, local, faults>>

-------------------------------------------------------------------------------
(* Time and faults.                                                        *)

Tick ==
  /\ now + TickSec <= MaxTime
  /\ now' = now + TickSec
  /\ UNCHANGED <<dbVars, lock, rowLock, pc, local, faults>>

Busy(p) == pc[p] \notin {Start(p), "done", "dead"}

(* A database error or a cancelled request context: the handler returns,   *)
(* the transaction rolls back, the lock is released.                       *)
Abort(p) ==
  /\ Busy(p) /\ faults < MaxFaults
  /\ faults' = faults + 1
  /\ Finish(p)
  /\ UNCHANGED <<dbVars, now>>

(* The API instance dies: MySQL rolls back, the lock key stays behind.     *)
Crash(p) ==
  /\ Busy(p) /\ faults < MaxFaults
  /\ faults' = faults + 1
  /\ Goto(p, "dead")
  /\ local' = [local EXCEPT ![p] = NoLocals]
  /\ rowLock' = IF rowLock = p THEN None ELSE rowLock
  /\ UNCHANGED <<dbVars, lock, now>>

(* The instance comes back with a new worker loop and a new lock token.    *)
Restart(w) ==
  /\ pc[w] = "dead" /\ lock # w
  /\ Goto(w, "scan")
  /\ UNCHANGED <<dbVars, lock, rowLock, now, local, faults>>

-------------------------------------------------------------------------------
CallStep(c) ==
  \/ PlaceBid(c) \/ Acquire(c) \/ BeginTx(c) \/ AcceptBid(c) \/ RejectBid(c)
  \/ CommitBid(c) \/ FailBid(c) \/ PublishBid(c)

SettleStep(p) ==
  \/ Acquire(p) \/ ResolveWinner(p) \/ CloseRow(p) \/ MarkSold(p) \/ CreateOrder(p)

WorkerStep(w) == ScanExpired(w) \/ RecheckExpired(w) \/ SettleStep(w) \/ Restart(w)

CancelStep(p) == CancelSession(p) \/ RelistProduct(p)

SwitchStep(s) == ReadCurrent(s) \/ RecheckStatus(s) \/ SettleStep(s) \/ CancelStep(s)

(* The calls are used up and the clock has reached its bound.              *)
Terminated ==
  /\ now + TickSec > MaxTime
  /\ \A p \in Procs : ~Busy(p)
  /\ UNCHANGED vars

Next ==
  \/ \E c \in Calls : CallStep(c)
  \/ \E w \in Workers : WorkerStep(w)
  \/ \E s \in Switches : SwitchStep(s)
  \/ \E x \in Cancels : CancelStep(x)
  \/ \E p \in Procs : Abort(p) \/ Crash(p)
  \/ \E r \in RuleChoices : UpdateRules(r)
  \/ ExpireLock
  \/ Tick
  \/ Terminated

Spec == Init /\ [][Next]_vars

(* The scheduler runs every handler that has something to do, the ticker   *)
(* of every live worker keeps firing, and an abandoned lock key expires.   *)
(* A client need not call, the anchor need not act.                        *)
Fairness ==
  /\ \A c \in Calls : WF_vars(pc[c] # "lookup" /\ CallStep(c))
  /\ \A w \in Workers : WF_vars(WorkerStep(w))
  /\ \A s \in Switches : WF_vars(pc[s] # "current" /\ SwitchStep(s))
  /\ \A x \in Cancels : WF_vars(RelistProduct(x))
  /\ WF_vars(ExpireLock)

FairSpec == Spec /\ Fairness
-------------------------------------------------------------------------------
(* What is claimed of all this.                                            *)

BidRows == [user : Users, amount : Nat, request : Requests, winning : BOOLEAN]

Sessions ==
  [ status : Statuses, rules : ValidRules, price : Nat, bidCount : Nat,
    participants : Nat, winner : Users \cup {None}, version : Nat,
    endAt : Nat \cup {NoTime} ]

Outcomes == [accepted : Nat, settled : BOOLEAN, status : Statuses, endAt : Nat \cup {NoTime}]

Locals ==
  [ seen : Nat, row : Sessions \cup {None}, out : Outcomes \cup {None},
    tick : Nat, winner : Users \cup {None}, price : Nat ]

Labels == { "lookup", "acquire", "begin", "evaluate", "commit", "publish", "scan",
            "recheck", "winner", "close", "sold", "order", "current", "cancel",
            "relist", "done", "dead" }

(* The rows, the locks and the processes' locals stay in their domains.    *)
TypeOK ==
  /\ session \in Sessions
  /\ bids \in Seq(BidRows)
  /\ product \in {"listed", "auctioning", "sold"}
  /\ orders \subseteq [buyer : Users, amount : Nat]
  /\ lock \in Procs \cup {None} /\ rowLock \in Calls \cup {None}
  /\ now \in Nat /\ faults \in Nat
  /\ pc \in [Procs -> Labels]
  /\ local \in [Procs -> Locals]

(* The committed bids respect the rules in force at the end: they start at *)
(* the starting price, each later one is at least an increment higher than *)
(* every earlier one, none is above the cap, and one at the cap has closed *)
(* the session.  No edit of the rules or interleaving of transactions may  *)
(* break this, with or without the Redis lock.                             *)
LedgerObeysRules ==
  LET r == session.rules
  IN  /\ \A i \in DOMAIN bids : bids[i].amount >= r.start
      /\ \A i, j \in DOMAIN bids : i < j => bids[j].amount >= bids[i].amount + r.increment
      /\ r.cap # NoCap => \A i \in DOMAIN bids :
            bids[i].amount <= r.cap /\ (bids[i].amount = r.cap => session.status = "settled")

(* Until it is settled, the session row tells what the bids table tells:   *)
(* bid_count is the number of bids and current_price the last one.  A      *)
(* running session has a bid and the last bid alone is flagged is_winning, *)
(* so the branches of the worker and of EndCurrentAndSwitch that give up   *)
(* on a session without bids or winner never mark it failed.               *)
RowMatchesLedger ==
  /\ session.status # "settled" =>
       /\ session.bidCount = Len(bids)
       /\ bids # <<>> => session.price = bids[Len(bids)].amount
  /\ Running => bids # <<>> /\ session.endAt # NoTime
  /\ session.status # "failed"
  /\ \A i \in DOMAIN bids : bids[i].winning <=> i = Len(bids)

(* participant_count counts the distinct bidders until the session is      *)
(* settled: no bidder is counted twice because a transaction decided       *)
(* `hadBid` from an old snapshot.  This needs the session lock.            *)
ParticipantsExact ==
  session.status # "settled" =>
    session.participants = Cardinality({bids[i].user : i \in DOMAIN bids})

(* A requestId buys at most one bid, however often and however             *)
(* concurrently the client sends it.                                       *)
OneBidPerRequest ==
  \A i, j \in DOMAIN bids : bids[i].request = bids[j].request => i = j

(* Between its SELECT ... FOR UPDATE and its COMMIT a bid transaction owns *)
(* the row: nobody else is in there, and what it read is still the row.    *)
(* So the optimistic lock of ApplyBid never refuses.                       *)
ReadRowIsCurrent ==
  \A c \in Calls : pc[c] = "commit" => rowLock = c /\ local[c].row = session

(* There is no order without a sale, and the order charges the buyer and   *)
(* the amount that the settled session shows, whoever created it.          *)
OrderIsSale ==
  \A o \in orders : /\ session.status = "settled"
                    /\ o.buyer = session.winner /\ o.amount = session.price

(* A settled session was won by the leading bid, at that bid's amount.     *)
SaleIsLeadingBid ==
  session.status = "settled" =>
    /\ bids # <<>>
    /\ session.winner = bids[Len(bids)].user
    /\ session.price = bids[Len(bids)].amount

(* A settled or cancelled session is closed for good: its row never        *)
(* changes again and no bid is added, whatever was in flight.              *)
ClosedIsFinal ==
  [][session.status \in Terminal => UNCHANGED <<session, bids>>]_vars

(* The end of a running session only moves away from the bidders.          *)
EndNeverEarlier ==
  [][session.endAt # NoTime => session'.endAt >= session.endAt]_vars

(* A session whose countdown is over does not stay in that state: it is    *)
(* settled or cancelled, or a bid that was already in flight extends it.   *)
ExpiredGetsSettled == Expired(now) ~> ~Expired(now)

(* A settled session gets its order and its product is marked sold, unless *)
(* a handler is aborted or an instance dies.                               *)
SettledGetsOrderOrFails ==
  session.status = "settled" ~> (orders # {} /\ product = "sold") \/ faults # 0

-------------------------------------------------------------------------------
(* Why the invariants hold, lock or no lock.                               *)

(* A transaction about to commit evaluated the row as it still is.         *)
Committing ==
  \A c \in Calls : pc[c] = "commit" =>
    /\ rowLock = c /\ local[c].row = session
    /\ \E amount \in Amounts, t \in 0..now :
          /\ BidAcceptable(session, amount, t)
          /\ local[c].out = BidOutcome(session, amount, t)

(* A closer has found a bid before it asks for the winner, has a winner    *)
(* before it closes, and has closed before it creates the order.           *)
Closing ==
  \A p \in Procs :
    /\ pc[p] = "winner" => bids # <<>>
    /\ pc[p] = "close" => local[p].winner # None
    /\ p \in Switches /\ pc[p] \in {"acquire", "recheck"} => local[p].winner # None
    /\ pc[p] \in {"sold", "order"} => session.status = "settled"

(* The countdown starts with the first bid; a sale has a winner.           *)
StatusColumns ==
  /\ session.status = "pending" => session.endAt = NoTime
  /\ session.status = "settled" => session.winner # None

(* The inductive invariant.                                                *)
Inv ==
  /\ TypeOK /\ Committing /\ Closing /\ StatusColumns
  /\ RowMatchesLedger /\ LedgerObeysRules /\ OneBidPerRequest /\ OrderIsSale

-------------------------------------------------------------------------------
(* Why a sale is the leading bid: a lock that works, and only closers that *)
(* read the winner and the price while they hold it.                       *)
LockWorks == LockKind = "redis" /\ ~SlowHolders /\ Switches = {}

(* The labels between Acquire and Finish.                                  *)
Critical == {"begin", "evaluate", "commit", "publish",
             "recheck", "winner", "close", "sold", "order"}

HoldersHold == \A p \in Procs : pc[p] \in Critical => lock = p

(* A bid's snapshot is still the ledger; a worker has read the leading bid.*)
ReadsAreCurrent ==
  /\ \A p \in Procs : local[p].tick <= now
  /\ \A c \in Calls : pc[c] \in {"evaluate", "commit"} => local[c].seen = Len(bids)
  /\ \A w \in Workers :
       /\ pc[w] \in {"winner", "close"} =>
            /\ bids # <<>>
            /\ local[w].price = bids[Len(bids)].amount
            /\ Running => session.endAt <= now
       /\ pc[w] = "close" => local[w].winner = bids[Len(bids)].user

LockInv == HoldersHold /\ ReadsAreCurrent /\ SaleIsLeadingBid /\ ParticipantsExact
===============================================================================
