--------------------------------- MODULE Console ---------------------------------
(***************************************************************************)
(* A live room and the seller's console for it (LiveRoomConsolePage).      *)
(*                                                                         *)
(* The console keeps a copy of the room that it replaces by whatever a     *)
(* read answers.  Its actions (start, switch, emergency stop, end, quick   *)
(* create) share one busy flag; the forms that add to the queue have one   *)
(* of their own, so that their calls cross the actions'.  The two forms,   *)
(* batch and single, are one here that adds one product or more.  Buyers   *)
(* bid on any open item meanwhile, and the worker settles.                 *)
(*                                                                         *)
(* Handlers that read and later write by what they read (ending,           *)
(* switching) are two steps.  Adding is up to four: it reads, inserts the  *)
(* item, points the room at it and starts the room; it may fail after the  *)
(* insert, and takes no notice when one of the last two steps fails.       *)
(* Definitions that a comment calls mutants are plausible bugs of the ones *)
(* they precede; nothing uses them.                                        *)
(***************************************************************************)
EXTENDS Naturals, Sequences, Functions

CONSTANTS
  Shelf,       \* the seller's listed products, as the forms list them
  Fresh,       \* products that quick create may make
  MaxItems,    \* bound: items ever in the queue
  MaxBids,     \* bound: first bids and settlements
  MaxPresses,  \* bound: buttons pressed
  MaxFaults,   \* bound: requests or answers that are lost
  None

ASSUME ConsoleAssumption ==
  /\ Shelf \in Seq(Range(Shelf)) /\ Len(Shelf) >= 2 /\ IsInjective(Shelf)
  /\ Range(Shelf) \cap Fresh = {} /\ None \notin Range(Shelf) \cup Fresh
  /\ {MaxItems, MaxBids, MaxPresses, MaxFaults} \subseteq Nat

Products == Range(Shelf) \cup Fresh

VARIABLES
  live,       \* the room: idle, live or ended
  items,      \* its items, in the order they were inserted
  current,    \* current_session_id; 0 is NULL
  detail,     \* the room as the console shows it; None while it loads
  call,       \* call[b]: the request under way of the actions or of a form
  get,        \* get[g]: the read of the room under way for it or for the timer
  moves,      \* history: how often the pointer was set
  crossed,    \* history: the actions that crossed a form's handler
  stranded,   \* history: items whose handler failed to point the room at them
  misled,     \* history: was a read overtaken, or did a request fail?
  bids, presses, faults   \* bounds: how many so far

room    == <<live, items, current>>
history == <<moves, crossed, stranded, misled>>
vars    == <<room, detail, call, get, history, bids, presses, faults>>

Open    == { "pending", "running" }
Items   == [ product : Products, status : Open \cup { "settled", "cancelled" }, seq : Nat \ {0} ]

(* What the console reads of a room: its status, the current item's, and   *)
(* how many items there are in all.                                        *)
Details == [ live : { "idle", "live", "ended" }, current : Nat,
             status : Open \cup { "settled", "cancelled", "none" }, size : Nat, moves : Nat ]

Buttons == { "action", "form" }
Ops     == { "start", "switch", "stop", "end", "quick", "add" }

(* A call is sent, between two steps of its handler (half, third, fourth), *)
(* or done.  item is the one the console called current when a stop or a   *)
(* switch was pressed; todo what is to add.                                *)
NoCall == [ at |-> "idle", op |-> "add", todo |-> <<>>, item |-> 0, seen |-> None, ok |-> TRUE ]
NoGet  == [ at |-> "idle", reply |-> None ]
Between == { "half", "third", "fourth" }
SentGet == [ NoGet EXCEPT !.at = "sent" ]

Room == [ live |-> live, current |-> current,
          status |-> IF current = 0 THEN "none" ELSE items[current].status,
          size |-> Len(items), moves |-> moves ]

Fault == faults < MaxFaults /\ faults' = faults + 1

(* The console is opened on a new room, on one with an item up and another *)
(* waiting, or on one that has gone through its queue.                     *)
Item(p, s, n) == [ product |-> p, status |-> s, seq |-> n ]

Init ==
  /\ \/ live = "idle" /\ items = <<>> /\ current = 0
     \/ /\ live = "live" /\ current = 1
        /\ \E s \in Open \cup {"settled"} :
             items = << Item(Shelf[1], s, 1), Item(Shelf[2], "pending", 2) >>
     \/ /\ live = "live" /\ current = 0
        /\ items = << Item(Shelf[1], "settled", 1) >>
  /\ detail = None
  /\ call = [ b \in Buttons |-> NoCall ]
  /\ get = [ g \in Buttons \cup {"timer"} |-> IF g = "timer" THEN SentGet ELSE NoGet ]
  /\ moves = 0 /\ crossed = {} /\ stranded = {} /\ misled = FALSE
  /\ bids = 0 /\ presses = 0 /\ faults = 0

--------------------------------------------------------------------------------
(* Bidders and the worker: any open item may be bid on.                    *)

SetStatus(i, s) == items' = [ items EXCEPT ![i].status = s ]

BidOrSettle ==
  /\ bids < MaxBids /\ bids' = bids + 1
  /\ \E i \in DOMAIN items :
       \/ items[i].status = "pending" /\ SetStatus(i, "running")
       \/ items[i].status = "running" /\ SetStatus(i, "settled")
  /\ UNCHANGED <<live, current, detail, call, get, history, presses, faults>>

--------------------------------------------------------------------------------
(* The handlers (LiveRoomService)                                          *)

(* A handler's answer.                                                     *)
Answer(ok) == [ NoCall EXCEPT !.at = "done", !.ok = ok ]
Reply(b, ok) == call' = [ call EXCEPT ![b] = Answer(ok) ]
Pauses(b, at, x) == call' = [ call EXCEPT ![b].at = at, ![b].seen = x ]
Halfway(b, x) == Pauses(b, "half", x)

(* The status is written by an UPDATE that has to change it: starting a    *)
(* live room or ending one that has ended is answered with an error.       *)
Start(b) ==
  /\ Reply(b, live = "idle")
  /\ live' = IF live = "ended" THEN live ELSE "live"
  /\ UNCHANGED <<items, current, moves>>

(* The pending item after seq that comes first.  (Mutant: any of them.)    *)
NextPendingAny(seq) ==
  LET after == { i \in DOMAIN items : items[i].status = "pending" /\ items[i].seq > seq }
  IN  IF after = {} THEN 0 ELSE CHOOSE i \in after : \A j \in after : items[i].seq >= items[j].seq

NextPending(seq) ==
  LET after == { i \in DOMAIN items : items[i].status = "pending" /\ items[i].seq > seq }
  IN  IF after = {} THEN 0 ELSE CHOOSE i \in after : \A j \in after : items[i].seq <= items[j].seq

(* A switch closes whatever is current, then looks for the next item.      *)
(* (Mutant: an item nobody bid on has failed, as at the end of its time.)  *)
ClosedAsUnsold(status) ==
  CASE status = "running" -> "settled"
    [] status = "pending" -> "failed"
    [] OTHER -> status

Closed(status) ==
  CASE status = "running" -> "settled"
    [] status = "pending" -> "cancelled"
    [] OTHER -> status

CloseCurrent(b) ==
  \/ /\ live = "live" /\ current # 0
     /\ SetStatus(current, Closed(items[current].status))
     /\ Halfway(b, [ next |-> NextPending(items[current].seq) ])
     /\ UNCHANGED <<live, current, moves>>
  \/ /\ ~(live = "live" /\ current # 0)
     /\ Reply(b, FALSE)
     /\ UNCHANGED <<room, moves>>

MovePointer(b) ==
  /\ current' = call[b].seen.next
  /\ moves' = moves + 1
  /\ Reply(b, current' # current)
  /\ UNCHANGED <<live, items>>

(* The emergency stop names the item it stops.                             *)
Stop(b) ==
  LET i == call[b].item
  IN  /\ Reply(b, items[i].status \in Open)
      /\ IF items[i].status \in Open THEN SetStatus(i, "cancelled") ELSE UNCHANGED items
      /\ UNCHANGED <<live, current, moves>>

CheckEnd(b) ==
  /\ IF current # 0 /\ items[current].status \in Open
     THEN Reply(b, FALSE)
     ELSE Halfway(b, None)
  /\ UNCHANGED <<room, moves>>

End(b) ==
  /\ live' = "ended"
  /\ Reply(b, live # "ended")
  /\ UNCHANGED <<items, current, moves>>

(* A product can be added that is not sold and not in an open item.        *)
Free(p) == \A i \in DOMAIN items : items[i].product = p => items[i].status = "cancelled"

IsLast(i) == \A j \in DOMAIN items : items[j].seq <= items[i].seq
MaxSeq == IF items = <<>> THEN 0 ELSE items[CHOOSE i \in DOMAIN items : IsLast(i)].seq

CheckAdd(b) ==
  /\ IF live # "ended" /\ Free(Head(call[b].todo))
     THEN Halfway(b, [ live |-> live, current |-> current, seq |-> MaxSeq + 1 ])
     ELSE Reply(b, FALSE)
  /\ UNCHANGED <<room, moves>>

(* The item that finds the pointer empty becomes current, and starts the   *)
(* room.  A batch goes on with its next product.                           *)
TakesPointer(seen) == seen.current = 0

GoOn(b) ==
  LET rest == Tail(call[b].todo)
  IN  IF rest = <<>>
      THEN Reply(b, TRUE)
      ELSE call' = [ call EXCEPT ![b].at = "sent", ![b].todo = rest, ![b].seen = None ]

Inserted(b) ==
  /\ Len(items) < MaxItems
  /\ items' = Append(items, Item(Head(call[b].todo), "pending", call[b].seen.seq))
  /\ UNCHANGED <<live, current, moves>>

Insert(b) ==
  /\ Inserted(b)
  /\ IF TakesPointer(call[b].seen)
     THEN Pauses(b, "third", [ live |-> call[b].seen.live, item |-> Len(items) + 1 ])
     ELSE GoOn(b)

Pointed(b) == IF call[b].seen.live = "idle" THEN Pauses(b, "fourth", None) ELSE GoOn(b)

Point(b) ==
  /\ current' = call[b].seen.item
  /\ moves' = moves + 1
  /\ Pointed(b)
  /\ UNCHANGED <<live, items>>

GoLive(b) ==
  /\ live' = IF live = "ended" THEN live ELSE "live"
  /\ GoOn(b)
  /\ UNCHANGED <<items, current, moves>>

(* Quick create makes a product first, then adds it like any other.        *)
Create(b) ==
  /\ call' = [ call EXCEPT ![b].op = "add" ]
  /\ UNCHANGED <<room, moves>>

Handle(b) ==
  LET c == call[b]
  IN  \/ /\ c.at = "sent"
         /\ CASE c.op = "start"  -> Start(b)
              [] c.op = "switch" -> CloseCurrent(b)
              [] c.op = "stop"   -> Stop(b)
              [] c.op = "end"    -> CheckEnd(b)
              [] c.op = "quick"  -> Create(b)
              [] c.op = "add"    -> CheckAdd(b)
      \/ /\ c.at = "half"
         /\ CASE c.op = "switch" -> MovePointer(b)
              [] c.op = "end"    -> End(b)
              [] c.op = "add"    -> Insert(b)
      \/ c.at = "third" /\ Point(b)
      \/ c.at = "fourth" /\ GoLive(b)

(* Only the action buttons call anything but the forms' handler, and only  *)
(* three operations disturb a handler that they cross, or are disturbed.   *)
Telling == { "switch", "end", "add" }

Crosses(b) ==
  crossed' = IF \E other \in Buttons \ {b} : call[other].at \in Between
             THEN crossed \cup ({ call["action"].op } \cap Telling) ELSE crossed

Serve(b) ==
  /\ Handle(b)
  /\ Crosses(b)
  /\ UNCHANGED <<stranded, detail, get, misled, bids, presses, faults>>

(* The pointer or the start fails, and the handler goes on; or the item is *)
(* inserted, but reading it back fails, and with it the handler.           *)
Slip(b) ==
  LET c == call[b]
  IN  /\ Fault
      /\ \/ /\ c.at = "half" /\ c.op = "add"
            /\ Inserted(b) /\ Reply(b, FALSE)
            /\ stranded' = IF TakesPointer(c.seen) THEN stranded \cup { Len(items) + 1 } ELSE stranded
         \/ /\ c.at = "third"
            /\ Pointed(b)
            /\ stranded' = stranded \cup { c.seen.item }
            /\ UNCHANGED <<room, moves>>
         \/ /\ c.at = "fourth"
            /\ GoOn(b)
            /\ UNCHANGED <<room, moves, stranded>>
      /\ Crosses(b)
      /\ UNCHANGED <<detail, get, misled, bids, presses>>

(* A call gets lost before it is served, its handler breaks off, or its    *)
(* answer is lost.                                                         *)
LoseCall(b) ==
  /\ call[b].at # "idle" /\ call[b].ok
  /\ Fault
  /\ Reply(b, FALSE)
  /\ stranded' = IF call[b].at = "third" THEN stranded \cup { call[b].seen.item } ELSE stranded
  /\ UNCHANGED <<room, detail, get, moves, crossed, misled, bids, presses>>

--------------------------------------------------------------------------------
(* The console                                                             *)

(* Only what the call does is under busy.  (A mutant: not the read after.) *)
BusyCalling == call["action"].at # "idle"
Busy == call["action"].at # "idle" \/ get["action"].at # "idle"

Offers(op) ==
  CASE op = "start"  -> detail.live = "idle"
    [] op = "switch" -> detail.live = "live" /\ detail.current # 0
    [] op = "stop"   -> detail.live = "live" /\ detail.status \in Open
    [] op = "end"    -> detail.live = "live"
    [] op = "quick"  -> TRUE
    [] op = "add"    -> FALSE

Press(b, op, todo) ==
  /\ presses < MaxPresses /\ presses' = presses + 1
  /\ detail # None
  /\ call[b].at = "idle"
  /\ call' = [ call EXCEPT ![b] = [ NoCall EXCEPT !.at = "sent", !.op = op, !.todo = todo,
                                 !.item = IF op \in { "stop", "switch" } THEN detail.current ELSE 0 ] ]
  /\ UNCHANGED <<room, detail, get, history, bids, faults>>

Act(op) ==
  /\ detail # None
  /\ ~Busy
  /\ Offers(op)
  /\ IF op = "quick" THEN \E p \in Fresh : Free(p) /\ Press("action", op, <<p>>)
                     ELSE Press("action", op, <<>>)

(* The forms add listed products, one submission at a time.                *)
Submit ==
  /\ get["form"].at = "idle"
  /\ \/ \E i, j \in DOMAIN Shelf : i < j /\ Press("form", "add", <<Shelf[i], Shelf[j]>>)
     \/ \E p \in Range(Shelf) : Press("form", "add", <<p>>)

(* A call that went well is followed by a read of the room; an error only  *)
(* shows an error.                                                         *)
CallReturns(b) ==
  /\ call[b].at = "done"
  /\ call' = [ call EXCEPT ![b] = NoCall ]
  /\ get' = IF call[b].ok THEN [ get EXCEPT ![b] = SentGet ] ELSE get
  /\ misled' = (misled \/ ~call[b].ok)
  /\ UNCHANGED <<room, detail, moves, crossed, stranded, bids, presses, faults>>

(* While the page shows a live room, it is read every fifteen seconds.     *)
(* (Mutant: while an item is current.)                                     *)
PollsWithItem == detail # None /\ detail.live = "live" /\ detail.current # 0
Polls == detail # None /\ detail.live = "live"

Poll ==
  /\ Polls
  /\ get["timer"].at = "idle"
  /\ get' = [ get EXCEPT !["timer"] = SentGet ]
  /\ UNCHANGED <<room, detail, call, history, bids, presses, faults>>

ServeGet(g) ==
  /\ get[g].at = "sent"
  /\ get' = [ get EXCEPT ![g] = [ at |-> "done", reply |-> Room ] ]
  /\ UNCHANGED <<room, detail, call, history, bids, presses, faults>>

LoseGet(g) ==
  /\ get[g].at # "idle"
  /\ Fault
  /\ get' = [ get EXCEPT ![g] = [ at |-> "done", reply |-> None ] ]
  /\ UNCHANGED <<room, detail, call, history, bids, presses>>

(* Whatever a read answers is shown, also when a later one was faster.     *)
GetReturns(g) ==
  LET reply == get[g].reply
  IN  /\ get[g].at = "done"
      /\ get' = [ get EXCEPT ![g] = NoGet ]
      /\ detail' = IF reply = None THEN detail ELSE reply
      /\ misled' = (misled \/ reply = None \/ (detail # None /\ reply.moves < detail.moves))
      /\ UNCHANGED <<room, call, moves, crossed, stranded, bids, presses, faults>>

--------------------------------------------------------------------------------
Gets == Buttons \cup {"timer"}

Next ==
  \/ BidOrSettle \/ Submit \/ Poll
  \/ \E op \in Ops : Act(op)
  \/ \E b \in Buttons : Serve(b) \/ Slip(b) \/ LoseCall(b) \/ CallReturns(b)
  \/ \E g \in Gets : ServeGet(g) \/ LoseGet(g) \/ GetReturns(g)

Spec == Init /\ [][Next]_vars

(* The timer goes on, the API answers reads, answers arrive.               *)
FairSpec ==
  /\ Spec
  /\ WF_vars(Poll)
  /\ \A g \in Gets : WF_vars(ServeGet(g)) /\ WF_vars(GetReturns(g))

--------------------------------------------------------------------------------
(* Types; the pointer and the page point at items that exist.              *)
TypeOK ==
  /\ live \in { "idle", "live", "ended" }
  /\ items \in Seq(Items) /\ current \in {0} \cup DOMAIN items
  /\ detail \in Details \cup {None}
  /\ \A b \in Buttons :
       /\ call[b].at \in { "idle", "sent", "done" } \cup Between /\ call[b].op \in Ops
       /\ call[b].item \in {0} \cup DOMAIN items
  /\ \A g \in Gets : get[g].at \in { "idle", "sent", "done" } /\ get[g].reply \in Details \cup {None}
  /\ crossed \subseteq Ops /\ stranded \subseteq DOMAIN items
  /\ moves \in Nat /\ bids \in Nat /\ presses \in Nat /\ faults \in Nat

(* The switch does not say which item it ends.  It is the one the seller   *)
(* saw, unless an answer got lost or was overtaken or an adding action or  *)
(* a switch crossed the forms': the timer's reads, the forms alone and     *)
(* whatever else crosses them never make it another.                       *)
MovingCrossed == crossed \cap { "add", "switch" } # {}

SwitchEndsWhatIsShown ==
  \A b \in Buttons :
    (call[b].at = "sent" /\ call[b].op = "switch" /\ ~misled /\ ~MovingCrossed) => current = call[b].item

(* No number is given twice, and no product is up twice.                   *)
EachOnce ==
  \A i, j \in DOMAIN items :
    i # j => /\ items[i].seq # items[j].seq
             /\ {items[i].status, items[j].status} \subseteq Open => items[i].product # items[j].product

(* What waits comes after the current item, and nothing waits behind an    *)
(* empty pointer, but for an item that the room is yet to point at or that *)
(* its handler failed to.                                                  *)
Placing(i) == \E b \in Buttons : call[b].at = "third" /\ call[b].seen.item = i

InOrder ==
  \A i \in DOMAIN items \ (stranded \cup {current}) :
    (items[i].status = "pending" /\ ~Placing(i)) => current # 0 /\ items[i].seq > items[current].seq

(* The queue is sound as long as the actions that could upset it have not  *)
(* crossed the forms' handler: adding for what is doubled, adding or a     *)
(* switch for the order, the ending for a room that ended with an open     *)
(* item on show.  Bids, settlements, stops, starts and failures of any     *)
(* step cannot.                                                            *)
QueueIsSound ==
  /\ "add" \notin crossed => EachOnce
  /\ ~MovingCrossed => InOrder
  /\ ("end" \notin crossed /\ live = "ended" /\ current # 0) => items[current].status \notin Open

(* A console that shows a live room comes to show it as it is, for good,   *)
(* however reads overtook each other and whatever got lost.                *)
ConsoleCatchesUp ==
  <>[]( (detail # None /\ detail.live = "live") => detail = Room )
================================================================================
