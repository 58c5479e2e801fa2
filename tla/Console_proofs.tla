---------------------------- MODULE Console_proofs ----------------------------
(***************************************************************************)
(* Proofs about Console, for any queue and any number of bids, presses and *)
(* faults: a switch ends the item the seller saw, and the queue is sound.  *)
(*                                                                         *)
(* The pointer leaves an item only by a switch, which is one of the        *)
(* console's actions, and the console is busy until a read that began      *)
(* after it has answered.  Until then what it shows may be behind          *)
(* (CatchingUp); from then on it tells the current item, or none while one *)
(* may have come up since, and whatever an older read has still to answer  *)
(* is seen to be older by the count of moves (Behind).                     *)
(*                                                                         *)
(* The queue is sound because what a handler found in its first step still *)
(* holds at its later ones: bids and settlements only close items          *)
(* (Milder), and whatever else could undo it has crossed the handler.      *)
(***************************************************************************)
EXTENDS Console, WellFoundedInduction, TLAPS

CallFields == { "at", "op", "todo", "item", "seen", "ok" }

IsCall(c) ==
  /\ c = [ f \in CallFields |-> c[f] ]
  /\ c.at \in { "idle", "sent", "done" } \cup Between /\ c.op \in Ops
  /\ c.at = "half" => c.op \in Telling
  /\ c.at \in { "third", "fourth" } => c.op = "add"

(* The forms only add; an action is not pressed while another one is under *)
(* way or read after; nothing is pressed before the room is shown.         *)
ConsoleTypes ==
  /\ moves \in Nat
  /\ call = [ b \in Buttons |-> call[b] ] /\ \A b \in Buttons : IsCall(call[b])
  /\ get = [ g \in Gets |-> get[g] ]
  /\ \A g \in Gets : get[g] = [ at |-> get[g].at, reply |-> get[g].reply ]
  /\ call["form"].op = "add"
  /\ call["action"].at # "idle" => get["action"].at = "idle"
  /\ detail = None => \A b \in Buttons : call[b].at = "idle"

(* A reading tells the current item, or that there was none.               *)
Tells(r) == r.current \in { 0, current }

(* A reading counts the moves there were.                                  *)
Counts(r) == r.moves \in Nat /\ r.moves <= moves /\ (r.moves = moves => r.current = current)

Answers(g) == get[g].at = "done" /\ get[g].reply # None

Readings ==
  /\ detail # None => Counts(detail)
  /\ \A g \in Gets : Answers(g) => Counts(get[g].reply)
  /\ detail = None => \A g \in Gets : Answers(g) => Tells(get[g].reply)

(* All answers that do not tell the item are older than this reading.      *)
Behind(r) == \A g \in Gets : Answers(g) => Tells(get[g].reply) \/ get[g].reply.moves < r.moves

(* The pointer may have been moved, and the read after it is to answer.    *)
CatchingUp == call["action"].at = "done" \/ get["action"].at # "idle"

InStep ==
  /\ detail # None /\ ~CatchingUp => Tells(detail) /\ Behind(detail)
  /\ Answers("action") => Tells(get["action"].reply) /\ Behind(get["action"].reply)
  /\ \A b \in Buttons :
       call[b].at = "sent" /\ call[b].op = "switch" => call[b].item = current /\ current # 0

(* What adding has read of the pointer is what it is; an item that is yet  *)
(* to be current has found the pointer empty.                              *)
Found(c) ==
  /\ c.at = "half" /\ c.op = "add" => c.seen.current = current
  /\ c.at = "third" => current = 0

SwitchInv ==
  /\ ConsoleTypes /\ Readings
  /\ ~MovingCrossed => \A b \in Buttons : Found(call[b])
  /\ ~misled /\ ~MovingCrossed => InStep

LEMMA CallsAndGets ==
  /\ Buttons = { "action", "form" } /\ Gets = { "action", "form", "timer" }
BY DEF Buttons, Gets

LEMMA NoCallIs ==
  /\ IsCall(NoCall) /\ NoCall.at = "idle" /\ NoCall.op = "add"
BY DEF IsCall, NoCall, CallFields, Ops

LEMMA RoomReads ==
  ASSUME ConsoleTypes
  PROVE  Counts(Room) /\ Tells(Room) /\ Room.moves = moves
BY DEF ConsoleTypes, Counts, Tells, Room

LEMMA InitInv ==
  ASSUME Init
  PROVE  SwitchInv
<1>1. /\ detail = None /\ moves = 0
      /\ call = [ b \in Buttons |-> NoCall ]
      /\ get = [ g \in Gets |-> IF g = "timer" THEN SentGet ELSE NoGet ]
  BY DEF Init, Gets
<1>2. /\ SentGet = [ at |-> "sent", reply |-> None ] /\ NoGet = [ at |-> "idle", reply |-> None ]
  BY DEF SentGet, NoGet
<1>3. ConsoleTypes
  BY <1>1, <1>2, NoCallIs, CallsAndGets DEF ConsoleTypes
<1>4. \A g \in Gets : ~Answers(g)
  BY <1>1, <1>2 DEF Answers
<1>5. \A b \in Buttons : call[b].at = "idle"
  BY <1>1, NoCallIs
<1>6. Readings /\ InStep /\ \A b \in Buttons : Found(call[b])
  BY <1>1, <1>4, <1>5, CallsAndGets DEF Readings, InStep, Found
<1> QED BY <1>3, <1>6 DEF SwitchInv

--------------------------------------------------------------------------------
(* The handlers                                                            *)

LEMMA CrossedGrows ==
  ASSUME NEW b \in Buttons, Crosses(b)
  PROVE  /\ crossed \subseteq crossed'
         /\ ~MovingCrossed' => ~MovingCrossed
BY DEF Crosses, MovingCrossed

(* Who crosses a handler that moves the pointer only ends the room.        *)
LEMMA Alone ==
  ASSUME ConsoleTypes, NEW b \in Buttons, Crosses(b), call[b].op \in { "add", "switch" }, ~MovingCrossed',
         NEW k \in Buttons \ {b}, call[k].at \in Between
  PROVE  call[k].op = "end"
<1>1. crossed' = crossed \cup ({ call["action"].op } \cap Telling)
  BY DEF Crosses
<1>2. call["action"].op \notin { "add", "switch" }
  BY <1>1 DEF MovingCrossed, Telling
<1>3. k = "action" /\ IsCall(call[k])
  BY <1>2, CallsAndGets DEF ConsoleTypes
<1> QED BY <1>2, <1>3 DEF IsCall, Between, Telling

(* The handler of b has gone a step.                                       *)
Frame(b) ==
  /\ call[b].at \in { "sent" } \cup Between
  /\ UNCHANGED <<detail, get, misled>>
  /\ Crosses(b)

Served(b) ==
  /\ Frame(b)
  /\ call' = [ k \in Buttons |-> call'[k] ] /\ IsCall(call'[b])
  /\ \A k \in Buttons \ {b} : call'[k] = call[k]
  /\ call'[b].op \in { call[b].op, "add" }
  /\ call'[b].at # "idle" /\ (call'[b].at = "sent" => call'[b].op = "add")

LEMMA ServedTypes ==
  ASSUME ConsoleTypes, NEW b \in Buttons, Served(b), moves' \in Nat
  PROVE  /\ ConsoleTypes' /\ detail # None
         /\ b = "action" => get["action"].at = "idle"
         /\ CatchingUp => CatchingUp'
<1>1. /\ \A k \in Buttons : IsCall(call'[k])
      /\ call'["form"].op = "add"
      /\ call'["action"].at # "idle" => get["action"].at = "idle"
      /\ detail # None
      /\ b = "action" => get["action"].at = "idle"
  BY CallsAndGets DEF ConsoleTypes, Served, Frame, Between
<1>2. ConsoleTypes'
  BY <1>1 DEF ConsoleTypes, Served, Frame
<1>3. CatchingUp => CatchingUp'
  BY <1>1, CallsAndGets DEF CatchingUp, Served, Frame, Between
<1> QED BY <1>1, <1>2, <1>3

LEMMA PointerStays ==
  ASSUME SwitchInv, NEW b \in Buttons, Served(b), UNCHANGED <<current, moves>>,
         ~MovingCrossed' => Found(call'[b])
  PROVE  SwitchInv'
<1>1. ConsoleTypes /\ Readings /\ moves' \in Nat
  BY DEF SwitchInv, ConsoleTypes
<1>2. ConsoleTypes' /\ (CatchingUp => CatchingUp')
  BY <1>1, ServedTypes
<1>3. UNCHANGED <<detail, get, current, moves, misled>> /\ (~MovingCrossed' => ~MovingCrossed)
  BY CrossedGrows DEF Served, Frame
<1>4. Readings'
  BY <1>1, <1>3 DEF Readings, Counts, Tells, Answers
<1>5. ASSUME ~misled', ~MovingCrossed'
      PROVE  InStep'
  <2>1. InStep
    BY <1>3, <1>5 DEF SwitchInv
  <2>2. /\ detail' # None /\ ~CatchingUp' => Tells(detail)' /\ Behind(detail)'
        /\ Answers("action")' => Tells(get["action"].reply)' /\ Behind(get["action"].reply)'
    BY <1>2, <1>3, <2>1 DEF InStep, Tells, Behind, Answers
  <2>3. ASSUME NEW k \in Buttons
        PROVE  call'[k].at = "sent" /\ call'[k].op = "switch" => call'[k].item = current' /\ current' # 0
    BY <1>3, <2>1 DEF InStep, Served
  <2> QED BY <2>2, <2>3 DEF InStep
<1>6. ASSUME ~MovingCrossed', NEW k \in Buttons
      PROVE  Found(call[k])'
  BY <1>3, <1>6 DEF SwitchInv, Served, Found
<1> QED BY <1>2, <1>4, <1>5, <1>6 DEF SwitchInv

(* The pointer moves: by a switch, or from nothing to an item just added.  *)
LEMMA PointerMoves ==
  ASSUME SwitchInv, NEW b \in Buttons, Served(b), moves' = moves + 1,
         call'[b].at \notin { "half", "third" },
         \/ call[b].op = "switch" /\ call'[b].at = "done"
         \/ call[b].op = "add" /\ call[b].at = "third" /\ call'[b].op = "add"
  PROVE  SwitchInv'
<1>1. ConsoleTypes /\ Readings /\ moves \in Nat /\ moves' \in Nat
  BY DEF SwitchInv, ConsoleTypes
<1>2. /\ ConsoleTypes' /\ detail # None /\ (CatchingUp => CatchingUp')
      /\ b = "action" => get["action"].at = "idle"
  BY <1>1, ServedTypes
<1>3. UNCHANGED <<detail, get, misled>> /\ Crosses(b) /\ (~MovingCrossed' => ~MovingCrossed)
  BY CrossedGrows DEF Served, Frame
<1>4. \A r : Counts(r) => Counts(r)'
  BY <1>1 DEF Counts
<1>5. Readings'
  BY <1>1, <1>2, <1>3, <1>4 DEF Readings, Answers
<1>6. ASSUME ~misled', ~MovingCrossed'
      PROVE  InStep'
  <2>1. InStep /\ \A k \in Buttons : Found(call[k])
    BY <1>3, <1>6 DEF SwitchInv
  <2>2. CASE call[b].op = "switch" /\ call'[b].at = "done"
    <3>1. b = "action" /\ call["form"].op = "add"
      BY <1>1, <2>2, CallsAndGets DEF ConsoleTypes
    <3>2. CatchingUp' /\ ~Answers("action")'
      BY <1>2, <1>3, <2>2, <3>1 DEF CatchingUp, Answers
    <3>3. \A k \in Buttons : ~(call'[k].at = "sent" /\ call'[k].op = "switch")
      BY <2>2, <3>1, CallsAndGets DEF Served
    <3> QED BY <3>2, <3>3 DEF InStep
  <2>3. CASE call[b].op = "add" /\ call[b].at = "third" /\ call'[b].op = "add"
    <3>1. current = 0
      BY <2>1, <2>3 DEF Found
    <3>2. \A r : Tells(r) => Tells(r)'
      BY <3>1 DEF Tells
    <3>3. /\ detail' # None /\ ~CatchingUp' => Tells(detail)' /\ Behind(detail)'
          /\ Answers("action")' => Tells(get["action"].reply)' /\ Behind(get["action"].reply)'
      BY <1>2, <1>3, <2>1, <3>2 DEF InStep, Behind, Answers
    <3>4. \A k \in Buttons : ~(call'[k].at = "sent" /\ call'[k].op = "switch")
      BY <2>1, <2>3, <3>1 DEF InStep, Served
    <3> QED BY <3>3, <3>4 DEF InStep
  <2> QED BY <2>2, <2>3
<1>7. ASSUME ~MovingCrossed', NEW k \in Buttons
      PROVE  Found(call[k])'
  <2>1. CASE k = b
    BY <2>1 DEF Found
  <2>2. CASE k # b
    <3>1. call'[k] = call[k] /\ IsCall(call[k])
      BY <1>1, <2>2 DEF Served, ConsoleTypes
    <3>2. call[k].at \in Between => call[k].op = "end"
      BY <1>1, <1>3, <1>7, <2>2, Alone
    <3> QED BY <3>1, <3>2 DEF Found, IsCall, Between
  <2> QED BY <2>1, <2>2
<1> QED BY <1>2, <1>5, <1>6, <1>7 DEF SwitchInv

(* One request goes a step.                                                *)
LEMMA ShapeCreated ==
  ASSUME NEW c, IsCall(c), c.at = "sent", NEW d, d = [ c EXCEPT !.op = "add" ]
  PROVE  IsCall(d) /\ d.at = "sent" /\ d.op = "add"
BY DEF IsCall, CallFields, Ops, Between

LEMMA AnswerIs ==
  ASSUME NEW ok
  PROVE  /\ IsCall(Answer(ok)) /\ Answer(ok).at = "done" /\ Answer(ok).op = "add"
         /\ Answer(ok).item = 0
BY DEF Answer, NoCall, IsCall, CallFields, Ops

LEMMA ReplyServes ==
  ASSUME ConsoleTypes, NEW b \in Buttons, Frame(b), NEW ok, Reply(b, ok)
  PROVE  Served(b) /\ call'[b].at = "done" /\ call'[b].op = "add"
<1>1. /\ call' = [ k \in Buttons |-> call'[k] ]
      /\ call'[b] = Answer(ok)
      /\ \A k \in Buttons \ {b} : call'[k] = call[k]
  BY DEF Reply, ConsoleTypes
<1> QED BY <1>1, AnswerIs DEF Served

LEMMA PausesServes ==
  ASSUME ConsoleTypes, NEW b \in Buttons, Frame(b), NEW at, NEW x, Pauses(b, at, x),
         \/ at = "half" /\ call[b].op \in Telling
         \/ at \in { "third", "fourth" } /\ call[b].op = "add"
  PROVE  Served(b) /\ call'[b].at = at /\ call'[b].seen = x /\ call'[b].op = call[b].op
<1>0. IsCall(call[b])
  BY DEF ConsoleTypes
<1>1. /\ call' = [ k \in Buttons |-> call'[k] ]
      /\ call'[b] = [ call[b] EXCEPT !.at = at, !.seen = x ]
      /\ \A k \in Buttons \ {b} : call'[k] = call[k]
  BY DEF Pauses, ConsoleTypes
<1>2. IsCall(call'[b]) /\ call'[b].at = at /\ call'[b].op = call[b].op /\ call'[b].seen = x
  BY <1>1, <1>0 DEF IsCall, CallFields, Between
<1>3. at # "idle" /\ at # "sent"
  OBVIOUS
<1> QED BY <1>1, <1>2, <1>3 DEF Served

(* Adding goes on with the next product, or answers.                       *)
LEMMA GoOnServes ==
  ASSUME ConsoleTypes, NEW b \in Buttons, Frame(b), call[b].op = "add", GoOn(b)
  PROVE  Served(b) /\ call'[b].op = "add" /\ call'[b].at \in { "sent", "done" }
<1>1. CASE Tail(call[b].todo) = <<>>
  BY <1>1, ReplyServes DEF GoOn
<1>2. CASE Tail(call[b].todo) # <<>>
  <2>1. PICK todo : call' = [ call EXCEPT ![b].at = "sent", ![b].todo = todo, ![b].seen = None ]
    BY <1>2 DEF GoOn
  <2>2. /\ call' = [ k \in Buttons |-> call'[k] ]
        /\ call'[b] = [ call[b] EXCEPT !.at = "sent", !.todo = todo, !.seen = None ]
        /\ \A k \in Buttons \ {b} : call'[k] = call[k]
    BY <2>1 DEF ConsoleTypes
  <2>3. IsCall(call[b])
    BY DEF ConsoleTypes
  <2>4. IsCall(call'[b]) /\ call'[b].at = "sent" /\ call'[b].op = "add"
    BY <2>2, <2>3 DEF IsCall, CallFields
  <2> QED BY <2>2, <2>4 DEF Served
<1> QED BY <1>1, <1>2

LEMMA PointedServes ==
  ASSUME ConsoleTypes, NEW b \in Buttons, Frame(b), call[b].op = "add", Pointed(b)
  PROVE  Served(b) /\ call'[b].op = "add" /\ call'[b].at \in { "fourth", "sent", "done" }
<1>1. CASE GoOn(b)
  BY <1>1, GoOnServes
<1>2. CASE Pauses(b, "fourth", None)
  BY <1>2, PausesServes
<1> QED BY <1>1, <1>2 DEF Pointed

LEMMA ServeKeeps ==
  ASSUME SwitchInv, NEW b \in Buttons, Serve(b)
  PROVE  SwitchInv'
<1>1. /\ ConsoleTypes /\ moves \in Nat /\ IsCall(call[b]) /\ Handle(b)
      /\ call[b].op \in Ops /\ (call[b].at = "half" => call[b].op \in Telling)
      /\ call[b].at \in { "third", "fourth" } => call[b].op = "add"
  BY DEF SwitchInv, ConsoleTypes, IsCall, Serve
<1>2. Frame(b) /\ (~MovingCrossed' => ~MovingCrossed)
  BY CrossedGrows DEF Serve, Handle, Frame, Between
<1>3. ASSUME NEW ok, Reply(b, ok), UNCHANGED <<current, moves>>
      PROVE  SwitchInv'
  <2>1. Served(b) /\ call'[b].at = "done"
    BY <1>1, <1>2, <1>3, ReplyServes
  <2> QED BY <1>3, <2>1, PointerStays DEF Found
<1>4. ASSUME NEW x, Halfway(b, x), UNCHANGED <<current, moves>>,
             call[b].op \in Telling, call[b].op = "add" => x.current = current
      PROVE  SwitchInv'
  <2>1. Served(b) /\ call'[b].at = "half" /\ call'[b].seen = x /\ call'[b].op = call[b].op
    BY <1>1, <1>2, <1>4, PausesServes DEF Halfway
  <2> QED BY <1>4, <2>1, PointerStays DEF Found
<1>5. CASE call[b].at = "sent"
  <2>1. CASE call[b].op = "start" /\ Start(b)
    BY <1>3, <2>1 DEF Start
  <2>2. CASE call[b].op = "switch" /\ CloseCurrent(b)
    <3>1. CASE Reply(b, FALSE) /\ UNCHANGED <<room, moves>>
      BY <1>3, <3>1 DEF room
    <3>2. CASE Halfway(b, [ next |-> NextPending(items[current].seq) ]) /\ UNCHANGED <<live, current, moves>>
      <4>1. PICK x : Halfway(b, x)
        BY <3>2
      <4> QED BY <1>4, <2>2, <3>2, <4>1 DEF Telling
    <3> QED BY <2>2, <3>1, <3>2 DEF CloseCurrent
  <2>3. CASE call[b].op = "stop" /\ Stop(b)
    BY <1>3, <2>3 DEF Stop
  <2>4. CASE call[b].op = "end" /\ CheckEnd(b)
    <3>1. UNCHANGED <<current, moves>> /\ (Reply(b, FALSE) \/ Halfway(b, None))
      BY <2>4 DEF CheckEnd, room
    <3> QED BY <1>3, <1>4, <2>4, <3>1 DEF Telling
  <2>5. CASE call[b].op = "quick" /\ Create(b)
    <3>1. /\ call' = [ k \in Buttons |-> call'[k] ] /\ call'[b] = [ call[b] EXCEPT !.op = "add" ]
          /\ \A k \in Buttons \ {b} : call'[k] = call[k]
          /\ UNCHANGED <<current, moves>>
      BY <1>1, <2>5 DEF Create, ConsoleTypes, room
    <3>2. IsCall(call'[b]) /\ call'[b].at = "sent" /\ call'[b].op = "add"
      BY <1>1, <1>5, <3>1, ShapeCreated
    <3>3. Served(b)
      BY <1>2, <3>1, <3>2 DEF Served
    <3> QED BY <3>1, <3>2, <3>3, PointerStays DEF Found
  <2>6. CASE call[b].op = "add" /\ CheckAdd(b)
    <3>1. UNCHANGED <<current, moves>>
          /\ (Reply(b, FALSE) \/ \E x : Halfway(b, x) /\ x.current = current)
      <4>1. \A n : [ live |-> live, current |-> current, seq |-> n ].current = current
        OBVIOUS
      <4> QED BY <2>6, <4>1 DEF CheckAdd, room
    <3> QED BY <1>3, <1>4, <2>6, <3>1 DEF Telling
  <2> QED BY <1>1, <1>5, <2>1, <2>2, <2>3, <2>4, <2>5, <2>6 DEF Handle, Ops
<1>6. CASE call[b].at = "half"
  <2>1. CASE call[b].op = "switch" /\ MovePointer(b)
    <3>1. PICK ok : Reply(b, ok)
      BY <2>1 DEF MovePointer
    <3>2. Served(b) /\ call'[b].at = "done"
      BY <1>1, <1>2, <3>1, ReplyServes
    <3>3. moves' = moves + 1
      BY <2>1 DEF MovePointer
    <3> QED BY <2>1, <3>2, <3>3, PointerMoves
  <2>2. CASE call[b].op = "end" /\ End(b)
    BY <1>3, <2>2 DEF End
  <2>3. CASE call[b].op = "add" /\ Insert(b)
    <3>1. UNCHANGED <<current, moves>>
      BY <2>3 DEF Insert, Inserted
    <3>2. CASE TakesPointer(call[b].seen) /\ Pauses(b, "third", [ live |-> call[b].seen.live, item |-> Len(items) + 1 ])
      <4>1. Served(b) /\ call'[b].at = "third"
        BY <1>1, <1>2, <2>3, <3>2, PausesServes
      <4>2. ~MovingCrossed' => current = 0
        BY <1>2, <1>6, <2>3, <3>2 DEF SwitchInv, Found, TakesPointer
      <4> QED BY <3>1, <4>1, <4>2, PointerStays DEF Found
    <3>3. CASE GoOn(b)
      <4>1. Served(b) /\ call'[b].at \in { "sent", "done" }
        BY <1>1, <1>2, <2>3, <3>3, GoOnServes
      <4> QED BY <3>1, <4>1, PointerStays DEF Found
    <3> QED BY <2>3, <3>2, <3>3 DEF Insert
  <2> QED BY <1>1, <1>6, <2>1, <2>2, <2>3 DEF Handle, Telling
<1>7. CASE call[b].at = "third" /\ Point(b)
  <2>1. moves' = moves + 1 /\ Pointed(b)
    BY <1>7 DEF Point
  <2>2. Served(b) /\ call'[b].op = "add" /\ call'[b].at \in { "fourth", "sent", "done" }
    BY <1>1, <1>2, <1>7, <2>1, PointedServes
  <2>3. call'[b].at \notin { "half", "third" }
    BY <2>2
  <2> QED BY <1>1, <1>7, <2>1, <2>2, <2>3, PointerMoves
<1>8. CASE call[b].at = "fourth" /\ GoLive(b)
  <2>1. UNCHANGED <<current, moves>> /\ GoOn(b)
    BY <1>8 DEF GoLive
  <2>2. Served(b) /\ call'[b].at \in { "sent", "done" }
    BY <1>1, <1>2, <1>8, <2>1, GoOnServes
  <2> QED BY <2>1, <2>2, PointerStays DEF Found
<1> QED BY <1>1, <1>5, <1>6, <1>7, <1>8 DEF Handle

LEMMA SlipKeeps ==
  ASSUME SwitchInv, NEW b \in Buttons, Slip(b)
  PROVE  SwitchInv'
<1>1. /\ ConsoleTypes /\ IsCall(call[b])
      /\ call[b].at \in { "third", "fourth" } => call[b].op = "add"
  BY DEF SwitchInv, ConsoleTypes, IsCall
<1>2. Frame(b) /\ call[b].op = "add" /\ UNCHANGED <<current, moves>>
  BY <1>1 DEF Slip, Frame, Between, Inserted, room
<1>3. (\E ok : Reply(b, ok)) \/ Pointed(b) \/ GoOn(b)
  BY DEF Slip
<1>4. Served(b) /\ call'[b].at \in { "fourth", "sent", "done" }
  BY <1>1, <1>2, <1>3, ReplyServes, PointedServes, GoOnServes
<1> QED BY <1>2, <1>4, PointerStays DEF Found

--------------------------------------------------------------------------------
(* The console                                                             *)

(* An answer is lost, or a call before or while it is served.              *)
LEMMA LoseCallKeeps ==
  ASSUME SwitchInv, NEW b \in Buttons, LoseCall(b)
  PROVE  SwitchInv'
<1>1. /\ ConsoleTypes /\ Readings /\ call[b].at # "idle" /\ Reply(b, FALSE)
      /\ UNCHANGED <<current, detail, get, moves, crossed, misled>>
  BY DEF SwitchInv, LoseCall, room, history
<1>2. /\ call' = [ k \in Buttons |-> call'[k] ] /\ call'[b] = Answer(FALSE)
      /\ \A k \in Buttons \ {b} : call'[k] = call[k]
  BY <1>1 DEF Reply, ConsoleTypes
<1>3. IsCall(call'[b]) /\ call'[b].at = "done" /\ call'[b].op = "add"
  BY <1>2, AnswerIs
<1>4. ConsoleTypes'
  BY <1>1, <1>2, <1>3, CallsAndGets DEF ConsoleTypes
<1>5. Readings'
  BY <1>1 DEF Readings, Counts, Tells, Answers
<1>6. CatchingUp => CatchingUp'
  BY <1>1, <1>2, <1>3, CallsAndGets DEF CatchingUp
<1>7. ASSUME InStep
      PROVE  InStep'
  BY <1>1, <1>2, <1>3, <1>6, <1>7 DEF InStep, Tells, Behind, Answers
<1>8. ASSUME \A k \in Buttons : Found(call[k]), NEW k \in Buttons
      PROVE  Found(call[k])'
  BY <1>1, <1>2, <1>3, <1>8 DEF Found
<1> QED BY <1>1, <1>4, <1>5, <1>7, <1>8 DEF SwitchInv, MovingCrossed

LEMMA CallReturnsKeeps ==
  ASSUME SwitchInv, NEW b \in Buttons, CallReturns(b)
  PROVE  SwitchInv'
<1>1. /\ ConsoleTypes /\ Readings /\ call[b].at = "done" /\ call' = [ call EXCEPT ![b] = NoCall ]
      /\ get' = (IF call[b].ok THEN [ get EXCEPT ![b] = SentGet ] ELSE get)
      /\ misled' = (misled \/ ~call[b].ok)
      /\ UNCHANGED <<current, detail, moves, crossed>>
  BY DEF SwitchInv, CallReturns, room
<1>2. /\ call' = [ k \in Buttons |-> call'[k] ] /\ call'[b] = NoCall
      /\ \A k \in Buttons \ {b} : call'[k] = call[k]
  BY <1>1 DEF ConsoleTypes
<1>3. /\ get' = [ g \in Gets |-> get'[g] ] /\ \A g \in Gets \ {b} : get'[g] = get[g]
      /\ get'[b] = get[b] \/ get'[b] = [ at |-> "sent", reply |-> None ]
      /\ call[b].ok => get'[b].at = "sent"
  BY <1>1, CallsAndGets DEF ConsoleTypes, SentGet, NoGet
<1>4. ConsoleTypes'
  BY <1>1, <1>2, <1>3, NoCallIs, CallsAndGets DEF ConsoleTypes
<1>5. \A g \in Gets : Answers(g)' => Answers(g) /\ get'[g] = get[g]
  BY <1>3 DEF Answers
<1>6. Readings'
  BY <1>1, <1>5 DEF Readings, Counts, Tells
<1>7. ASSUME ~misled', ~MovingCrossed'
      PROVE  InStep'
  <2>1. InStep /\ call[b].ok
    BY <1>1, <1>7 DEF SwitchInv, MovingCrossed
  <2>2. CatchingUp => CatchingUp'
    BY <1>2, <1>3, <2>1, CallsAndGets DEF CatchingUp
  <2>3. /\ detail' # None /\ ~CatchingUp' => Tells(detail)' /\ Behind(detail)'
        /\ Answers("action")' => Tells(get["action"].reply)' /\ Behind(get["action"].reply)'
    BY <1>1, <1>5, <2>1, <2>2, CallsAndGets DEF InStep, Tells, Behind
  <2>4. \A k \in Buttons :
          call'[k].at = "sent" /\ call'[k].op = "switch" => call'[k].item = current' /\ current' # 0
    BY <1>1, <1>2, <2>1, NoCallIs DEF InStep
  <2> QED BY <2>3, <2>4 DEF InStep
<1>8. ASSUME ~MovingCrossed'
      PROVE  \A k \in Buttons : Found(call[k])'
  BY <1>1, <1>2, <1>8, NoCallIs DEF SwitchInv, Found, MovingCrossed
<1> QED BY <1>4, <1>6, <1>7, <1>8 DEF SwitchInv

(* A switch is pressed when the console has caught up.                     *)
LEMMA PressKeeps ==
  ASSUME SwitchInv, NEW b \in Buttons, NEW op \in Ops, NEW todo, Press(b, op, todo),
         b = "form" => op = "add", b = "action" => ~Busy, op = "switch" => detail.current # 0
  PROVE  SwitchInv'
<1> DEFINE item == IF op \in { "stop", "switch" } THEN detail.current ELSE 0
           pressed == [ NoCall EXCEPT !.at = "sent", !.op = op, !.todo = todo, !.item = item ]
<1>1. /\ ConsoleTypes /\ Readings /\ detail # None /\ call[b].at = "idle"
      /\ call' = [ call EXCEPT ![b] = pressed ]
      /\ UNCHANGED <<current, detail, get, moves, crossed, misled>>
  BY DEF SwitchInv, Press, room, history
<1>2. IsCall(pressed) /\ pressed.at = "sent" /\ pressed.op = op /\ pressed.item = item
  BY DEF IsCall, CallFields, NoCall
<1> HIDE DEF pressed
<1>3. /\ call' = [ k \in Buttons |-> call'[k] ] /\ call'[b] = pressed
      /\ \A k \in Buttons \ {b} : call'[k] = call[k]
  BY <1>1 DEF ConsoleTypes
<1>4. b = "action" => get["action"].at = "idle" /\ ~CatchingUp
  BY <1>1 DEF Busy, CatchingUp
<1>5. ConsoleTypes'
  BY <1>1, <1>2, <1>3, <1>4, CallsAndGets DEF ConsoleTypes
<1>6. Readings'
  BY <1>1 DEF Readings, Counts, Tells, Answers
<1>7. CatchingUp => CatchingUp'
  BY <1>1, <1>3, <1>4, CallsAndGets DEF CatchingUp
<1>8. ASSUME InStep
      PROVE  InStep'
  <2>1. /\ detail' # None /\ ~CatchingUp' => Tells(detail)' /\ Behind(detail)'
        /\ Answers("action")' => Tells(get["action"].reply)' /\ Behind(get["action"].reply)'
    BY <1>1, <1>7, <1>8 DEF InStep, Tells, Behind, Answers
  <2>2. ASSUME NEW k \in Buttons
        PROVE  call'[k].at = "sent" /\ call'[k].op = "switch" => call'[k].item = current' /\ current' # 0
    <3>1. CASE k # b
      BY <1>1, <1>3, <1>8, <3>1 DEF InStep
    <3>2. CASE k = b
      <4>1. op = "switch" => b = "action"
        BY CallsAndGets
      <4>2. op = "switch" => detail.current = current /\ current # 0
        BY <1>1, <1>4, <1>8, <4>1 DEF InStep, Tells
      <4> QED BY <1>1, <1>2, <1>3, <3>2, <4>2
    <3> QED BY <3>1, <3>2
  <2> QED BY <2>1, <2>2 DEF InStep
<1>9. ASSUME ~MovingCrossed'
      PROVE  \A k \in Buttons : Found(call[k])'
  BY <1>1, <1>2, <1>3, <1>9 DEF SwitchInv, Found, MovingCrossed
<1> QED BY <1>1, <1>5, <1>6, <1>8, <1>9 DEF SwitchInv, MovingCrossed

LEMMA ActKeeps ==
  ASSUME SwitchInv, NEW op \in Ops, Act(op)
  PROVE  SwitchInv'
<1>1. PICK todo : Press("action", op, todo)
  BY DEF Act
<1>2. ~Busy /\ (op = "switch" => detail.current # 0)
  BY DEF Act, Offers
<1> QED BY <1>1, <1>2, PressKeeps, CallsAndGets

LEMMA SubmitKeeps ==
  ASSUME SwitchInv, Submit
  PROVE  SwitchInv'
<1>1. PICK todo : Press("form", "add", todo)
  BY DEF Submit
<1> QED BY <1>1, PressKeeps, CallsAndGets DEF Ops

--------------------------------------------------------------------------------
(* The reads                                                               *)

(* The read of g has gone a step; what is shown stays.                     *)
LEMMA ReadGoes ==
  ASSUME SwitchInv, NEW g \in Gets, NEW r,
         get' = [ get EXCEPT ![g] = r ], r = [ at |-> r.at, reply |-> r.reply ],
         g = "action" => get[g].at # "idle" /\ r.at # "idle",
         r.at = "done" /\ r.reply # None => r.reply = Room,
         UNCHANGED <<current, detail, call, moves, crossed, misled>>
  PROVE  SwitchInv'
<1>1. ConsoleTypes /\ Readings
  BY DEF SwitchInv
<1>2. /\ get' = [ h \in Gets |-> get'[h] ] /\ get'[g] = r
      /\ \A h \in Gets \ {g} : get'[h] = get[h]
  BY <1>1 DEF ConsoleTypes
<1>3. ConsoleTypes'
  BY <1>1, <1>2, CallsAndGets DEF ConsoleTypes
<1>4. \A h \in Gets : Answers(h)' =>
        \/ h = g /\ get'[h].reply = Room
        \/ Answers(h) /\ get'[h] = get[h]
  BY <1>2 DEF Answers
<1>5. /\ \A x : Counts(x)' <=> Counts(x)
      /\ \A x : Tells(x)' <=> Tells(x)
  BY DEF Counts, Tells
<1>6. Counts(Room) /\ Tells(Room) /\ Room.moves = moves
  BY <1>1, RoomReads
<1>7. Readings'
  BY <1>1, <1>4, <1>5, <1>6 DEF Readings
<1>8. ASSUME InStep
      PROVE  InStep'
  <2>1. CatchingUp' <=> CatchingUp
    BY <1>2, CallsAndGets DEF CatchingUp
  <2>2. \A x : Behind(x) => \A h \in Gets : Answers(h)' => Tells(get'[h].reply) \/ get'[h].reply.moves < x.moves
    BY <1>4, <1>6 DEF Behind
  <2>3. \A h \in Gets : Answers(h)' => Tells(get'[h].reply) \/ get'[h].reply.moves < Room.moves
    <3>1. \A x : Counts(x) => Tells(x) \/ x.moves < moves
      BY <1>1 DEF Counts, Tells, ConsoleTypes
    <3> QED BY <1>1, <1>4, <1>6, <3>1 DEF Readings
  <2>4. detail' # None /\ ~CatchingUp' => Tells(detail)' /\ Behind(detail)'
    BY <1>5, <1>8, <2>1, <2>2 DEF InStep, Behind, Tells
  <2>5. Answers("action")' => Tells(get["action"].reply)' /\ Behind(get["action"].reply)'
    <3>1. CASE get'["action"].reply = Room
      BY <1>6, <2>3, <3>1 DEF Behind, Tells
    <3>2. CASE Answers("action") /\ get'["action"] = get["action"]
      BY <1>8, <2>2, <3>2 DEF InStep, Behind, Tells
    <3> QED BY <1>4, <3>1, <3>2, CallsAndGets
  <2>6. \A k \in Buttons :
          call'[k].at = "sent" /\ call'[k].op = "switch" => call'[k].item = current' /\ current' # 0
    BY <1>8 DEF InStep
  <2> QED BY <2>4, <2>5, <2>6 DEF InStep
<1> QED BY <1>3, <1>7, <1>8 DEF SwitchInv, Found, MovingCrossed

LEMMA ReadsKeep ==
  ASSUME SwitchInv, Poll \/ \E g \in Gets : ServeGet(g) \/ LoseGet(g)
  PROVE  SwitchInv'
<1>1. CASE Poll
  <2> DEFINE r == [ at |-> "sent", reply |-> None ]
  <2>1. SentGet = r
    BY DEF SentGet, NoGet
  <2>2. get' = [ get EXCEPT !["timer"] = r ] /\ UNCHANGED <<current, detail, call, moves, crossed, misled>>
    BY <1>1, <2>1 DEF Poll, room, history
  <2> QED BY <2>2, ReadGoes, CallsAndGets
<1>2. ASSUME NEW g \in Gets, ServeGet(g)
      PROVE  SwitchInv'
  <2> DEFINE r == [ at |-> "done", reply |-> Room ]
  <2>1. /\ get' = [ get EXCEPT ![g] = r ] /\ get[g].at = "sent"
        /\ UNCHANGED <<current, detail, call, moves, crossed, misled>>
    BY <1>2 DEF ServeGet, room, history
  <2>2. r = [ at |-> r.at, reply |-> r.reply ] /\ r.at = "done" /\ r.reply = Room
    OBVIOUS
  <2> HIDE DEF r
  <2> QED BY <2>1, <2>2, ReadGoes
<1>3. ASSUME NEW g \in Gets, LoseGet(g)
      PROVE  SwitchInv'
  <2> DEFINE r == [ at |-> "done", reply |-> None ]
  <2>1. /\ get' = [ get EXCEPT ![g] = r ] /\ get[g].at # "idle"
        /\ UNCHANGED <<current, detail, call, moves, crossed, misled>>
    BY <1>3 DEF LoseGet, room, history
  <2>2. r = [ at |-> r.at, reply |-> r.reply ] /\ r.at = "done" /\ r.reply = None
    OBVIOUS
  <2> HIDE DEF r
  <2> QED BY <2>1, <2>2, ReadGoes
<1> QED BY <1>1, <1>2, <1>3

(* An answer is shown.  It tells the current item, as it is the action's   *)
(* own or not older than one that does.                                    *)
LEMMA GetReturnsKeeps ==
  ASSUME SwitchInv, NEW g \in Gets, GetReturns(g)
  PROVE  SwitchInv'
<1> DEFINE reply == get[g].reply
<1>1. /\ ConsoleTypes /\ Readings /\ get[g].at = "done"
      /\ get' = [ get EXCEPT ![g] = NoGet ]
      /\ detail' = (IF reply = None THEN detail ELSE reply)
      /\ misled' = (misled \/ reply = None \/ (detail # None /\ reply.moves < detail.moves))
      /\ UNCHANGED <<current, call, moves, crossed>>
  BY DEF SwitchInv, GetReturns, room
<1>2. NoGet = [ at |-> "idle", reply |-> None ]
  BY DEF NoGet
<1>3. /\ get' = [ h \in Gets |-> get'[h] ] /\ get'[g] = NoGet
      /\ \A h \in Gets \ {g} : get'[h] = get[h]
  BY <1>1 DEF ConsoleTypes
<1>4. ConsoleTypes'
  BY <1>1, <1>2, <1>3, CallsAndGets DEF ConsoleTypes
<1>5. \A h \in Gets : Answers(h)' => Answers(h) /\ get'[h] = get[h] /\ h # g
  BY <1>2, <1>3 DEF Answers
<1>6. /\ \A x : Counts(x)' <=> Counts(x)
      /\ \A x : Tells(x)' <=> Tells(x)
  BY <1>1 DEF Counts, Tells
<1>7. Readings'
  <2>1. detail' # None => Counts(detail')
    BY <1>1 DEF Readings, Answers
  <2>2. \A h \in Gets : Answers(h)' => Counts(get'[h].reply)
    BY <1>1, <1>5 DEF Readings
  <2>3. detail' = None => \A h \in Gets : Answers(h)' => Tells(get'[h].reply)
    BY <1>1, <1>5 DEF Readings
  <2> QED BY <1>1, <2>1, <2>2, <2>3 DEF Readings, Counts, Tells
<1>8. ASSUME ~misled', ~MovingCrossed'
      PROVE  InStep'
  <2>1. InStep /\ Answers(g) /\ detail' = reply /\ (detail = None \/ ~(reply.moves < detail.moves))
    BY <1>1, <1>8 DEF SwitchInv, Answers, MovingCrossed
  <2>2. /\ reply.moves \in Nat /\ (detail # None => detail.moves \in Nat)
        /\ \A h \in Gets : Answers(h) => get[h].reply.moves \in Nat
    BY <1>1, <2>1 DEF Readings, Counts
  <2>3. ASSUME ~CatchingUp'
        PROVE  Tells(reply) /\ Behind(reply)
    <3>1. CASE g = "action"
      BY <2>1, <3>1 DEF InStep
    <3>2. CASE g # "action" /\ detail = None
      BY <1>1, <2>1, <3>2 DEF Readings, Behind
    <3>3. CASE g # "action" /\ detail # None
      <4>1. ~CatchingUp
        BY <1>1, <1>3, <2>3, <3>3, CallsAndGets DEF CatchingUp
      <4>2. Behind(detail)
        BY <2>1, <3>3, <4>1 DEF InStep
      <4>3. Tells(reply)
        BY <2>1, <4>2, <3>3 DEF Behind
      <4>4. detail.moves <= reply.moves
        BY <2>1, <2>2, <3>3
      <4>5. Behind(reply)
        BY <2>2, <3>3, <4>2, <4>4 DEF Behind
      <4> QED BY <4>3, <4>5
    <3> QED BY <3>1, <3>2, <3>3
  <2>4. detail' # None /\ ~CatchingUp' => Tells(detail)' /\ Behind(detail)'
    BY <1>5, <1>6, <2>1, <2>3, <1>1 DEF Behind, Tells
  <2>5. Answers("action")' => Tells(get["action"].reply)' /\ Behind(get["action"].reply)'
    BY <1>1, <1>5, <2>1, CallsAndGets DEF InStep, Behind, Tells
  <2>6. \A k \in Buttons :
          call'[k].at = "sent" /\ call'[k].op = "switch" => call'[k].item = current' /\ current' # 0
    BY <1>1, <2>1 DEF InStep
  <2> QED BY <2>4, <2>5, <2>6 DEF InStep
<1> QED BY <1>1, <1>4, <1>7, <1>8 DEF SwitchInv, Found, MovingCrossed

--------------------------------------------------------------------------------
LEMMA NothingMoves ==
  ASSUME SwitchInv, UNCHANGED <<current, detail, call, get, moves, crossed, misled>>
  PROVE  SwitchInv'
BY DEF SwitchInv, ConsoleTypes, Readings, InStep, Counts, Tells, Answers, Behind, CatchingUp, Found, MovingCrossed

LEMMA NextKeeps ==
  ASSUME SwitchInv, [Next]_vars
  PROVE  SwitchInv'
<1>1. CASE UNCHANGED vars
  BY <1>1, NothingMoves DEF vars, room, history
<1>2. CASE BidOrSettle
  BY <1>2, NothingMoves DEF BidOrSettle, history
<1>3. CASE Submit
  BY <1>3, SubmitKeeps
<1>4. CASE Poll \/ \E g \in Gets : ServeGet(g) \/ LoseGet(g)
  BY <1>4, ReadsKeep
<1>5. CASE \E op \in Ops : Act(op)
  BY <1>5, ActKeeps
<1>6. CASE \E b \in Buttons : Serve(b)
  BY <1>6, ServeKeeps
<1>7. CASE \E b \in Buttons : LoseCall(b)
  BY <1>7, LoseCallKeeps
<1>8. CASE \E b \in Buttons : CallReturns(b)
  BY <1>8, CallReturnsKeeps
<1>9. CASE \E g \in Gets : GetReturns(g)
  BY <1>9, GetReturnsKeeps
<1>10. CASE \E b \in Buttons : Slip(b)
  BY <1>10, SlipKeeps
<1> QED BY <1>1, <1>2, <1>3, <1>4, <1>5, <1>6, <1>7, <1>8, <1>9, <1>10 DEF Next

(* However many bids, presses and faults there are: a switch that is       *)
(* served ends the item the seller saw, unless an answer got lost or was   *)
(* overtaken, or an adding action or a switch crossed the forms' handler.  *)
(* The timer's reads never make it another one, though they overlap the    *)
(* console's own.                                                          *)
THEOREM SwitchIsSeen == Spec => []SwitchEndsWhatIsShown
<1>1. SwitchInv => SwitchEndsWhatIsShown
  BY DEF SwitchInv, InStep, SwitchEndsWhatIsShown
<1> QED BY <1>1, InitInv, NextKeeps, PTL DEF Spec

--------------------------------------------------------------------------------
(* The queue                                                               *)

Statuses == Open \cup { "settled", "cancelled" }

(* The highest number of the items, which MaxSeq chooses, exists.          *)
HasMax == items = <<>> \/ \E i \in DOMAIN items : IsLast(i)

(* A reading points at an item.                                            *)
ReadTyped(r) == r = None \/ (r \in Details /\ r.current <= Len(items))

(* A call names products that exist, and writes numbers and items that do. *)
CallTyped(c) ==
  /\ c.item \in Nat /\ c.item <= Len(items)
  /\ c.at \in { "sent" } \cup Between /\ c.op \in { "add", "quick" } => c.todo \in Seq(Products) /\ c.todo # <<>>
  /\ c.at = "half" /\ c.op = "add" => c.seen.seq \in Nat \ {0}
  /\ c.at = "half" /\ c.op = "switch" => c.seen.next \in Nat /\ c.seen.next <= Len(items)
  /\ c.at = "third" => c.seen.item \in Nat \ {0} /\ c.seen.item <= Len(items)

QueueTypes ==
  /\ live \in { "idle", "live", "ended" } /\ moves \in Nat
  /\ items \in Seq(Items) /\ current \in Nat /\ current <= Len(items) /\ HasMax
  /\ crossed \subseteq Ops /\ stranded \subseteq DOMAIN items
  /\ ReadTyped(detail)
  /\ \A b \in Buttons : CallTyped(call[b])
  /\ \A g \in Gets : get[g].at \in { "idle", "sent", "done" } /\ ReadTyped(get[g].reply)

Bounds == bids \in Nat /\ presses \in Nat /\ faults \in Nat

(* What a handler has found, in the part of the state that each of the     *)
(* three clauses of QueueIsSound is about.                                 *)
FoundNew(c) ==
  c.at = "half" /\ c.op = "add" =>
    Free(Head(c.todo)) /\ \A i \in DOMAIN items : items[i].seq < c.seen.seq

After(n) ==
  \A i \in DOMAIN items \ stranded :
    items[i].status = "pending" => n # 0 /\ (i # n => items[i].seq > items[n].seq)

FoundNext(c) == c.at = "half" /\ c.op = "switch" => After(c.seen.next)

NoneOnShow == current # 0 => items[current].status \notin Open

FoundLive(c) ==
  /\ c.at \in Between /\ c.op \in { "add", "switch" } => live # "ended"
  /\ c.at = "half" /\ c.op = "end" => NoneOnShow

QueueInv ==
  /\ "add" \notin crossed => EachOnce /\ \A b \in Buttons : FoundNew(call[b])
  /\ ~MovingCrossed => InOrder /\ \A b \in Buttons : FoundNext(call[b])
  /\ "end" \notin crossed => (live = "ended" => NoneOnShow) /\ \A b \in Buttons : FoundLive(call[b])

LEMMA Indices ==
  ASSUME items \in Seq(Items)
  PROVE  /\ DOMAIN items = 1..Len(items) /\ Len(items) \in Nat
         /\ \A i \in DOMAIN items : items[i] \in Items
OBVIOUS

LEMMA MaxSeqIs ==
  ASSUME QueueTypes
  PROVE  MaxSeq \in Nat /\ \A i \in DOMAIN items : items[i].seq <= MaxSeq
<1>1. CASE items = <<>>
  BY <1>1 DEF MaxSeq
<1>2. CASE items # <<>>
  <2>1. PICK m \in DOMAIN items : IsLast(m)
    BY <1>2 DEF QueueTypes, HasMax
  <2>2. /\ (CHOOSE i \in DOMAIN items : IsLast(i)) \in DOMAIN items
        /\ IsLast(CHOOSE i \in DOMAIN items : IsLast(i))
    BY <2>1
  <2> HIDE DEF IsLast
  <2>3. PICK i \in DOMAIN items : IsLast(i) /\ MaxSeq = items[i].seq
    BY <1>2, <2>2 DEF MaxSeq
  <2> QED BY <2>3, Indices DEF QueueTypes, IsLast, Items
<1> QED BY <1>1, <1>2

(* Readings and calls stay typed while the queue grows.                    *)
LEMMA Grows ==
  ASSUME QueueTypes, items' \in Seq(Items), Len(items) <= Len(items')
  PROVE  /\ \A r : ReadTyped(r) => ReadTyped(r)'
         /\ \A c : CallTyped(c) => CallTyped(c)'
BY Indices DEF QueueTypes, ReadTyped, CallTyped, Details

LEMMA TypesStay ==
  ASSUME QueueTypes, items' \in Seq(Items), Len(items) <= Len(items'), HasMax',
         live' \in { "idle", "live", "ended" }, moves' \in Nat, current' \in Nat, current' <= Len(items'),
         crossed' \subseteq Ops, stranded' \subseteq DOMAIN items',
         ReadTyped(detail') \/ UNCHANGED detail,
         \A b \in Buttons : call'[b] = call[b] \/ CallTyped(call'[b]) \/ CallTyped(call[b])',
         \A g \in Gets : get'[g] = get[g] \/ (get'[g].at \in { "idle", "sent", "done" } /\ ReadTyped(get'[g].reply))
  PROVE  QueueTypes'
<1>1. /\ \A r : ReadTyped(r) => ReadTyped(r)'
      /\ \A c : CallTyped(c) => CallTyped(c)'
  BY Grows
<1>2. ReadTyped(detail)'
  BY <1>1 DEF QueueTypes, ReadTyped
<1>3. \A b \in Buttons : CallTyped(call[b])'
  BY <1>1 DEF QueueTypes, CallTyped
<1>4. \A g \in Gets : get'[g].at \in { "idle", "sent", "done" } /\ ReadTyped(get[g].reply)'
  BY <1>1 DEF QueueTypes, ReadTyped
<1> QED BY <1>2, <1>3, <1>4 DEF QueueTypes

(* A step that writes a status at most: no item waits or is open again,    *)
(* no cancelled one comes back.                                            *)
Milder ==
  /\ items' \in Seq(Items) /\ Len(items') = Len(items)
  /\ \A i \in DOMAIN items :
       /\ items'[i].seq = items[i].seq /\ items'[i].product = items[i].product
       /\ items'[i].status = "pending" => items[i].status = "pending"
       /\ items'[i].status \in Open => items[i].status \in Open
       /\ items[i].status = "cancelled" => items'[i].status = "cancelled"

LEMMA SameIsMilder ==
  ASSUME QueueTypes, UNCHANGED items
  PROVE  Milder
BY Indices DEF QueueTypes, Milder

LEMMA MilderFacts ==
  ASSUME QueueTypes, Milder
  PROVE  /\ HasMax' /\ Len(items) <= Len(items')
         /\ DOMAIN items' = DOMAIN items
         /\ \A p : Free(p) => Free(p)'
         /\ EachOnce => EachOnce'
<1>1. DOMAIN items' = DOMAIN items /\ Len(items) \in Nat
  BY DEF QueueTypes, Milder
<1>2. HasMax'
  BY <1>1 DEF QueueTypes, Milder, HasMax, IsLast
<1>3. \A p : Free(p) => Free(p)'
  BY <1>1 DEF Milder, Free
<1>4. ASSUME EachOnce
      PROVE  EachOnce'
  <2>1. \A i, j \in DOMAIN items : i # j => items'[i].seq # items'[j].seq
    BY <1>4 DEF EachOnce, Milder
  <2>2. \A i, j \in DOMAIN items :
          i # j /\ items[i].status \in Open /\ items[j].status \in Open => items[i].product # items[j].product
    BY <1>4 DEF EachOnce
  <2>3. \A i, j \in DOMAIN items :
          i # j /\ items'[i].status \in Open /\ items'[j].status \in Open => items'[i].product # items'[j].product
    BY <2>2 DEF Milder
  <2> QED BY <1>1, <2>1, <2>3 DEF EachOnce
<1> QED BY <1>1, <1>2, <1>3, <1>4 DEF Milder

LEMMA StatusIsMilder ==
  ASSUME QueueTypes, NEW i, NEW s \in Statuses \ { "pending" }, SetStatus(i, s),
         i \in DOMAIN items => /\ s \in Open => items[i].status \in Open
                               /\ items[i].status = "cancelled" => s = "cancelled"
  PROVE  Milder
<1>1. /\ DOMAIN items = 1..Len(items) /\ Len(items) \in Nat
      /\ \A j \in DOMAIN items : items[j] \in Items
  BY Indices DEF QueueTypes
<1>2. ASSUME NEW j \in DOMAIN items
      PROVE  /\ items'[j] \in Items
             /\ items'[j].seq = items[j].seq /\ items'[j].product = items[j].product
             /\ items'[j].status = IF j = i THEN s ELSE items[j].status
  BY <1>1 DEF SetStatus, Items, Statuses
<1>3. items' = [ j \in 1..Len(items) |-> items'[j] ]
  BY <1>1 DEF SetStatus
<1>4. items' \in Seq(Items) /\ Len(items') = Len(items)
  BY <1>1, <1>2, <1>3
<1> QED BY <1>2, <1>4 DEF Milder

(* What a call has just found, or need not have.                           *)
FindsNow(b) ==
  /\ "add" \notin crossed' => FoundNew(call[b])'
  /\ ~MovingCrossed' => FoundNext(call[b])'
  /\ "end" \notin crossed' => FoundLive(call[b])'

(* A step that reads or writes a status, and does not open the room again. *)
Stays ==
  /\ Milder /\ UNCHANGED current /\ crossed \subseteq crossed'
  /\ live' = "ended" => live = "ended"
  /\ stranded \subseteq stranded'
  /\ \A b \in Buttons : call'[b] = call[b] \/ FindsNow(b)
  /\ \A b \in Buttons : call'[b] = call[b] \/ call[b].at # "third" \/ call[b].seen.item \in stranded'

LEMMA StaysKeeps ==
  ASSUME QueueTypes, QueueInv, Stays
  PROVE  QueueInv'
<1>1. /\ DOMAIN items' = DOMAIN items
      /\ \A p : Free(p) => Free(p)'
      /\ EachOnce => EachOnce'
  BY MilderFacts DEF Stays
<1>2. current # 0 => current \in DOMAIN items
  BY DEF QueueTypes
<1>3. ~MovingCrossed' => ~MovingCrossed
  BY DEF MovingCrossed, Stays
<1>4. NoneOnShow => NoneOnShow'
  BY <1>1, <1>2 DEF NoneOnShow, Stays, Milder
<1>5. ASSUME "add" \notin crossed', NEW b \in Buttons
      PROVE  FoundNew(call[b])'
  <2>1. SUFFICES ASSUME call'[b] = call[b]
                 PROVE  FoundNew(call[b])'
    BY <1>5 DEF FindsNow, Stays
  <2>2. FoundNew(call[b])
    BY <1>5 DEF QueueInv, Stays
  <2> QED BY <1>1, <2>1, <2>2 DEF FoundNew, Stays, Milder
<1>6. ASSUME ~MovingCrossed', NEW b \in Buttons
      PROVE  FoundNext(call[b])'
  <2>1. SUFFICES ASSUME call'[b] = call[b], call[b].at = "half", call[b].op = "switch"
                 PROVE  After(call[b].seen.next)'
    BY <1>6 DEF FindsNow, Stays, FoundNext
  <2>2. After(call[b].seen.next) /\ CallTyped(call[b])
    BY <1>3, <1>6, <2>1 DEF QueueInv, FoundNext, QueueTypes
  <2>3. PICK n : n = call[b].seen.next
    OBVIOUS
  <2>4. n \in Nat /\ (n # 0 => n \in DOMAIN items)
    BY <2>1, <2>2, <2>3, Indices DEF CallTyped, QueueTypes
  <2>5. After(n)'
    BY <1>1, <2>2, <2>3, <2>4 DEF After, Stays, Milder
  <2> QED BY <2>1, <2>3, <2>5
<1>7. ASSUME ~MovingCrossed'
      PROVE  InOrder'
  <2>1. InOrder
    BY <1>3, <1>7 DEF QueueInv
  <2>2. \A i : Placing(i) => Placing(i)' \/ i \in stranded'
    BY DEF Placing, Stays
  <2>3. ASSUME NEW i \in DOMAIN items, i \notin stranded', i # current, items'[i].status = "pending", ~Placing(i)'
        PROVE  current # 0 /\ items'[i].seq > items'[current].seq
    <3>1. items[i].status = "pending" /\ i \notin stranded /\ ~Placing(i)
      BY <2>2, <2>3 DEF Stays, Milder
    <3>2. current # 0 /\ items[i].seq > items[current].seq
      BY <2>1, <2>3, <3>1 DEF InOrder
    <3> QED BY <1>2, <3>2 DEF Stays, Milder
  <2> QED BY <1>1, <2>3 DEF InOrder, Stays
<1>8. ASSUME "end" \notin crossed', NEW b \in Buttons
      PROVE  FoundLive(call[b])'
  <2>1. SUFFICES ASSUME call'[b] = call[b]
                 PROVE  FoundLive(call[b])'
    BY <1>8 DEF FindsNow, Stays
  <2>2. FoundLive(call[b])
    BY <1>8 DEF QueueInv, Stays
  <2> QED BY <1>4, <2>1, <2>2 DEF FoundLive, Stays
<1>9. "end" \notin crossed' => (live' = "ended" => NoneOnShow')
  BY <1>4 DEF QueueInv, Stays
<1>10. "add" \notin crossed' => EachOnce'
  BY <1>1 DEF QueueInv, Stays
<1> QED BY <1>5, <1>6, <1>7, <1>8, <1>9, <1>10 DEF QueueInv

(* The queue the console is opened on.                                     *)
Opened ==
  /\ items \in Seq(Items) /\ current \in Nat /\ current <= Len(items) /\ HasMax
  /\ \A i, j \in DOMAIN items : i # j => items[i].seq # items[j].seq
  /\ \A i, j \in DOMAIN items : i # j => items[i].product # items[j].product
  /\ \A i \in DOMAIN items :
       items[i].status = "pending" /\ i # current => current # 0 /\ items[i].seq > items[current].seq
  /\ live # "ended"

LEMMA InitQueue ==
  ASSUME Init
  PROVE  QueueTypes /\ QueueInv /\ Bounds
<1>1. /\ live \in { "idle", "live", "ended" } /\ moves = 0 /\ detail = None /\ crossed = {} /\ stranded = {}
      /\ call = [ b \in Buttons |-> NoCall ]
      /\ get = [ g \in Gets |-> IF g = "timer" THEN SentGet ELSE NoGet ]
      /\ bids = 0 /\ presses = 0 /\ faults = 0
  BY DEF Init, Gets
<1>2. /\ Shelf[1] \in Products /\ Shelf[2] \in Products /\ Shelf[1] # Shelf[2]
  <2>1. 1 \in DOMAIN Shelf /\ 2 \in DOMAIN Shelf
    BY ConsoleAssumption
  <2>2. Shelf[1] # Shelf[2]
    BY <2>1, ConsoleAssumption DEF IsInjective
  <2> QED BY <2>1, <2>2 DEF Products, Range
<1>3. /\ \A b \in Buttons : call[b] = NoCall
      /\ \A g \in Gets : get[g].at \in { "idle", "sent", "done" } /\ get[g].reply = None
  BY <1>1 DEF SentGet, NoGet
<1>4. /\ \A b \in Buttons : call[b].at = "idle" /\ call[b].item = 0
  BY <1>3 DEF NoCall
<1>5. Opened
  <2>1. CASE items = <<>> /\ current = 0 /\ live = "idle"
    BY <2>1 DEF Opened, HasMax
  <2>2. ASSUME NEW s \in Open \cup {"settled"}, live = "live", current = 1,
               items = << Item(Shelf[1], s, 1), Item(Shelf[2], "pending", 2) >>
        PROVE  Opened
    <3>1. Len(items) = 2 /\ DOMAIN items = {1, 2}
      BY <2>2
    <3>2. items[1] = Item(Shelf[1], s, 1) /\ items[2] = Item(Shelf[2], "pending", 2)
      BY <2>2
    <3>3. /\ items[1].product = Shelf[1] /\ items[1].seq = 1 /\ items[1].status = s
          /\ items[2].product = Shelf[2] /\ items[2].seq = 2 /\ items[2].status = "pending"
          /\ items[1] \in Items /\ items[2] \in Items
      BY <1>2, <3>2 DEF Item, Items, Open
    <3>4. items \in Seq(Items)
      BY <2>2, <3>2, <3>3
    <3>5. HasMax
      BY <3>1, <3>3 DEF HasMax, IsLast
    <3> QED BY <1>2, <2>2, <3>1, <3>3, <3>4, <3>5 DEF Opened
  <2>3. CASE live = "live" /\ current = 0 /\ items = << Item(Shelf[1], "settled", 1) >>
    <3>1. Len(items) = 1 /\ DOMAIN items = {1} /\ items[1] = Item(Shelf[1], "settled", 1)
      BY <2>3
    <3>2. /\ items[1].seq = 1 /\ items[1].status = "settled" /\ items[1] \in Items
      BY <1>2, <3>1 DEF Item, Items
    <3>3. items \in Seq(Items)
      BY <2>3, <3>1, <3>2
    <3>4. HasMax
      BY <3>1, <3>2 DEF HasMax, IsLast
    <3> QED BY <2>3, <3>1, <3>2, <3>3, <3>4 DEF Opened
  <2> QED BY <2>1, <2>2, <2>3 DEF Init
<1>6. QueueTypes
  BY <1>1, <1>3, <1>4, <1>5 DEF Opened, QueueTypes, ReadTyped, CallTyped, Between
<1>7. EachOnce /\ InOrder
  BY <1>5 DEF Opened, EachOnce, InOrder
<1>8. \A b \in Buttons : FoundNew(call[b]) /\ FoundNext(call[b]) /\ FoundLive(call[b])
  BY <1>4 DEF FoundNew, FoundNext, FoundLive, Between
<1>9. QueueInv
  BY <1>5, <1>7, <1>8 DEF QueueInv, Opened
<1> QED BY <1>1, <1>6, <1>9 DEF Bounds

(* What bidders, buttons, answers and reads do is a step that stays.       *)
LEMMA SideSteps ==
  ASSUME QueueTypes, QueueInv, UNCHANGED <<live, current, moves, crossed>>, Milder,
         stranded \subseteq stranded', stranded' \subseteq DOMAIN items,
         ReadTyped(detail') \/ UNCHANGED detail,
         \A b \in Buttons :
           \/ call'[b] = call[b]
           \/ /\ call'[b].at \notin Between /\ CallTyped(call'[b])
              /\ call[b].at # "third" \/ call[b].seen.item \in stranded',
         \A g \in Gets : get'[g] = get[g] \/ (get'[g].at \in { "idle", "sent", "done" } /\ ReadTyped(get'[g].reply))
  PROVE  QueueTypes' /\ QueueInv'
<1>1. ASSUME NEW b \in Buttons, call'[b] # call[b]
      PROVE  FindsNow(b)
  BY <1>1 DEF FindsNow, FoundNew, FoundNext, FoundLive, Between
<1>2. Stays
  BY <1>1 DEF Stays
<1>3. QueueInv'
  BY <1>2, StaysKeeps
<1>4. HasMax' /\ Len(items) <= Len(items') /\ DOMAIN items' = DOMAIN items
  BY MilderFacts
<1>5. QueueTypes'
  BY <1>4, TypesStay DEF QueueTypes, Milder
<1> QED BY <1>3, <1>5

LEMMA BidOrSettleStays ==
  ASSUME QueueTypes, QueueInv, BidOrSettle
  PROVE  QueueTypes' /\ QueueInv'
<1>1. UNCHANGED <<live, current, moves, crossed, stranded, detail, call, get>>
  BY DEF BidOrSettle, history
<1>2. PICK i \in DOMAIN items : \/ items[i].status = "pending" /\ SetStatus(i, "running")
                                \/ items[i].status = "running" /\ SetStatus(i, "settled")
  BY DEF BidOrSettle
<1>3. Milder
  <2>1. CASE items[i].status = "pending" /\ SetStatus(i, "running")
    BY <2>1, StatusIsMilder DEF Statuses, Open
  <2>2. CASE items[i].status = "running" /\ SetStatus(i, "settled")
    BY <2>2, StatusIsMilder DEF Statuses, Open
  <2> QED BY <1>2, <2>1, <2>2
<1>4. stranded' \subseteq DOMAIN items
  BY <1>1 DEF QueueTypes
<1> QED BY <1>1, <1>3, <1>4, SideSteps

LEMMA PressStays ==
  ASSUME ConsoleTypes, QueueTypes, QueueInv, NEW b \in Buttons, NEW op \in Ops, NEW todo, Press(b, op, todo),
         op \in { "add", "quick" } => todo \in Seq(Products) /\ todo # <<>>
  PROVE  QueueTypes' /\ QueueInv'
<1> DEFINE item == IF op \in { "stop", "switch" } THEN detail.current ELSE 0
           pressed == [ NoCall EXCEPT !.at = "sent", !.op = op, !.todo = todo, !.item = item ]
<1>1. /\ detail # None /\ call[b].at = "idle" /\ call' = [ call EXCEPT ![b] = pressed ]
      /\ UNCHANGED <<live, items, current, detail, get, moves, crossed, stranded>>
  BY DEF Press, room, history
<1>2. pressed.at = "sent" /\ pressed.op = op /\ pressed.todo = todo /\ pressed.item = item
  BY DEF NoCall
<1>0. item \in Nat /\ item <= Len(items)
  BY <1>1, Indices DEF QueueTypes, ReadTyped, Details
<1> HIDE DEF pressed, item
<1>3. CallTyped(pressed)
  BY <1>0, <1>2 DEF CallTyped
<1>4. /\ \A k \in Buttons : \/ call'[k] = call[k]
                            \/ call[k].at # "third" /\ call'[k].at \notin Between /\ CallTyped(call'[k])
  BY <1>1, <1>2, <1>3 DEF ConsoleTypes, Between
<1>5. stranded' \subseteq DOMAIN items /\ Milder
  BY <1>1, SameIsMilder DEF QueueTypes
<1> QED BY <1>1, <1>4, <1>5, SideSteps

LEMMA Orders ==
  ASSUME NEW p \in Products, NEW q \in Products
  PROVE  /\ <<p>> \in Seq(Products) /\ <<p>> # <<>>
         /\ <<p, q>> \in Seq(Products) /\ <<p, q>> # <<>>
OBVIOUS

LEMMA ActStays ==
  ASSUME ConsoleTypes, QueueTypes, QueueInv, NEW op \in Ops, Act(op)
  PROVE  QueueTypes' /\ QueueInv'
<1>1. PICK todo : /\ Press("action", op, todo)
                  /\ op = "quick" => \E p \in Fresh : todo = <<p>>
  BY DEF Act
<1>2. op # "add"
  BY DEF Act, Offers
<1>3. op = "quick" => todo \in Seq(Products) /\ todo # <<>>
  <2>1. \A p \in Fresh : <<p>> \in Seq(Products) /\ <<p>> # <<>>
    BY Orders DEF Products
  <2> QED BY <1>1, <2>1
<1> QED BY <1>1, <1>2, <1>3, PressStays, CallsAndGets

LEMMA SubmitStays ==
  ASSUME ConsoleTypes, QueueTypes, QueueInv, Submit
  PROVE  QueueTypes' /\ QueueInv'
<1>1. /\ \A i \in DOMAIN Shelf : Shelf[i] \in Products
      /\ \A p \in Range(Shelf) : p \in Products
  BY DEF Products, Range
<1>2. PICK todo : Press("form", "add", todo) /\ todo \in Seq(Products) /\ todo # <<>>
  <2>1. ASSUME NEW i \in DOMAIN Shelf, NEW j \in DOMAIN Shelf, Press("form", "add", <<Shelf[i], Shelf[j]>>)
        PROVE  \E todo : Press("form", "add", todo) /\ todo \in Seq(Products) /\ todo # <<>>
    BY <1>1, <2>1, Orders
  <2>2. ASSUME NEW p \in Range(Shelf), Press("form", "add", <<p>>)
        PROVE  \E todo : Press("form", "add", todo) /\ todo \in Seq(Products) /\ todo # <<>>
    BY <1>1, <2>2, Orders
  <2> QED BY <2>1, <2>2 DEF Submit
<1> QED BY <1>2, PressStays, CallsAndGets DEF Ops

LEMMA AnswerTyped ==
  ASSUME QueueTypes, NEW ok
  PROVE  CallTyped(Answer(ok)) /\ Answer(ok).at = "done"
<1>1. Answer(ok).at = "done" /\ Answer(ok).item = 0
  BY AnswerIs
<1> QED BY <1>1, Indices DEF QueueTypes, CallTyped, Between

LEMMA CallsStay ==
  ASSUME ConsoleTypes, QueueTypes, QueueInv, NEW b \in Buttons, LoseCall(b) \/ CallReturns(b)
  PROVE  QueueTypes' /\ QueueInv'
<1>1. /\ UNCHANGED <<live, items, current, detail, moves, crossed>>
      /\ \A k \in Buttons \ {b} : call'[k] = call[k]
  BY DEF LoseCall, CallReturns, Reply, room, history, ConsoleTypes
<1>2. call'[b].at \notin Between /\ CallTyped(call'[b])
  <2>1. CASE LoseCall(b)
    <3>1. call'[b] = Answer(FALSE)
      BY <2>1 DEF LoseCall, Reply, ConsoleTypes
    <3> QED BY <3>1, AnswerTyped DEF Between
  <2>2. CASE CallReturns(b)
    <3>1. call'[b] = NoCall
      BY <2>2 DEF CallReturns, ConsoleTypes
    <3> QED BY <3>1, Indices DEF NoCall, CallTyped, QueueTypes, Between
  <2> QED BY <2>1, <2>2
<1>3. /\ stranded \subseteq stranded' /\ stranded' \subseteq DOMAIN items
      /\ call[b].at # "third" \/ call[b].seen.item \in stranded'
  <2>1. CASE LoseCall(b)
    <3>1. call[b].at = "third" => call[b].seen.item \in DOMAIN items
      <4>1. call[b].at = "third" => call[b].seen.item \in 1..Len(items)
        BY DEF QueueTypes, CallTyped
      <4> QED BY <4>1, Indices DEF QueueTypes
    <3>2. stranded' = IF call[b].at = "third" THEN stranded \cup { call[b].seen.item } ELSE stranded
      BY <2>1 DEF LoseCall
    <3> QED BY <3>1, <3>2 DEF QueueTypes
  <2>2. CASE CallReturns(b)
    BY <2>2 DEF CallReturns, QueueTypes
  <2> QED BY <2>1, <2>2
<1>4. \A g \in Gets : get'[g] = get[g] \/ (get'[g].at = "sent" /\ get'[g].reply = None)
  <2>1. SentGet.at = "sent" /\ SentGet.reply = None
    BY DEF SentGet, NoGet
  <2>2. CASE LoseCall(b)
    BY <2>2 DEF LoseCall
  <2>3. CASE CallReturns(b)
    BY <2>1, <2>3, CallsAndGets DEF CallReturns, ConsoleTypes
  <2> QED BY <2>2, <2>3
<1>5. ReadTyped(None) /\ Milder
  BY <1>1, SameIsMilder DEF ReadTyped
<1>6. \A g \in Gets : get'[g] = get[g] \/ (get'[g].at \in { "idle", "sent", "done" } /\ ReadTyped(get'[g].reply))
  BY <1>4, <1>5
<1>7. \A k \in Buttons :
        \/ call'[k] = call[k]
        \/ /\ call'[k].at \notin Between /\ CallTyped(call'[k])
           /\ call[k].at # "third" \/ call[k].seen.item \in stranded'
  BY <1>1, <1>2, <1>3
<1> QED BY <1>1, <1>3, <1>5, <1>6, <1>7, SideSteps

LEMMA ReadsStay ==
  ASSUME ConsoleTypes, QueueTypes, QueueInv,
         Poll \/ \E g \in Gets : ServeGet(g) \/ LoseGet(g) \/ GetReturns(g)
  PROVE  QueueTypes' /\ QueueInv'
<1>1. UNCHANGED <<live, items, current, call, moves, crossed, stranded>>
  BY DEF Poll, ServeGet, LoseGet, GetReturns, room, history
<1>2. ReadTyped(Room)
  <2>1. current # 0 => items[current].status \in Statuses
    BY Indices DEF QueueTypes, Items, Statuses
  <2> QED BY <2>1, Indices DEF Room, ReadTyped, Details, QueueTypes, Statuses
<1>3. ReadTyped(None) /\ Milder /\ stranded' \subseteq DOMAIN items
  BY <1>1, SameIsMilder DEF ReadTyped, QueueTypes
<1> DEFINE ReadsTyped ==
             /\ ReadTyped(detail')
             /\ \A g \in Gets : \/ get'[g] = get[g]
                                \/ get'[g].at \in { "idle", "sent", "done" } /\ ReadTyped(get'[g].reply)
<1>4. ReadsTyped
  <2>1. CASE Poll
    BY <2>1, <1>3, CallsAndGets DEF Poll, ConsoleTypes, QueueTypes, SentGet, NoGet
  <2>2. ASSUME NEW g \in Gets, ServeGet(g)
        PROVE  ReadsTyped
    BY <2>2, <1>2 DEF ServeGet, ConsoleTypes, QueueTypes
  <2>3. ASSUME NEW g \in Gets, LoseGet(g)
        PROVE  ReadsTyped
    BY <2>3, <1>3 DEF LoseGet, ConsoleTypes, QueueTypes
  <2>4. ASSUME NEW g \in Gets, GetReturns(g)
        PROVE  ReadsTyped
    BY <2>4, <1>3 DEF GetReturns, ConsoleTypes, QueueTypes, NoGet
  <2> QED BY <2>1, <2>2, <2>3, <2>4
<1> QED BY <1>1, <1>3, <1>4, SideSteps

--------------------------------------------------------------------------------
(* The handlers and the queue                                              *)

LEMMA Least ==
  ASSUME NEW S, S \subseteq Nat, S # {}
  PROVE  \E m \in S : \A n \in S : m <= n
<1> DEFINE R == OpToRel(<, Nat)
<1>1. PICK m \in S : \A n \in S : <<n, m>> \notin R
  <2>1. IsWellFoundedOn(R, Nat)
    BY NatLessThanWellFounded
  <2> HIDE DEF R
  <2> QED BY <2>1, WFMin
<1>2. ASSUME NEW n \in S, n < m
      PROVE  FALSE
  <2>1. <<n, m>> \in Nat \X Nat /\ <<n, m>>[1] < <<n, m>>[2]
    BY <1>2
  <2>2. <<n, m>> \in R
    BY <2>1 DEF OpToRel
  <2> QED BY <1>1, <2>2
<1> QED BY <1>2

(* NextPending is the first of those that wait after seq, if any does.     *)
LEMMA NextPendingIs ==
  ASSUME QueueTypes, NEW seq \in Nat
  PROVE  /\ NextPending(seq) \in Nat /\ NextPending(seq) <= Len(items)
         /\ \A i \in DOMAIN items :
              items[i].status = "pending" /\ items[i].seq > seq =>
                NextPending(seq) # 0 /\ items[NextPending(seq)].seq <= items[i].seq
<1> DEFINE after == { i \in DOMAIN items : items[i].status = "pending" /\ items[i].seq > seq }
           First(i) == \A j \in after : items[i].seq <= items[j].seq
           least == CHOOSE i \in after : First(i)
<1>1. /\ DOMAIN items = 1..Len(items) /\ Len(items) \in Nat
      /\ \A i \in DOMAIN items : items[i].seq \in Nat
  BY Indices DEF QueueTypes, Items
<1>2. NextPending(seq) = IF after = {} THEN 0 ELSE least
  BY DEF NextPending
<1>3. CASE after = {}
  BY <1>1, <1>2, <1>3
<1>4. CASE after # {}
  <2> DEFINE seqs == { items[i].seq : i \in after }
  <2>1. seqs \subseteq Nat /\ seqs # {}
    BY <1>1, <1>4
  <2>2. \E m \in seqs : \A n \in seqs : m <= n
    BY <2>1, Least
  <2>3. \E i \in after : First(i)
    BY <2>2
  <2>4. least \in after /\ First(least)
    <3> HIDE DEF First
    <3> QED BY <2>3
  <2>5. NextPending(seq) \in after /\ First(NextPending(seq))
    <3> HIDE DEF First, least, after
    <3> QED BY <1>2, <1>4, <2>4
  <2> QED BY <1>1, <2>5
<1> QED BY <1>3, <1>4

LEMMA ReplyIs ==
  ASSUME ConsoleTypes, QueueTypes, NEW b \in Buttons, NEW ok, Reply(b, ok)
  PROVE  /\ call'[b].at = "done" /\ CallTyped(call'[b])
         /\ \A k \in Buttons \ {b} : call'[k] = call[k]
BY AnswerTyped DEF Reply, ConsoleTypes

LEMMA PausesIs ==
  ASSUME ConsoleTypes, NEW b \in Buttons, NEW at, NEW x, Pauses(b, at, x)
  PROVE  /\ call'[b].at = at /\ call'[b].seen = x
         /\ call'[b].op = call[b].op /\ call'[b].item = call[b].item /\ call'[b].todo = call[b].todo
         /\ \A k \in Buttons \ {b} : call'[k] = call[k]
<1>1. IsCall(call[b])
  BY DEF ConsoleTypes
<1>2. /\ call'[b] = [ call[b] EXCEPT !.at = at, !.seen = x ]
      /\ \A k \in Buttons \ {b} : call'[k] = call[k]
  BY DEF Pauses, ConsoleTypes
<1> QED BY <1>1, <1>2 DEF IsCall, CallFields

LEMMA HalfwayIs ==
  ASSUME ConsoleTypes, NEW b \in Buttons, NEW x, Halfway(b, x)
  PROVE  /\ call'[b].at = "half" /\ call'[b].seen = x
         /\ call'[b].op = call[b].op /\ call'[b].item = call[b].item /\ call'[b].todo = call[b].todo
         /\ \A k \in Buttons \ {b} : call'[k] = call[k]
BY PausesIs DEF Halfway

LEMMA GoOnIs ==
  ASSUME ConsoleTypes, QueueTypes, NEW b \in Buttons, GoOn(b), call[b].op = "add", call[b].at \in Between
  PROVE  /\ call'[b].at \in { "sent", "done" } /\ CallTyped(call'[b])
         /\ \A k \in Buttons \ {b} : call'[k] = call[k]
<1>1. CASE Tail(call[b].todo) = <<>>
  BY <1>1, ReplyIs DEF GoOn
<1>2. CASE Tail(call[b].todo) # <<>>
  <2>1. PICK rest : rest = Tail(call[b].todo)
    OBVIOUS
  <2>2. call' = [ call EXCEPT ![b].at = "sent", ![b].todo = rest, ![b].seen = None ]
    BY <1>2, <2>1 DEF GoOn
  <2>3. /\ call'[b] = [ call[b] EXCEPT !.at = "sent", !.todo = rest, !.seen = None ]
        /\ \A k \in Buttons \ {b} : call'[k] = call[k]
    BY <2>2 DEF ConsoleTypes
  <2>4. IsCall(call[b]) /\ CallTyped(call[b])
    BY DEF ConsoleTypes, QueueTypes
  <2>5. call'[b].at = "sent" /\ call'[b].todo = rest /\ call'[b].item = call[b].item
    BY <2>3, <2>4 DEF IsCall, CallFields
  <2>6. call[b].todo \in Seq(Products) /\ call[b].todo # <<>>
    BY <2>4 DEF CallTyped
  <2>7. rest \in Seq(Products) /\ rest # <<>>
    BY <1>2, <2>1, <2>6
  <2> QED BY <2>3, <2>4, <2>5, <2>7 DEF CallTyped, Between
<1> QED BY <1>1, <1>2

LEMMA PointedIs ==
  ASSUME ConsoleTypes, QueueTypes, NEW b \in Buttons, Pointed(b), call[b].at = "third"
  PROVE  /\ call'[b].at \in { "fourth", "sent", "done" } /\ CallTyped(call'[b])
         /\ call'[b].at = "fourth" => call'[b].op = "add"
         /\ \A k \in Buttons \ {b} : call'[k] = call[k]
<1>1. call[b].op = "add" /\ CallTyped(call[b])
  BY DEF ConsoleTypes, IsCall, QueueTypes
<1>2. CASE GoOn(b)
  BY <1>1, <1>2, GoOnIs DEF Between
<1>3. CASE Pauses(b, "fourth", None)
  <2>1. /\ call'[b].at = "fourth" /\ call'[b].op = "add"
        /\ call'[b].item = call[b].item /\ call'[b].todo = call[b].todo
        /\ \A k \in Buttons \ {b} : call'[k] = call[k]
    BY <1>1, <1>3, PausesIs
  <2> QED BY <1>1, <2>1 DEF CallTyped, Between
<1> QED BY <1>2, <1>3 DEF Pointed

(* What serving has in common.                                             *)
Works(b) == Crosses(b) /\ UNCHANGED <<detail, get>> /\ \A k \in Buttons \ {b} : call'[k] = call[k]

LEMMA WorksTyped ==
  ASSUME ConsoleTypes, QueueTypes, NEW b \in Buttons, Works(b)
  PROVE  crossed \subseteq crossed' /\ crossed' \subseteq Ops
<1>1. IsCall(call["action"])
  BY CallsAndGets DEF ConsoleTypes
<1> QED BY <1>1 DEF Works, Crosses, QueueTypes, IsCall

(* A handler reads, writes a status or answers.                            *)
LEMMA HandlerStays ==
  ASSUME ConsoleTypes, QueueTypes, QueueInv, NEW b \in Buttons, Works(b),
         Milder, UNCHANGED <<current, moves>>, live' \in { "idle", "live", "ended" },
         live' = "ended" => live = "ended",
         stranded \subseteq stranded', stranded' \subseteq DOMAIN items,
         CallTyped(call'[b]), FindsNow(b),
         call[b].at # "third" \/ call[b].seen.item \in stranded'
  PROVE  QueueTypes' /\ QueueInv'
<1>1. crossed \subseteq crossed' /\ crossed' \subseteq Ops
  BY WorksTyped
<1>2. Stays
  BY <1>1 DEF Stays, Works
<1>3. QueueInv'
  BY <1>2, StaysKeeps
<1>4. HasMax' /\ Len(items) <= Len(items') /\ DOMAIN items' = DOMAIN items
  BY MilderFacts
<1>5. /\ UNCHANGED detail /\ \A k \in Buttons : call'[k] = call[k] \/ CallTyped(call'[k])
      /\ \A g \in Gets : get'[g] = get[g]
      /\ items' \in Seq(Items) /\ current' \in Nat /\ current' <= Len(items') /\ moves' \in Nat
  BY DEF Works, QueueTypes, Milder
<1>6. QueueTypes'
  BY <1>1, <1>4, <1>5, TypesStay
<1> QED BY <1>3, <1>6

(* A request that is not between steps need not have found anything.       *)
LEMMA Outside ==
  ASSUME NEW b \in Buttons, call'[b].at \notin Between
  PROVE  FindsNow(b)
BY DEF FindsNow, FoundNew, FoundNext, FoundLive, Between

LEMMA FirstSteps ==
  ASSUME ConsoleTypes, QueueTypes, QueueInv, NEW b \in Buttons, Serve(b), call[b].at = "sent"
  PROVE  QueueTypes' /\ QueueInv'
<1>1. /\ Handle(b) /\ Crosses(b) /\ UNCHANGED <<detail, get, stranded>>
      /\ call[b].op \in Ops /\ CallTyped(call[b]) /\ IsCall(call[b])
      /\ live \in { "idle", "live", "ended" } /\ current \in Nat /\ current <= Len(items)
      /\ UNCHANGED items => Milder
      /\ stranded' \subseteq DOMAIN items
  BY SameIsMilder DEF Serve, ConsoleTypes, IsCall, QueueTypes
<1>2. ASSUME Milder, UNCHANGED <<current, moves>>, live' \in { "idle", "live", "ended" },
             live' = "ended" => live = "ended",
             CallTyped(call'[b]), FindsNow(b), \A k \in Buttons \ {b} : call'[k] = call[k]
      PROVE  QueueTypes' /\ QueueInv'
  BY <1>1, <1>2, HandlerStays DEF Works
<1>3. ASSUME NEW ok, Reply(b, ok), Milder, UNCHANGED <<live, current, moves>>
      PROVE  QueueTypes' /\ QueueInv'
  <2>1. /\ call'[b].at = "done" /\ CallTyped(call'[b])
        /\ \A k \in Buttons \ {b} : call'[k] = call[k]
    BY <1>3, ReplyIs
  <2>2. FindsNow(b)
    BY <2>1, Outside DEF Between
  <2> QED BY <1>1, <1>2, <1>3, <2>1, <2>2
<1>4. CASE call[b].op = "start" /\ Start(b)
  <2>1. /\ UNCHANGED <<items, current, moves>> /\ Reply(b, live = "idle")
        /\ live' = IF live = "ended" THEN live ELSE "live"
    BY <1>4 DEF Start
  <2>2. /\ call'[b].at = "done" /\ CallTyped(call'[b])
        /\ \A k \in Buttons \ {b} : call'[k] = call[k]
    BY <2>1, ReplyIs
  <2>3. FindsNow(b)
    BY <2>2, Outside DEF Between
  <2> QED BY <1>1, <1>2, <2>1, <2>2, <2>3
<1>5. CASE call[b].op = "switch" /\ CloseCurrent(b)
  <2>1. CASE Reply(b, FALSE) /\ UNCHANGED <<room, moves>>
    BY <1>1, <1>3, <2>1 DEF room
  <2>2. CASE /\ live = "live" /\ current # 0
             /\ SetStatus(current, Closed(items[current].status))
             /\ Halfway(b, [ next |-> NextPending(items[current].seq) ])
             /\ UNCHANGED <<live, current, moves>>
    <3> DEFINE x == [ next |-> NextPending(items[current].seq) ]
    <3>1. current \in DOMAIN items /\ items[current] \in Items
      BY <1>1, <2>2, Indices DEF QueueTypes
    <3>2. items[current].seq \in Nat /\ items[current].status \in Statuses
      BY <3>1 DEF Items, Statuses
    <3>3. /\ Closed(items[current].status) \in { "settled", "cancelled" }
          /\ items[current].status = "cancelled" => Closed(items[current].status) = "cancelled"
      BY <3>2 DEF Closed, Statuses, Open
    <3>4. Milder
      BY <2>2, <3>3, StatusIsMilder DEF Statuses, Open
    <3>5. /\ call'[b].at = "half" /\ call'[b].seen = x /\ call'[b].op = "switch" /\ call'[b].item = call[b].item
          /\ \A k \in Buttons \ {b} : call'[k] = call[k]
      BY <1>5, <2>2, HalfwayIs
    <3>6. x.next \in Nat /\ x.next <= Len(items)
      BY <3>2, NextPendingIs
    <3>7. CallTyped(call'[b])
      BY <1>1, <3>5, <3>6 DEF CallTyped
    <3>8. ASSUME ~MovingCrossed'
          PROVE  FoundNext(call[b])'
      <4>1. EachOnce /\ InOrder
        BY <1>1, <3>8, CrossedGrows DEF QueueInv, MovingCrossed
      <4>2. DOMAIN items' = DOMAIN items
        BY <3>4, MilderFacts
      <4>3. items'[current].status # "pending"
        BY <2>2, <3>1, <3>3, Indices DEF SetStatus, QueueTypes, Items
      <4>4. \A i : ~Placing(i)
        <5>1. ASSUME NEW k \in Buttons, call[k].at = "third"
              PROVE  FALSE
          <6>1. k # b /\ call[k].op = "add"
            BY <5>1 DEF ConsoleTypes, IsCall
          <6>2. call[k].op = "end"
            BY <1>1, <1>5, <3>8, <5>1, <6>1, Alone DEF Between
          <6> QED BY <6>1, <6>2
        <5> QED BY <5>1 DEF Placing
      <4>5. ASSUME NEW i \in DOMAIN items \ stranded', items'[i].status = "pending"
            PROVE  x.next # 0 /\ (i # x.next => items'[i].seq > items'[x.next].seq)
        <5>1. i # current /\ items[i].status = "pending" /\ i \notin stranded
          BY <1>1, <3>4, <4>3, <4>5 DEF Milder
        <5>2. items[i].seq > items[current].seq
          BY <4>1, <4>4, <4>5, <5>1 DEF InOrder
        <5>3. x.next # 0 /\ items[x.next].seq <= items[i].seq
          BY <3>2, <4>5, <5>1, <5>2, NextPendingIs
        <5>4. x.next \in DOMAIN items
          BY <3>6, <5>3, Indices DEF QueueTypes
        <5>5. i # x.next => items[i].seq # items[x.next].seq
          BY <4>1, <4>5, <5>4 DEF EachOnce
        <5>6. items[i].seq \in Nat /\ items[x.next].seq \in Nat
          BY <4>5, <5>4, Indices DEF QueueTypes, Items
        <5>7. i # x.next => items[i].seq > items[x.next].seq
          BY <5>3, <5>5, <5>6
        <5> QED BY <3>4, <4>5, <5>3, <5>4, <5>7 DEF Milder
      <4>6. PICK n : n = x.next
        OBVIOUS
      <4>7. After(n)'
        BY <4>2, <4>5, <4>6 DEF After
      <4>8. call'[b].seen.next = n
        BY <3>5, <4>6
      <4> QED BY <4>7, <4>8 DEF FoundNext
    <3>9. FindsNow(b)
      BY <2>2, <3>5, <3>8 DEF FindsNow, FoundNew, FoundLive
    <3> QED BY <1>1, <1>2, <2>2, <3>4, <3>5, <3>7, <3>9
  <2> QED BY <1>5, <2>1, <2>2 DEF CloseCurrent
<1>6. CASE call[b].op = "stop" /\ Stop(b)
  <2> DEFINE i == call[b].item
  <2>1. /\ Reply(b, items[i].status \in Open) /\ UNCHANGED <<live, current, moves>>
        /\ IF items[i].status \in Open THEN SetStatus(i, "cancelled") ELSE UNCHANGED items
    BY <1>6 DEF Stop
  <2>2. Milder
    <3>1. CASE items[i].status \in Open /\ SetStatus(i, "cancelled")
      BY <3>1, StatusIsMilder DEF Statuses, Open
    <3> QED BY <1>1, <2>1, <3>1
  <2> QED BY <1>3, <2>1, <2>2
<1>7. CASE call[b].op = "end" /\ CheckEnd(b)
  <2>1. UNCHANGED <<live, items, current, moves>>
    BY <1>7 DEF CheckEnd, room
  <2>2. CASE Reply(b, FALSE)
    BY <1>1, <1>3, <2>1, <2>2
  <2>3. CASE Halfway(b, None) /\ (current # 0 => items[current].status \notin Open)
    <3>1. /\ call'[b].at = "half" /\ call'[b].op = "end" /\ call'[b].item = call[b].item
          /\ \A k \in Buttons \ {b} : call'[k] = call[k]
      BY <1>7, <2>3, HalfwayIs
    <3>2. CallTyped(call'[b])
      BY <1>1, <3>1 DEF CallTyped
    <3>3. FindsNow(b)
      BY <2>1, <2>3, <3>1 DEF FindsNow, FoundNew, FoundNext, FoundLive, NoneOnShow
    <3> QED BY <1>1, <1>2, <2>1, <3>1, <3>2, <3>3
  <2> QED BY <1>7, <2>2, <2>3 DEF CheckEnd
<1>8. CASE call[b].op = "quick" /\ Create(b)
  <2>1. /\ call'[b] = [ call[b] EXCEPT !.op = "add" ] /\ UNCHANGED <<live, items, current, moves>>
        /\ \A k \in Buttons \ {b} : call'[k] = call[k]
    BY <1>8 DEF Create, ConsoleTypes, room
  <2>2. call'[b].at = "sent" /\ call'[b].op = "add" /\ call'[b].item = call[b].item /\ call'[b].todo = call[b].todo
    BY <1>1, <2>1 DEF IsCall, CallFields
  <2>3. CallTyped(call'[b]) /\ FindsNow(b)
    BY <1>1, <1>8, <2>2, Outside DEF CallTyped, Between
  <2> QED BY <1>1, <1>2, <2>1, <2>3
<1>9. CASE call[b].op = "add" /\ CheckAdd(b)
  <2>1. UNCHANGED <<live, items, current, moves>>
    BY <1>9 DEF CheckAdd, room
  <2>2. CASE Reply(b, FALSE)
    BY <1>1, <1>3, <2>1, <2>2
  <2>3. CASE /\ live # "ended" /\ Free(Head(call[b].todo))
             /\ Halfway(b, [ live |-> live, current |-> current, seq |-> MaxSeq + 1 ])
    <3> DEFINE x == [ live |-> live, current |-> current, seq |-> MaxSeq + 1 ]
    <3>1. /\ call'[b].at = "half" /\ call'[b].seen = x /\ call'[b].op = "add"
          /\ call'[b].item = call[b].item /\ call'[b].todo = call[b].todo
          /\ \A k \in Buttons \ {b} : call'[k] = call[k]
      BY <1>9, <2>3, HalfwayIs
    <3>2. MaxSeq \in Nat /\ \A j \in DOMAIN items : items[j].seq <= MaxSeq /\ items[j].seq \in Nat
      BY MaxSeqIs, Indices DEF QueueTypes, Items
    <3>3. x.seq \in Nat \ {0} /\ \A j \in DOMAIN items : items[j].seq < x.seq
      BY <3>2
    <3> HIDE DEF x
    <3>4. CallTyped(call'[b])
      BY <1>1, <1>9, <3>1, <3>3 DEF CallTyped, Between
    <3>5. FoundNew(call[b])'
      BY <2>1, <2>3, <3>1, <3>3 DEF FoundNew, Free
    <3>6. FindsNow(b)
      BY <2>1, <2>3, <3>1, <3>5 DEF FindsNow, FoundNext, FoundLive
    <3> QED BY <1>1, <1>2, <2>1, <3>1, <3>4, <3>6
  <2> QED BY <1>9, <2>2, <2>3 DEF CheckAdd
<1> QED BY <1>1, <1>4, <1>5, <1>6, <1>7, <1>8, <1>9 DEF Handle, Ops

(* Who crosses a handler that adds does not add, and who is crossed while  *)
(* it ends is recorded.                                                    *)
LEMMA CrossingTells ==
  ASSUME ConsoleTypes, NEW b \in Buttons, Crosses(b), NEW k \in Buttons \ {b}, call[k].at \in Between
  PROVE  /\ call[b].op = "add" /\ call[k].op = "add" => "add" \in crossed'
         /\ call[b].op = "end" \/ call[k].op = "end" => "end" \in crossed'
<1>1. crossed' = crossed \cup ({ call["action"].op } \cap Telling)
  BY DEF Crosses
<1>2. call["form"].op = "add" /\ { b, k } = { "action", "form" }
  BY CallsAndGets DEF ConsoleTypes
<1> QED BY <1>1, <1>2 DEF Telling

(* The pointer is moved.                                                   *)
LEMMA MovePointerKeeps ==
  ASSUME ConsoleTypes, QueueTypes, QueueInv, NEW b \in Buttons, Works(b),
         call[b].at = "half", call[b].op = "switch", MovePointer(b), UNCHANGED stranded
  PROVE  QueueTypes' /\ QueueInv'
<1>1. /\ current' = call[b].seen.next /\ moves' = moves + 1 /\ UNCHANGED <<live, items>>
      /\ \E ok : Reply(b, ok)
  BY DEF MovePointer
<1>2. /\ call'[b].at = "done" /\ CallTyped(call'[b])
      /\ \A k \in Buttons \ {b} : call'[k] = call[k]
  BY <1>1, ReplyIs
<1>3. /\ crossed \subseteq crossed' /\ crossed' \subseteq Ops
      /\ ~MovingCrossed' => ~MovingCrossed
  BY WorksTyped, CrossedGrows DEF Works
<1>4. CallTyped(call[b])
  BY DEF QueueTypes
<1>5. QueueTypes'
  <2>1. HasMax'
    BY <1>1 DEF HasMax, IsLast, QueueTypes
  <2>2. current' \in Nat /\ current' <= Len(items') /\ moves' \in Nat /\ Len(items) <= Len(items')
    BY <1>1, <1>4, Indices DEF CallTyped, QueueTypes
  <2>3. /\ items' \in Seq(Items) /\ live' \in { "idle", "live", "ended" } /\ stranded' \subseteq DOMAIN items'
        /\ UNCHANGED detail /\ \A g \in Gets : get'[g] = get[g]
        /\ \A k \in Buttons : call'[k] = call[k] \/ CallTyped(call'[k])
    BY <1>1, <1>2 DEF QueueTypes, Works
  <2> QED BY <1>3, <2>1, <2>2, <2>3, TypesStay
<1>6. \A k \in Buttons \ {b} : call[k].op = "add"
  BY CallsAndGets DEF ConsoleTypes
<1>7. ASSUME "add" \notin crossed'
      PROVE  EachOnce' /\ \A k \in Buttons : FoundNew(call[k])'
  <2>1. EachOnce /\ \A k \in Buttons : FoundNew(call[k])
    BY <1>3, <1>7 DEF QueueInv
  <2>2. EachOnce'
    BY <1>1, <2>1 DEF EachOnce
  <2>3. ASSUME NEW k \in Buttons
        PROVE  FoundNew(call[k])'
    BY <1>1, <1>2, <2>1 DEF FoundNew, Free
  <2> QED BY <2>2, <2>3
<1>8. ASSUME ~MovingCrossed'
      PROVE  InOrder' /\ \A k \in Buttons : FoundNext(call[k])'
  <2>1. After(call[b].seen.next)
    BY <1>3, <1>8 DEF QueueInv, FoundNext
  <2>2. InOrder'
    BY <1>1, <2>1 DEF InOrder, After
  <2>3. \A k \in Buttons : FoundNext(call[k])'
    BY <1>2, <1>6 DEF FoundNext
  <2> QED BY <2>2, <2>3
<1>9. ASSUME "end" \notin crossed'
      PROVE  (live' = "ended" => NoneOnShow') /\ \A k \in Buttons : FoundLive(call[k])'
  <2>1. \A k \in Buttons : FoundLive(call[k])
    BY <1>3, <1>9 DEF QueueInv
  <2>2. live # "ended"
    BY <2>1 DEF FoundLive, Between
  <2>3. \A k \in Buttons : FoundLive(call[k])'
    BY <1>1, <1>2, <1>6, <2>2 DEF FoundLive, Between
  <2> QED BY <1>1, <2>2, <2>3
<1> QED BY <1>5, <1>7, <1>8, <1>9 DEF QueueInv

(* The room ends.                                                          *)
LEMMA EndKeeps ==
  ASSUME ConsoleTypes, QueueTypes, QueueInv, NEW b \in Buttons, Works(b),
         call[b].at = "half", call[b].op = "end", End(b), UNCHANGED stranded
  PROVE  QueueTypes' /\ QueueInv'
<1>1. live' = "ended" /\ Reply(b, live # "ended") /\ UNCHANGED <<items, current, moves>>
  BY DEF End
<1>2. /\ call'[b].at = "done" /\ CallTyped(call'[b])
      /\ \A k \in Buttons \ {b} : call'[k] = call[k]
  BY <1>1, ReplyIs
<1>3. /\ crossed \subseteq crossed' /\ crossed' \subseteq Ops
      /\ ~MovingCrossed' => ~MovingCrossed
  BY WorksTyped, CrossedGrows DEF Works
<1>4. QueueTypes'
  <2>1. HasMax'
    BY <1>1 DEF HasMax, IsLast, QueueTypes
  <2>2. /\ items' \in Seq(Items) /\ live' \in { "idle", "live", "ended" } /\ stranded' \subseteq DOMAIN items'
        /\ UNCHANGED detail /\ \A g \in Gets : get'[g] = get[g]
        /\ \A k \in Buttons : call'[k] = call[k] \/ CallTyped(call'[k])
        /\ current' \in Nat /\ current' <= Len(items') /\ moves' \in Nat /\ Len(items) <= Len(items')
    BY <1>1, <1>2, Indices DEF QueueTypes, Works
  <2> QED BY <1>3, <2>1, <2>2, TypesStay
<1>5. \A k \in Buttons \ {b} : call[k].op = "add"
  BY CallsAndGets DEF ConsoleTypes
<1>6. ASSUME "add" \notin crossed'
      PROVE  EachOnce' /\ \A k \in Buttons : FoundNew(call[k])'
  <2>1. EachOnce /\ \A k \in Buttons : FoundNew(call[k])
    BY <1>3, <1>6 DEF QueueInv
  <2>2. EachOnce'
    BY <1>1, <2>1 DEF EachOnce
  <2>3. ASSUME NEW k \in Buttons
        PROVE  FoundNew(call[k])'
    BY <1>1, <1>2, <2>1 DEF FoundNew, Free
  <2> QED BY <2>2, <2>3
<1>7. ASSUME ~MovingCrossed'
      PROVE  InOrder' /\ \A k \in Buttons : FoundNext(call[k])'
  <2>1. InOrder
    BY <1>3, <1>7 DEF QueueInv
  <2>2. \A i : Placing(i) => Placing(i)'
    BY <1>2 DEF Placing
  <2>3. InOrder'
    BY <1>1, <2>1, <2>2 DEF InOrder
  <2>4. \A k \in Buttons : FoundNext(call[k])'
    BY <1>2, <1>5 DEF FoundNext
  <2> QED BY <2>3, <2>4
<1>8. ASSUME "end" \notin crossed'
      PROVE  NoneOnShow' /\ \A k \in Buttons : FoundLive(call[k])'
  <2>1. NoneOnShow
    BY <1>3, <1>8 DEF QueueInv, FoundLive
  <2>2. NoneOnShow'
    BY <1>1, <2>1 DEF NoneOnShow
  <2>3. \A k \in Buttons \ {b} : call[k].at \notin Between
    BY <1>8, CrossingTells DEF Works
  <2>4. \A k \in Buttons : call'[k].at \notin Between
    BY <1>2, <2>3 DEF Between
  <2> QED BY <2>2, <2>4 DEF FoundLive, Between
<1> QED BY <1>4, <1>6, <1>7, <1>8 DEF QueueInv

(* The room points at the item that was added.                             *)
LEMMA PointKeeps ==
  ASSUME SwitchInv, QueueTypes, QueueInv, NEW b \in Buttons, Works(b),
         call[b].at = "third", Point(b), UNCHANGED stranded
  PROVE  QueueTypes' /\ QueueInv'
<1>0. ConsoleTypes /\ call[b].op = "add" /\ CallTyped(call[b])
  BY DEF SwitchInv, ConsoleTypes, IsCall, QueueTypes
<1>1. current' = call[b].seen.item /\ moves' = moves + 1 /\ Pointed(b) /\ UNCHANGED <<live, items>>
  BY DEF Point
<1>2. /\ call'[b].at \in { "fourth", "sent", "done" } /\ CallTyped(call'[b])
      /\ call'[b].at = "fourth" => call'[b].op = "add"
      /\ \A k \in Buttons \ {b} : call'[k] = call[k]
  BY <1>0, <1>1, PointedIs
<1>3. /\ crossed \subseteq crossed' /\ crossed' \subseteq Ops
      /\ ~MovingCrossed' => ~MovingCrossed
  BY <1>0, WorksTyped, CrossedGrows DEF Works
<1>4. QueueTypes'
  <2>1. HasMax'
    BY <1>1 DEF HasMax, IsLast, QueueTypes
  <2>2. current' \in Nat /\ current' <= Len(items') /\ moves' \in Nat /\ Len(items) <= Len(items')
    BY <1>0, <1>1, Indices DEF CallTyped, QueueTypes
  <2>3. /\ items' \in Seq(Items) /\ live' \in { "idle", "live", "ended" } /\ stranded' \subseteq DOMAIN items'
        /\ UNCHANGED detail /\ \A g \in Gets : get'[g] = get[g]
        /\ \A k \in Buttons : call'[k] = call[k] \/ CallTyped(call'[k])
    BY <1>1, <1>2 DEF QueueTypes, Works
  <2> QED BY <1>3, <2>1, <2>2, <2>3, TypesStay
<1>5. ASSUME "add" \notin crossed'
      PROVE  EachOnce' /\ \A k \in Buttons : FoundNew(call[k])'
  <2>1. EachOnce /\ \A k \in Buttons : FoundNew(call[k])
    BY <1>3, <1>5 DEF QueueInv
  <2>2. EachOnce'
    BY <1>1, <2>1 DEF EachOnce
  <2>3. ASSUME NEW k \in Buttons
        PROVE  FoundNew(call[k])'
    BY <1>1, <1>2, <2>1 DEF FoundNew, Free
  <2> QED BY <2>2, <2>3
<1>6. ASSUME ~MovingCrossed'
      PROVE  InOrder' /\ \A k \in Buttons : FoundNext(call[k])'
  <2>1. InOrder /\ current = 0
    BY <1>3, <1>6 DEF QueueInv, SwitchInv, Found
  <2>2. ASSUME NEW k \in Buttons \ {b}, call[k].at \in Between
        PROVE  call[k].op = "end" /\ call[k].at # "third"
    <3>1. call[k].op = "end"
      BY <1>0, <1>6, <2>2, Alone DEF Works
    <3> QED BY <1>0, <3>1 DEF ConsoleTypes, IsCall
  <2>3. \A i : Placing(i) => i = current'
    BY <1>1, <2>2 DEF Placing, Between
  <2>4. \A i \in DOMAIN items \ (stranded \cup { current' }) : items[i].status # "pending"
    BY <2>1, <2>3, Indices DEF InOrder, QueueTypes
  <2>5. InOrder'
    BY <1>1, <2>4 DEF InOrder
  <2>6. \A k \in Buttons : FoundNext(call[k])'
    BY <1>2, <2>2 DEF FoundNext, Between
  <2> QED BY <2>5, <2>6
<1>7. ASSUME "end" \notin crossed'
      PROVE  (live' = "ended" => NoneOnShow') /\ \A k \in Buttons : FoundLive(call[k])'
  <2>1. FoundLive(call[b])
    BY <1>3, <1>7 DEF QueueInv
  <2>2. live # "ended"
    BY <1>0, <2>1 DEF FoundLive, Between
  <2>3. \A k \in Buttons \ {b} : call[k].at \in Between => call[k].op # "end"
    BY <1>0, <1>7, CrossingTells DEF Works
  <2>4. \A k \in Buttons : FoundLive(call[k])'
    BY <1>1, <1>2, <2>2, <2>3 DEF FoundLive, Between
  <2> QED BY <1>1, <2>2, <2>4
<1> QED BY <1>4, <1>5, <1>6, <1>7 DEF QueueInv

(* An item is inserted.  It is new and the last; unless the pointer was    *)
(* found on an item, it is yet to be current, or has missed it.            *)
LEMMA InsertedKeeps ==
  ASSUME SwitchInv, QueueTypes, QueueInv, NEW b \in Buttons, Works(b),
         call[b].at = "half", call[b].op = "add", Inserted(b),
         CallTyped(call[b])', call'[b].at \notin { "half", "fourth" }, call'[b].at = "third" => call'[b].op = "add",
         stranded \subseteq stranded', stranded' \subseteq stranded \cup { Len(items) + 1 },
         TakesPointer(call[b].seen) =>
           \/ Len(items) + 1 \in stranded'
           \/ call'[b].at = "third" /\ call'[b].seen.item = Len(items) + 1
  PROVE  QueueTypes' /\ QueueInv'
<1> DEFINE c == call[b]
           new == Item(Head(c.todo), "pending", c.seen.seq)
<1>0. /\ ConsoleTypes /\ CallTyped(c)
      /\ items \in Seq(Items) /\ current \in Nat /\ current <= Len(items) /\ HasMax
  BY DEF SwitchInv, QueueTypes
<1>1. /\ items' = Append(items, new) /\ UNCHANGED <<live, current, moves>>
      /\ \A k \in Buttons \ {b} : call'[k] = call[k]
  BY DEF Inserted, Works
<1>2. /\ DOMAIN items = 1..Len(items) /\ Len(items) \in Nat
      /\ \A i \in DOMAIN items : items[i] \in Items
  BY <1>0, Indices
<1>3. c.todo \in Seq(Products) /\ c.todo # <<>> /\ c.seen.seq \in Nat \ {0}
  BY <1>0 DEF CallTyped, Between
<1>4. /\ new \in Items /\ new.product = Head(c.todo) /\ new.status = "pending" /\ new.seq = c.seen.seq
  BY <1>3 DEF Item, Items, Open
<1> HIDE DEF new
<1>5. /\ items' \in Seq(Items) /\ Len(items') = Len(items) + 1
      /\ DOMAIN items' = DOMAIN items \cup { Len(items) + 1 } /\ Len(items) + 1 \notin DOMAIN items
      /\ \A i \in DOMAIN items : items'[i] = items[i]
      /\ items'[Len(items) + 1] = new
  BY <1>0, <1>1, <1>2, <1>4
<1>6. /\ crossed \subseteq crossed' /\ crossed' \subseteq Ops
      /\ ~MovingCrossed' => ~MovingCrossed
  BY <1>0, WorksTyped, CrossedGrows DEF Works
<1>7. HasMax'
  <2>1. \A i \in DOMAIN items' : items'[i].seq \in Nat
    BY <1>2, <1>4, <1>5 DEF Items
  <2>2. CASE items = <<>>
    BY <1>2, <1>5, <2>1, <2>2 DEF HasMax, IsLast
  <2>3. ASSUME NEW m \in DOMAIN items, IsLast(m)
        PROVE  HasMax'
    <3>1. CASE items[m].seq >= new.seq
      <4>1. \A j \in DOMAIN items' : items'[j].seq <= items'[m].seq
        BY <1>5, <2>1, <2>3, <3>1 DEF IsLast
      <4> QED BY <1>5, <4>1 DEF HasMax, IsLast
    <3>2. CASE items[m].seq < new.seq
      <4>1. \A j \in DOMAIN items' : items'[j].seq <= items'[Len(items) + 1].seq
        BY <1>5, <2>1, <2>3, <3>2 DEF IsLast
      <4> QED BY <1>5, <4>1 DEF HasMax, IsLast
    <3>3. items[m].seq \in Nat /\ new.seq \in Nat
      BY <1>5, <2>1
    <3> QED BY <3>1, <3>2, <3>3
  <2> QED BY <1>0, <2>2, <2>3 DEF HasMax
<1>8. QueueTypes'
  <2>1. /\ live' \in { "idle", "live", "ended" } /\ stranded' \subseteq DOMAIN items'
        /\ UNCHANGED detail /\ \A g \in Gets : get'[g] = get[g]
        /\ \A k \in Buttons : call'[k] = call[k] \/ CallTyped(call[k])'
        /\ current' \in Nat /\ current' <= Len(items') /\ moves' \in Nat /\ Len(items) <= Len(items')
    BY <1>1, <1>2, <1>5 DEF QueueTypes, Works
  <2> QED BY <1>5, <1>6, <1>7, <2>1, TypesStay
<1>9. ASSUME "add" \notin crossed'
      PROVE  EachOnce' /\ \A k \in Buttons : FoundNew(call[k])'
  <2>1. EachOnce /\ FoundNew(c)
    BY <1>6, <1>9 DEF QueueInv
  <2>2. Free(Head(c.todo)) /\ \A i \in DOMAIN items : items[i].seq < new.seq
    BY <1>4, <2>1 DEF FoundNew
  <2>3. new.seq \in Nat /\ \A i \in DOMAIN items : items[i].seq \in Nat
    BY <1>2, <1>4 DEF Items
  <2>4. \A i, j \in DOMAIN items' : i # j => items'[i].seq # items'[j].seq
    BY <1>5, <2>1, <2>2, <2>3 DEF EachOnce
  <2>5. \A i, j \in DOMAIN items' :
          (i # j /\ items'[i].status \in Open /\ items'[j].status \in Open) => items'[i].product # items'[j].product
    <3>1. \A i \in DOMAIN items : items[i].status \in Open => items[i].product # new.product
      BY <1>4, <2>2 DEF Free, Open
    <3>2. \A i, j \in DOMAIN items :
            i # j /\ items[i].status \in Open /\ items[j].status \in Open => items[i].product # items[j].product
      BY <2>1 DEF EachOnce
    <3> QED BY <1>5, <3>1, <3>2
  <2>6. EachOnce'
    BY <2>4, <2>5 DEF EachOnce
  <2>7. \A k \in Buttons : ~(call'[k].at = "half" /\ call'[k].op = "add")
    BY <1>0, <1>1, <1>9, CrossingTells DEF Works, Between
  <2> QED BY <2>6, <2>7 DEF FoundNew
<1>10. ASSUME ~MovingCrossed'
       PROVE  InOrder' /\ \A k \in Buttons : FoundNext(call[k])'
  <2>1. InOrder /\ FoundNew(c) /\ c.seen.current = current
    BY <1>6, <1>10 DEF QueueInv, SwitchInv, Found, MovingCrossed
  <2>2. \A i \in DOMAIN items : items[i].seq < new.seq /\ items[i].seq \in Nat
    BY <1>2, <1>4, <2>1 DEF FoundNew, Items
  <2>3. \A i : Placing(i) => Placing(i)'
    BY <1>1 DEF Placing
  <2>4. current # 0 => current \in DOMAIN items
    BY <1>0, <1>2
  <2>5. ASSUME NEW i \in DOMAIN items' \ (stranded' \cup { current }), items'[i].status = "pending", ~Placing(i)'
        PROVE  current # 0 /\ items'[i].seq > items'[current].seq
    <3>1. CASE i \in DOMAIN items
      <4>1. i \notin stranded /\ ~Placing(i) /\ items[i].status = "pending"
        BY <1>5, <2>3, <2>5, <3>1
      <4> QED BY <1>5, <2>1, <2>4, <2>5, <3>1, <4>1 DEF InOrder
    <3>2. CASE i = Len(items) + 1
      <4>1. current # 0
        BY <2>1, <2>5, <3>2 DEF TakesPointer, Placing
      <4>2. new.seq \in Nat
        BY <1>4 DEF Items
      <4> QED BY <1>5, <2>2, <2>4, <3>2, <4>1, <4>2
    <3> QED BY <1>5, <2>5, <3>1, <3>2
  <2>6. InOrder'
    BY <1>1, <2>5 DEF InOrder
  <2>7. \A k \in Buttons \ {b} : call[k].at \in Between => call[k].op = "end"
    BY <1>0, <1>10, Alone DEF Works
  <2>8. \A k \in Buttons : FoundNext(call[k])'
    BY <1>1, <2>7 DEF FoundNext, Between
  <2> QED BY <2>6, <2>8
<1>11. ASSUME "end" \notin crossed'
       PROVE  (live' = "ended" => NoneOnShow') /\ \A k \in Buttons : FoundLive(call[k])'
  <2>1. (live = "ended" => NoneOnShow) /\ \A k \in Buttons : FoundLive(call[k])
    BY <1>6, <1>11 DEF QueueInv
  <2>2. NoneOnShow => NoneOnShow'
    BY <1>0, <1>1, <1>2, <1>5 DEF NoneOnShow
  <2>3. live # "ended"
    BY <2>1 DEF FoundLive, Between
  <2>4. FoundLive(call[b])'
    BY <1>1, <2>3 DEF FoundLive, Between
  <2>5. \A k \in Buttons \ {b} : FoundLive(call[k])'
    BY <1>1, <2>1, <2>2 DEF FoundLive
  <2> QED BY <1>1, <2>1, <2>2, <2>4, <2>5
<1> QED BY <1>8, <1>9, <1>10, <1>11 DEF QueueInv

(* The item that waits for the pointer exists.                             *)
LEMMA ThirdItem ==
  ASSUME QueueTypes, NEW b \in Buttons, call[b].at = "third"
  PROVE  call[b].seen.item \in DOMAIN items
<1>1. call[b].seen.item \in Nat \ {0} /\ call[b].seen.item <= Len(items)
  BY DEF QueueTypes, CallTyped
<1> QED BY <1>1, Indices DEF QueueTypes

(* The room starts, or its handler goes on without it.                     *)
LEMMA FourthKeeps ==
  ASSUME SwitchInv, QueueTypes, QueueInv, NEW b \in Buttons, Works(b), call[b].at = "fourth",
         GoOn(b), UNCHANGED <<items, current, moves, stranded>>,
         live' \in { live, IF live = "ended" THEN live ELSE "live" }
  PROVE  QueueTypes' /\ QueueInv'
<1>1. ConsoleTypes /\ call[b].op = "add" /\ call[b].at \in Between
  BY DEF SwitchInv, ConsoleTypes, IsCall, Between
<1>2. /\ call'[b].at \in { "sent", "done" } /\ CallTyped(call'[b])
      /\ \A k \in Buttons \ {b} : call'[k] = call[k]
  BY <1>1, GoOnIs
<1>3. FindsNow(b)
  BY <1>2, Outside DEF Between
<1>4. live' \in { "idle", "live", "ended" } /\ (live' = "ended" => live = "ended") /\ Milder
      /\ stranded \subseteq stranded' /\ stranded' \subseteq DOMAIN items
  BY SameIsMilder DEF QueueTypes
<1> QED BY <1>1, <1>2, <1>3, <1>4, HandlerStays

LEMMA LaterSteps ==
  ASSUME SwitchInv, QueueTypes, QueueInv, NEW b \in Buttons, Serve(b), call[b].at \in Between
  PROVE  QueueTypes' /\ QueueInv'
<1>1. /\ Handle(b) /\ Crosses(b) /\ UNCHANGED <<detail, get, stranded>>
      /\ CallTyped(call[b]) /\ IsCall(call[b]) /\ ConsoleTypes
  BY DEF Serve, SwitchInv, ConsoleTypes, QueueTypes
<1>2. ASSUME \A k \in Buttons \ {b} : call'[k] = call[k]
      PROVE  Works(b)
  BY <1>1, <1>2 DEF Works
<1>3. CASE call[b].at = "half" /\ call[b].op = "switch" /\ MovePointer(b)
  <2>1. Works(b)
    BY <1>1, <1>2, <1>3, ReplyIs DEF MovePointer
  <2> QED BY <1>1, <1>3, <2>1, MovePointerKeeps
<1>4. CASE call[b].at = "half" /\ call[b].op = "end" /\ End(b)
  <2>1. Works(b)
    BY <1>1, <1>2, <1>4, ReplyIs DEF End
  <2> QED BY <1>1, <1>4, <2>1, EndKeeps
<1>5. CASE call[b].at = "half" /\ call[b].op = "add" /\ Insert(b)
  <2>1. Inserted(b)
    BY <1>5 DEF Insert
  <2>0. Len(items') = Len(items) + 1 /\ Len(items) \in Nat
    BY <2>1, Indices DEF Inserted, QueueTypes
  <2>2. CASE /\ TakesPointer(call[b].seen)
             /\ Pauses(b, "third", [ live |-> call[b].seen.live, item |-> Len(items) + 1 ])
    <3>1. PICK n : n = Len(items) + 1
      OBVIOUS
    <3>2. PICK x : x = [ live |-> call[b].seen.live, item |-> n ]
      OBVIOUS
    <3>3. /\ call'[b].at = "third" /\ call'[b].seen = x /\ call'[b].op = "add" /\ x.item = n
          /\ call'[b].item = call[b].item /\ call'[b].todo = call[b].todo
          /\ \A k \in Buttons \ {b} : call'[k] = call[k]
      BY <1>1, <1>5, <2>2, <3>1, <3>2, PausesIs
    <3>4. CallTyped(call[b])'
      BY <1>1, <1>5, <2>0, <3>1, <3>3 DEF CallTyped, Between
    <3>5. stranded \subseteq stranded' /\ stranded' \subseteq stranded \cup { Len(items) + 1 }
      BY <1>1
    <3> QED BY <1>2, <1>5, <2>1, <3>1, <3>3, <3>4, <3>5, InsertedKeeps
  <2>3. CASE ~TakesPointer(call[b].seen) /\ GoOn(b)
    <3>1. /\ call'[b].at \in { "sent", "done" } /\ CallTyped(call'[b])
          /\ \A k \in Buttons \ {b} : call'[k] = call[k]
      BY <1>1, <1>5, <2>3, GoOnIs
    <3>2. CallTyped(call[b])'
      BY <2>0, <3>1 DEF CallTyped, Between
    <3>3. stranded \subseteq stranded' /\ stranded' \subseteq stranded \cup { Len(items) + 1 }
      BY <1>1
    <3> QED BY <1>2, <1>5, <2>1, <2>3, <3>1, <3>2, <3>3, InsertedKeeps
  <2> QED BY <1>5, <2>2, <2>3 DEF Insert
<1>6. CASE call[b].at = "third" /\ Point(b)
  <2>1. Works(b)
    BY <1>1, <1>2, <1>6, PointedIs DEF Point
  <2> QED BY <1>1, <1>6, <2>1, PointKeeps
<1>7. CASE call[b].at = "fourth" /\ GoLive(b)
  <2>0. call[b].op = "add"
    BY <1>1, <1>7 DEF IsCall
  <2>1. Works(b)
    BY <1>1, <1>2, <1>7, <2>0, GoOnIs DEF GoLive
  <2> QED BY <1>1, <1>7, <2>1, FourthKeeps DEF GoLive
<1>8. call[b].at = "half" => call[b].op \in Telling
  BY <1>1 DEF IsCall
<1> QED BY <1>1, <1>3, <1>4, <1>5, <1>6, <1>7, <1>8 DEF Handle, Between, Telling

LEMMA SlipStays ==
  ASSUME SwitchInv, QueueTypes, QueueInv, NEW b \in Buttons, Slip(b)
  PROVE  QueueTypes' /\ QueueInv'
<1>1. Crosses(b) /\ UNCHANGED <<detail, get>> /\ ConsoleTypes /\ IsCall(call[b])
  BY DEF Slip, SwitchInv, ConsoleTypes
<1>2. ASSUME \A k \in Buttons \ {b} : call'[k] = call[k]
      PROVE  Works(b)
  BY <1>1, <1>2 DEF Works
<1>3. CASE /\ call[b].at = "half" /\ call[b].op = "add" /\ Inserted(b) /\ Reply(b, FALSE)
           /\ stranded' = IF TakesPointer(call[b].seen) THEN stranded \cup { Len(items) + 1 } ELSE stranded
  <2>0. Len(items') = Len(items) + 1 /\ Len(items) \in Nat
    BY <1>3, Indices DEF Inserted, QueueTypes
  <2>1. /\ call'[b].at = "done" /\ CallTyped(call'[b])
        /\ \A k \in Buttons \ {b} : call'[k] = call[k]
    BY <1>1, <1>3, ReplyIs
  <2>2. CallTyped(call[b])'
    BY <2>0, <2>1 DEF CallTyped, Between
  <2>3. stranded \subseteq stranded' /\ stranded' \subseteq stranded \cup { Len(items) + 1 }
        /\ (TakesPointer(call[b].seen) => Len(items) + 1 \in stranded')
    BY <1>3
  <2> QED BY <1>2, <1>3, <2>1, <2>2, <2>3, InsertedKeeps
<1>4. CASE /\ call[b].at = "third" /\ Pointed(b) /\ UNCHANGED <<room, moves>>
           /\ stranded' = stranded \cup { call[b].seen.item }
  <2>1. /\ call'[b].at \in { "fourth", "sent", "done" } /\ CallTyped(call'[b])
        /\ call'[b].at = "fourth" => call'[b].op = "add"
        /\ \A k \in Buttons \ {b} : call'[k] = call[k]
    BY <1>1, <1>4, PointedIs
  <2>2. call[b].op = "add" /\ crossed \subseteq crossed' /\ UNCHANGED <<live, items, current, moves>>
    BY <1>1, <1>4, CrossedGrows DEF IsCall, room
  <2>3. "end" \notin crossed' => live # "ended"
    BY <1>4, <2>2 DEF QueueInv, FoundLive, Between
  <2>4. FindsNow(b)
    BY <2>1, <2>2, <2>3 DEF FindsNow, FoundNew, FoundNext, FoundLive
  <2>5. /\ stranded \subseteq stranded' /\ stranded' \subseteq DOMAIN items /\ call[b].seen.item \in stranded'
        /\ Milder /\ live' \in { "idle", "live", "ended" }
    BY <1>4, <2>2, ThirdItem, SameIsMilder DEF QueueTypes
  <2> QED BY <1>1, <1>2, <2>1, <2>2, <2>4, <2>5, HandlerStays
<1>5. CASE call[b].at = "fourth" /\ GoOn(b) /\ UNCHANGED <<room, moves, stranded>>
  <2>1. Works(b)
    BY <1>1, <1>2, <1>5, GoOnIs DEF IsCall, Between
  <2> QED BY <1>5, <2>1, FourthKeeps DEF room
<1> QED BY <1>3, <1>4, <1>5 DEF Slip

LEMMA QueueKeeps ==
  ASSUME SwitchInv, QueueTypes, QueueInv, [Next]_vars
  PROVE  QueueTypes' /\ QueueInv'
<1>0. ConsoleTypes
  BY DEF SwitchInv
<1>1. CASE UNCHANGED vars
  <2>1. UNCHANGED <<live, current, moves, crossed, stranded, detail, call, get>> /\ Milder
    BY <1>1, SameIsMilder DEF vars, room, history
  <2>2. stranded' \subseteq DOMAIN items
    BY <2>1 DEF QueueTypes
  <2> QED BY <2>1, <2>2, SideSteps
<1>2. CASE BidOrSettle
  BY <1>2, BidOrSettleStays
<1>3. CASE Submit
  BY <1>0, <1>3, SubmitStays
<1>4. CASE Poll \/ \E g \in Gets : ServeGet(g) \/ LoseGet(g) \/ GetReturns(g)
  BY <1>0, <1>4, ReadsStay
<1>5. CASE \E op \in Ops : Act(op)
  BY <1>0, <1>5, ActStays
<1>6. ASSUME NEW b \in Buttons, Serve(b)
      PROVE  QueueTypes' /\ QueueInv'
  <2>1. call[b].at \in { "sent" } \cup Between
    BY <1>6 DEF Serve, Handle, Between
  <2> QED BY <1>0, <1>6, <2>1, FirstSteps, LaterSteps
<1>7. CASE \E b \in Buttons : LoseCall(b) \/ CallReturns(b)
  BY <1>0, <1>7, CallsStay
<1>8. CASE \E b \in Buttons : Slip(b)
  BY <1>8, SlipStays
<1> QED BY <1>1, <1>2, <1>3, <1>4, <1>5, <1>6, <1>7, <1>8 DEF Next

(* For any number of bids, presses and faults: no number is given and no   *)
(* product is up twice unless two handlers that add cross; unless an       *)
(* adding action or a switch crosses the forms', what waits comes after    *)
(* the current item, and nothing waits behind an empty pointer but an item *)
(* whose own handler has not set it or failed to; a room that ended shows  *)
(* an open item only if its ending crossed the forms'.                     *)
THEOREM QueueSafe == Spec => []QueueIsSound
<1>1. Init => SwitchInv /\ QueueTypes /\ QueueInv
  BY InitInv, InitQueue
<1>2. SwitchInv /\ QueueTypes /\ QueueInv /\ [Next]_vars => SwitchInv' /\ QueueTypes' /\ QueueInv'
  BY NextKeeps, QueueKeeps
<1>3. QueueInv => QueueIsSound
  BY DEF QueueInv, QueueIsSound, NoneOnShow
<1> QED BY <1>1, <1>2, <1>3, PTL DEF Spec

LEMMA BoundsKept ==
  ASSUME Bounds, [Next]_vars
  PROVE  Bounds'
<1>1. CASE UNCHANGED vars \/ BidOrSettle \/ Poll
  BY <1>1 DEF Bounds, vars, BidOrSettle, Poll
<1>2. ASSUME NEW b \in Buttons, NEW op, NEW todo, Press(b, op, todo)
      PROVE  Bounds'
  BY <1>2 DEF Bounds, Press
<1>3. CASE Submit \/ \E op \in Ops : Act(op)
  BY <1>2, <1>3, CallsAndGets DEF Submit, Act
<1>4. \A b \in Buttons : LoseCall(b) \/ CallReturns(b) \/ Serve(b) \/ Slip(b) =>
        UNCHANGED <<bids, presses>> /\ faults' \in { faults, faults + 1 }
  BY DEF Serve, LoseCall, CallReturns, Slip, Fault
<1>5. \A g \in Gets : ServeGet(g) \/ LoseGet(g) \/ GetReturns(g) =>
        UNCHANGED <<bids, presses>> /\ faults' \in { faults, faults + 1 }
  BY DEF ServeGet, LoseGet, GetReturns, Fault
<1>6. ASSUME UNCHANGED <<bids, presses>>, faults' \in { faults, faults + 1 }
      PROVE  Bounds'
  BY <1>6 DEF Bounds
<1> QED BY <1>1, <1>3, <1>4, <1>5, <1>6 DEF Next

(* The console, its requests and the room keep their types, and the        *)
(* pointer and the page always point at items that exist.                  *)
THEOREM ConsoleTyped == Spec => []TypeOK
<1>1. Init => SwitchInv /\ QueueTypes /\ QueueInv /\ Bounds
  BY InitInv, InitQueue
<1>2. SwitchInv /\ QueueTypes /\ QueueInv /\ Bounds /\ [Next]_vars
        => SwitchInv' /\ QueueTypes' /\ QueueInv' /\ Bounds'
  BY NextKeeps, QueueKeeps, BoundsKept
<1>3. SwitchInv /\ QueueTypes /\ Bounds => TypeOK
  <2>1. ASSUME SwitchInv, QueueTypes, Bounds
        PROVE  TypeOK
    <3>1. ConsoleTypes /\ DOMAIN items = 1..Len(items) /\ Len(items) \in Nat
      BY <2>1, Indices DEF QueueTypes, SwitchInv
    <3> QED BY <2>1, <3>1 DEF TypeOK, QueueTypes, Bounds, ReadTyped, CallTyped, ConsoleTypes, IsCall
  <2> QED BY <2>1
<1> QED BY <1>1, <1>2, <1>3, PTL DEF Spec
================================================================================
