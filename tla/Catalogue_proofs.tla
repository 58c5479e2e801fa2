--------------------------- MODULE Catalogue_proofs ---------------------------
(***************************************************************************)
(* Proofs about Catalogue, for any number of sessions, bids, requests and  *)
(* faults, and any rules and pictures.                                     *)
(*                                                                         *)
(* What the shelf tells depends on handlers that are half-way: a           *)
(* publication, an edit or a deletion has found a status from which it may *)
(* go on (Checked), and writes by it unless what it read has changed; a    *)
(* cancellation has yet to put the product back; and a new product is made *)
(* only once.  What the pages do, whatever they show, leaves the handlers  *)
(* under way alone (Kept).                                                 *)
(*                                                                         *)
(* What the pages show depends on what they ask for and are answered       *)
(* (TypesInv): each request carries what its handler takes and each answer *)
(* what its page reads, the form on screen has sent one request while it   *)
(* waits, and an edited product is loaded once.                            *)
(***************************************************************************)
EXTENDS Catalogue, SequenceTheorems, WellFoundedInduction, TLAPS

Progress == Open \cup { "settled", "cancelled" }
Ats      == { "idle", "sent", "half", "third", "done" }
Writers  == { "edit", "delete", "publish", "rules", "cancel" }

IsCall(c) ==
  /\ c = [ at |-> c.at, op |-> c.op, from |-> c.from, item |-> c.item, arg |-> c.arg,
           seen |-> c.seen, ok |-> c.ok, reply |-> c.reply ]
  /\ c.at \in Ats /\ c.op \in Ops

IsCalls(calls) == calls = [ k \in Slots |-> calls[k] ] /\ \A k \in Slots : IsCall(calls[k])

(* A session has one of the statuses, whatever its rules are.              *)
IsSession(r) == r = [ status |-> r.status, rules |-> r.rules ] /\ r.status \in Progress

IsSessions == (\E S : sessions \in Seq(S)) /\ \A i \in DOMAIN sessions : IsSession(sessions[i])

(* What a handler has found that is between its steps.                     *)
Checked(k) ==
  call[k].at = "half" =>
    /\ call[k].op \in Writers
    /\ call[k].op = "edit" => call[k].seen \in { "draft", "listed", "off_shelf" }
    /\ call[k].op = "delete" => /\ call[k].seen.status \in { "draft", "listed", "off_shelf" }
                                /\ call[k].seen.status # "draft" => call[k].seen.active = FALSE
    /\ call[k].op = "publish" => call[k].seen.status \in { "draft", "listed" } /\ call[k].seen.active = FALSE

Creates(k) == call[k].at = "sent" /\ call[k].op = "create"

CatalogueTypes ==
  /\ row = [ status |-> row.status, body |-> row.body ] /\ row.status \in Statuses
  /\ IsSessions /\ settling \subseteq DOMAIN sessions
  /\ IsCalls(call)

HandlersChecked == \A k \in Slots : Checked(k)

(* What ShelfTellsSessions says, without its history.  A session that is   *)
(* over sold the product, or its settlement has yet to, or has failed to.  *)
OneOpen == \A i, j \in DOMAIN sessions : {sessions[i].status, sessions[j].status} \subseteq Open => i = j
SoldFor == (\A i \in settling : sessions[i].status = "settled") /\ (row.status = "sold" => SomeAre("settled"))
BidFor == SomeAre("running") => row.status = "auctioning"
OnOffer == HasActive => row.status \in { "draft", "listed", "auctioning" }
Over == SomeAre("settled") => row.status \in { "auctioning", "sold" } /\ ~HasActive
SoldAfter == \A i \in DOMAIN sessions :
               sessions[i].status = "settled" => i \in settling \/ row.status = "sold" \/ "settle" \in stale
PutBack == (settling = {} /\ row.status = "auctioning") => SomeAre("running") \/ Relisting

(* A product that is not made yet has no sessions, and is made once.       *)
NotMade == row.status = "none" => DOMAIN sessions = {}
MadeOnce == \A k \in Slots : Creates(k) => row.status = "none" /\ \A j \in Slots : Creates(j) => j = k

Shelf == BidFor /\ OnOffer /\ Over /\ SoldAfter /\ NotMade /\ MadeOnce

ShelfInv ==
  /\ CatalogueTypes /\ HandlersChecked
  /\ SoldFor
  /\ "publish" \notin stale => OneOpen
  /\ ~Overwritten => Shelf
  /\ stale = {} => PutBack

--------------------------------------------------------------------------------
(* Facts about sequences and requests                                      *)

LEMMA SessionFacts ==
  ASSUME IsSessions
  PROVE  /\ Len(sessions) \in Nat /\ DOMAIN sessions = 1..Len(sessions)
         /\ \A i \in DOMAIN sessions : IsSession(sessions[i])
<1> PICK S : sessions \in Seq(S)
  BY DEF IsSessions
<1> QED BY DEF IsSessions

LEMMA SeqGrows ==
  ASSUME NEW S, NEW T, NEW q \in Seq(S), S \subseteq T
  PROVE  q \in Seq(T)
OBVIOUS

LEMMA SeqChanges ==
  ASSUME NEW S, NEW q \in Seq(S), NEW i, NEW e
  PROVE  [ q EXCEPT ![i] = e ] \in Seq(S \cup {e})
<1>1. q \in Seq(S \cup {e}) /\ e \in S \cup {e}
  BY SeqGrows
<1>2. q \in [ 1..Len(q) -> S \cup {e} ] /\ Len(q) \in Nat
  BY <1>1
<1>3. [ q EXCEPT ![i] = e ] \in [ 1..Len(q) -> S \cup {e} ]
  BY <1>2
<1> QED BY <1>2, <1>3, SeqDef

LEMMA SeqAppend ==
  ASSUME NEW S, NEW q \in Seq(S), NEW e \in S
  PROVE  /\ Append(q, e) \in Seq(S)
         /\ DOMAIN Append(q, e) = DOMAIN q \cup { Len(q) + 1 } /\ Len(q) + 1 \notin DOMAIN q
         /\ \A j \in DOMAIN q : Append(q, e)[j] = q[j]
         /\ Append(q, e)[Len(q) + 1] = e
<1>1. /\ Append(q, e) \in Seq(S) /\ Len(q) \in Nat /\ Len(Append(q, e)) = Len(q) + 1
      /\ DOMAIN q = 1..Len(q) /\ DOMAIN Append(q, e) = 1..(Len(q) + 1)
      /\ \A j \in 1..Len(q) : Append(q, e)[j] = q[j]
      /\ Append(q, e)[Len(q) + 1] = e
  OBVIOUS
<1> QED BY <1>1

LEMMA SetSessionFacts ==
  ASSUME IsSessions, NEW i, NEW s \in Progress, SetSession(i, s)
  PROVE  /\ IsSessions' /\ DOMAIN sessions' = DOMAIN sessions
         /\ \A j \in DOMAIN sessions :
              /\ sessions'[j].status = IF j = i THEN s ELSE sessions[j].status
              /\ sessions'[j].rules = sessions[j].rules
<1>1. PICK S : sessions \in Seq(S)
  BY DEF IsSessions
<1>2. sessions' = [ sessions EXCEPT ![i] = [ sessions[i] EXCEPT !.status = s ] ]
  BY DEF SetSession
<1>3. sessions' \in Seq(S \cup { [ sessions[i] EXCEPT !.status = s ] })
  BY <1>1, <1>2, SeqChanges
<1>4. DOMAIN sessions' = DOMAIN sessions
  BY <1>2
<1>5. ASSUME NEW j \in DOMAIN sessions
      PROVE  /\ IsSession(sessions'[j])
             /\ sessions'[j].status = IF j = i THEN s ELSE sessions[j].status
             /\ sessions'[j].rules = sessions[j].rules
  <2>1. IsSession(sessions[j])
    BY SessionFacts
  <2>2. sessions'[j] = IF j = i THEN [ sessions[j] EXCEPT !.status = s ] ELSE sessions[j]
    BY <1>2
  <2>3. [ sessions[j] EXCEPT !.status = s ] = [ status |-> s, rules |-> sessions[j].rules ]
    BY <2>1 DEF IsSession
  <2> QED BY <2>1, <2>2, <2>3 DEF IsSession
<1> QED BY <1>3, <1>4, <1>5 DEF IsSessions

LEMMA SetRulesFacts ==
  ASSUME IsSessions, NEW i, NEW r, sessions' = [ sessions EXCEPT ![i].rules = r ]
  PROVE  /\ IsSessions' /\ DOMAIN sessions' = DOMAIN sessions
         /\ \A j \in DOMAIN sessions :
              /\ sessions'[j].status = sessions[j].status
              /\ sessions'[j].rules = IF j = i THEN r ELSE sessions[j].rules
<1>1. PICK S : sessions \in Seq(S)
  BY DEF IsSessions
<1>2. sessions' = [ sessions EXCEPT ![i] = [ sessions[i] EXCEPT !.rules = r ] ]
  OBVIOUS
<1>3. sessions' \in Seq(S \cup { [ sessions[i] EXCEPT !.rules = r ] })
  <2>1. \A e : [ sessions EXCEPT ![i] = e ] \in Seq(S \cup {e})
    BY <1>1, SeqChanges
  <2> QED BY <1>2, <2>1
<1>4. DOMAIN sessions' = DOMAIN sessions
  BY <1>2
<1>5. ASSUME NEW j \in DOMAIN sessions
      PROVE  /\ IsSession(sessions'[j]) /\ sessions'[j].status = sessions[j].status
             /\ sessions'[j].rules = IF j = i THEN r ELSE sessions[j].rules
  <2>1. IsSession(sessions[j])
    BY SessionFacts
  <2>2. sessions'[j] = IF j = i THEN [ sessions[j] EXCEPT !.rules = r ] ELSE sessions[j]
    BY <1>2
  <2>3. [ sessions[j] EXCEPT !.rules = r ] = [ status |-> sessions[j].status, rules |-> r ]
    BY <2>1 DEF IsSession
  <2> QED BY <2>1, <2>2, <2>3 DEF IsSession
<1> QED BY <1>3, <1>4, <1>5 DEF IsSessions

LEMMA AppendFacts ==
  ASSUME IsSessions, NEW r, sessions' = Append(sessions, [ status |-> "pending", rules |-> r ])
  PROVE  /\ IsSessions' /\ DOMAIN sessions' = DOMAIN sessions \cup { Len(sessions) + 1 }
         /\ Len(sessions) + 1 \notin DOMAIN sessions
         /\ \A j \in DOMAIN sessions : sessions'[j] = sessions[j]
         /\ sessions'[Len(sessions) + 1].status = "pending" /\ sessions'[Len(sessions) + 1].rules = r
<1> DEFINE new == [ status |-> "pending", rules |-> r ]
<1>1. IsSession(new) /\ new.status = "pending" /\ new.rules = r
  BY DEF IsSession, Progress, Open
<1> HIDE DEF new
<1>2. PICK S : sessions \in Seq(S)
  BY DEF IsSessions
<1>3. sessions \in Seq(S \cup {new})
  BY <1>2, SeqGrows
<1>4. sessions' = Append(sessions, new)
  BY DEF new
<1>5. /\ sessions' \in Seq(S \cup {new})
      /\ DOMAIN sessions' = DOMAIN sessions \cup { Len(sessions) + 1 }
      /\ Len(sessions) + 1 \notin DOMAIN sessions
      /\ \A j \in DOMAIN sessions : sessions'[j] = sessions[j]
      /\ sessions'[Len(sessions) + 1] = new
  BY <1>3, <1>4, SeqAppend
<1>6. \A j \in DOMAIN sessions' : IsSession(sessions'[j])
  BY <1>1, <1>5, SessionFacts
<1> QED BY <1>1, <1>5, <1>6 DEF IsSessions

(* One request goes a step.                                                *)
LEMMA DoneFacts ==
  ASSUME IsCalls(call), NEW k \in Slots, NEW ok, NEW reply, Done(k, ok, reply)
  PROVE  /\ IsCalls(call') /\ \A j \in Slots \ {k} : call'[j] = call[j]
         /\ call'[k].at = "done" /\ call'[k].op = call[k].op
<1>1. /\ call'[k] = [ call[k] EXCEPT !.at = "done", !.ok = ok, !.reply = reply, !.seen = None ]
      /\ \A j \in Slots \ {k} : call'[j] = call[j]
      /\ call' = [ j \in Slots |-> call'[j] ]
  BY DEF Done, IsCalls
<1>2. IsCall(call[k])
  BY DEF IsCalls
<1>3. /\ call'[k] = [ at |-> "done", op |-> call[k].op, from |-> call[k].from, item |-> call[k].item,
                     arg |-> call[k].arg, seen |-> None, ok |-> ok, reply |-> reply ]
  BY <1>1, <1>2 DEF IsCall
<1>4. IsCall(call'[k])
  BY <1>2, <1>3 DEF IsCall, Ats
<1>5. \A j \in Slots : IsCall(call'[j])
  BY <1>1, <1>4 DEF IsCalls
<1>6. IsCalls(call')
  BY <1>1, <1>5 DEF IsCalls
<1> QED BY <1>1, <1>3, <1>6

LEMMA HalfwayFacts ==
  ASSUME IsCalls(call), NEW k \in Slots, NEW at \in Ats, NEW seen, Halfway(k, at, seen)
  PROVE  /\ IsCalls(call') /\ \A j \in Slots \ {k} : call'[j] = call[j]
         /\ call'[k].at = at /\ call'[k].op = call[k].op /\ call'[k].seen = seen
<1>1. /\ call'[k] = [ call[k] EXCEPT !.at = at, !.seen = seen ]
      /\ \A j \in Slots \ {k} : call'[j] = call[j]
      /\ call' = [ j \in Slots |-> call'[j] ]
  BY DEF Halfway, IsCalls
<1>2. IsCall(call[k])
  BY DEF IsCalls
<1>3. call'[k] = [ at |-> at, op |-> call[k].op, from |-> call[k].from, item |-> call[k].item,
                   arg |-> call[k].arg, seen |-> seen, ok |-> call[k].ok, reply |-> call[k].reply ]
  BY <1>1, <1>2 DEF IsCall
<1>4. IsCall(call'[k])
  BY <1>2, <1>3 DEF IsCall
<1>5. \A j \in Slots : IsCall(call'[j])
  BY <1>1, <1>4 DEF IsCalls
<1>6. IsCalls(call')
  BY <1>1, <1>5 DEF IsCalls
<1> QED BY <1>1, <1>3, <1>6

(* A history that grew has lost none of what it knew.                      *)
LEMMA StaleGrows ==
  ASSUME stale \subseteq stale'
  PROVE  /\ "publish" \notin stale' => "publish" \notin stale
         /\ ~Overwritten' => ~Overwritten
         /\ stale' = {} => stale = {} /\ ~Overwritten'
BY DEF Overwritten

(* A handler has gone a step: what it leaves for the next is checked.      *)
Stepped(k) ==
  /\ settling' = settling
  /\ IsCalls(call') /\ \A j \in Slots \ {k} : call'[j] = call[j]
  /\ call'[k].at # "sent" /\ Checked(k)'

PuttingBack(k) == call[k].op = "cancel" /\ call[k].at = "half"

LEMMA SteppedFacts ==
  ASSUME HandlersChecked, NEW k \in Slots, Stepped(k)
  PROVE  /\ HandlersChecked'
         /\ \A j \in Slots : Creates(j)' => j # k /\ Creates(j)
         /\ Relisting /\ ~PuttingBack(k) => Relisting'
         /\ PuttingBack(k)' => Relisting'
<1>1. ASSUME NEW j \in Slots \ {k}
      PROVE  /\ Checked(j)' /\ (Creates(j)' => Creates(j)) /\ (PuttingBack(j) => PuttingBack(j)')
  BY DEF Stepped, HandlersChecked, Checked, Creates, PuttingBack
<1>2. ~Creates(k)' /\ Checked(k)'
  BY DEF Stepped, Creates
<1>3. HandlersChecked'
  BY <1>1, <1>2 DEF HandlersChecked
<1>4. Relisting <=> \E j \in Slots : PuttingBack(j)
  BY DEF Relisting, PuttingBack
<1>5. Relisting' <=> \E j \in Slots : PuttingBack(j)'
  BY DEF Relisting, PuttingBack
<1> QED BY <1>1, <1>2, <1>3, <1>4, <1>5

(* A request that is answered, whatever it was.                            *)
LEMMA DoneSteps ==
  ASSUME CatalogueTypes, settling' = settling, NEW k \in Slots, NEW ok, NEW reply, Done(k, ok, reply)
  PROVE  Stepped(k)
<1>1. IsCalls(call)
  BY DEF CatalogueTypes
<1> QED BY <1>1, DoneFacts DEF Stepped, Checked

(* A step that leaves the sessions with their statuses, and the product.   *)
LEMMA SameStatuses ==
  ASSUME ShelfInv, NEW k \in Slots, Stepped(k), ~PuttingBack(k), IsSessions',
         row' = row, stale' = stale, DOMAIN sessions' = DOMAIN sessions,
         \A j \in DOMAIN sessions : sessions'[j].status = sessions[j].status
  PROVE  ShelfInv'
<1>1. CatalogueTypes /\ HandlersChecked
  BY DEF ShelfInv
<1>2. /\ HandlersChecked' /\ (Relisting => Relisting')
      /\ \A j \in Slots : Creates(j)' => Creates(j)
  BY <1>1, SteppedFacts
<1>3. CatalogueTypes'
  BY <1>1 DEF CatalogueTypes, Stepped
<1>4. /\ HasActive' = HasActive
      /\ \A s : SomeAre(s)' = SomeAre(s)
      /\ settling' = settling
  BY DEF HasActive, SomeAre, Stepped
<1>5. SoldFor' /\ ("publish" \notin stale' => OneOpen')
  BY <1>1, <1>4 DEF ShelfInv, SoldFor, OneOpen, CatalogueTypes
<1>6. ASSUME Shelf
      PROVE  Shelf'
  BY <1>2, <1>4, <1>6 DEF Shelf, BidFor, OnOffer, Over, SoldAfter, NotMade, MadeOnce
<1>7. PutBack => PutBack'
  BY <1>2, <1>4 DEF PutBack
<1>8. Overwritten' = Overwritten
  BY DEF Overwritten
<1> QED BY <1>2, <1>3, <1>5, <1>6, <1>7, <1>8 DEF ShelfInv

LEMMA QuietStep ==
  ASSUME ShelfInv, NEW k \in Slots, Stepped(k), ~PuttingBack(k), UNCHANGED <<row, sessions, stale>>
  PROVE  ShelfInv'
<1>1. IsSessions
  BY DEF ShelfInv, CatalogueTypes
<1>2. IsSessions'
  BY <1>1 DEF IsSessions
<1> QED BY <1>2, SameStatuses

(* A step that moves the product: it stays as it is, or goes to a status   *)
(* in which nothing is bid for, and to one on offer if a session is open.  *)
Moves(k) ==
  \/ row'.status = row.status /\ (PuttingBack(k) => row.status # "auctioning")
  \/ /\ row'.status \notin { "sold", "auctioning", "none" } /\ ~SomeAre("settled")
     /\ HasActive => row'.status \in { "draft", "listed" } /\ row.status # "auctioning"
     /\ row.status = "none" => Creates(k)

LEMMA MovingStep ==
  ASSUME ShelfInv, NEW k \in Slots, Stepped(k), UNCHANGED sessions,
         row' = [ status |-> row'.status, body |-> row'.body ], row'.status \in Statuses,
         row'.status = "sold" => row.status = "sold",
         stale \subseteq stale', ~Overwritten' /\ Shelf => Moves(k)
  PROVE  ShelfInv'
<1>1. CatalogueTypes /\ HandlersChecked
  BY DEF ShelfInv
<1>2. /\ HandlersChecked' /\ (Relisting /\ ~PuttingBack(k) => Relisting')
      /\ \A j \in Slots : Creates(j)' => j # k /\ Creates(j)
  BY <1>1, SteppedFacts
<1>3. CatalogueTypes'
  BY <1>1 DEF CatalogueTypes, Stepped, IsSessions
<1>4. HasActive' = HasActive /\ (\A s : SomeAre(s)' = SomeAre(s)) /\ settling' = settling
  BY DEF HasActive, SomeAre, Stepped
<1>5. SoldFor' /\ ("publish" \notin stale' => OneOpen')
  BY <1>4, StaleGrows DEF ShelfInv, SoldFor, OneOpen
<1>6. ASSUME ~Overwritten'
      PROVE  Shelf /\ Moves(k)
  BY <1>6, StaleGrows DEF ShelfInv
<1>7. SomeAre("running") => HasActive
  BY DEF HasActive, SomeAre, Open
<1>8. ASSUME Shelf, Moves(k)
      PROVE  Shelf'
  <2>1. BidFor' /\ OnOffer' /\ Over' /\ NotMade'
    BY <1>4, <1>7, <1>8 DEF Shelf, Moves, BidFor, OnOffer, Over, NotMade
  <2>2. SoldAfter'
    <3>1. \A i \in DOMAIN sessions : sessions[i].status = "settled" => SomeAre("settled")
      BY DEF SomeAre
    <3> QED BY <1>4, <1>8, <3>1 DEF Shelf, Moves, SoldAfter
  <2>3. MadeOnce'
    <3>1. CASE row'.status = row.status
      BY <1>2, <1>8, <3>1 DEF Shelf, MadeOnce
    <3>2. CASE row'.status # row.status
      <4>1. row.status = "none" => Creates(k)
        BY <1>8, <3>2 DEF Moves
      <4>2. \A j \in Slots : Creates(j) => j = k
        BY <1>8, <4>1 DEF Shelf, MadeOnce
      <4> QED BY <1>2, <4>2 DEF MadeOnce
    <3> QED BY <3>1, <3>2
  <2> QED BY <2>1, <2>2, <2>3 DEF Shelf
<1>9. ASSUME stale' = {}
      PROVE  PutBack'
  <2>1. PutBack /\ Moves(k)
    BY <1>6, <1>9, StaleGrows DEF ShelfInv
  <2> QED BY <1>2, <1>4, <2>1 DEF PutBack, Moves
<1> QED BY <1>2, <1>3, <1>5, <1>6, <1>8, <1>9 DEF ShelfInv

--------------------------------------------------------------------------------
(* The handlers                                                            *)

(* The product's row, with another status.                                 *)
LEMMA SetStatusFacts ==
  ASSUME CatalogueTypes, NEW s \in Statuses, SetStatus(s)
  PROVE  row'.status = s /\ row' = [ status |-> row'.status, body |-> row'.body ]
<1>1. row' = [ row EXCEPT !.status = s ] /\ row = [ status |-> row.status, body |-> row.body ]
  BY DEF SetStatus, CatalogueTypes
<1>2. row' = [ status |-> s, body |-> row.body ]
  BY <1>1
<1> QED BY <1>2

LEMMA CreateKeeps ==
  ASSUME ShelfInv, settling' = settling, NEW k \in Slots, call[k].op = "create", call[k].at = "sent", Create(k)
  PROVE  ShelfInv'
<1>1. Stepped(k) /\ UNCHANGED <<sessions, stale>>
  BY DoneSteps DEF Create, ShelfInv
<1>2. row'.status = "draft" /\ row' = [ status |-> row'.status, body |-> row'.body ]
  BY DEF Create
<1>3. Shelf => Moves(k)
  <2>1. SUFFICES ASSUME Shelf PROVE Moves(k)
    OBVIOUS
  <2>2. Creates(k) /\ row.status = "none"
    BY <2>1 DEF Creates, Shelf, MadeOnce
  <2>3. ~HasActive /\ ~SomeAre("settled")
    BY <2>1, <2>2 DEF Shelf, NotMade, HasActive, SomeAre
  <2> QED BY <1>2, <2>2, <2>3 DEF Moves
<1> QED BY <1>1, <1>2, <1>3, MovingStep DEF Statuses

LEMMA WriteEditKeeps ==
  ASSUME ShelfInv, settling' = settling, NEW k \in Slots, call[k].op = "edit", call[k].at = "half", WriteEdit(k)
  PROVE  ShelfInv'
<1>1. CatalogueTypes /\ call[k].seen \in { "draft", "listed", "off_shelf" }
  BY DEF ShelfInv, HandlersChecked, Checked
<1>2. UNCHANGED sessions /\ stale' = (IF row.status = call[k].seen THEN stale ELSE stale \cup {"edit"})
  BY DEF WriteEdit, Overtaken
<1>3. Stepped(k)
  BY <1>1, DoneSteps DEF WriteEdit
<1>4. row' = row \/ row' = [ status |-> call[k].seen, body |-> call[k].arg ]
  BY DEF WriteEdit
<1>5. row' = [ status |-> row'.status, body |-> row'.body ] /\ row'.status \in Statuses
  BY <1>1, <1>4 DEF CatalogueTypes, Statuses
<1>6. stale \subseteq stale' /\ (~Overwritten' => row'.status = row.status)
  BY <1>2, <1>4 DEF Overwritten, Overwriting
<1>7. row'.status = "sold" => row.status = "sold"
  BY <1>1, <1>4
<1> QED BY <1>2, <1>3, <1>5, <1>6, <1>7, MovingStep DEF Moves, PuttingBack

LEMMA WriteDeleteKeeps ==
  ASSUME ShelfInv, settling' = settling, NEW k \in Slots, call[k].op = "delete", call[k].at = "half", WriteDelete(k)
  PROVE  ShelfInv'
<1>1. /\ CatalogueTypes /\ call[k].seen.status \in { "draft", "listed", "off_shelf" }
      /\ call[k].seen.status # "draft" => call[k].seen.active = FALSE
  BY DEF ShelfInv, HandlersChecked, Checked
<1>2. UNCHANGED sessions /\ stale' = (IF Seen = call[k].seen THEN stale ELSE stale \cup {"delete"})
  BY DEF WriteDelete, Overtaken
<1>3. Stepped(k)
  BY <1>1, DoneSteps DEF WriteDelete
<1>4. \/ row' = row
      \/ /\ call[k].seen.status = "draft" /\ sessions = <<>>
         /\ row' = [ row EXCEPT !.status = "gone" ]
      \/ call[k].seen.status # "draft" /\ row' = [ row EXCEPT !.status = "off_shelf" ]
  BY DEF WriteDelete
<1>5. row' = [ status |-> row'.status, body |-> row'.body ] /\ row'.status \in Statuses
  BY <1>1, <1>4 DEF CatalogueTypes, Statuses, Absent
<1>6. ASSUME ~Overwritten', Shelf
      PROVE  Moves(k)
  <2>1. Seen = call[k].seen
    BY <1>2, <1>6 DEF Overwritten, Overwriting
  <2>2. row.status = call[k].seen.status /\ HasActive = call[k].seen.active
    BY <2>1 DEF Seen
  <2>3. CASE row' = row
    BY <2>1, <2>3 DEF Moves, PuttingBack
  <2>4. CASE sessions = <<>> /\ row' = [ row EXCEPT !.status = "gone" ]
    <3>1. ~HasActive /\ ~SomeAre("settled")
      BY <2>4 DEF HasActive, SomeAre
    <3>2. row'.status = "gone"
      BY <1>1, <2>4 DEF CatalogueTypes
    <3> QED BY <1>1, <2>1, <2>2, <3>1, <3>2 DEF Moves
  <2>5. CASE call[k].seen.status # "draft" /\ row' = [ row EXCEPT !.status = "off_shelf" ]
    <3>1. row'.status = "off_shelf"
      BY <1>1, <2>5 DEF CatalogueTypes
    <3>2. ~SomeAre("settled")
      BY <1>1, <1>6, <2>2 DEF Shelf, Over
    <3> QED BY <1>1, <2>1, <2>2, <2>5, <3>1, <3>2 DEF Moves
  <2> QED BY <1>4, <2>3, <2>4, <2>5
<1>7. (row'.status = "sold" => row.status = "sold") /\ stale \subseteq stale'
  BY <1>1, <1>2, <1>4 DEF CatalogueTypes
<1> QED BY <1>2, <1>3, <1>5, <1>6, <1>7, MovingStep

LEMMA ListDraftKeeps ==
  ASSUME ShelfInv, settling' = settling, NEW k \in Slots, call[k].at = "third", ListDraft(k)
  PROVE  ShelfInv'
<1>1. CatalogueTypes
  BY DEF ShelfInv
<1>2. /\ UNCHANGED sessions /\ Stepped(k)
      /\ stale' = IF row.status = "draft" THEN stale ELSE stale \cup {"publish"}
  BY <1>1, DoneSteps DEF ListDraft, Overtaken
<1>3. "listed" \in Statuses
  BY DEF Statuses
<1>4. row'.status = "listed" /\ row' = [ status |-> row'.status, body |-> row'.body ]
  BY <1>1, <1>3, SetStatusFacts DEF ListDraft
<1>5. ~Overwritten' /\ Shelf => Moves(k)
  <2>1. ~Overwritten' => row.status = "draft"
    BY <1>2 DEF Overwritten, Overwriting
  <2> QED BY <1>4, <2>1 DEF Moves, Shelf, Over
<1>6. stale \subseteq stale'
  BY <1>2
<1> QED BY <1>2, <1>3, <1>4, <1>5, <1>6, MovingStep

LEMMA RelistKeeps ==
  ASSUME ShelfInv, settling' = settling, NEW k \in Slots, call[k].op = "cancel", call[k].at = "half", Relist(k)
  PROVE  ShelfInv'
<1>1. CatalogueTypes
  BY DEF ShelfInv
<1>2. /\ UNCHANGED sessions /\ Stepped(k)
      /\ stale' = IF row.status = "auctioning" /\ Taken THEN stale \cup {"relist"} ELSE stale
  BY <1>1, DoneSteps DEF Relist
<1>3. "listed" \in Statuses
  BY DEF Statuses
<1>4. CASE row.status = "auctioning"
  <2>1. row'.status = "listed" /\ row' = [ status |-> row'.status, body |-> row'.body ]
    BY <1>1, <1>3, <1>4, SetStatusFacts DEF Relist
  <2>2. stale \subseteq stale' /\ (~Overwritten' => ~Taken)
    BY <1>2, <1>4 DEF Overwritten, Overwriting
  <2>3. ~Overwritten' /\ Shelf => Moves(k)
    BY <1>4, <2>1, <2>2 DEF Moves, Taken
  <2> QED BY <1>2, <1>3, <2>1, <2>2, <2>3, MovingStep
<1>5. CASE row.status # "auctioning"
  <2>1. row' = row
    BY <1>5 DEF Relist
  <2>2. stale \subseteq stale' /\ Moves(k)
    BY <1>2, <1>5, <2>1 DEF Moves
  <2> QED BY <1>1, <1>2, <2>1, <2>2, MovingStep DEF CatalogueTypes
<1> QED BY <1>4, <1>5

LEMMA InsertSessionKeeps ==
  ASSUME ShelfInv, settling' = settling, NEW k \in Slots, call[k].op = "publish", call[k].at = "half", InsertSession(k)
  PROVE  ShelfInv'
<1>1. /\ CatalogueTypes /\ HandlersChecked /\ IsCalls(call)
      /\ call[k].seen.status \in { "draft", "listed" } /\ call[k].seen.active = FALSE
  BY DEF ShelfInv, CatalogueTypes, HandlersChecked, Checked
<1>2. CASE row.status = "gone" /\ Done(k, FALSE, None) /\ UNCHANGED <<row, sessions, stale>>
  BY <1>1, <1>2, DoneSteps, QuietStep DEF PuttingBack
<1>3. CASE /\ sessions' = Append(sessions, [ status |-> "pending", rules |-> call[k].arg ])
           /\ Halfway(k, "third", None) \/ Done(k, TRUE, None)
           /\ stale' = IF Seen = call[k].seen THEN stale ELSE stale \cup {"publish"}
           /\ UNCHANGED row
  <2>1. Stepped(k)
    <3>1. CASE Halfway(k, "third", None)
      BY <1>1, <3>1, HalfwayFacts DEF Stepped, Checked, Ats
    <3>2. CASE Done(k, TRUE, None)
      BY <1>1, <3>2, DoneSteps
    <3> QED BY <1>3, <3>1, <3>2
  <2>2. /\ HandlersChecked' /\ (Relisting => Relisting')
        /\ \A j \in Slots : Creates(j)' => Creates(j)
    BY <1>1, <2>1, SteppedFacts DEF PuttingBack
  <2> DEFINE n == Len(sessions) + 1
  <2>3. /\ IsSessions' /\ DOMAIN sessions' = DOMAIN sessions \cup {n} /\ n \notin DOMAIN sessions
        /\ \A j \in DOMAIN sessions : sessions'[j] = sessions[j]
        /\ sessions'[n].status = "pending"
    BY <1>1, <1>3, AppendFacts DEF CatalogueTypes
  <2> HIDE DEF n
  <2>4. CatalogueTypes'
    BY <1>1, <1>3, <2>1, <2>3 DEF CatalogueTypes, Stepped
  <2>5. stale \subseteq stale' /\ ("publish" \notin stale' => Seen = call[k].seen)
    BY <1>3
  <2>6. ASSUME Seen = call[k].seen
        PROVE  /\ row.status \in { "draft", "listed" } /\ HasActive = FALSE
               /\ \A j \in DOMAIN sessions : sessions[j].status \notin Open
    BY <1>1, <2>6 DEF Seen, HasActive
  <2>7. /\ \A s \in { "running", "settled" } : SomeAre(s)' = SomeAre(s)
        /\ settling' = settling /\ row'.status = row.status
    BY <1>3, <2>1, <2>3 DEF SomeAre, Stepped
  <2>8. SoldFor' /\ ("publish" \notin stale' => OneOpen')
    <3>1. SoldFor'
      BY <1>1, <2>3, <2>7 DEF ShelfInv, SoldFor, CatalogueTypes
    <3>2. "publish" \notin stale' => OneOpen'
      BY <2>3, <2>5, <2>6 DEF OneOpen
    <3> QED BY <3>1, <3>2
  <2>9. ASSUME ~Overwritten'
        PROVE  Shelf'
    <3>1. Shelf /\ Seen = call[k].seen
      BY <2>5, <2>9, StaleGrows DEF ShelfInv, Overwritten, Overwriting
    <3>2. ~SomeAre("settled") /\ ~SomeAre("settled")'
      BY <2>6, <2>7, <3>1 DEF Shelf, Over
    <3>3. BidFor' /\ OnOffer' /\ Over' /\ NotMade'
      BY <2>6, <2>7, <3>1, <3>2 DEF Shelf, BidFor, OnOffer, Over, NotMade
    <3>4. SoldAfter'
      BY <3>2 DEF SoldAfter, SomeAre
    <3>5. MadeOnce'
      BY <2>2, <2>6, <3>1 DEF Shelf, MadeOnce
    <3> QED BY <3>3, <3>4, <3>5 DEF Shelf
  <2>10. stale' = {} => PutBack'
    <3>1. stale' = {} => Seen = call[k].seen
      BY <2>5
    <3> QED BY <2>6, <2>7, <3>1 DEF PutBack
  <2> QED BY <2>2, <2>4, <2>8, <2>9, <2>10 DEF ShelfInv
<1> QED BY <1>2, <1>3 DEF InsertSession, Overtaken, database

LEMMA WriteRulesKeeps ==
  ASSUME ShelfInv, settling' = settling, NEW k \in Slots, call[k].op = "rules", call[k].at = "half", WriteRules(k)
  PROVE  ShelfInv'
<1>1. CatalogueTypes /\ IsSessions
  BY DEF ShelfInv, CatalogueTypes
<1>2. Stepped(k) /\ UNCHANGED <<row, stale>>
  BY <1>1, DoneSteps DEF WriteRules
<1>3. \/ sessions' = sessions
      \/ sessions' = [ sessions EXCEPT ![call[k].item].rules = call[k].arg ]
  BY DEF WriteRules
<1>4. /\ IsSessions' /\ DOMAIN sessions' = DOMAIN sessions
      /\ \A j \in DOMAIN sessions : sessions'[j].status = sessions[j].status
  <2>1. CASE sessions' = sessions
    BY <1>1, <2>1 DEF IsSessions
  <2>2. CASE sessions' = [ sessions EXCEPT ![call[k].item].rules = call[k].arg ]
    BY <1>1, <2>2, SetRulesFacts
  <2> QED BY <1>3, <2>1, <2>2
<1> QED BY <1>2, <1>4, SameStatuses DEF PuttingBack

LEMMA CancelKeeps ==
  ASSUME ShelfInv, settling' = settling, NEW k \in Slots, call[k].op = "cancel", call[k].at = "sent", Cancel(k)
  PROVE  ShelfInv'
<1> DEFINE i == call[k].item
<1>1. CatalogueTypes /\ HandlersChecked /\ IsCalls(call) /\ UNCHANGED <<row, stale>>
  BY DEF ShelfInv, CatalogueTypes, Cancel
<1>2. CASE Done(k, FALSE, None) /\ UNCHANGED sessions
  BY <1>1, <1>2, DoneSteps, QuietStep DEF PuttingBack
<1>3. CASE sessions[i].status \in Open /\ SetSession(i, "cancelled") /\ Halfway(k, "half", None)
  <2>1. Stepped(k) /\ PuttingBack(k)'
    BY <1>1, <1>3, HalfwayFacts DEF Stepped, Checked, PuttingBack, Ats, Writers
  <2>2. /\ HandlersChecked' /\ Relisting'
        /\ \A j \in Slots : Creates(j)' => Creates(j)
    BY <1>1, <2>1, SteppedFacts
  <2>3. /\ IsSessions' /\ DOMAIN sessions' = DOMAIN sessions
        /\ \A j \in DOMAIN sessions :
             sessions'[j].status = IF j = i THEN "cancelled" ELSE sessions[j].status
    BY <1>1, <1>3, SetSessionFacts DEF CatalogueTypes, Progress
  <2> HIDE DEF i
  <2>4. CatalogueTypes'
    BY <1>1, <2>1, <2>3 DEF CatalogueTypes, Stepped
  <2>5. /\ SomeAre("settled")' = SomeAre("settled") /\ (SomeAre("running")' => SomeAre("running"))
        /\ HasActive' => HasActive
        /\ settling' = settling
    BY <1>3, <2>1, <2>3 DEF SomeAre, HasActive, Open, Stepped
  <2>6. SoldFor' /\ (OneOpen => OneOpen')
    BY <1>1, <1>3, <2>3, <2>5 DEF ShelfInv, SoldFor, OneOpen, Open, CatalogueTypes
  <2>7. ASSUME Shelf
        PROVE  Shelf'
    <3>1. BidFor' /\ OnOffer' /\ Over' /\ NotMade'
      BY <1>1, <2>3, <2>5, <2>7 DEF Shelf, BidFor, OnOffer, Over, NotMade
    <3>2. SoldAfter' /\ MadeOnce'
      BY <1>1, <2>2, <2>3, <2>5, <2>7 DEF Shelf, SoldAfter, MadeOnce
    <3> QED BY <3>1, <3>2 DEF Shelf
  <2>8. PutBack'
    BY <2>2 DEF PutBack
  <2> QED BY <1>1, <2>2, <2>4, <2>6, <2>7, <2>8 DEF ShelfInv, Overwritten
<1> QED BY <1>1, <1>2, <1>3 DEF Cancel

(* What only reads, and leaves a handler half-way or answers.              *)
LEMMA ReadingKeeps ==
  ASSUME ShelfInv, settling' = settling, NEW k \in Slots, call[k].at = "sent",
         \/ call[k].op = "get" /\ Get(k)
         \/ call[k].op = "auction" /\ GetAuction(k)
         \/ call[k].op = "list" /\ ListProducts(k)
         \/ call[k].op = "edit" /\ CheckEdit(k)
         \/ call[k].op = "delete" /\ CheckDelete(k)
         \/ call[k].op = "publish" /\ CheckPublish(k)
         \/ call[k].op = "rules" /\ CheckRules(k)
  PROVE  ShelfInv'
<1>1. CatalogueTypes /\ IsCalls(call)
  BY DEF ShelfInv, CatalogueTypes
<1>2. UNCHANGED <<row, sessions, stale>> /\ ~PuttingBack(k)
  BY DEF Get, GetAuction, ListProducts, CheckEdit, CheckDelete, CheckPublish, CheckRules, database, PuttingBack
<1>3. Stepped(k)
  <2>1. ASSUME NEW ok, NEW reply, Done(k, ok, reply)
        PROVE  Stepped(k)
    BY <1>1, <2>1, DoneSteps
  <2>2. ASSUME NEW seen, Halfway(k, "half", seen)
        PROVE  /\ IsCalls(call') /\ \A j \in Slots \ {k} : call'[j] = call[j]
               /\ call'[k].at = "half" /\ call'[k].op = call[k].op /\ call'[k].seen = seen
    BY <1>1, <2>2, HalfwayFacts DEF Ats
  <2>3. CASE call[k].op = "edit" /\ CheckEdit(k)
    <3>1. CASE Halfway(k, "half", row.status) /\ row.status \notin Absent \cup { "auctioning", "sold" }
      BY <1>1, <2>2, <2>3, <3>1 DEF Stepped, Checked, Writers, CatalogueTypes, Statuses
    <3> QED BY <2>1, <2>3, <3>1 DEF CheckEdit
  <2>4. CASE call[k].op = "delete" /\ CheckDelete(k)
    <3>1. CASE /\ Halfway(k, "half", Seen) /\ row.status \notin Absent \cup { "auctioning", "sold" }
               /\ row.status # "draft" => ~HasActive
      <4>1. /\ Seen.status = row.status /\ (row.status # "draft" => Seen.active = FALSE)
            /\ row.status \in { "draft", "listed", "off_shelf" }
        BY <1>1, <3>1 DEF Seen, HasActive, CatalogueTypes, Statuses
      <4> QED BY <2>2, <2>4, <3>1, <4>1 DEF Stepped, Checked, Writers
    <3> QED BY <2>1, <2>4, <3>1 DEF CheckDelete
  <2>5. CASE call[k].op = "publish" /\ CheckPublish(k)
    <3>1. CASE Halfway(k, "half", Seen) /\ row.status \in { "draft", "listed" } /\ ~HasActive
      <4>1. Seen.status = row.status /\ Seen.active = FALSE
        BY <3>1 DEF Seen, HasActive
      <4> QED BY <2>2, <2>5, <3>1, <4>1 DEF Stepped, Checked, Writers
    <3> QED BY <2>1, <2>5, <3>1 DEF CheckPublish, Publishable
  <2>6. CASE call[k].op = "rules" /\ CheckRules(k)
    <3>1. CASE Halfway(k, "half", None)
      BY <2>2, <2>6, <3>1 DEF Stepped, Checked, Writers
    <3> QED BY <2>1, <2>6, <3>1 DEF CheckRules
  <2>7. CASE Get(k) \/ GetAuction(k) \/ ListProducts(k)
    BY <2>1, <2>7 DEF Get, GetAuction, ListProducts
  <2> QED BY <2>3, <2>4, <2>5, <2>6, <2>7
<1> QED BY <1>2, <1>3, QuietStep

LEMMA ServeKeeps ==
  ASSUME ShelfInv, NEW k \in Slots, Serve(k)
  PROVE  ShelfInv'
<1>0. settling' = settling
  BY DEF Serve
<1>1. /\ call[k].op \in Ops /\ Handle(k)
      /\ call[k].at = "half" => call[k].op \in Writers
  BY DEF ShelfInv, CatalogueTypes, IsCalls, IsCall, HandlersChecked, Checked, Serve
<1>2. CASE call[k].at = "sent"
  <2>1. \/ call[k].op = "get" /\ Get(k)
        \/ call[k].op = "auction" /\ GetAuction(k)
        \/ call[k].op = "list" /\ ListProducts(k)
        \/ call[k].op = "edit" /\ CheckEdit(k)
        \/ call[k].op = "delete" /\ CheckDelete(k)
        \/ call[k].op = "publish" /\ CheckPublish(k)
        \/ call[k].op = "rules" /\ CheckRules(k)
        \/ call[k].op = "create" /\ Create(k)
        \/ call[k].op = "cancel" /\ Cancel(k)
    BY <1>1, <1>2 DEF Handle, Ops
  <2> QED BY <1>0, <1>2, <2>1, ReadingKeeps, CreateKeeps, CancelKeeps
<1>3. CASE call[k].at = "half"
  <2>1. \/ call[k].op = "edit" /\ WriteEdit(k)
        \/ call[k].op = "delete" /\ WriteDelete(k)
        \/ call[k].op = "publish" /\ InsertSession(k)
        \/ call[k].op = "rules" /\ WriteRules(k)
        \/ call[k].op = "cancel" /\ Relist(k)
    BY <1>1, <1>3 DEF Handle, Writers
  <2> QED BY <1>0, <1>3, <2>1, WriteEditKeeps, WriteDeleteKeeps, InsertSessionKeeps, WriteRulesKeeps, RelistKeeps
<1>4. CASE call[k].at = "third" /\ ListDraft(k)
  BY <1>0, <1>4, ListDraftKeeps
<1> QED BY <1>1, <1>2, <1>3, <1>4 DEF Handle

LEMMA LoseKeeps ==
  ASSUME ShelfInv, NEW k \in Slots, Lose(k)
  PROVE  ShelfInv'
<1>1. /\ CatalogueTypes /\ HandlersChecked /\ Stepped(k) /\ UNCHANGED <<row, sessions>>
      /\ stale' = IF PuttingBack(k) THEN stale \cup {"cancel"} ELSE stale
  BY DoneSteps DEF ShelfInv, Lose, database, PuttingBack
<1>2. CASE ~PuttingBack(k)
  BY <1>1, <1>2, QuietStep
<1>3. CASE PuttingBack(k)
  <2>1. /\ HandlersChecked' /\ \A j \in Slots : Creates(j)' => Creates(j)
    BY <1>1, SteppedFacts
  <2>2. CatalogueTypes' /\ settling' = settling
    BY <1>1 DEF CatalogueTypes, Stepped, IsSessions
  <2>3. stale \subseteq stale' /\ stale' # {}
    BY <1>1, <1>3
  <2>5. SoldFor' /\ (OneOpen => OneOpen')
    BY <1>1, <2>2 DEF ShelfInv, SoldFor, SomeAre, OneOpen
  <2>4. ASSUME Shelf
        PROVE  Shelf'
    <3>1. BidFor' /\ OnOffer' /\ Over' /\ NotMade'
      BY <1>1, <2>4 DEF Shelf, BidFor, OnOffer, Over, NotMade, HasActive, SomeAre
    <3>2. SoldAfter' /\ MadeOnce'
      BY <1>1, <2>1, <2>2, <2>3, <2>4 DEF Shelf, SoldAfter, MadeOnce
    <3> QED BY <3>1, <3>2 DEF Shelf
  <2> QED BY <2>1, <2>2, <2>3, <2>4, <2>5, StaleGrows DEF ShelfInv
<1> QED BY <1>2, <1>3

(* A session has been bid on or is settled, and the product follows, if    *)
(* nobody has yet to have it follow: it was the one that is open.          *)
LEMMA SessionMoves ==
  ASSUME ShelfInv, UNCHANGED <<call, stale>>, NEW i \in DOMAIN sessions, NEW s \in { "running", "settled" },
         sessions[i].status \in Open, SetSession(i, s),
         \/ s = "running" /\ SetStatus("auctioning") /\ UNCHANGED settling
         \/ s = "settled" /\ SetStatus("sold") /\ UNCHANGED settling
         \/ /\ s = "settled" /\ sessions[i].status = "running"
            /\ settling' = settling \cup {i} /\ UNCHANGED row
  PROVE  ShelfInv'
<1>1. CatalogueTypes /\ HandlersChecked
  BY DEF ShelfInv
<1>2. /\ IsSessions' /\ DOMAIN sessions' = DOMAIN sessions
      /\ \A j \in DOMAIN sessions : sessions'[j].status = IF j = i THEN s ELSE sessions[j].status
  BY <1>1, SetSessionFacts DEF CatalogueTypes, Progress, Open
<1>3. row' = [ status |-> row'.status, body |-> row'.body ] /\ row'.status \in Statuses
  <2>1. { "auctioning", "sold" } \subseteq Statuses
    BY DEF Statuses
  <2> QED BY <1>1, <2>1, SetStatusFacts DEF CatalogueTypes
<1>4. \/ s = "running" /\ row'.status = "auctioning" /\ settling' = settling
      \/ s = "settled" /\ row'.status = "sold" /\ settling' = settling
      \/ /\ s = "settled" /\ row'.status = row.status /\ settling' = settling \cup {i}
         /\ SomeAre("running")
  <2>1. { "auctioning", "sold" } \subseteq Statuses
    BY DEF Statuses
  <2> QED BY <1>1, <2>1, SetStatusFacts DEF SomeAre
<1>5. CatalogueTypes' /\ HandlersChecked'
  <2>1. settling' \subseteq DOMAIN sessions'
    BY <1>1, <1>2, <1>4 DEF CatalogueTypes
  <2> QED BY <1>1, <1>2, <1>3, <2>1 DEF CatalogueTypes, HandlersChecked, Checked
<1>6. HasActive /\ (s = "settled" => SomeAre("settled")') /\ (s = "running" => SomeAre("running")')
  BY <1>2 DEF HasActive, SomeAre
<1>7. SoldFor'
  <2>1. SomeAre("settled") => SomeAre("settled")'
    BY <1>2 DEF SomeAre, Open
  <2>2. \A j \in settling' : sessions'[j].status = "settled"
    BY <1>1, <1>2, <1>4 DEF ShelfInv, SoldFor, CatalogueTypes, Open
  <2> QED BY <1>4, <1>6, <2>1, <2>2 DEF ShelfInv, SoldFor
<1>8. OneOpen => OneOpen'
  BY <1>2 DEF OneOpen, Open
<1>9. ASSUME Shelf, OneOpen
      PROVE  Shelf'
  <2>1. \A j \in DOMAIN sessions : sessions[j].status \in Open => j = i
    BY <1>9 DEF OneOpen
  <2>2. \A j \in DOMAIN sessions : sessions[j].status # "settled"
    BY <1>6, <1>9 DEF Shelf, Over, SomeAre
  <2>3. /\ s = "settled" => ~HasActive' /\ ~SomeAre("running")'
        /\ s = "running" => ~SomeAre("settled")'
    BY <1>2, <2>1, <2>2 DEF HasActive, SomeAre, Open
  <2>4. BidFor' /\ OnOffer' /\ Over'
    BY <1>4, <1>9, <2>3 DEF Shelf, BidFor, OnOffer, Over
  <2>5. SoldAfter'
    BY <1>2, <1>4, <2>2 DEF SoldAfter
  <2>6. NotMade' /\ MadeOnce'
    <3>1. row.status # "none" /\ \A k \in Slots : ~Creates(k)
      BY <1>9 DEF Shelf, NotMade, MadeOnce
    <3>2. row'.status # "none" /\ \A k \in Slots : ~Creates(k)'
      BY <1>4, <3>1 DEF Creates
    <3> QED BY <3>2 DEF NotMade, MadeOnce
  <2> QED BY <2>4, <2>5, <2>6 DEF Shelf
<1>10. PutBack'
  BY <1>4, <1>6 DEF PutBack
<1>11. Overwritten' = Overwritten /\ (~Overwritten => "publish" \notin stale)
  BY DEF Overwritten, Overwriting
<1> QED BY <1>5, <1>7, <1>8, <1>9, <1>10, <1>11 DEF ShelfInv

LEMMA BidKeeps ==
  ASSUME ShelfInv, BidOrSettle
  PROVE  ShelfInv'
<1>1. PICK i \in DOMAIN sessions : Bid(i) \/ Settle(i)
  BY DEF BidOrSettle
<1>2. UNCHANGED <<call, stale>>
  BY DEF BidOrSettle
<1>3. CASE Bid(i)
  BY <1>2, <1>3, SessionMoves DEF Bid
<1>4. CASE Settle(i)
  BY <1>2, <1>4, SessionMoves DEF Settle, Open
<1> QED BY <1>1, <1>3, <1>4

(* The product follows its settled session, or never will.                 *)
LEMMA SellKeeps ==
  ASSUME ShelfInv, Sell
  PROVE  ShelfInv'
<1>1. PICK i \in settling : settling' = settling \ {i}
  BY DEF Sell
<1>2. CatalogueTypes /\ HandlersChecked /\ UNCHANGED <<sessions, call>>
  BY DEF ShelfInv, Sell
<1>3. (SetStatus("sold") /\ stale' = stale) \/ (row' = row /\ stale' = stale \cup {"settle"})
  BY DEF Sell
<1>4. CatalogueTypes'
  <2>1. row' = [ status |-> row'.status, body |-> row'.body ] /\ row'.status \in Statuses
    <3>1. "sold" \in Statuses
      BY DEF Statuses
    <3> QED BY <1>2, <1>3, <3>1, SetStatusFacts DEF CatalogueTypes
  <2> QED BY <1>1, <1>2, <2>1 DEF CatalogueTypes, IsSessions
<1>5. HandlersChecked' /\ stale \subseteq stale'
  BY <1>2, <1>3 DEF HandlersChecked, Checked
<1>6. /\ HasActive' = HasActive /\ (\A s : SomeAre(s)' = SomeAre(s)) /\ OneOpen' = OneOpen
      /\ MadeOnce => row.status = "none" \/ \A k \in Slots : ~Creates(k)'
  BY <1>2 DEF HasActive, SomeAre, OneOpen, MadeOnce, Creates
<1>7. row'.status = "sold" \/ (row' = row /\ "settle" \in stale')
  <2>1. "sold" \in Statuses
    BY DEF Statuses
  <2>2. SetStatus("sold") => row'.status = "sold"
    BY <1>2, <2>1, SetStatusFacts
  <2> QED BY <1>3, <2>2
<1>8. SoldFor'
  <2>1. SomeAre("settled")
    BY <1>1, <1>2 DEF ShelfInv, SoldFor, SomeAre, CatalogueTypes
  <2> QED BY <1>1, <1>2, <1>6, <2>1 DEF ShelfInv, SoldFor
<1>9. ASSUME Shelf
      PROVE  Shelf'
  <2>1. SomeAre("settled")
    BY <1>1, <1>2 DEF ShelfInv, SoldFor, SomeAre, CatalogueTypes
  <2>2. row.status \in { "auctioning", "sold" } /\ ~HasActive /\ ~SomeAre("running")
    BY <1>9, <2>1 DEF Shelf, Over, HasActive, SomeAre, Open
  <2>3. row'.status \in { "auctioning", "sold" }
    BY <1>7, <2>2
  <2>4. BidFor' /\ OnOffer' /\ Over' /\ NotMade'
    BY <1>6, <2>2, <2>3 DEF BidFor, OnOffer, Over, NotMade
  <2>5. SoldAfter'
    BY <1>7 DEF SoldAfter
  <2>6. MadeOnce'
    BY <1>6, <1>9, <2>2 DEF Shelf, MadeOnce
  <2> QED BY <2>4, <2>5, <2>6 DEF Shelf
<1>10. stale' = {} => PutBack'
  <2>1. stale' = {} => row'.status = "sold"
    BY <1>7
  <2> QED BY <2>1 DEF PutBack
<1> QED BY <1>4, <1>5, <1>6, <1>8, <1>9, <1>10, StaleGrows DEF ShelfInv

--------------------------------------------------------------------------------
(* The pages                                                               *)

(* What the shelf tells does not change with what is asked.                *)
LEMMA ShelfStays ==
  ASSUME ShelfInv, UNCHANGED <<row, sessions, settling, stale>>, CatalogueTypes', HandlersChecked',
         Relisting => Relisting', MadeOnce => MadeOnce'
  PROVE  ShelfInv'
<1>1. HasActive' = HasActive /\ \A s : SomeAre(s)' = SomeAre(s)
  BY DEF HasActive, SomeAre
<1>2. SoldFor' = SoldFor /\ OneOpen' = OneOpen /\ Overwritten' = Overwritten /\ (PutBack => PutBack')
  BY <1>1 DEF SoldFor, OneOpen, Overwritten, PutBack
<1>3. Shelf => Shelf'
  BY <1>1 DEF Shelf, BidFor, OnOffer, Over, SoldAfter, NotMade
<1> QED BY <1>2, <1>3 DEF ShelfInv

(* Requests under way go on as they are; what is asked for is not a new    *)
(* product.                                                                *)
Kept(calls) ==
  /\ IsCalls(calls)
  /\ \A k \in Slots :
       \/ calls[k].at = call[k].at /\ calls[k].op = call[k].op /\ calls[k].seen = call[k].seen
       \/ /\ call[k].at \in { "idle", "done" } /\ calls[k].at \in { "idle", "sent" }
          /\ calls[k].at = "sent" => calls[k].op # "create"

LEMMA KeptKeeps ==
  ASSUME ShelfInv, UNCHANGED <<database, stale>>, Kept(call')
  PROVE  ShelfInv'
<1>1. CatalogueTypes /\ HandlersChecked /\ UNCHANGED <<row, sessions, settling>>
  BY DEF ShelfInv, database
<1>2. CatalogueTypes'
  BY <1>1 DEF CatalogueTypes, IsSessions, Kept
<1>3. ASSUME NEW k \in Slots
      PROVE  /\ Checked(k)' /\ (Creates(k)' => Creates(k)) /\ (PuttingBack(k) => PuttingBack(k)')
  BY <1>1 DEF Kept, HandlersChecked, Checked, Creates, PuttingBack
<1>4. HandlersChecked'
  BY <1>3 DEF HandlersChecked
<1>5. Relisting => Relisting'
  BY <1>3 DEF Relisting, PuttingBack
<1>6. MadeOnce => MadeOnce'
  BY <1>1, <1>3 DEF MadeOnce
<1> QED BY <1>1, <1>2, <1>4, <1>5, <1>6, ShelfStays

LEMMA AskedFacts ==
  ASSUME NEW op \in Ops, NEW from, NEW item, NEW arg
  PROVE  /\ IsCall(Asked(op, from, item, arg)) /\ Asked(op, from, item, arg).at = "sent"
         /\ Asked(op, from, item, arg).op = op
         /\ IsCall(NoCall) /\ NoCall.at = "idle"
<1> DEFINE fields == { "at", "op", "from", "item", "arg", "seen", "ok", "reply" }
           c == Asked(op, from, item, arg)
<1>1. NoCall = [ f \in fields |-> NoCall[f] ]
  BY DEF NoCall
<1>2. /\ c = [ f \in fields |-> c[f] ]
      /\ c.at = "sent" /\ c.op = op /\ c.from = from /\ c.item = item /\ c.arg = arg
      /\ c.seen = None /\ c.ok = TRUE /\ c.reply = None
  BY <1>1 DEF Asked, NoCall
<1>3. Asked(op, from, item, arg) = [ at |-> "sent", op |-> op, from |-> from, item |-> item, arg |-> arg,
                                     seen |-> None, ok |-> TRUE, reply |-> None ]
  BY <1>2
<1>4. IsCall(Asked(op, from, item, arg))
  BY <1>3 DEF IsCall, Ats
<1>5. IsCall(NoCall) /\ NoCall.at = "idle"
  BY DEF NoCall, IsCall, Ats, Ops
<1> QED BY <1>3, <1>4, <1>5

(* A request starts, or is forgotten, where none is under way any more.    *)
LEMMA KeptReplaced ==
  ASSUME NEW calls, Kept(calls), NEW k \in Slots, NEW c, IsCall(c),
         call[k].at \in { "idle", "done" }, c.at \in { "idle", "sent" }, c.at = "sent" => c.op # "create"
  PROVE  Kept([ calls EXCEPT ![k] = c ])
<1> DEFINE new == [ calls EXCEPT ![k] = c ]
<1>1. /\ new = [ j \in Slots |-> new[j] ] /\ new[k] = c
      /\ \A j \in Slots \ {k} : new[j] = calls[j]
  BY DEF Kept, IsCalls
<1> HIDE DEF new
<1>2. \A j \in Slots : IsCall(new[j])
  BY <1>1 DEF Kept, IsCalls
<1>3. IsCalls(new)
  BY <1>1, <1>2 DEF IsCalls
<1>4. Kept(new)
  BY <1>1, <1>3 DEF Kept
<1> QED BY <1>4 DEF new

(* Whose page has been left is still under way.                            *)
LEMMA KeptFrom ==
  ASSUME NEW calls, Kept(calls), NEW new, new = [ k \in Slots |-> new[k] ],
         \A k \in Slots : new[k] = calls[k] \/ \E from : new[k] = [ calls[k] EXCEPT !.from = from ]
  PROVE  Kept(new)
<1>1. ASSUME NEW k \in Slots
      PROVE  /\ IsCall(new[k]) /\ new[k].at = calls[k].at /\ new[k].op = calls[k].op
             /\ new[k].seen = calls[k].seen
  <2>1. IsCall(calls[k])
    BY DEF Kept, IsCalls
  <2>2. CASE new[k] = calls[k]
    BY <2>1, <2>2
  <2>3. ASSUME NEW from, new[k] = [ calls[k] EXCEPT !.from = from ]
        PROVE  /\ IsCall(new[k]) /\ new[k].at = calls[k].at /\ new[k].op = calls[k].op
               /\ new[k].seen = calls[k].seen
    <3>1. new[k] = [ at |-> calls[k].at, op |-> calls[k].op, from |-> from, item |-> calls[k].item,
                     arg |-> calls[k].arg, seen |-> calls[k].seen, ok |-> calls[k].ok,
                     reply |-> calls[k].reply ]
      BY <2>1, <2>3 DEF IsCall
    <3>2. calls[k].at \in Ats /\ calls[k].op \in Ops
      BY <2>1 DEF IsCall
    <3> QED BY <3>1, <3>2 DEF IsCall
  <2> QED BY <2>2, <2>3
<1>2. IsCalls(new)
  BY <1>1 DEF IsCalls
<1> QED BY <1>1, <1>2 DEF Kept

LEMMA KeptForgotten ==
  ASSUME ShelfInv
  PROVE  /\ Kept(call)
         /\ \A k \in Slots : call[k].at = "done" =>
              /\ Kept(Forget(k)) /\ Kept(Again(k))
              /\ \A from, item : Kept([ call EXCEPT ![k] = Asked("auction", from, item, None) ])
<1>1. Kept(call)
  BY DEF ShelfInv, CatalogueTypes, Kept
<1>2. \A op \in Ops : \A from, item, arg :
        /\ IsCall(Asked(op, from, item, arg)) /\ Asked(op, from, item, arg).at = "sent"
        /\ Asked(op, from, item, arg).op = op /\ IsCall(NoCall) /\ NoCall.at = "idle"
  BY AskedFacts
<1>3. "get" \in Ops /\ "auction" \in Ops
  BY DEF Ops
<1>4. Opening("detail") = Asked("get", "page", 0, None)
  BY DEF Opening
<1>5. ASSUME NEW k \in Slots, call[k].at = "done"
      PROVE  /\ Kept(Forget(k)) /\ Kept(Again(k))
             /\ \A from, item : Kept([ call EXCEPT ![k] = Asked("auction", from, item, None) ])
  <2>1. \A c : IsCall(c) /\ c.at \in { "idle", "sent" } /\ (c.at = "sent" => c.op # "create")
                 => Kept([ call EXCEPT ![k] = c ])
    BY <1>1, <1>5, KeptReplaced
  <2>2. Kept(Forget(k))
    BY <1>2, <1>3, <2>1 DEF Forget
  <2>3. Kept(Again(k))
    BY <1>2, <1>3, <1>4, <2>1 DEF Again
  <2>4. \A from, item : Kept([ call EXCEPT ![k] = Asked("auction", from, item, None) ])
    BY <1>2, <1>3, <2>1
  <2> QED BY <2>2, <2>3, <2>4
<1> QED BY <1>1, <1>5

LEMMA KeptEnter ==
  ASSUME NEW p, NEW calls, Kept(calls), Enter(p, calls)
  PROVE  Kept(call')
<1>1. Kept(Left(calls))
  <2> DEFINE new == Left(calls)
  <2>1. /\ new = [ k \in Slots |-> new[k] ]
        /\ \A k \in Slots : new[k] = calls[k] \/ new[k] = [ calls[k] EXCEPT !.from = "left" ]
    BY DEF Left
  <2> HIDE DEF new
  <2>2. Kept(new)
    BY <2>1, KeptFrom
  <2> QED BY <2>2 DEF new
<1>2. CASE p = "new"
  BY <1>1, <1>2 DEF Enter
<1>3. CASE p # "new"
  <2>1. PICK k \in Slots : calls[k].at = "idle" /\ call' = [ Left(calls) EXCEPT ![k] = Opening(p) ]
    BY <1>3 DEF Enter
  <2>2. call[k].at \in { "idle", "done" }
    BY <2>1 DEF Kept
  <2>3. /\ IsCall(Opening(p)) /\ Opening(p).at = "sent" /\ Opening(p).op # "create"
    <3>1. "get" \in Ops /\ "list" \in Ops
      BY DEF Ops
    <3> QED BY <3>1, AskedFacts DEF Opening
  <2>4. Kept([ Left(calls) EXCEPT ![k] = Opening(p) ])
    BY <1>1, <2>2, <2>3, KeptReplaced
  <2> QED BY <2>1, <2>4
<1> QED BY <1>2, <1>3

LEMMA KeptShown ==
  ASSUME NEW new, NEW calls, Kept(calls), ShowDetail(new, calls)
  PROVE  Kept(call')
<1>1. CASE call' = calls
  BY <1>1
<1>2. CASE call' = [ k \in Slots |-> IF calls[k].from = "form" THEN [ calls[k] EXCEPT !.from = "page" ]
                                                               ELSE calls[k] ]
  <2>1. /\ call' = [ k \in Slots |-> call'[k] ]
        /\ \A k \in Slots : call'[k] = calls[k] \/ call'[k] = [ calls[k] EXCEPT !.from = "page" ]
    BY <1>2
  <2> QED BY <2>1, KeptFrom
<1> QED BY <1>1, <1>2 DEF ShowDetail

LEMMA KeptAsked ==
  ASSUME ShelfInv, NEW op \in Ops \ {"create"}, NEW from, NEW item, NEW arg, Ask(op, from, item, arg)
  PROVE  Kept(call')
<1>1. PICK k \in Slots : call[k].at = "idle" /\ call' = [ call EXCEPT ![k] = Asked(op, from, item, arg) ]
  BY DEF Ask, Idle
<1>2. Kept(call)
  BY KeptForgotten
<1>3. /\ IsCall(Asked(op, from, item, arg)) /\ Asked(op, from, item, arg).at = "sent"
      /\ Asked(op, from, item, arg).op # "create"
  BY AskedFacts
<1>4. Kept([ call EXCEPT ![k] = Asked(op, from, item, arg) ])
  BY <1>1, <1>2, <1>3, KeptReplaced
<1> QED BY <1>1, <1>4

--------------------------------------------------------------------------------
(* What the seller does                                                    *)

LEMMA FollowKeeps ==
  ASSUME ShelfInv, Follow
  PROVE  ShelfInv'
<1>1. PICK p : Enter(p, call)
  BY DEF Follow
<1>2. Kept(call')
  BY <1>1, KeptForgotten, KeptEnter
<1> QED BY <1>2, KeptKeeps DEF Follow

(* A new product is asked for when there is none and nobody else asks.     *)
LEMMA CreatingKeeps ==
  ASSUME ShelfInv, UNCHANGED <<database, stale>>, row.status = "none", UnderWay("create") = {},
         NEW from, NEW item, NEW arg, Ask("create", from, item, arg)
  PROVE  ShelfInv'
<1>1. PICK k \in Slots : call[k].at = "idle" /\ call' = [ call EXCEPT ![k] = Asked("create", from, item, arg) ]
  BY DEF Ask, Idle
<1>2. "create" \in Ops
  BY DEF Ops
<1>3. /\ CatalogueTypes /\ HandlersChecked /\ IsCalls(call)
      /\ UNCHANGED <<row, sessions, settling>>
  BY DEF ShelfInv, CatalogueTypes, database
<1>4. /\ call'[k].at = "sent" /\ call'[k].op = "create" /\ IsCall(call'[k])
      /\ call' = [ j \in Slots |-> call'[j] ]
      /\ \A j \in Slots \ {k} : call'[j] = call[j]
  BY <1>1, <1>2, <1>3, AskedFacts DEF IsCalls
<1>5. IsCalls(call')
  <2>1. \A j \in Slots : IsCall(call'[j])
    BY <1>3, <1>4 DEF IsCalls
  <2> QED BY <1>4, <2>1 DEF IsCalls
<1>6. CatalogueTypes'
  BY <1>3, <1>5 DEF CatalogueTypes, IsSessions
<1>7. HandlersChecked'
  BY <1>3, <1>4 DEF HandlersChecked, Checked
<1>8. \A j \in Slots : Creates(j)' => j = k
  BY <1>4 DEF Creates, UnderWay
<1>9. Relisting => Relisting'
  BY <1>1, <1>4 DEF Relisting
<1>10. MadeOnce'
  BY <1>3, <1>8 DEF MadeOnce
<1> QED BY <1>3, <1>6, <1>7, <1>9, <1>10, ShelfStays

LEMMA ActKeeps ==
  ASSUME ShelfInv, Act
  PROVE  ShelfInv'
<1>1. UNCHANGED <<database, stale>>
  BY DEF Act
<1>2. \A op \in Ops \ {"create"} : \A from, item, arg : Ask(op, from, item, arg) => Kept(call')
  BY KeptAsked
<1>3. { "list", "cancel", "delete", "publish", "rules", "edit" } \subseteq Ops \ {"create"}
  BY DEF Ops
<1>4. Kept(call)
  BY KeptForgotten
<1>5. CASE SubmitProduct
  <2>1. CASE page = "new"
    <3>1. row.status = "none" /\ UnderWay("create") = {} /\ Ask("create", "form", 0, Body)
      BY <1>5, <2>1 DEF SubmitProduct
    <3> QED BY <1>1, <3>1, CreatingKeeps
  <2>2. CASE page # "new"
    <3>1. Ask("edit", "form", 0, Body)
      BY <1>5, <2>2 DEF SubmitProduct
    <3> QED BY <1>1, <1>2, <1>3, <3>1, KeptKeeps
  <2> QED BY <2>1, <2>2
<1>6. CASE UnfoldRules
  BY <1>1, <1>4, <1>6, KeptShown, KeptKeeps DEF UnfoldRules
<1>7. CASE UnfoldCancel \/ ChangeRules \/ Change
  <2>1. call' = call
    BY <1>7 DEF UnfoldCancel, ChangeRules, Change
  <2> QED BY <1>1, <1>4, <2>1, KeptKeeps
<1>8. CASE Reload \/ PressCancel \/ PressDelete \/ SubmitRules \/ PublishElsewhere
  <2>1. \E op \in { "list", "cancel", "delete", "publish", "rules" } :
          \E from, item, arg : Ask(op, from, item, arg)
    BY <1>8 DEF Reload, PressCancel, PressDelete, SubmitRules, PublishElsewhere
  <2> QED BY <1>1, <1>2, <1>3, <2>1, KeptKeeps
<1> QED BY <1>5, <1>6, <1>7, <1>8 DEF Act

(* Whatever an answer makes of the page it only forgets its own request,   *)
(* and asks for another load.                                              *)
LEMMA AnswerKeeps ==
  ASSUME ShelfInv, NEW k \in Slots, Answer(k)
  PROVE  ShelfInv'
<1>1. UNCHANGED <<database, stale>> /\ call[k].at = "done"
  BY DEF Answer
<1>2. /\ Kept(call) /\ Kept(Forget(k)) /\ Kept(Again(k))
      /\ \A from, item : Kept([ call EXCEPT ![k] = Asked("auction", from, item, None) ])
  BY <1>1, KeptForgotten
<1>3. \A new, calls : Kept(calls) /\ ShowDetail(new, calls) => Kept(call')
  BY KeptShown
<1>4. Saved(k) => Kept(call')
  BY <1>2, KeptEnter DEF Saved
<1>5. ShowList(k) \/ ShowForm(k) \/ call' = Forget(k) => Kept(call')
  BY <1>2 DEF ShowList, ShowForm
<1>6. ShowProduct(k) => Kept(call')
  BY <1>2, <1>3 DEF ShowProduct
<1>7. ShowSession(k) \/ RulesSaved(k) \/ Cancelled(k) => Kept(call')
  BY <1>2, <1>3 DEF ShowSession, RulesSaved, Cancelled
<1>8. \/ Saved(k) \/ ShowList(k) \/ ShowForm(k) \/ call' = Forget(k)
      \/ ShowProduct(k) \/ ShowSession(k) \/ RulesSaved(k) \/ Cancelled(k)
  BY DEF Answer
<1>9. Kept(call')
  BY <1>4, <1>5, <1>6, <1>7, <1>8
<1> QED BY <1>1, <1>9, KeptKeeps

LEMMA ShelfInit ==
  ASSUME Init
  PROVE  ShelfInv
<1>1. /\ row = [ status |-> row.status, body |-> row.body ]
      /\ row.status \in { "none", "draft", "listed" } /\ (row.status = "listed" <=> sessions # <<>>)
  <2>1. CASE row = [ status |-> "none", body |-> None ]
    BY <2>1 DEF Init
  <2>2. ASSUME NEW b, row \in [ status : { "draft", "listed" }, body : {b} ]
        PROVE  /\ row = [ status |-> row.status, body |-> row.body ]
               /\ row.status \in { "none", "draft", "listed" }
    BY <2>2
  <2>3. row.status = "listed" <=> sessions # <<>>
    BY DEF Init
  <2> QED BY <2>1, <2>2, <2>3 DEF Init
<1>2. sessions = <<>> \/ \E s \in { "pending", "cancelled" }, r \in Rules : sessions = << [ status |-> s, rules |-> r ] >>
  BY DEF Init
<1>3. /\ IsSessions
      /\ sessions = <<>> => DOMAIN sessions = {}
      /\ sessions # <<>> => DOMAIN sessions = {1} /\ sessions[1].status \in { "pending", "cancelled" }
  <2>1. CASE sessions = <<>>
    <3>1. sessions \in Seq({}) /\ DOMAIN sessions = {}
      BY <2>1
    <3> QED BY <2>1, <3>1 DEF IsSessions
  <2>2. ASSUME NEW s \in { "pending", "cancelled" }, NEW r, sessions = << [ status |-> s, rules |-> r ] >>
        PROVE  IsSessions /\ DOMAIN sessions = {1} /\ sessions[1].status \in { "pending", "cancelled" }
    <3> DEFINE new == [ status |-> s, rules |-> r ]
    <3>1. IsSession(new) /\ new.status = s
      BY DEF IsSession, Progress, Open
    <3> HIDE DEF new
    <3>2. sessions \in Seq({new}) /\ DOMAIN sessions = {1} /\ sessions[1] = new
      BY <2>2 DEF new
    <3> QED BY <3>1, <3>2 DEF IsSessions
  <2>3. <<>> # << [ status |-> "pending", rules |-> None ] >>
    OBVIOUS
  <2> QED BY <1>2, <2>1, <2>2
<1>4. /\ IsCalls(call)
      /\ \A k \in Slots : call[k].at \in { "idle", "sent" } /\ call[k].op # "create"
  <2>1. PICK first \in Slots :
          call = [ k \in Slots |-> IF k = first /\ page # "new" THEN Opening(page) ELSE NoCall ]
    BY DEF Init
  <2>2. /\ IsCall(Opening(page)) /\ Opening(page).at = "sent" /\ Opening(page).op # "create"
        /\ IsCall(NoCall) /\ NoCall.at = "idle" /\ NoCall.op # "create"
    <3>1. "get" \in Ops /\ "list" \in Ops /\ NoCall.op = "get"
      BY DEF Ops, NoCall
    <3> QED BY <3>1, AskedFacts DEF Opening
  <2>3. \A k \in Slots : IsCall(call[k]) /\ call[k].at \in { "idle", "sent" } /\ call[k].op # "create"
    BY <2>1, <2>2
  <2>4. call = [ k \in Slots |-> call[k] ]
    BY <2>1
  <2> QED BY <2>3, <2>4 DEF IsCalls
<1>5. CatalogueTypes /\ settling = {} /\ \A s \in { "running", "settled" } : ~SomeAre(s)
  BY <1>1, <1>3, <1>4 DEF CatalogueTypes, Statuses, Absent, Init, SomeAre
<1>6. HandlersChecked
  BY <1>4 DEF HandlersChecked, Checked
<1>7. OneOpen /\ SoldFor /\ BidFor /\ PutBack /\ NotMade /\ Over
  BY <1>1, <1>3, <1>5 DEF OneOpen, SoldFor, BidFor, PutBack, NotMade, Over
<1>8. OnOffer /\ MadeOnce /\ SoldAfter
  BY <1>1, <1>3, <1>4, <1>5 DEF OnOffer, HasActive, MadeOnce, Creates, SoldAfter, SomeAre
<1> QED BY <1>5, <1>6, <1>7, <1>8 DEF ShelfInv, Shelf

LEMMA StepKeeps ==
  ASSUME ShelfInv, [Next]_vars
  PROVE  ShelfInv'
<1>1. CASE BidOrSettle \/ Sell \/ Follow \/ Act
  BY <1>1, BidKeeps, SellKeeps, FollowKeeps, ActKeeps
<1>2. CASE UploadReturns \/ UNCHANGED vars
  <2>1. UNCHANGED <<database, call, stale>>
    BY <1>2 DEF UploadReturns, vars
  <2> QED BY <2>1, KeptForgotten, KeptKeeps
<1>3. ASSUME NEW k \in Slots, Serve(k) \/ Lose(k) \/ Answer(k)
      PROVE  ShelfInv'
  BY <1>3, ServeKeeps, LoseKeeps, AnswerKeeps
<1> QED BY <1>1, <1>2, <1>3 DEF Next

(* For any number of sessions and requests, a product's status is the one  *)
(* its sessions tell, and one of them at most is open, except for what a   *)
(* handler upsets that crossed another one or broke off half-way.          *)
THEOREM ShelfIsTrue == Spec => []ShelfTellsSessions
<1>1. Init => ShelfInv
  BY ShelfInit
<1>2. ShelfInv /\ [Next]_vars => ShelfInv'
  BY StepKeeps
<1>3. ShelfInv => ShelfTellsSessions
  <2>1. SUFFICES ASSUME ShelfInv
                 PROVE  ShelfTellsSessions
    OBVIOUS
  <2>2. /\ "publish" \notin stale => OneOpen
        /\ row.status = "sold" => SomeAre("settled")
    BY <2>1 DEF ShelfInv, SoldFor
  <2>3. ASSUME ~Overwritten
        PROVE  /\ BidFor /\ OnOffer /\ Over
               /\ SomeAre("settled") /\ settling = {} => row.status = "sold" \/ "settle" \in stale
    BY <2>1, <2>3 DEF ShelfInv, Shelf, SoldAfter, SomeAre
  <2>4. stale = {} => PutBack
    BY <2>1 DEF ShelfInv
  <2> QED BY <2>2, <2>3, <2>4 DEF ShelfTellsSessions, OneOpen, BidFor, OnOffer, Over, PutBack
<1> QED BY <1>1, <1>2, <1>3, PTL DEF Spec

--------------------------------------------------------------------------------
(* Rules                                                                   *)

RulesKept == \A i \in DOMAIN sessions : sessions[i].status # "pending" => sessions'[i].rules = sessions[i].rules

(* Of the handlers only the one for the rules writes them.                 *)
LEMMA ServeRules ==
  ASSUME ShelfInv, NEW k \in Slots, Serve(k)
  PROVE  RulesKept
<1>1. /\ IsSessions /\ call[k].op \in Ops /\ Handle(k)
      /\ call[k].at = "half" => call[k].op \in Writers
  BY DEF ShelfInv, CatalogueTypes, IsCalls, IsCall, HandlersChecked, Checked, Serve
<1>2. CASE UNCHANGED sessions
  BY <1>2 DEF RulesKept
<1>3. CASE InsertSession(k)
  <2>1. CASE sessions' = Append(sessions, [ status |-> "pending", rules |-> call[k].arg ])
    BY <1>1, <2>1, AppendFacts DEF RulesKept
  <2> QED BY <1>2, <1>3, <2>1 DEF InsertSession, database
<1>4. CASE WriteRules(k)
  <2>1. CASE /\ sessions[call[k].item].status = "pending"
             /\ sessions' = [ sessions EXCEPT ![call[k].item].rules = call[k].arg ]
    BY <1>1, <2>1, SetRulesFacts DEF RulesKept
  <2> QED BY <1>2, <1>4, <2>1 DEF WriteRules, Unbid
<1>5. CASE Cancel(k)
  <2>1. CASE SetSession(call[k].item, "cancelled")
    BY <1>1, <2>1, SetSessionFacts DEF RulesKept, Progress
  <2> QED BY <1>2, <1>5, <2>1 DEF Cancel
<1>6. UNCHANGED sessions \/ InsertSession(k) \/ WriteRules(k) \/ Cancel(k)
  <2>1. CASE call[k].at = "sent"
    BY <1>1, <2>1 DEF Handle, Ops, Get, GetAuction, ListProducts, Create, CheckEdit, CheckDelete,
                      CheckPublish, CheckRules, database
  <2>2. CASE call[k].at = "half"
    BY <1>1, <2>2 DEF Handle, Writers, WriteEdit, WriteDelete, Relist
  <2>3. CASE call[k].at = "third" /\ ListDraft(k)
    BY <2>3 DEF ListDraft
  <2> QED BY <1>1, <2>1, <2>2, <2>3 DEF Handle
<1> QED BY <1>2, <1>3, <1>4, <1>5, <1>6

(* For any number of sessions, requests and bids: once a session has been  *)
(* bid on its rules stand, whenever they were read.                        *)
THEOREM RulesStand == Spec => RulesStandOnceBid
<1>1. ShelfInv /\ [Next]_vars => [RulesKept]_vars
  <2>1. SUFFICES ASSUME ShelfInv, Next
                 PROVE  RulesKept
    BY DEF vars
  <2>2. CASE BidOrSettle
    <3>1. PICK i \in DOMAIN sessions : Bid(i) \/ Settle(i)
      BY <2>2 DEF BidOrSettle
    <3>2. \E s \in { "running", "settled" } : SetSession(i, s)
      BY <3>1 DEF Bid, Settle
    <3> QED BY <2>1, <3>2, SetSessionFacts DEF ShelfInv, CatalogueTypes, RulesKept, Progress, Open
  <2>3. CASE UNCHANGED sessions
    BY <2>3 DEF RulesKept
  <2>4. ASSUME NEW k \in Slots, Serve(k)
        PROVE  RulesKept
    BY <2>1, <2>4, ServeRules
  <2> QED BY <2>1, <2>2, <2>3, <2>4 DEF Next, Sell, Follow, Act, UploadReturns, Lose, Answer, database
<1>2. Init => ShelfInv
  BY ShelfInit
<1>3. ShelfInv /\ [Next]_vars => ShelfInv'
  BY StepKeeps
<1> QED BY <1>1, <1>2, <1>3, PTL DEF Spec, RulesStandOnceBid, RulesKept

--------------------------------------------------------------------------------
(* Numbers, and a gallery's pictures one after the other                   *)

LEMMA HasLeast ==
  ASSUME NEW S, S \subseteq Nat, S # {}
  PROVE  \E m \in S : \A n \in S : m <= n
<1> DEFINE R == OpToRel(<, Nat)
<1>1. PICK m \in S : \A n \in S : <<n, m>> \notin R
  <2>1. IsWellFoundedOn(R, Nat)
    BY NatLessThanWellFounded
  <2> HIDE DEF R
  <2> QED BY <2>1, WFMin
<1>2. ASSUME NEW n \in S, n < m
      PROVE  FALSE
  <2>1. <<n, m>> \in Nat \X Nat /\ <<n, m>>[1] < <<n, m>>[2]
    BY <1>2
  <2>2. <<n, m>> \in R
    BY <2>1 DEF OpToRel
  <2> QED BY <1>1, <2>2
<1> QED BY <1>2

LEMMA HasMost ==
  ASSUME NEW n \in Nat, NEW S \in SUBSET (1..n), S # {}
  PROVE  \E m \in S : \A i \in S : i <= m
<1> DEFINE down == { n - i : i \in S }
<1>1. down \subseteq Nat /\ down # {}
  <2>1. \A i \in S : i \in Nat /\ n - i \in Nat
    OBVIOUS
  <2> QED BY <2>1
<1>2. \E k \in down : \A i \in down : k <= i
  <2> HIDE DEF down
  <2> QED BY <1>1, HasLeast
<1>3. PICK k \in S : \A i \in S : n - k <= n - i
  BY <1>2
<1>4. \A i \in S : k \in Int /\ i \in Int
  OBVIOUS
<1>5. \A i \in S : i <= k
  <2> HIDE DEF down
  <2> QED BY <1>3, <1>4
<1> QED BY <1>5

LEMMA MaxIs ==
  ASSUME NEW n \in Nat, NEW S \in SUBSET (1..n), S # {}
  PROVE  Max(S) \in S /\ \A i \in S : i <= Max(S)
<1>1. PICK m \in S : \A i \in S : i <= m
  BY HasMost
<1>2. \A i \in S : m >= i
  BY <1>1
<1>3. Max(S) \in S /\ \A i \in S : Max(S) >= i
  BY <1>2 DEF Max
<1> QED BY <1>3

(* What holds at 0 and passes from each number to the next holds up to n.  *)
LEMMA UpTo ==
  ASSUME NEW n \in Nat, NEW S, 0 \in S, \A i \in 0..n : i < n /\ i \in S => i + 1 \in S
  PROVE  \A i \in 0..n : i \in S
<1> DEFINE out == { i \in 0..n : i \notin S }
<1> SUFFICES ASSUME out # {}  PROVE FALSE
  OBVIOUS
<1>1. PICK k \in out : \A i \in out : k <= i
  <2>1. out \subseteq Nat
    OBVIOUS
  <2> HIDE DEF out
  <2> QED BY <2>1, HasLeast
<1>2. k - 1 \in 0..n /\ k - 1 < n /\ k - 1 \notin out /\ (k - 1) + 1 = k
  BY <1>1
<1> QED BY <1>1, <1>2

Folds(f, images, urls, n) ==
  f = [ S \in SUBSET (1..n) |-> IF S = {} THEN images ELSE AddNew(f[S \ {Max(S)}], images, urls[Max(S)]) ]

(* One picture more.                                                       *)
LEMMA FoldsOn ==
  ASSUME NEW images, NEW urls, NEW n \in Nat, NEW f, Folds(f, images, urls, n)
  PROVE  \E g : Folds(g, images, urls, n + 1)
<1> DEFINE top == n + 1
           g == [ S \in SUBSET (1..top) |-> IF top \in S THEN AddNew(f[S \ {top}], images, urls[top]) ELSE f[S] ]
           step(h, S) == IF S = {} THEN images ELSE AddNew(h[S \ {Max(S)}], images, urls[Max(S)])
<1>1. ASSUME NEW S \in SUBSET (1..top), top \in S
      PROVE  g[S] = step(g, S)
  <2>1. top \in Nat /\ S # {}
    BY <1>1
  <2>2. Max(S) = top
    <3>1. Max(S) \in S /\ \A i \in S : i <= Max(S)
      BY <2>1, MaxIs
    <3>2. Max(S) \in 1..top /\ top <= Max(S)
      BY <3>1, <1>1
    <3> HIDE DEF g, step
    <3> QED BY <3>2, <2>1
  <2>3. S \ {top} \in SUBSET (1..top) /\ top \notin S \ {top}
    OBVIOUS
  <2>4. g[S \ {top}] = f[S \ {top}]
    BY <2>3
  <2>5. g[S] = AddNew(f[S \ {top}], images, urls[top])
    BY <1>1
  <2> HIDE DEF g
  <2> QED BY <2>1, <2>2, <2>4, <2>5
<1>2. ASSUME NEW S \in SUBSET (1..top), top \notin S
      PROVE  g[S] = step(g, S)
  <2>1. S \in SUBSET (1..n) /\ S \ {Max(S)} \in SUBSET (1..n) /\ S \ {Max(S)} \in SUBSET (1..top) /\ top \notin S \ {Max(S)}
    <3>1. \A i \in 1..top : i = top \/ i \in 1..n
      OBVIOUS
    <3>2. S \subseteq 1..n
      BY <1>2, <3>1
    <3> HIDE DEF g, step
    <3> QED BY <1>2, <3>2
  <2>2. g[S] = f[S] /\ g[S \ {Max(S)}] = f[S \ {Max(S)}]
    BY <1>2, <2>1
  <2>3. f[S] = step(f, S)
    <3> HIDE DEF g
    <3> QED BY <2>1 DEF Folds
  <2> HIDE DEF g
  <2> QED BY <2>2, <2>3
<1>3. g = [ S \in SUBSET (1..top) |-> step(g, S) ]
  <2>1. \A S \in SUBSET (1..top) : g[S] = step(g, S)
    BY <1>1, <1>2
  <2>2. g = [ S \in SUBSET (1..top) |-> g[S] ]
    OBVIOUS
  <2> HIDE DEF g, step
  <2> QED BY <2>1, <2>2
<1>4. Folds(g, images, urls, top)
  <2> HIDE DEF g
  <2> QED BY <1>3 DEF Folds
<1> QED BY <1>4

LEMMA FoldsExist ==
  ASSUME NEW images, NEW urls, NEW n \in Nat
  PROVE  \E f : Folds(f, images, urls, n)
<1> DEFINE Good == { k \in 0..n : \E f : Folds(f, images, urls, k) }
<1>1. 0 \in Good
  <2> DEFINE f == [ S \in SUBSET (1..0) |-> images ]
  <2>1. \A S \in SUBSET (1..0) : S = {}
    OBVIOUS
  <2>2. Folds(f, images, urls, 0)
    BY <2>1 DEF Folds
  <2> QED BY <2>2
<1>2. ASSUME NEW k \in 0..n, k < n, k \in Good
      PROVE  k + 1 \in Good
  BY <1>2, FoldsOn
<1>3. \A k \in 0..n : k \in Good
  <2> HIDE DEF Good
  <2> QED BY <1>1, <1>2, UpTo
<1> QED BY <1>3

LEMMA AddNewFacts ==
  ASSUME NEW all \in Seq(Pictures), NEW images, NEW url \in Pictures
  PROVE  /\ AddNew(all, images, url) \in Seq(Pictures) /\ Range(all) \subseteq Range(AddNew(all, images, url))
         /\ Range(images) \subseteq Range(all) => url \in Range(AddNew(all, images, url))
<1>1. CASE url \in Range(images)
  BY <1>1 DEF AddNew
<1>2. CASE url \notin Range(images)
  <2>1. AddNew(all, images, url) = Append(all, url)
    BY <1>2 DEF AddNew
  <2> QED BY <2>1, SeqAppend DEF Range
<1> QED BY <1>1, <1>2

(* The gallery keeps its pictures, however many are added.                 *)
LEMMA AppendImagesFacts ==
  ASSUME NEW images \in Seq(Pictures), NEW urls \in Seq(Pictures), NEW saw
  PROVE  /\ AppendImages(images, urls, saw) \in Seq(Pictures)
         /\ Range(images) \cup Range(urls) \subseteq Range(AppendImages(images, urls, saw))
<1> DEFINE n == Len(urls)
           iter == CHOOSE f : Folds(f, images, urls, n)
<1>1. n \in Nat /\ DOMAIN urls = 1..n /\ \A i \in 1..n : urls[i] \in Pictures
  OBVIOUS
<1>2. AppendImages(images, urls, saw) = iter[1..n]
  BY <1>1 DEF AppendImages, FoldLeft, MapThenFoldSet, Folds
<1> HIDE DEF n
<1>3. Folds(iter, images, urls, n)
  <2>1. \E f : Folds(f, images, urls, n)
    BY <1>1, FoldsExist
  <2> QED BY <2>1
<1> HIDE DEF iter
<1> DEFINE Good == { i \in 0..n : /\ iter[1..i] \in Seq(Pictures) /\ Range(images) \subseteq Range(iter[1..i])
                                  /\ \A k \in 1..i : urls[k] \in Range(iter[1..i]) }
<1>4. 0 \in Good
  <2>1. 1..0 = {} /\ 1..0 \in SUBSET (1..n) /\ 0 \in 0..n
    BY <1>1
  <2>2. iter[1..0] = images
    BY <1>3, <2>1 DEF Folds
  <2> QED BY <2>1, <2>2
<1>5. ASSUME NEW j \in 0..n, j < n, j \in Good
      PROVE  j + 1 \in Good
  <2> DEFINE i == j + 1
  <2>0. i \in 1..n /\ i - 1 = j
    BY <1>1, <1>5
  <2> HIDE DEF i
  <2>1. /\ 1..i \in SUBSET (1..n) /\ 1..i # {} /\ i \in 0..n /\ i \in Nat
        /\ i \in 1..i /\ (\A k \in 1..i : k <= i) /\ (1..i) \ {i} = 1..j
    <3>1. (1..i) \ {i} = 1..(i - 1)
      BY <1>1, <2>0
    <3>2. i \in Nat /\ 1..i \in SUBSET (1..n) /\ i \in 0..n
      BY <1>1, <2>0
    <3>3. i \in 1..i /\ \A k \in 1..i : k <= i
      BY <1>1, <2>0
    <3>4. 1..i # {}
      BY <3>3
    <3>5. (1..i) \ {i} = 1..j
      BY <2>0, <3>1
    <3> QED BY <3>2, <3>3, <3>4, <3>5
  <2>2. Max(1..i) = i
    <3>1. Max(1..i) \in 1..i /\ \A k \in 1..i : k <= Max(1..i)
      BY <2>1, MaxIs
    <3> QED BY <3>1, <2>1
  <2>3. iter[1..i] = AddNew(iter[(1..i) \ {Max(1..i)}], images, urls[Max(1..i)])
    BY <1>3, <2>1 DEF Folds
  <2>4. iter[1..i] = AddNew(iter[1..j], images, urls[i])
    BY <2>1, <2>2, <2>3
  <2>5. /\ iter[1..j] \in Seq(Pictures) /\ Range(images) \subseteq Range(iter[1..j]) /\ urls[i] \in Pictures
        /\ \A k \in 1..j : urls[k] \in Range(iter[1..j])
    BY <1>1, <1>5, <2>0
  <2>6. /\ iter[1..i] \in Seq(Pictures) /\ Range(iter[1..j]) \subseteq Range(iter[1..i])
        /\ urls[i] \in Range(iter[1..i])
    BY <2>4, <2>5, AddNewFacts
  <2>7. \A k \in 1..i : k = i \/ k \in 1..j
    BY <2>0, <1>5
  <2>8. i \in Good
    BY <2>1, <2>5, <2>6, <2>7
  <2> QED BY <2>8 DEF i
<1>6. \A i \in 0..n : i \in Good
  <2> HIDE DEF Good
  <2> QED BY <1>1, <1>4, <1>5, UpTo
<1>7. n \in Good
  BY <1>1, <1>6
<1>8. Range(urls) = { urls[k] : k \in 1..n }
  BY <1>1 DEF Range
<1> QED BY <1>2, <1>7, <1>8

(* The session a product is shown with.                                    *)
LEMMA PickSessionFacts ==
  ASSUME IsSessions
  PROVE  /\ PickSession \in 0..Len(sessions)
         /\ PickSession # 0 => sessions[PickSession].status \in Progress
<1> DEFINE open == { i \in DOMAIN sessions : sessions[i].status \in Open }
           n == Len(sessions)
<1>1. n \in Nat /\ DOMAIN sessions = 1..n /\ \A i \in 1..n : sessions[i].status \in Progress
  BY SessionFacts DEF IsSession
<1>2. PickSession \in 0..n
  <2>1. CASE open # {}
    <3>1. open \in SUBSET (1..n)
      BY <1>1
    <3>2. \E m \in open : \A i \in open : i <= m
      <4> HIDE DEF open, n
      <4> QED BY <1>1, <2>1, <3>1, HasMost
    <3>3. (CHOOSE i \in open : \A j \in open : j <= i) \in open
      <4> HIDE DEF open, n
      <4> QED BY <3>2
    <3>4. PickSession \in open
      BY <2>1, <3>3 DEF PickSession
    <3> QED BY <1>1, <3>1, <3>4
  <2>2. CASE open = {}
    BY <1>1, <2>2 DEF PickSession
  <2> QED BY <2>1, <2>2
<1> HIDE DEF n
<1>3. PickSession # 0 => PickSession \in 1..n
  BY <1>1, <1>2
<1> QED BY <1>1, <1>2, <1>3 DEF n
--------------------------------------------------------------------------------
(* Types: what is asked for, answered and shown                            *)

(* What a request is answered with, among n sessions.                      *)
Replied(op, n, ok, reply) ==
  ok => /\ op = "get" => reply \in Views /\ reply.auction \in 0..n
        /\ op = "list" => reply \in Views \cup {None}
        /\ op = "auction" => reply.id \in 1..n /\ reply.rules \in Rules

(* A request among n sessions, of a product that is not made yet or is.    *)
CallOK(c, n, status) ==
  /\ c.from \in { "form", "page", "left", "other" } /\ c.ok \in BOOLEAN
  /\ c.item \in 0..n /\ (c.op \in { "auction", "rules", "cancel" } => c.item # 0)
  /\ c.op \in { "create", "edit" } => c.arg \in Bodies
  /\ c.op \in { "publish", "rules" } => c.arg \in Rules
  /\ c.at = "idle" => c.from = "left"
  /\ c.from = "form" => c.op \in { "create", "edit", "publish", "rules" }
  /\ status = "none" => c.at \notin { "half", "third" }
  /\ c.at = "third" => c.op = "publish"
  /\ c.at = "done" => Replied(c.op, n, c.ok, c.reply)

CallsOK(calls, n, status) == \A k \in Slots : CallOK(calls[k], n, status)

DataOK ==
  /\ \A i \in DOMAIN sessions : sessions[i].rules \in Rules
  /\ row.body \in Bodies \cup {None} /\ (row.status # "none" => row.body \in Bodies)
  /\ row.status = "none" => DOMAIN sessions = {}
  /\ stale \subseteq Overwriting \cup { "cancel", "settle" }

(* What the page shows, with the rules form on screen or not.              *)
ShownOK(s, n) ==
  /\ s = [ view |-> s.view, session |-> s.session, editing |-> s.editing, rules |-> s.rules,
           busy |-> s.busy, cancelBox |-> s.cancelBox, failed |-> s.failed, loading |-> s.loading ]
  /\ s.view \in Views \cup {None}
  /\ s.session # None => s.session.id \in 1..n /\ s.session.rules \in Rules
  /\ s.editing \in BOOLEAN /\ s.failed \in BOOLEAN /\ s.busy \in BOOLEAN
  /\ s.rules \in Rules \cup {None} /\ (s.busy => s.rules # None)

(* Each form is on its own page.                                           *)
PageOK(p, s, f) ==
  /\ p \in Pages
  /\ f # None => p \in { "new", "edit" }
  /\ s.rules # None => p \in { "detail", "publish" } /\ (p = "detail" => OnScreen(s))

FormOK ==
  /\ FormTypeOK
  /\ upload.gallery # None => upload.gallery.urls # <<>>

(* A form that waits has sent one request; what is asked of a session is   *)
(* asked on the detail page; and an edited product is loaded once.         *)
FromForm(calls) == { k \in Slots : calls[k].from = "form" }
Loading(calls)  == { k \in Slots : calls[k].from = "page" /\ calls[k].op = "get" }

Waits(s, f) == s.busy \/ (f # None /\ f.saving)

CallsFit(calls, p, s, f) ==
  /\ \A j, k \in FromForm(calls) : j = k
  /\ Waits(s, f) <=> FromForm(calls) # {}
  /\ \A k \in Slots : calls[k].from \in { "form", "page" } /\ calls[k].op \in { "auction", "rules", "cancel" }
                        => p = "detail"
  /\ p = "edit" => (Loading(calls) # {} => f = None) /\ \A j, k \in Loading(calls) : j = k

TabOK ==
  /\ ShownOK(shown, Len(sessions)) /\ PageOK(page, shown, form) /\ FormOK
  /\ CallsFit(call, page, shown, form)

TypesInv == ShelfInv /\ DataOK /\ CallsOK(call, Len(sessions), row.status) /\ TabOK

--------------------------------------------------------------------------------
(* The handlers leave what they find of the right kind                     *)

LEMMA LenFacts ==
  ASSUME NEW S, NEW q \in Seq(S)
  PROVE  Len(q) \in Nat /\ DOMAIN q = 1..Len(q)
OBVIOUS

LEMMA Longer ==
  ASSUME ShelfInv, ShelfInv', DOMAIN sessions \subseteq DOMAIN sessions'
  PROVE  Len(sessions) <= Len(sessions')
<1>1. /\ Len(sessions) \in Nat /\ DOMAIN sessions = 1..Len(sessions)
      /\ Len(sessions') \in Nat /\ DOMAIN sessions' = 1..Len(sessions')
  BY LenFacts DEF ShelfInv, CatalogueTypes, IsSessions
<1>2. Len(sessions) = 0 \/ Len(sessions) \in DOMAIN sessions
  BY <1>1
<1> QED BY <1>1, <1>2

LEMMA RepliedGrows ==
  ASSUME NEW op, NEW n \in Nat, NEW m \in Nat, n <= m, NEW ok, NEW reply, Replied(op, n, ok, reply)
  PROVE  Replied(op, m, ok, reply)
<1>1. 0..n \subseteq 0..m /\ 1..n \subseteq 1..m
  OBVIOUS
<1> QED BY <1>1 DEF Replied

LEMMA CallOKGrows ==
  ASSUME NEW c, NEW n \in Nat, NEW m \in Nat, n <= m, NEW status, NEW now,
         now = "none" => status = "none", CallOK(c, n, status)
  PROVE  CallOK(c, m, now)
<1>1. 0..n \subseteq 0..m
  OBVIOUS
<1>2. Replied(c.op, n, c.ok, c.reply) => Replied(c.op, m, c.ok, c.reply)
  BY RepliedGrows
<1> QED BY <1>1, <1>2 DEF CallOK

LEMMA ShownOKGrows ==
  ASSUME NEW s, NEW n \in Nat, NEW m \in Nat, n <= m, ShownOK(s, n)
  PROVE  ShownOK(s, m)
<1>1. 1..n \subseteq 1..m
  OBVIOUS
<1>2. s.session # None => s.session.id \in 1..m /\ s.session.rules \in Rules
  BY <1>1 DEF ShownOK
<1> QED BY <1>2 DEF ShownOK

(* A handler has gone a step that leaves the tab alone.                    *)
LEMMA ServedStep ==
  ASSUME TypesInv, UNCHANGED tab, ShelfInv', DataOK',
         Len(sessions) <= Len(sessions'), row'.status = "none" => row.status = "none",
         \A k \in Slots :
           \/ call'[k] = call[k]
           \/ /\ call'[k].op = call[k].op /\ call'[k].from = call[k].from
              /\ CallOK(call'[k], Len(sessions'), row'.status)
  PROVE  TypesInv'
<1>1. Len(sessions) \in Nat /\ Len(sessions') \in Nat
  BY LenFacts DEF TypesInv, ShelfInv, CatalogueTypes, IsSessions
<1>2. CallsOK(call', Len(sessions'), row'.status)
  <2>1. ASSUME NEW j \in Slots, call'[j] = call[j]
        PROVE  CallOK(call'[j], Len(sessions'), row'.status)
    <3>1. CallOK(call[j], Len(sessions), row.status)
      BY DEF TypesInv, CallsOK
    <3>2. CallOK(call[j], Len(sessions'), row'.status)
      BY <1>1, <3>1, CallOKGrows
    <3> QED BY <2>1, <3>2
  <2> QED BY <2>1 DEF CallsOK
<1>3. UNCHANGED <<page, shown, form, upload>>
  BY DEF tab, formVars
<1>4. ShownOK(shown', Len(sessions'))
  BY <1>1, <1>3, ShownOKGrows DEF TypesInv, TabOK
<1>5. PageOK(page, shown, form)' /\ FormOK'
  BY <1>3 DEF TypesInv, TabOK, PageOK, OnScreen, FormOK, FormTypeOK
<1>6. \A j \in Slots : call'[j].from = call[j].from /\ call'[j].op = call[j].op
  OBVIOUS
<1>7. FromForm(call') = FromForm(call) /\ Loading(call') = Loading(call)
  BY <1>6 DEF FromForm, Loading
<1>8. CallsFit(call', page', shown', form')
  BY <1>3, <1>6, <1>7 DEF TypesInv, TabOK, CallsFit, Waits
<1> QED BY <1>2, <1>4, <1>5, <1>8 DEF TypesInv, TabOK

(* A request goes a step: what it asks for stays.                          *)
LEMMA GoesOn ==
  ASSUME TypesInv, NEW k \in Slots, NEW at \in { "half", "third", "done" }, NEW seen, NEW ok \in BOOLEAN, NEW reply,
         call'[k] = [ at |-> at, op |-> call[k].op, from |-> call[k].from, item |-> call[k].item,
                      arg |-> call[k].arg, seen |-> seen, ok |-> ok, reply |-> reply ],
         \A j \in Slots \ {k} : call'[j] = call[j],
         UNCHANGED tab, ShelfInv', DataOK',
         Len(sessions) <= Len(sessions'), row'.status = "none" => row.status = "none",
         at = "done" => Replied(call[k].op, Len(sessions'), ok, reply),
         at # "done" => row'.status # "none", at = "third" => call[k].op = "publish"
  PROVE  TypesInv'
<1>1. Len(sessions) \in Nat /\ Len(sessions') \in Nat
  BY LenFacts DEF TypesInv, ShelfInv, CatalogueTypes, IsSessions
<1>2. CallOK(call[k], Len(sessions), row.status)
  BY DEF TypesInv, CallsOK
<1>5. /\ call'[k].at = at /\ call'[k].op = call[k].op /\ call'[k].from = call[k].from
      /\ call'[k].item = call[k].item /\ call'[k].arg = call[k].arg /\ call'[k].ok = ok /\ call'[k].reply = reply
  OBVIOUS
<1>6. CallOK(call[k], Len(sessions'), row'.status)
  BY <1>1, <1>2, CallOKGrows
<1>7. CallOK(call'[k], Len(sessions'), row'.status)
  BY <1>5, <1>6 DEF CallOK
<1> QED BY <1>5, <1>7, ServedStep

LEMMA DoneTypes ==
  ASSUME TypesInv, NEW k \in Slots, NEW ok \in BOOLEAN, NEW reply, Done(k, ok, reply),
         UNCHANGED tab, ShelfInv', DataOK',
         Len(sessions) <= Len(sessions'), row'.status = "none" => row.status = "none",
         Replied(call[k].op, Len(sessions'), ok, reply)
  PROVE  TypesInv'
<1>1. IsCalls(call) /\ IsCall(call[k])
  BY DEF TypesInv, ShelfInv, CatalogueTypes, IsCalls
<1>2. /\ call'[k] = [ call[k] EXCEPT !.at = "done", !.ok = ok, !.reply = reply, !.seen = None ]
      /\ \A j \in Slots \ {k} : call'[j] = call[j]
  BY <1>1 DEF Done, IsCalls
<1>3. call'[k] = [ at |-> "done", op |-> call[k].op, from |-> call[k].from, item |-> call[k].item,
                   arg |-> call[k].arg, seen |-> None, ok |-> ok, reply |-> reply ]
  BY <1>1, <1>2 DEF IsCall
<1> QED BY <1>2, <1>3, GoesOn

LEMMA HalfwayTypes ==
  ASSUME TypesInv, NEW k \in Slots, NEW at \in { "half", "third" }, NEW seen, Halfway(k, at, seen),
         UNCHANGED tab, ShelfInv', DataOK',
         Len(sessions) <= Len(sessions'), row.status # "none", row'.status # "none",
         at = "third" => call[k].op = "publish"
  PROVE  TypesInv'
<1>1. IsCalls(call) /\ IsCall(call[k]) /\ CallOK(call[k], Len(sessions), row.status)
  BY DEF TypesInv, ShelfInv, CatalogueTypes, IsCalls, CallsOK
<1>2. /\ call'[k] = [ call[k] EXCEPT !.at = at, !.seen = seen ]
      /\ \A j \in Slots \ {k} : call'[j] = call[j]
  BY <1>1 DEF Halfway, IsCalls
<1>3. /\ call[k].ok \in BOOLEAN
      /\ call'[k] = [ at |-> at, op |-> call[k].op, from |-> call[k].from, item |-> call[k].item,
                      arg |-> call[k].arg, seen |-> seen, ok |-> call[k].ok, reply |-> call[k].reply ]
  BY <1>1, <1>2 DEF IsCall, CallOK
<1> QED BY <1>2, <1>3, GoesOn

LEMMA ViewFacts ==
  ASSUME ShelfInv, DataOK, row.status \notin Absent
  PROVE  View \in Views /\ View.auction \in 0..Len(sessions)
<1>1. row.status \in Statuses \ Absent /\ row.body \in Bodies /\ IsSessions
  BY DEF ShelfInv, CatalogueTypes, DataOK, Absent
<1>2. PickSession \in 0..Len(sessions) /\ (PickSession # 0 => sessions[PickSession].status \in Progress)
  BY <1>1, PickSessionFacts
<1>3. PickSession \in Nat
  BY <1>1, <1>2, SessionFacts
<1>4. (IF PickSession = 0 THEN "none" ELSE sessions[PickSession].status) \in Open \cup { "settled", "cancelled", "none" }
  BY <1>2 DEF Progress
<1> QED BY <1>1, <1>2, <1>3, <1>4 DEF View, Views

(* What only reads, and answers or leaves a handler half-way.              *)
LEMMA ReadingTypes ==
  ASSUME TypesInv, ShelfInv', UNCHANGED tab, NEW k \in Slots, call[k].at = "sent",
         \/ call[k].op = "get" /\ Get(k)
         \/ call[k].op = "auction" /\ GetAuction(k)
         \/ call[k].op = "list" /\ ListProducts(k)
         \/ call[k].op = "edit" /\ CheckEdit(k)
         \/ call[k].op = "delete" /\ CheckDelete(k)
         \/ call[k].op = "publish" /\ CheckPublish(k)
         \/ call[k].op = "rules" /\ CheckRules(k)
  PROVE  TypesInv'
<1>1. UNCHANGED <<row, sessions, stale>>
  BY DEF Get, GetAuction, ListProducts, CheckEdit, CheckDelete, CheckPublish, CheckRules, database
<1>2. /\ ShelfInv /\ DataOK /\ DataOK' /\ CallOK(call[k], Len(sessions), row.status)
  BY <1>1 DEF TypesInv, CallsOK, DataOK
<1>3. /\ Len(sessions) \in Nat /\ DOMAIN sessions = 1..Len(sessions) /\ Len(sessions') = Len(sessions)
  BY <1>1, <1>2, SessionFacts DEF ShelfInv, CatalogueTypes
<1>4. ASSUME NEW ok \in BOOLEAN, NEW reply, Done(k, ok, reply), Replied(call[k].op, Len(sessions), ok, reply)
      PROVE  TypesInv'
  BY <1>1, <1>2, <1>3, <1>4, DoneTypes
<1>5. ASSUME NEW reply, Done(k, FALSE, reply)
      PROVE  TypesInv'
  BY <1>4, <1>5 DEF Replied
<1>6. ASSUME NEW seen, Halfway(k, "half", seen), row.status # "none"
      PROVE  TypesInv'
  BY <1>1, <1>2, <1>3, <1>6, HalfwayTypes
<1>7. CASE call[k].op = "get" /\ Get(k)
  <2>1. CASE row.status \in Absent
    BY <1>5, <1>7, <2>1 DEF Get
  <2>2. CASE row.status \notin Absent
    <3>1. Done(k, TRUE, View)
      BY <1>7, <2>2 DEF Get
    <3>2. Replied("get", Len(sessions), TRUE, View)
      BY <1>2, <2>2, ViewFacts DEF Replied
    <3> QED BY <1>4, <1>7, <3>1, <3>2
  <2> QED BY <2>1, <2>2
<1>8. CASE call[k].op = "auction" /\ GetAuction(k)
  <2> DEFINE i == call[k].item
             reply == [ id |-> i, status |-> sessions[i].status, rules |-> sessions[i].rules ]
  <2>1. i \in 1..Len(sessions) /\ sessions[i].rules \in Rules
    BY <1>2, <1>3, <1>8 DEF CallOK, DataOK
  <2>2. Replied("auction", Len(sessions), TRUE, reply)
    BY <2>1 DEF Replied
  <2>3. Done(k, TRUE, reply)
    BY <1>8 DEF GetAuction
  <2> QED BY <1>4, <1>8, <2>2, <2>3
<1>9. CASE call[k].op = "list" /\ ListProducts(k)
  <2>1. CASE Done(k, TRUE, None)
    <3>1. Replied("list", Len(sessions), TRUE, None)
      BY DEF Replied
    <3> QED BY <1>4, <1>9, <2>1, <3>1
  <2>2. CASE row.status \notin Absent /\ Done(k, TRUE, View)
    <3>1. Replied("list", Len(sessions), TRUE, View)
      BY <1>2, <2>2, ViewFacts DEF Replied
    <3> QED BY <1>4, <1>9, <2>2, <3>1
  <2> QED BY <1>9, <2>1, <2>2 DEF ListProducts
<1>10. CASE call[k].op = "edit" /\ CheckEdit(k)
  BY <1>5, <1>6, <1>10 DEF CheckEdit, Absent
<1>11. CASE call[k].op = "delete" /\ CheckDelete(k)
  <2>1. Done(k, FALSE, None) \/ (Halfway(k, "half", Seen) /\ row.status # "none")
    BY <1>11 DEF CheckDelete, Absent
  <2> QED BY <1>5, <1>6, <2>1, Zenon
<1>12. CASE call[k].op = "publish" /\ CheckPublish(k)
  BY <1>5, <1>6, <1>12 DEF CheckPublish, Publishable
<1>13. CASE call[k].op = "rules" /\ CheckRules(k)
  <2>1. row.status # "none"
    BY <1>2, <1>3, <1>13 DEF CallOK, DataOK
  <2> QED BY <1>5, <1>6, <1>13, <2>1 DEF CheckRules
<1> QED BY <1>7, <1>8, <1>9, <1>10, <1>11, <1>12, <1>13

(* What a handler that writes the product leaves of it.                    *)
LEMMA WritingTypes ==
  ASSUME TypesInv, ShelfInv', UNCHANGED tab, NEW k \in Slots,
         \/ call[k].op = "create" /\ call[k].at = "sent" /\ Create(k)
         \/ call[k].op = "edit" /\ call[k].at = "half" /\ WriteEdit(k)
         \/ call[k].op = "delete" /\ call[k].at = "half" /\ WriteDelete(k)
         \/ call[k].op = "cancel" /\ call[k].at = "half" /\ Relist(k)
         \/ call[k].at = "third" /\ ListDraft(k)
  PROVE  TypesInv'
<1>1. /\ UNCHANGED sessions /\ \E ok \in BOOLEAN : Done(k, ok, None)
      /\ stale' \subseteq stale \cup Overwriting
  BY DEF Create, WriteEdit, WriteDelete, Relist, ListDraft, Overtaken, Overwriting
<1>2. /\ ShelfInv /\ DataOK /\ CallOK(call[k], Len(sessions), row.status) /\ Checked(k)
      /\ row = [ status |-> row.status, body |-> row.body ]
  BY DEF TypesInv, CallsOK, ShelfInv, HandlersChecked, CatalogueTypes
<1>3. Len(sessions') = Len(sessions) /\ Len(sessions) \in Nat
  BY <1>1, <1>2, SessionFacts DEF ShelfInv, CatalogueTypes
<1>4. row'.body \in Bodies /\ row'.status # "none"
  <2>1. CASE call[k].op = "create" /\ Create(k)
    BY <1>2, <2>1 DEF Create, CallOK
  <2>2. CASE call[k].at \in { "half", "third" } /\ ~(call[k].op = "create" /\ Create(k))
    <3>1. row.status # "none" /\ row.body \in Bodies
      BY <1>2, <2>2 DEF CallOK, DataOK
    <3>2. \/ row' = row
          \/ \E s \in Statuses \ {"none"} : row' = [ row EXCEPT !.status = s ]
          \/ /\ call[k].op = "edit" /\ call[k].at = "half"
             /\ row' = [ status |-> call[k].seen, body |-> call[k].arg ]
      BY <2>2 DEF WriteEdit, WriteDelete, Relist, ListDraft, SetStatus, Statuses, Absent
    <3>3. ASSUME NEW s \in Statuses \ {"none"}, row' = [ row EXCEPT !.status = s ]
          PROVE  row'.body \in Bodies /\ row'.status # "none"
      <4>1. row' = [ status |-> s, body |-> row.body ]
        BY <1>2, <3>3
      <4> QED BY <3>1, <4>1
    <3>4. CASE /\ call[k].op = "edit" /\ call[k].at = "half"
               /\ row' = [ status |-> call[k].seen, body |-> call[k].arg ]
      BY <1>2, <3>4 DEF Checked, CallOK
    <3> QED BY <3>1, <3>2, <3>3, <3>4
  <2> QED BY <2>1, <2>2
<1>5. DataOK'
  BY <1>1, <1>2, <1>4 DEF DataOK
<1>6. PICK ok \in BOOLEAN : Done(k, ok, None)
  BY <1>1
<1>7. Replied(call[k].op, Len(sessions'), ok, None)
  BY <1>2 DEF Replied, CallOK
<1> QED BY <1>3, <1>4, <1>5, <1>6, <1>7, DoneTypes

(* What a handler that writes a session leaves of them.                    *)
LEMMA SessionTypes ==
  ASSUME TypesInv, ShelfInv', UNCHANGED tab, NEW k \in Slots,
         \/ call[k].op = "publish" /\ call[k].at = "half" /\ InsertSession(k)
         \/ call[k].op = "rules" /\ call[k].at = "half" /\ WriteRules(k)
         \/ call[k].op = "cancel" /\ call[k].at = "sent" /\ Cancel(k)
  PROVE  TypesInv'
<1>1. /\ UNCHANGED row /\ stale' \subseteq stale \cup Overwriting
  BY DEF InsertSession, WriteRules, Cancel, Overtaken, Overwriting, database
<1>2. /\ ShelfInv /\ DataOK /\ CallOK(call[k], Len(sessions), row.status) /\ IsSessions
  BY DEF TypesInv, CallsOK, ShelfInv, CatalogueTypes
<1>3. /\ Len(sessions) \in Nat /\ DOMAIN sessions = 1..Len(sessions)
      /\ \A i \in DOMAIN sessions : sessions[i].rules \in Rules
  BY <1>2, SessionFacts DEF DataOK
<1>4. row.status # "none"
  BY <1>2, <1>3 DEF CallOK, DataOK
<1>5. DOMAIN sessions \subseteq DOMAIN sessions' /\ \A i \in DOMAIN sessions' : sessions'[i].rules \in Rules
  <2>1. CASE UNCHANGED sessions
    BY <1>3, <2>1
  <2>2. CASE call[k].op = "publish" /\ sessions' = Append(sessions, [ status |-> "pending", rules |-> call[k].arg ])
    <3>1. call[k].arg \in Rules
      BY <1>2, <2>2 DEF CallOK
    <3>2. /\ DOMAIN sessions' = DOMAIN sessions \cup { Len(sessions) + 1 }
          /\ \A j \in DOMAIN sessions : sessions'[j] = sessions[j]
          /\ sessions'[Len(sessions) + 1].rules = call[k].arg
      BY <1>2, <2>2, AppendFacts
    <3> QED BY <1>3, <3>1, <3>2
  <2>3. CASE call[k].op = "rules" /\ sessions' = [ sessions EXCEPT ![call[k].item].rules = call[k].arg ]
    <3>1. call[k].arg \in Rules
      BY <1>2, <2>3 DEF CallOK
    <3> QED BY <1>2, <1>3, <2>3, <3>1, SetRulesFacts
  <2>4. CASE SetSession(call[k].item, "cancelled")
    BY <1>2, <1>3, <2>4, SetSessionFacts DEF Progress
  <2> QED BY <2>1, <2>2, <2>3, <2>4 DEF InsertSession, WriteRules, Cancel, database
<1>6. DataOK' /\ Len(sessions) <= Len(sessions')
  BY <1>1, <1>2, <1>4, <1>5, Longer DEF DataOK
<1>7. \A ok, reply : Replied(call[k].op, Len(sessions'), ok, reply)
  BY DEF Replied
<1>8. \/ \E ok \in BOOLEAN : Done(k, ok, None)
      \/ Halfway(k, "half", None) \/ (Halfway(k, "third", None) /\ call[k].op = "publish")
  <2>1. InsertSession(k) => (\E ok \in BOOLEAN : Done(k, ok, None)) \/ Halfway(k, "third", None)
    BY DEF InsertSession
  <2>2. WriteRules(k) => \E ok \in BOOLEAN : Done(k, ok, None)
    BY DEF WriteRules
  <2>3. Cancel(k) => Done(k, FALSE, None) \/ Halfway(k, "half", None)
    BY DEF Cancel
  <2> QED BY <2>1, <2>2, <2>3, Zenon
<1> QED BY <1>1, <1>4, <1>6, <1>7, <1>8, DoneTypes, HalfwayTypes

LEMMA ServeTypes ==
  ASSUME TypesInv, ShelfInv', NEW k \in Slots, Serve(k)
  PROVE  TypesInv'
<1>1. /\ ShelfInv /\ call[k].op \in Ops /\ Handle(k) /\ UNCHANGED tab
      /\ call[k].at = "half" => call[k].op \in Writers
  BY DEF TypesInv, ShelfInv, CatalogueTypes, IsCalls, IsCall, HandlersChecked, Checked, Serve
<1>2. CASE call[k].at = "sent"
  <2>1. \/ call[k].op = "get" /\ Get(k)
        \/ call[k].op = "auction" /\ GetAuction(k)
        \/ call[k].op = "list" /\ ListProducts(k)
        \/ call[k].op = "edit" /\ CheckEdit(k)
        \/ call[k].op = "delete" /\ CheckDelete(k)
        \/ call[k].op = "publish" /\ CheckPublish(k)
        \/ call[k].op = "rules" /\ CheckRules(k)
        \/ call[k].op = "create" /\ Create(k)
        \/ call[k].op = "cancel" /\ Cancel(k)
    BY <1>1, <1>2 DEF Handle, Ops
  <2> QED BY <1>1, <1>2, <2>1, ReadingTypes, WritingTypes, SessionTypes
<1>3. CASE call[k].at = "half"
  <2>1. \/ call[k].op = "edit" /\ WriteEdit(k)
        \/ call[k].op = "delete" /\ WriteDelete(k)
        \/ call[k].op = "publish" /\ InsertSession(k)
        \/ call[k].op = "rules" /\ WriteRules(k)
        \/ call[k].op = "cancel" /\ Relist(k)
    BY <1>1, <1>3 DEF Handle, Writers
  <2> QED BY <1>1, <1>3, <2>1, WritingTypes, SessionTypes
<1>4. CASE call[k].at = "third" /\ ListDraft(k)
  BY <1>1, <1>4, WritingTypes
<1> QED BY <1>1, <1>2, <1>3, <1>4 DEF Handle

(* A lost request has no answer.                                           *)
LEMMA LoseTypes ==
  ASSUME TypesInv, ShelfInv', NEW k \in Slots, Lose(k)
  PROVE  TypesInv'
<1>1. /\ Done(k, FALSE, None) /\ UNCHANGED <<row, sessions>> /\ UNCHANGED tab
      /\ stale' \subseteq stale \cup {"cancel"} /\ ShelfInv /\ DataOK
  BY DEF Lose, database, TypesInv
<1>2. DataOK' /\ Len(sessions') = Len(sessions) /\ Len(sessions) \in Nat
  BY <1>1, SessionFacts DEF DataOK, ShelfInv, CatalogueTypes
<1>3. Replied(call[k].op, Len(sessions'), FALSE, None)
  BY DEF Replied
<1>4. row'.status = "none" => row.status = "none"
  BY <1>1
<1>5. Len(sessions) <= Len(sessions')
  BY <1>2
<1> QED BY <1>1, <1>2, <1>3, <1>4, <1>5, DoneTypes, Zenon

LEMMA BidTypes ==
  ASSUME TypesInv, ShelfInv', BidOrSettle
  PROVE  TypesInv'
<1>1. PICK i \in DOMAIN sessions : Bid(i) \/ Settle(i)
  BY DEF BidOrSettle
<1>2. /\ ShelfInv /\ DataOK /\ IsSessions /\ row = [ status |-> row.status, body |-> row.body ]
      /\ UNCHANGED <<call, stale>> /\ UNCHANGED tab
  BY DEF TypesInv, ShelfInv, CatalogueTypes, BidOrSettle
<1>3. /\ \E s \in { "running", "settled" } : SetSession(i, s)
      /\ row' = row \/ \E s \in { "auctioning", "sold" } : SetStatus(s)
  BY <1>1 DEF Bid, Settle
<1>4. /\ DOMAIN sessions' = DOMAIN sessions /\ \A j \in DOMAIN sessions : sessions'[j].rules = sessions[j].rules
  BY <1>2, <1>3, SetSessionFacts DEF Progress, Open
<1>5. row'.body = row.body /\ row'.status # "none" /\ row.status # "none"
  <2>1. row' = row \/ \E s \in { "auctioning", "sold" } : row' = [ status |-> s, body |-> row.body ]
    BY <1>2, <1>3 DEF SetStatus
  <2> QED BY <1>1, <1>2, <2>1 DEF DataOK
<1>6. DataOK'
  BY <1>2, <1>4, <1>5 DEF DataOK
<1>7. Len(sessions) <= Len(sessions')
  BY <1>2, <1>4, Longer
<1> QED BY <1>2, <1>5, <1>6, <1>7, ServedStep

(* A product that is sold, or will not be, has had a session.              *)
LEMMA SellTypes ==
  ASSUME TypesInv, ShelfInv', Sell
  PROVE  TypesInv'
<1>1. /\ ShelfInv /\ DataOK /\ row = [ status |-> row.status, body |-> row.body ]
      /\ settling \subseteq DOMAIN sessions /\ settling # {}
      /\ UNCHANGED <<sessions, call>> /\ UNCHANGED tab
  BY DEF TypesInv, ShelfInv, CatalogueTypes, Sell
<1>2. (SetStatus("sold") /\ stale' = stale) \/ (row' = row /\ stale' = stale \cup {"settle"})
  BY DEF Sell
<1>3. row'.body = row.body /\ row'.status # "none" /\ row.status # "none"
  <2>1. row' = row \/ row' = [ status |-> "sold", body |-> row.body ]
    BY <1>1, <1>2 DEF SetStatus
  <2> QED BY <1>1, <2>1 DEF DataOK
<1>4. DataOK'
  BY <1>1, <1>2, <1>3 DEF DataOK
<1>5. Len(sessions) <= Len(sessions')
  BY <1>1, SessionFacts DEF ShelfInv, CatalogueTypes
<1> QED BY <1>1, <1>3, <1>4, <1>5, ServedStep

--------------------------------------------------------------------------------
(* The tab                                                                 *)

(* What happens in the tab leaves the product and its sessions alone.      *)
LEMMA TabStep ==
  ASSUME TypesInv, ShelfInv', UNCHANGED <<row, sessions, stale>>,
         CallsOK(call', Len(sessions), row.status),
         ShownOK(shown', Len(sessions)), PageOK(page', shown', form'), FormOK',
         CallsFit(call', page', shown', form')
  PROVE  TypesInv'
<1>1. DataOK'
  BY DEF TypesInv, DataOK
<1>2. TabOK'
  BY DEF TabOK, PageOK, OnScreen, CallsFit, Waits, FromForm, Loading
<1> QED BY <1>1, <1>2 DEF TypesInv

LEMMA AskedIs ==
  ASSUME NEW op \in Ops, NEW from, NEW item, NEW arg
  PROVE  /\ IsCall(Asked(op, from, item, arg))
         /\ Asked(op, from, item, arg) = [ at |-> "sent", op |-> op, from |-> from, item |-> item, arg |-> arg,
                                           seen |-> None, ok |-> TRUE, reply |-> None ]
<1> DEFINE fields == { "at", "op", "from", "item", "arg", "seen", "ok", "reply" }
           c == Asked(op, from, item, arg)
<1>1. NoCall = [ f \in fields |-> NoCall[f] ]
  BY DEF NoCall
<1>2. /\ c = [ f \in fields |-> c[f] ]
      /\ c.at = "sent" /\ c.op = op /\ c.from = from /\ c.item = item /\ c.arg = arg
      /\ c.seen = None /\ c.ok = TRUE /\ c.reply = None
  BY <1>1 DEF Asked, NoCall
<1> QED BY <1>2, AskedFacts

LEMMA AskedOK ==
  ASSUME NEW op \in Ops, NEW from \in { "form", "page", "other" }, NEW n \in Nat, NEW item \in 0..n, NEW arg,
         NEW status,
         op \in { "auction", "rules", "cancel" } => item # 0,
         op \in { "create", "edit" } => arg \in Bodies, op \in { "publish", "rules" } => arg \in Rules,
         from = "form" => op \in { "create", "edit", "publish", "rules" }
  PROVE  /\ CallOK(Asked(op, from, item, arg), n, status)
         /\ IsCall(Asked(op, from, item, arg))
         /\ Asked(op, from, item, arg).op = op /\ Asked(op, from, item, arg).from = from
<1> DEFINE c == Asked(op, from, item, arg)
<1>1. c = [ at |-> "sent", op |-> op, from |-> from, item |-> item, arg |-> arg,
            seen |-> None, ok |-> TRUE, reply |-> None ] /\ IsCall(c)
  BY AskedIs
<1>2. /\ c.at = "sent" /\ c.op = op /\ c.from = from /\ c.item = item /\ c.arg = arg /\ c.ok \in BOOLEAN
  BY <1>1
<1> HIDE DEF c
<1>3. CallOK(c, n, status)
  BY <1>2 DEF CallOK
<1> QED BY <1>1, <1>2, <1>3 DEF c

LEMMA OpeningOK ==
  ASSUME NEW p, NEW n \in Nat, NEW status
  PROVE  /\ CallOK(Opening(p), n, status) /\ IsCall(Opening(p))
         /\ Opening(p).from = "page" /\ Opening(p).op \in { "list", "get" }
<1>1. "list" \in Ops /\ "get" \in Ops /\ 0 \in 0..n
  BY DEF Ops
<1>2. ASSUME NEW op \in { "list", "get" }, NEW item \in 0..n, NEW arg
      PROVE  /\ CallOK(Asked(op, "page", item, arg), n, status) /\ IsCall(Asked(op, "page", item, arg))
             /\ Asked(op, "page", item, arg).from = "page" /\ Asked(op, "page", item, arg).op = op
  <2>1. op \in Ops /\ op \notin { "auction", "rules", "cancel", "create", "edit", "publish" }
    BY <1>1
  <2> QED BY <2>1, AskedOK
<1>3. ASSUME NEW op \in { "list", "get" }, NEW arg
      PROVE  /\ CallOK(Asked(op, "page", 0, arg), n, status) /\ IsCall(Asked(op, "page", 0, arg))
             /\ Asked(op, "page", 0, arg).from = "page" /\ Asked(op, "page", 0, arg).op = op
  BY <1>1, <1>2
<1> QED BY <1>3 DEF Opening

LEMMA NoCallOK ==
  ASSUME NEW n \in Nat, NEW status
  PROVE  CallOK(NoCall, n, status) /\ IsCall(NoCall) /\ NoCall.from = "left" /\ NoCall.op = "get"
BY DEF NoCall, CallOK, IsCall, Ats, Ops

(* One request is replaced by another.                                     *)
LEMMA Replaced ==
  ASSUME NEW calls, IsCalls(calls), NEW k \in Slots, NEW n, NEW status, CallsOK(calls, n, status),
         NEW c, IsCall(c), CallOK(c, n, status), NEW new, new = [ calls EXCEPT ![k] = c ]
  PROVE  /\ IsCalls(new) /\ CallsOK(new, n, status) /\ new[k] = c /\ \A j \in Slots \ {k} : new[j] = calls[j]
<1>1. new[k] = c /\ (\A j \in Slots \ {k} : new[j] = calls[j]) /\ new = [ j \in Slots |-> new[j] ]
  BY DEF IsCalls
<1>2. \A j \in Slots : IsCall(new[j])
  BY <1>1 DEF IsCalls
<1>3. IsCalls(new) /\ CallsOK(new, n, status)
  BY <1>1, <1>2 DEF IsCalls, CallsOK
<1> QED BY <1>1, <1>3

(* Requests are sent on from elsewhere, as far as the tab knows.           *)
LEMMA SentFrom ==
  ASSUME NEW calls, IsCalls(calls), NEW n, NEW status, CallsOK(calls, n, status),
         NEW new, new = [ k \in Slots |-> new[k] ],
         \A k \in Slots : \/ new[k] = calls[k]
                          \/ new[k] = [ calls[k] EXCEPT !.from = "left" ]
                          \/ calls[k].from = "form" /\ new[k] = [ calls[k] EXCEPT !.from = "page" ]
  PROVE  IsCalls(new) /\ CallsOK(new, n, status) /\ \A k \in Slots : new[k].op = calls[k].op
<1>1. ASSUME NEW k \in Slots
      PROVE  IsCall(new[k]) /\ CallOK(new[k], n, status) /\ new[k].op = calls[k].op
  <2>1. IsCall(calls[k]) /\ CallOK(calls[k], n, status)
    BY DEF IsCalls, CallsOK
  <2>2. CASE new[k] = calls[k]
    BY <2>1, <2>2
  <2>3. ASSUME NEW from \in { "page", "left" }, new[k] = [ calls[k] EXCEPT !.from = from ],
               from = "page" => calls[k].from = "form"
        PROVE  IsCall(new[k]) /\ CallOK(new[k], n, status) /\ new[k].op = calls[k].op
    <3>1. new[k] = [ at |-> calls[k].at, op |-> calls[k].op, from |-> from, item |-> calls[k].item,
                     arg |-> calls[k].arg, seen |-> calls[k].seen, ok |-> calls[k].ok,
                     reply |-> calls[k].reply ]
      BY <2>1, <2>3 DEF IsCall
    <3>2. /\ new[k].at = calls[k].at /\ new[k].op = calls[k].op /\ new[k].from = from
          /\ new[k].item = calls[k].item /\ new[k].arg = calls[k].arg /\ new[k].ok = calls[k].ok
          /\ new[k].reply = calls[k].reply
      BY <3>1
    <3>3. IsCall(new[k])
      BY <2>1, <3>1, <3>2 DEF IsCall
    <3>4. CallOK(new[k], n, status)
      BY <2>1, <2>3, <3>2 DEF CallOK
    <3> QED BY <3>2, <3>3, <3>4
  <2> QED BY <2>2, <2>3
<1> QED BY <1>1 DEF IsCalls, CallsOK

LEMMA BlankFacts ==
  ASSUME NEW n \in Nat
  PROVE  ShownOK(Blank, n) /\ Blank.rules = None /\ Blank.busy = FALSE
BY DEF ShownOK, Blank

LEMMA EmptyFormFacts ==
  /\ EmptyForm \in Fields /\ EmptyForm.saving = FALSE /\ EmptyForm # None
  /\ NoUpload \in Uploads /\ NoUpload.gallery = None
<1>1. EmptyForm \in Fields /\ EmptyForm.saving = FALSE
  BY DEF EmptyForm, Fields
<1>2. NoUpload \in Uploads /\ NoUpload.gallery = None
  BY DEF NoUpload, Uploads
<1> QED BY <1>1, <1>2, NoneIsNoForm

(* A page that is opened has no requests but the one that loads it.        *)
LEMMA EnterTypes ==
  ASSUME NEW p \in Pages, NEW calls, IsCalls(calls), NEW n \in Nat, NEW status,
         CallsOK(calls, n, status), Enter(p, calls)
  PROVE  /\ CallsOK(call', n, status) /\ ShownOK(shown', n) /\ PageOK(page', shown', form') /\ FormOK'
         /\ CallsFit(call', page', shown', form')
<1>1. /\ page' = p /\ shown' = Blank /\ upload' = NoUpload
      /\ form' = IF p = "new" THEN EmptyForm ELSE None
  BY DEF Enter
<1>2. /\ ShownOK(shown', n) /\ PageOK(page', shown', form') /\ FormOK' /\ ~Waits(shown', form')
  BY <1>1, BlankFacts, EmptyFormFacts DEF PageOK, FormOK, FormTypeOK, Waits
<1> DEFINE left == Left(calls)
<1>3. /\ left = [ k \in Slots |-> left[k] ]
      /\ \A k \in Slots : \/ left[k] = calls[k]
                          \/ left[k] = [ calls[k] EXCEPT !.from = "left" ]
                          \/ calls[k].from = "form" /\ left[k] = [ calls[k] EXCEPT !.from = "page" ]
  BY DEF Left
<1>4. \A k \in Slots : left[k].from \in { "left", "other" }
  <2>1. ASSUME NEW k \in Slots
        PROVE  left[k].from \in { "left", "other" }
    <3>1. IsCall(calls[k])
      BY DEF IsCalls
    <3>2. [ calls[k] EXCEPT !.from = "left" ].from = "left"
      BY <3>1 DEF IsCall
    <3>3. CASE calls[k].from = "other"
      BY <3>3 DEF Left
    <3>4. CASE calls[k].from # "other"
      BY <3>2, <3>4 DEF Left
    <3> QED BY <3>3, <3>4
  <2> QED BY <2>1
<1> HIDE DEF left
<1>5. IsCalls(left) /\ CallsOK(left, n, status)
  BY <1>3, SentFrom
<1>6. FromForm(left) = {} /\ Loading(left) = {}
  BY <1>4 DEF FromForm, Loading
<1>7. CASE p = "new"
  <2>1. call' = left
    BY <1>7 DEF Enter, left
  <2>2. CallsFit(call', page', shown', form')
    BY <1>2, <1>4, <1>6, <2>1 DEF CallsFit
  <2> QED BY <1>2, <1>5, <2>1, <2>2
<1>8. CASE p # "new"
  <2>1. \E k \in Slots : call' = [ left EXCEPT ![k] = Opening(p) ]
    BY <1>8 DEF Enter, left
  <2>2. PICK k \in Slots : \E c : /\ call' = [ left EXCEPT ![k] = c ]
                                  /\ CallOK(c, n, status) /\ IsCall(c)
                                  /\ c.from = "page" /\ c.op \in { "list", "get" }
    BY <2>1, OpeningOK
  <2>3. PICK c : /\ call' = [ left EXCEPT ![k] = c ]
                 /\ CallOK(c, n, status) /\ IsCall(c)
                 /\ c.from = "page" /\ c.op \in { "list", "get" }
    BY <2>2
  <2>4. /\ CallsOK(call', n, status) /\ call'[k] = c /\ (\A j \in Slots \ {k} : call'[j] = left[j])
    <3>1. CallsOK(call', n, status)
      BY <1>5, <2>2, <2>3, Replaced
    <3>2. call'[k] = c /\ (\A j \in Slots \ {k} : call'[j] = left[j])
      BY <1>5, <2>2, <2>3 DEF IsCalls
    <3> QED BY <3>1, <3>2
  <2>5. FromForm(call') = {} /\ Loading(call') \subseteq {k}
    BY <1>4, <2>3, <2>4 DEF FromForm, Loading
  <2>6. CallsFit(call', page', shown', form')
    BY <1>1, <1>2, <1>4, <1>8, <2>3, <2>4, <2>5 DEF CallsFit
  <2> QED BY <1>2, <2>4, <2>6
<1> QED BY <1>7, <1>8

LEMMA TabFacts ==
  ASSUME TypesInv
  PROVE  /\ ShelfInv /\ DataOK /\ IsCalls(call) /\ CallsOK(call, Len(sessions), row.status)
         /\ Len(sessions) \in Nat /\ DOMAIN sessions = 1..Len(sessions) /\ 0 \in 0..Len(sessions)
         /\ ShownOK(shown, Len(sessions)) /\ PageOK(page, shown, form) /\ FormOK
         /\ CallsFit(call, page, shown, form)
<1>1. Len(sessions) \in Nat /\ DOMAIN sessions = 1..Len(sessions)
  BY SessionFacts DEF TypesInv, ShelfInv, CatalogueTypes
<1> QED BY <1>1 DEF TypesInv, TabOK, ShelfInv, CatalogueTypes

(* A button asks for something, with no form that waits for it.            *)
LEMMA AskTypes ==
  ASSUME TypesInv, NEW op \in Ops \ { "get" }, NEW from \in { "page", "other" }, NEW item \in 0..Len(sessions), NEW arg,
         op \in { "auction", "rules", "cancel" } => item # 0 /\ page = "detail",
         op \in { "create", "edit" } => arg \in Bodies, op \in { "publish", "rules" } => arg \in Rules,
         Ask(op, from, item, arg), page' = page, form' = form, shown'.busy = shown.busy
  PROVE  CallsOK(call', Len(sessions), row.status) /\ CallsFit(call', page', shown', form')
<1>1. /\ IsCalls(call) /\ CallsOK(call, Len(sessions), row.status) /\ Len(sessions) \in Nat
      /\ CallsFit(call, page, shown, form)
  BY TabFacts
<1>2. PICK k \in Slots : call[k].at = "idle" /\ \E c : /\ c = Asked(op, from, item, arg)
                                                       /\ call' = [ call EXCEPT ![k] = c ]
  BY DEF Ask, Idle
<1>3. PICK c : c = Asked(op, from, item, arg) /\ call' = [ call EXCEPT ![k] = c ]
  BY <1>2
<1>4. CallOK(c, Len(sessions), row.status) /\ IsCall(c) /\ c.op = op /\ c.from = from
  BY <1>1, <1>3, AskedOK
<1>5. call'[k] = c /\ \A j \in Slots \ {k} : call'[j] = call[j]
  BY <1>1, <1>2, <1>3 DEF IsCalls
<1>6. CallsOK(call', Len(sessions), row.status)
  BY <1>1, <1>4, <1>5 DEF CallsOK
<1>7. call[k].from = "left"
  BY <1>1, <1>2 DEF CallsOK, CallOK
<1>8. FromForm(call') = FromForm(call) /\ Loading(call') = Loading(call)
  BY <1>4, <1>5, <1>7 DEF FromForm, Loading
<1>9. CallsFit(call', page', shown', form')
  BY <1>1, <1>4, <1>5, <1>8 DEF CallsFit, Waits
<1> QED BY <1>6, <1>9

(* A form is sent, and waits.                                              *)
LEMMA SubmitTypes ==
  ASSUME TypesInv, NEW op \in { "create", "edit", "publish", "rules" }, NEW item \in 0..Len(sessions), NEW arg,
         op = "rules" => item # 0 /\ page = "detail",
         op \in { "create", "edit" } => arg \in Bodies, op \in { "publish", "rules" } => arg \in Rules,
         Ask(op, "form", item, arg), page' = page, form' = None <=> form = None,
         ~Waits(shown, form), Waits(shown', form')
  PROVE  CallsOK(call', Len(sessions), row.status) /\ CallsFit(call', page', shown', form')
<1>1. /\ IsCalls(call) /\ CallsOK(call, Len(sessions), row.status) /\ Len(sessions) \in Nat
      /\ CallsFit(call, page, shown, form)
  BY TabFacts
<1>2. PICK k \in Slots : call[k].at = "idle" /\ \E c : /\ c = Asked(op, "form", item, arg)
                                                       /\ call' = [ call EXCEPT ![k] = c ]
  BY DEF Ask, Idle
<1>3. PICK c : c = Asked(op, "form", item, arg) /\ call' = [ call EXCEPT ![k] = c ]
  BY <1>2
<1>4. CallOK(c, Len(sessions), row.status) /\ IsCall(c) /\ c.op = op /\ c.from = "form"
  <2>1. op \in Ops
    BY DEF Ops
  <2> QED BY <1>1, <1>3, <2>1, AskedOK
<1>5. call'[k] = c /\ \A j \in Slots \ {k} : call'[j] = call[j]
  BY <1>1, <1>2, <1>3 DEF IsCalls
<1>6. CallsOK(call', Len(sessions), row.status)
  BY <1>1, <1>4, <1>5 DEF CallsOK
<1>7. FromForm(call) = {}
  BY <1>1 DEF CallsFit
<1>8. FromForm(call') = {k} /\ Loading(call') \subseteq Loading(call)
  BY <1>4, <1>5, <1>7 DEF FromForm, Loading
<1>9. CallsFit(call', page', shown', form')
  BY <1>1, <1>4, <1>5, <1>8 DEF CallsFit
<1> QED BY <1>6, <1>9

(* The detail page shows something else; its rules form may leave it.      *)
LEMMA ShowDetailTypes ==
  ASSUME TypesInv, page = "detail", NEW new, NEW calls, ShowDetail(new, calls),
         IsCalls(calls), CallsOK(calls, Len(sessions), row.status), ShownOK(new, Len(sessions)),
         \A j, k \in FromForm(calls) : j = k,
         OnScreen(new) => (new.busy <=> FromForm(calls) # {})
  PROVE  /\ CallsOK(call', Len(sessions), row.status)
         /\ ShownOK(shown', Len(sessions)) /\ PageOK(page', shown', form') /\ FormOK'
         /\ CallsFit(call', page', shown', form')
<1>1. /\ FormOK /\ form = None
  BY TabFacts DEF PageOK
<1>2. page' = "detail" /\ form' = None /\ upload' = upload
  BY <1>1 DEF ShowDetail, formVars
<1>3. FormOK'
  BY <1>1, <1>2 DEF FormOK, FormTypeOK
<1> DEFINE rules == IF ~OnScreen(new) THEN None ELSE IF new.rules = None THEN new.session.rules ELSE new.rules
           busy == new.busy /\ OnScreen(new)
<1>4. /\ shown' = [ view |-> new.view, session |-> new.session, editing |-> new.editing, rules |-> rules,
                    busy |-> busy, cancelBox |-> new.cancelBox, failed |-> new.failed, loading |-> new.loading ]
  <2>1. shown' = [ new EXCEPT !.rules = rules, !.busy = busy ]
    BY DEF ShowDetail
  <2>2. new = [ view |-> new.view, session |-> new.session, editing |-> new.editing, rules |-> new.rules,
                busy |-> new.busy, cancelBox |-> new.cancelBox, failed |-> new.failed, loading |-> new.loading ]
    BY DEF ShownOK
  <2> HIDE DEF rules, busy
  <2> QED BY <2>1, <2>2
<1>5. /\ OnScreen(new) => rules \in Rules /\ busy = new.busy
      /\ ~OnScreen(new) => rules = None /\ busy = FALSE
      /\ busy \in BOOLEAN
  BY DEF ShownOK, OnScreen
<1> HIDE DEF rules, busy
<1>6. /\ shown'.view = new.view /\ shown'.session = new.session /\ shown'.editing = new.editing
      /\ shown'.rules = rules /\ shown'.busy = busy /\ shown'.cancelBox = new.cancelBox
      /\ shown'.failed = new.failed /\ shown'.loading = new.loading
  BY <1>4
<1>7. ShownOK(shown', Len(sessions))
  BY <1>4, <1>5, <1>6, CatalogueAssumption DEF ShownOK
<1>8. PageOK(page', shown', form')
  BY <1>2, <1>5, <1>6 DEF PageOK, OnScreen, Pages
<1>9. CASE OnScreen(new)
  <2>1. call' = calls
    BY <1>9 DEF ShowDetail
  <2>2. CallsFit(call', page', shown', form')
    BY <1>2, <1>5, <1>6, <1>9, <2>1 DEF CallsFit, Waits
  <2> QED BY <1>3, <1>7, <1>8, <2>1, <2>2
<1>10. CASE ~OnScreen(new)
  <2>1. call' = [ k \in Slots |-> IF calls[k].from = "form" THEN [ calls[k] EXCEPT !.from = "page" ] ELSE calls[k] ]
    BY <1>10 DEF ShowDetail
  <2>2. /\ call' = [ k \in Slots |-> call'[k] ]
        /\ \A k \in Slots : \/ call'[k] = calls[k]
                            \/ call'[k] = [ calls[k] EXCEPT !.from = "left" ]
                            \/ calls[k].from = "form" /\ call'[k] = [ calls[k] EXCEPT !.from = "page" ]
    BY <2>1
  <2>3. CallsOK(call', Len(sessions), row.status)
    BY <2>2, SentFrom
  <2>4. \A k \in Slots : call'[k].from # "form"
    <3>1. ASSUME NEW k \in Slots
          PROVE  call'[k].from # "form"
      <4>1. IsCall(calls[k])
        BY DEF IsCalls
      <4>2. [ calls[k] EXCEPT !.from = "page" ].from = "page"
        BY <4>1 DEF IsCall
      <4> QED BY <2>1, <4>2
    <3> QED BY <3>1
  <2>5. CallsFit(call', page', shown', form')
    BY <1>2, <1>5, <1>6, <1>10, <2>4 DEF CallsFit, Waits, FromForm
  <2> QED BY <1>3, <1>7, <1>8, <2>3, <2>5
<1> QED BY <1>9, <1>10

--------------------------------------------------------------------------------
(* The product form                                                        *)

LEMMA FormShape ==
  ASSUME FormOK, form # None
  PROVE  /\ form = [ cover |-> form.cover, images |-> form.images, saving |-> form.saving ]
         /\ form.cover \in Pictures \cup {None} /\ form.images \in Seq(Pictures) /\ form.saving \in BOOLEAN
         /\ form \in Fields
BY DEF FormOK, FormTypeOK, Fields

LEMMA UploadShape ==
  ASSUME FormOK
  PROVE  /\ upload = [ cover |-> upload.cover, gallery |-> upload.gallery ]
         /\ upload.cover \in Pictures \cup {None}
         /\ upload.gallery # None => /\ upload.gallery.urls \in Seq(Pictures) /\ upload.gallery.urls # <<>>
                                     /\ upload.gallery.saw \in Fields
         /\ upload.gallery \in [ urls : Seq(Pictures), saw : Fields ] \cup {None}
         /\ upload.cover # None \/ upload.gallery # None => upload # NoUpload
<1>1. upload \in Uploads
  BY DEF FormOK, FormTypeOK
<1>2. upload.cover # None \/ upload.gallery # None => upload # NoUpload
  BY DEF NoUpload
<1> QED BY <1>1, <1>2 DEF FormOK, Uploads

LEMMA MakesFields ==
  ASSUME NEW cover \in Pictures \cup {None}, NEW images \in Seq(Pictures), NEW saving \in BOOLEAN
  PROVE  /\ [ cover |-> cover, images |-> images, saving |-> saving ] \in Fields
         /\ [ cover |-> cover, images |-> images, saving |-> saving ] # None
BY NoneIsNoForm DEF Fields

LEMMA OnePicture ==
  ASSUME NEW p \in Pictures
  PROVE  <<p>> \in Seq(Pictures) /\ <<p>> # <<>>
<1>1. <<p>> \in Seq(Pictures) /\ Len(<<p>>) = 1
  OBVIOUS
<1>2. <<p>> # <<>>
  BY <1>1
<1> QED BY <1>1, <1>2

LEMMA FirstPicture ==
  ASSUME NEW images \in Seq(Pictures), images # <<>>
  PROVE  Head(images) \in Pictures
OBVIOUS

(* The seller changes the form, or starts an upload.                       *)
LEMMA ChangeTypes ==
  ASSUME FormOK, form # None, TypeCover \/ TypeImages \/ UploadCover \/ UploadGallery
  PROVE  FormOK' /\ form' # None /\ form'.saving = form.saving /\ (upload' = upload \/ form' = form)
<1>1. /\ form = [ cover |-> form.cover, images |-> form.images, saving |-> form.saving ]
      /\ form.cover \in Pictures \cup {None} /\ form.images \in Seq(Pictures) /\ form.saving \in BOOLEAN
      /\ form \in Fields
  BY FormShape
<1>2. /\ upload = [ cover |-> upload.cover, gallery |-> upload.gallery ]
      /\ upload.cover \in Pictures \cup {None}
      /\ upload.gallery \in [ urls : Seq(Pictures), saw : Fields ] \cup {None}
      /\ upload.gallery # None => upload.gallery.urls # <<>>
      /\ upload # NoUpload => ~form.saving /\ upload \in Uploads
  BY UploadShape DEF FormOK, FormTypeOK
<1>3. CASE TypeCover \/ TypeImages
  <2>1. \E cover \in Pictures \cup {None}, images \in Seq(Pictures) :
          form' = [ cover |-> cover, images |-> images, saving |-> form.saving ]
    <3>1. CASE TypeCover
      <4>1. PICK p \in Pictures \cup {None} : form' = [ form EXCEPT !.cover = p ]
        BY <3>1 DEF TypeCover
      <4>2. form' = [ cover |-> p, images |-> form.images, saving |-> form.saving ]
        BY <1>1, <4>1
      <4> QED BY <1>1, <4>2
    <3>2. CASE TypeImages
      <4>1. form' = [ cover |-> form.cover, images |-> <<>>, saving |-> form.saving ]
        BY <1>1, <3>2 DEF TypeImages
      <4>2. <<>> \in Seq(Pictures)
        OBVIOUS
      <4> QED BY <1>1, <4>1, <4>2
    <3> QED BY <1>3, <3>1, <3>2
  <2>2. form' \in Fields /\ form' # None /\ form'.saving = form.saving
    BY <1>1, <2>1, MakesFields
  <2>3. upload' = upload
    BY <1>3 DEF TypeCover, TypeImages
  <2> QED BY <2>2, <2>3 DEF FormOK, FormTypeOK
<1>4. CASE UploadCover
  <2>1. PICK p \in Pictures : upload' = [ upload EXCEPT !.cover = p ]
    BY <1>4 DEF UploadCover
  <2>2. upload' = [ cover |-> p, gallery |-> upload.gallery ]
    BY <1>2, <2>1
  <2>3. upload' \in Uploads /\ upload'.gallery = upload.gallery
    BY <1>2, <2>2 DEF Uploads
  <2>4. form' = form /\ ~form.saving
    BY <1>4 DEF UploadCover
  <2> QED BY <1>1, <1>2, <2>3, <2>4 DEF FormOK, FormTypeOK
<1>5. CASE UploadGallery
  <2>1. PICK p \in Pictures, q \in Pictures : \E urls \in { <<p>>, <<p, q>> } :
          upload' = [ upload EXCEPT !.gallery = [ urls |-> urls, saw |-> form ] ]
    BY <1>5 DEF UploadGallery
  <2>2. /\ <<p>> \in Seq(Pictures) /\ <<p>> # <<>>
        /\ <<p, q>> \in Seq(Pictures) /\ <<p, q>> # <<>>
    <3>1. <<p, q>> \in Seq(Pictures) /\ Len(<<p, q>>) = 2
      OBVIOUS
    <3>2. <<p, q>> # <<>>
      BY <3>1
    <3> QED BY <3>1, <3>2, OnePicture
  <2>3. PICK urls : /\ urls \in Seq(Pictures) /\ urls # <<>>
                    /\ upload' = [ upload EXCEPT !.gallery = [ urls |-> urls, saw |-> form ] ]
    BY <2>1, <2>2
  <2> DEFINE g == [ urls |-> urls, saw |-> form ]
  <2>4. g \in [ urls : Seq(Pictures), saw : Fields ] /\ g.urls # <<>>
    BY <1>1, <2>3
  <2> HIDE DEF g
  <2>5. upload' = [ cover |-> upload.cover, gallery |-> g ]
    BY <1>2, <2>3 DEF g
  <2>6. upload' \in Uploads /\ upload'.gallery.urls # <<>>
    BY <1>2, <2>4, <2>5 DEF Uploads
  <2>7. form' = form /\ ~form.saving
    BY <1>5 DEF UploadGallery
  <2> QED BY <1>1, <2>6, <2>7 DEF FormOK, FormTypeOK
<1> QED BY <1>3, <1>4, <1>5

(* Uploads return to the form they were started from, as it is by then;    *)
(* the pictures it has stay.                                               *)
UploadAnswers ==
  /\ Range(form.images) \subseteq Range(form'.images)
  /\ form'.cover \in { form.cover, upload.cover } \/ SawNoCover
  /\ CoverReturns \/ GalleryReturns =>
       /\ upload'.cover # upload.cover => upload.cover = form'.cover
       /\ upload'.gallery # upload.gallery => Range(upload.gallery.urls) \subseteq Range(form'.images)

LEMMA ReturnTypes ==
  ASSUME FormOK, form # None, CoverReturns \/ GalleryReturns \/ UploadFails
  PROVE  /\ FormOK' /\ form' # None /\ form'.saving = form.saving
         /\ UploadAnswers
<1>1. /\ form = [ cover |-> form.cover, images |-> form.images, saving |-> form.saving ]
      /\ form.cover \in Pictures \cup {None} /\ form.images \in Seq(Pictures) /\ form.saving \in BOOLEAN
      /\ form \in Fields
  BY FormShape
<1>2. /\ upload = [ cover |-> upload.cover, gallery |-> upload.gallery ]
      /\ upload.cover \in Pictures \cup {None}
      /\ upload.gallery \in [ urls : Seq(Pictures), saw : Fields ] \cup {None}
      /\ upload.gallery # None => /\ upload.gallery.urls \in Seq(Pictures) /\ upload.gallery.urls # <<>>
                                  /\ upload.gallery.saw \in Fields
      /\ upload.cover # None \/ upload.gallery # None => ~form.saving
  BY UploadShape DEF FormOK, FormTypeOK
<1>3. ASSUME NEW cover \in Pictures \cup {None}, NEW gallery, gallery \in { upload.gallery, None },
             upload' = [ cover |-> cover, gallery |-> gallery ], ~form'.saving,
             form' \in Fields, form' # None
      PROVE  FormOK'
  <2>1. upload' \in Uploads /\ upload'.gallery = gallery
    BY <1>2, <1>3 DEF Uploads
  <2>2. upload'.gallery # None => upload'.gallery.urls # <<>>
    BY <1>2, <1>3, <2>1
  <2> QED BY <1>3, <2>1, <2>2 DEF FormOK, FormTypeOK
<1>4. CASE CoverReturns
  <2> DEFINE p == upload.cover
             images == IF form.images = <<>> THEN <<p>> ELSE form.images
  <2>1. p \in Pictures /\ ~form.saving
    BY <1>2, <1>4 DEF CoverReturns
  <2>2. images \in Seq(Pictures) /\ Range(form.images) \subseteq Range(images)
    <3>1. form.images = <<>> => Range(form.images) = {}
      BY DEF Range
    <3> QED BY <1>1, <2>1, <3>1, OnePicture
  <2>3. upload' = [ upload EXCEPT !.cover = None ] /\ form' = [ form EXCEPT !.cover = p, !.images = images ]
    BY <1>4 DEF CoverReturns
  <2> HIDE DEF p, images
  <2>4. /\ form' = [ cover |-> p, images |-> images, saving |-> form.saving ]
        /\ upload' = [ cover |-> None, gallery |-> upload.gallery ]
    BY <1>1, <1>2, <2>3
  <2>5. form' \in Fields /\ form' # None /\ form'.saving = form.saving /\ form'.images = images /\ form'.cover = p
    BY <1>1, <2>1, <2>2, <2>4, MakesFields
  <2>6. upload'.gallery = upload.gallery /\ p = upload.cover
    BY <2>4 DEF p
  <2>7. UploadAnswers
    BY <2>2, <2>5, <2>6 DEF UploadAnswers
  <2> QED BY <1>3, <2>1, <2>2, <2>4, <2>5, <2>7
<1>5. CASE GalleryReturns
  <2> DEFINE g == upload.gallery
             images == AppendImages(form.images, g.urls, g.saw)
             cover == IF g.saw.cover = None THEN Head(g.urls) ELSE form.cover
  <2>1. g # None
    BY <1>5 DEF GalleryReturns
  <2>2. /\ images \in Seq(Pictures) /\ Range(form.images) \subseteq Range(images)
        /\ Range(upload.gallery.urls) \subseteq Range(images)
    BY <1>1, <1>2, <2>1, AppendImagesFacts
  <2>3. /\ cover \in Pictures \cup {None} /\ ~form.saving
        /\ cover = form.cover \/ SawNoCover
    BY <1>1, <1>2, <2>1, FirstPicture DEF SawNoCover
  <2>4. upload' = [ upload EXCEPT !.gallery = None ] /\ form' = [ form EXCEPT !.images = images, !.cover = cover ]
    BY <1>5 DEF GalleryReturns
  <2> HIDE DEF g, images, cover
  <2>5. /\ form' = [ cover |-> cover, images |-> images, saving |-> form.saving ]
        /\ upload' = [ cover |-> upload.cover, gallery |-> None ]
    BY <1>1, <1>2, <2>4
  <2>6. form' \in Fields /\ form' # None /\ form'.saving = form.saving /\ form'.images = images /\ form'.cover = cover
    BY <1>1, <2>2, <2>3, <2>5, MakesFields
  <2>7. UploadAnswers
    BY <2>2, <2>3, <2>5, <2>6 DEF UploadAnswers
  <2> QED BY <1>2, <1>3, <2>2, <2>3, <2>5, <2>6, <2>7
<1>6. CASE ~CoverReturns /\ ~GalleryReturns /\ UploadFails
  <2>1. form' = form /\ ~form.saving
    BY <1>2, <1>6 DEF UploadFails
  <2>2. \/ upload' = [ upload EXCEPT !.cover = None ]
        \/ upload' = [ upload EXCEPT !.gallery = None ]
    BY <1>6 DEF UploadFails
  <2>3. \/ upload' = [ cover |-> None, gallery |-> upload.gallery ]
        \/ upload' = [ cover |-> upload.cover, gallery |-> None ]
    BY <1>2, <2>2
  <2>4. FormOK'
    BY <1>1, <1>2, <1>3, <2>1, <2>3
  <2>5. UploadAnswers
    BY <1>6, <2>1 DEF UploadAnswers
  <2> QED BY <1>1, <2>1, <2>4, <2>5
<1> QED BY <1>4, <1>5, <1>6

(* What the form saves is a product.                                       *)
LEMMA BodyFacts ==
  ASSUME FormOK, form # None, Complete
  PROVE  Body \in Bodies
<1>1. form.cover \in Pictures \cup {None} /\ form.images \in Seq(Pictures)
  BY FormShape
<1> DEFINE cover == IF form.cover # None THEN form.cover ELSE Head(form.images)
           images == IF form.images = <<>> THEN <<cover>> ELSE form.images
<1>2. cover \in Pictures
  BY <1>1, FirstPicture DEF Complete
<1> HIDE DEF cover
<1>3. images \in Seq(Pictures) \ {<<>>}
  BY <1>1, <1>2, OnePicture
<1> HIDE DEF images
<1>4. Body = [ cover |-> cover, images |-> images ]
  BY DEF Body, cover, images
<1> QED BY <1>2, <1>3, <1>4 DEF Bodies

--------------------------------------------------------------------------------
(* What the seller does                                                    *)

LEMMA EnterStep ==
  ASSUME TypesInv, ShelfInv', NEW p \in Pages, NEW calls, IsCalls(calls),
         CallsOK(calls, Len(sessions), row.status), Enter(p, calls), UNCHANGED <<row, sessions, stale>>
  PROVE  TypesInv'
<1>1. Len(sessions) \in Nat
  BY TabFacts
<1>2. /\ CallsOK(call', Len(sessions), row.status)
      /\ ShownOK(shown', Len(sessions)) /\ PageOK(page', shown', form') /\ FormOK'
      /\ CallsFit(call', page', shown', form')
  BY <1>1, EnterTypes
<1> QED BY <1>2, TabStep

LEMMA LinksFacts ==
  ASSUME page \in Pages
  PROVE  Links \subseteq Pages /\ (page # "list" => "new" \notin Links)
<1>1. \A view : LinksOf(view) \subseteq { "edit", "publish" }
  BY DEF LinksOf
<1>2. CASE page = "list"
  BY <1>1, <1>2 DEF Links, Pages
<1>3. CASE page = "new"
  BY <1>1, <1>3 DEF Links, Pages
<1>4. CASE page = "detail"
  BY <1>1, <1>4 DEF Links, Pages
<1>5. CASE page = "edit"
  BY <1>1, <1>5 DEF Links, Pages
<1>6. CASE page = "publish"
  BY <1>1, <1>6 DEF Links, Pages
<1> QED BY <1>2, <1>3, <1>4, <1>5, <1>6 DEF Pages

LEMMA FollowTypes ==
  ASSUME TypesInv, ShelfInv', Follow
  PROVE  TypesInv'
<1>1. PICK p \in Links : Enter(p, call)
  BY DEF Follow
<1>2. p \in Pages /\ UNCHANGED <<row, sessions, stale>>
  BY TabFacts, LinksFacts DEF PageOK, Follow, database
<1>3. IsCalls(call) /\ CallsOK(call, Len(sessions), row.status)
  BY TabFacts
<1> QED BY <1>1, <1>2, <1>3, EnterStep

(* On the detail page there is no product form, so that what waits for the *)
(* request of a form is the rules form.                                    *)
LEMMA DetailFacts ==
  ASSUME TypesInv, page = "detail"
  PROVE  /\ form = None /\ (\A j, k \in FromForm(call) : j = k)
         /\ shown.busy => FromForm(call) # {}
         /\ FromForm(call) # {} => shown.busy
BY TabFacts DEF PageOK, CallsFit, Waits

(* Where the rules form is not on screen, nothing but the product form     *)
(* waits.                                                                  *)
LEMMA NoRulesForm ==
  ASSUME TypesInv, form # None \/ page \notin { "detail", "publish" }
  PROVE  shown.rules = None /\ shown.busy = FALSE
BY TabFacts DEF PageOK, ShownOK

LEMMA NoProductForm ==
  ASSUME TypesInv, shown.rules # None
  PROVE  form = None /\ page \in { "detail", "publish" } /\ (page = "detail" => OnScreen(shown))
BY TabFacts DEF PageOK

(* A button that asks for something and leaves the forms alone.            *)
LEMMA PressTypes ==
  ASSUME TypesInv, ShelfInv', UNCHANGED <<row, sessions, stale>>,
         NEW op \in Ops \ { "get" }, NEW from \in { "page", "other" }, NEW item \in 0..Len(sessions), NEW arg,
         op \in { "auction", "rules", "cancel" } => item # 0 /\ page = "detail",
         op \in { "create", "edit" } => arg \in Bodies, op \in { "publish", "rules" } => arg \in Rules,
         Ask(op, from, item, arg), UNCHANGED tab
  PROVE  TypesInv'
<1>1. UNCHANGED <<page, shown, form, upload>>
  BY DEF tab, formVars
<1>2. CallsOK(call', Len(sessions), row.status) /\ CallsFit(call', page', shown', form')
  BY <1>1, AskTypes
<1>3. ShownOK(shown', Len(sessions)) /\ PageOK(page', shown', form') /\ FormOK'
  BY <1>1, TabFacts DEF FormOK, FormTypeOK
<1> QED BY <1>2, <1>3, TabStep

LEMMA ButtonTypes ==
  ASSUME TypesInv, ShelfInv', UNCHANGED <<row, sessions, stale>>,
         Reload \/ UnfoldCancel \/ PressCancel \/ PressDelete \/ PublishElsewhere
  PROVE  TypesInv'
<1>1. /\ Len(sessions) \in Nat /\ 0 \in 0..Len(sessions)
      /\ CallsOK(call, Len(sessions), row.status) /\ CallsFit(call, page, shown, form)
      /\ ShownOK(shown, Len(sessions)) /\ PageOK(page, shown, form) /\ FormOK
  BY TabFacts
<1>2. "list" \in Ops \ {"get"} /\ "cancel" \in Ops \ {"get"} /\ "delete" \in Ops \ {"get"} /\ "publish" \in Ops \ {"get"}
  BY DEF Ops
<1> DEFINE n == Len(sessions)
<1> HIDE DEF n
<1>3. ASSUME NEW loading, NEW cancelBox,
             shown' = [ view |-> shown.view, session |-> shown.session, editing |-> shown.editing,
                        rules |-> shown.rules, busy |-> shown.busy, cancelBox |-> cancelBox,
                        failed |-> shown.failed, loading |-> loading ],
             UNCHANGED <<page, form, upload>>
      PROVE  /\ ShownOK(shown', Len(sessions)) /\ PageOK(page', shown', form') /\ FormOK'
             /\ shown'.busy = shown.busy
  <2>1. /\ shown'.view = shown.view /\ shown'.session = shown.session /\ shown'.editing = shown.editing
        /\ shown'.rules = shown.rules /\ shown'.busy = shown.busy /\ shown'.failed = shown.failed
        /\ shown'.cancelBox = cancelBox /\ shown'.loading = loading
    BY <1>3
  <2>2. ShownOK(shown', n) <=> ShownOK(shown, n)
    BY <1>1, <1>3, <2>1 DEF ShownOK, n
  <2>3. PageOK(page', shown', form')
    BY <1>1, <1>3, <2>1 DEF PageOK, OnScreen
  <2>4. FormOK'
    BY <1>1, <1>3 DEF FormOK, FormTypeOK
  <2> QED BY <1>1, <2>1, <2>2, <2>3, <2>4 DEF n
<1>4. /\ shown = [ view |-> shown.view, session |-> shown.session, editing |-> shown.editing,
                   rules |-> shown.rules, busy |-> shown.busy, cancelBox |-> shown.cancelBox,
                   failed |-> shown.failed, loading |-> shown.loading ]
      /\ shown.session # None => shown.session.id \in 1..Len(sessions)
  BY <1>1 DEF ShownOK
<1>5. CASE Reload
  <2>1. /\ Ask("list", "page", 0, filter') /\ UNCHANGED <<page, form, upload>>
        /\ shown' = [ shown EXCEPT !.loading = TRUE ]
    BY <1>5 DEF Reload, formVars
  <2>2. shown' = [ view |-> shown.view, session |-> shown.session, editing |-> shown.editing,
                   rules |-> shown.rules, busy |-> shown.busy, cancelBox |-> shown.cancelBox,
                   failed |-> shown.failed, loading |-> TRUE ]
    BY <1>4, <2>1
  <2>3. /\ ShownOK(shown', Len(sessions)) /\ PageOK(page', shown', form') /\ FormOK' /\ shown'.busy = shown.busy
    BY <1>3, <2>1, <2>2
  <2>4. PICK item \in 0..Len(sessions) : Ask("list", "page", item, filter')
    BY <1>1, <2>1
  <2>5. CallsOK(call', Len(sessions), row.status) /\ CallsFit(call', page', shown', form')
    BY <1>2, <2>1, <2>3, <2>4, AskTypes
  <2> QED BY <2>3, <2>5, TabStep
<1>6. CASE UnfoldCancel
  <2>1. /\ UNCHANGED <<call, page, form, upload>>
        /\ shown' = [ shown EXCEPT !.cancelBox = ~@ ]
    BY <1>6 DEF UnfoldCancel, formVars
  <2>2. shown' = [ view |-> shown.view, session |-> shown.session, editing |-> shown.editing,
                   rules |-> shown.rules, busy |-> shown.busy, cancelBox |-> ~shown.cancelBox,
                   failed |-> shown.failed, loading |-> shown.loading ]
    BY <1>4, <2>1
  <2>3. PICK box : shown' = [ view |-> shown.view, session |-> shown.session, editing |-> shown.editing,
                   rules |-> shown.rules, busy |-> shown.busy, cancelBox |-> box,
                   failed |-> shown.failed, loading |-> shown.loading ]
    BY <2>2
  <2>4. /\ ShownOK(shown', Len(sessions)) /\ PageOK(page', shown', form') /\ FormOK' /\ shown'.busy = shown.busy
    BY <1>3, <2>1, <2>3
  <2>5. CallsOK(call', Len(sessions), row.status) /\ CallsFit(call', page', shown', form')
    BY <1>1, <2>1, <2>4 DEF CallsFit, Waits
  <2> QED BY <2>4, <2>5, TabStep
<1>7. CASE PressCancel
  <2>1. /\ Ask("cancel", "page", shown.session.id, None) /\ UNCHANGED tab
        /\ page = "detail" /\ shown.session # None
    BY <1>7 DEF PressCancel, Detail
  <2>2. PICK item \in 0..Len(sessions) : item # 0 /\ Ask("cancel", "page", item, None)
    BY <1>1, <1>4, <2>1
  <2> QED BY <1>2, <2>1, <2>2, PressTypes
<1>8. CASE PressDelete
  <2>1. Ask("delete", "page", 0, None) /\ UNCHANGED tab
    BY <1>8 DEF PressDelete
  <2>2. PICK item \in 0..Len(sessions) : Ask("delete", "page", item, None)
    BY <1>1, <2>1
  <2> QED BY <1>2, <2>1, <2>2, PressTypes
<1>9. CASE PublishElsewhere
  <2>1. PICK r \in Rules : Ask("publish", "other", 0, r)
    BY <1>9 DEF PublishElsewhere
  <2>2. PICK item \in 0..Len(sessions) : Ask("publish", "other", item, r)
    BY <1>1, <2>1
  <2>3. UNCHANGED tab
    BY <1>9 DEF PublishElsewhere
  <2> QED BY <1>2, <2>1, <2>2, <2>3, PressTypes
<1> QED BY <1>5, <1>6, <1>7, <1>8, <1>9

LEMMA UnfoldRulesTypes ==
  ASSUME TypesInv, ShelfInv', UNCHANGED <<row, sessions, stale>>, UnfoldRules
  PROVE  TypesInv'
<1>1. /\ IsCalls(call) /\ CallsOK(call, Len(sessions), row.status) /\ ShownOK(shown, Len(sessions))
      /\ page = "detail"
  BY TabFacts DEF UnfoldRules, Detail
<1> DEFINE new == [ shown EXCEPT !.editing = ~@ ]
<1>2. new = [ view |-> shown.view, session |-> shown.session, editing |-> ~shown.editing,
              rules |-> shown.rules, busy |-> shown.busy, cancelBox |-> shown.cancelBox,
              failed |-> shown.failed, loading |-> shown.loading ]
  BY <1>1 DEF ShownOK
<1>3. ShowDetail(new, call)
  BY DEF UnfoldRules
<1> HIDE DEF new
<1>4. ShownOK(new, Len(sessions)) /\ new.busy = shown.busy
  BY <1>1, <1>2 DEF ShownOK
<1>5. /\ CallsOK(call', Len(sessions), row.status)
      /\ ShownOK(shown', Len(sessions)) /\ PageOK(page', shown', form') /\ FormOK'
      /\ CallsFit(call', page', shown', form')
  <2>1. (\A j, k \in FromForm(call) : j = k) /\ (new.busy <=> FromForm(call) # {})
    BY <1>1, <1>4, DetailFacts
  <2> QED BY <1>1, <1>3, <1>4, <2>1, ShowDetailTypes
<1> QED BY <1>5, TabStep

LEMMA RulesFormTypes ==
  ASSUME TypesInv, ShelfInv', UNCHANGED <<row, sessions, stale>>, ChangeRules \/ SubmitRules
  PROVE  TypesInv'
<1>1. /\ IsCalls(call) /\ CallsOK(call, Len(sessions), row.status) /\ ShownOK(shown, Len(sessions))
      /\ CallsFit(call, page, shown, form) /\ PageOK(page, shown, form) /\ FormOK
      /\ 0 \in 0..Len(sessions) /\ Len(sessions) \in Nat
  BY TabFacts
<1>2. shown.rules # None
  BY DEF ChangeRules, SubmitRules
<1>3. form = None /\ page \in { "detail", "publish" } /\ (page = "detail" => OnScreen(shown))
  BY <1>2, NoProductForm
<1>4. UNCHANGED <<page, form, upload>>
  BY DEF ChangeRules, SubmitRules, formVars
<1>5. FormOK'
  BY <1>1, <1>4 DEF FormOK, FormTypeOK
<1>6. ASSUME NEW rules \in Rules, NEW busy \in BOOLEAN,
             shown' = [ view |-> shown.view, session |-> shown.session, editing |-> shown.editing,
                        rules |-> rules, busy |-> busy, cancelBox |-> shown.cancelBox,
                        failed |-> shown.failed, loading |-> shown.loading ]
      PROVE  ShownOK(shown', Len(sessions)) /\ PageOK(page', shown', form') /\ shown'.busy = busy
  <2>1. /\ shown'.view = shown.view /\ shown'.session = shown.session /\ shown'.editing = shown.editing
        /\ shown'.rules = rules /\ shown'.busy = busy /\ shown'.failed = shown.failed
        /\ shown'.cancelBox = shown.cancelBox /\ shown'.loading = shown.loading
    BY <1>6
  <2>2. rules # None
    BY CatalogueAssumption
  <2>3. ShownOK(shown', Len(sessions))
    BY <1>1, <1>6, <2>1, <2>2 DEF ShownOK
  <2>4. PageOK(page', shown', form')
    BY <1>1, <1>3, <1>4, <2>1 DEF PageOK, OnScreen
  <2> QED BY <2>1, <2>3, <2>4
<1>7. CASE ChangeRules
  <2>1. PICK r \in Rules : shown' = [ shown EXCEPT !.rules = r ]
    BY <1>7 DEF ChangeRules
  <2>2. shown' = [ view |-> shown.view, session |-> shown.session, editing |-> shown.editing,
                   rules |-> r, busy |-> shown.busy, cancelBox |-> shown.cancelBox,
                   failed |-> shown.failed, loading |-> shown.loading ] /\ shown.busy \in BOOLEAN
    BY <1>1, <2>1 DEF ShownOK
  <2>3. ShownOK(shown', Len(sessions)) /\ PageOK(page', shown', form') /\ shown'.busy = shown.busy
    BY <1>6, <2>2
  <2>4. call' = call
    BY <1>7 DEF ChangeRules
  <2>5. CallsOK(call', Len(sessions), row.status) /\ CallsFit(call', page', shown', form')
    BY <1>1, <1>4, <2>3, <2>4 DEF CallsFit, Waits
  <2> QED BY <1>5, <2>3, <2>5, TabStep
<1>8. CASE SubmitRules
  <2>1. shown' = [ shown EXCEPT !.busy = TRUE ] /\ ~shown.busy
    BY <1>8 DEF SubmitRules
  <2>2. shown.rules \in Rules
    BY <1>1, <1>2 DEF ShownOK
  <2>3. shown' = [ view |-> shown.view, session |-> shown.session, editing |-> shown.editing,
                   rules |-> shown.rules, busy |-> TRUE, cancelBox |-> shown.cancelBox,
                   failed |-> shown.failed, loading |-> shown.loading ]
    BY <1>1, <2>1 DEF ShownOK
  <2>4. ShownOK(shown', Len(sessions)) /\ PageOK(page', shown', form') /\ shown'.busy
    BY <1>6, <2>2, <2>3
  <2>5. ~Waits(shown, form) /\ Waits(shown', form')
    BY <1>3, <2>1, <2>4 DEF Waits
  <2>6. CASE page = "publish"
    <3>1. PICK item \in 0..Len(sessions) : Ask("publish", "form", item, shown.rules)
      BY <1>1, <1>8, <2>6 DEF SubmitRules
    <3>2. CallsOK(call', Len(sessions), row.status) /\ CallsFit(call', page', shown', form')
      BY <1>4, <2>2, <2>5, <3>1, SubmitTypes
    <3> QED BY <1>5, <2>4, <3>2, TabStep
  <2>7. CASE page = "detail"
    <3>1. PICK item \in 0..Len(sessions) : item # 0 /\ Ask("rules", "form", item, shown.rules)
      <4>1. shown.session.id \in 1..Len(sessions)
        BY <1>1, <1>3, <2>7 DEF OnScreen, ShownOK
      <4> QED BY <1>1, <1>8, <2>7, <4>1 DEF SubmitRules
    <3>2. CallsOK(call', Len(sessions), row.status) /\ CallsFit(call', page', shown', form')
      BY <1>4, <2>2, <2>5, <2>7, <3>1, SubmitTypes
    <3> QED BY <1>5, <2>4, <3>2, TabStep
  <2> QED BY <1>3, <2>6, <2>7
<1> QED BY <1>7, <1>8

(* The product form changes, or is sent.                                   *)
LEMMA FormTypes ==
  ASSUME TypesInv, ShelfInv', UNCHANGED <<row, sessions, stale, page, shown>>, form # None,
         FormOK', form' # None, CallsOK(call', Len(sessions), row.status),
         CallsFit(call', page', shown', form')
  PROVE  TypesInv'
<1>1. ShownOK(shown', Len(sessions)) /\ PageOK(page', shown', form')
  BY TabFacts DEF PageOK
<1> QED BY <1>1, TabStep

LEMMA SubmitProductTypes ==
  ASSUME TypesInv, ShelfInv', UNCHANGED <<row, sessions, stale>>, SubmitProduct
  PROVE  TypesInv'
<1>1. FormOK /\ 0 \in 0..Len(sessions)
  BY TabFacts
<1>2. /\ form # None /\ ~form.saving /\ Complete /\ upload = NoUpload
      /\ UNCHANGED <<upload, page, shown>> /\ form' = [ form EXCEPT !.saving = TRUE ]
  BY DEF SubmitProduct, CanSubmit
<1>3. Body \in Bodies
  BY <1>1, <1>2, BodyFacts
<1>4. /\ form' = [ cover |-> form.cover, images |-> form.images, saving |-> TRUE ]
      /\ form.cover \in Pictures \cup {None} /\ form.images \in Seq(Pictures)
  BY <1>1, <1>2, FormShape
<1>5. form' \in Fields /\ form' # None /\ form'.saving
  BY <1>4, MakesFields
<1>6. FormOK'
  BY <1>1, <1>2, <1>5 DEF FormOK, FormTypeOK
<1>7. ~Waits(shown, form) /\ Waits(shown', form')
  BY <1>2, <1>5, NoRulesForm DEF Waits
<1>8. PICK op \in { "create", "edit" }, item \in 0..Len(sessions) : Ask(op, "form", item, Body)
  BY <1>1 DEF SubmitProduct
<1>9. PICK arg : arg \in Bodies /\ Ask(op, "form", item, arg)
  BY <1>3, <1>8
<1>10. CallsOK(call', Len(sessions), row.status) /\ CallsFit(call', page', shown', form')
  BY <1>2, <1>5, <1>7, <1>9, SubmitTypes
<1> QED BY <1>2, <1>5, <1>6, <1>10, FormTypes

(* A form that changes without being sent has its uploads change, too.     *)
LEMMA StillWaits ==
  ASSUME TypesInv, ShelfInv', UNCHANGED <<row, sessions, stale, page, shown, call>>, form # None,
         FormOK', form' # None, form'.saving = form.saving
  PROVE  TypesInv'
<1>1. CallsOK(call', Len(sessions), row.status) /\ CallsFit(call', page', shown', form')
  BY TabFacts DEF CallsFit, Waits
<1> QED BY <1>1, FormTypes

LEMMA ActTypes ==
  ASSUME TypesInv, ShelfInv', Act
  PROVE  TypesInv'
<1>1. UNCHANGED <<row, sessions, stale>>
  BY DEF Act, database
<1>2. CASE Change
  <2>1. /\ form # None /\ UNCHANGED <<call, page, shown>>
        /\ TypeCover \/ TypeImages \/ UploadCover \/ UploadGallery
    BY <1>2 DEF Change
  <2>2. FormOK' /\ form' # None /\ form'.saving = form.saving
    BY <2>1, TabFacts, ChangeTypes
  <2> QED BY <1>1, <2>1, <2>2, StillWaits
<1>3. CASE UnfoldRules
  BY <1>1, <1>3, UnfoldRulesTypes
<1>4. CASE ChangeRules \/ SubmitRules
  BY <1>1, <1>4, RulesFormTypes
<1>5. CASE SubmitProduct
  BY <1>1, <1>5, SubmitProductTypes
<1>6. CASE Reload \/ UnfoldCancel \/ PressCancel \/ PressDelete \/ PublishElsewhere
  BY <1>1, <1>6, ButtonTypes
<1> QED BY <1>2, <1>3, <1>4, <1>5, <1>6 DEF Act

LEMMA UploadReturnsTypes ==
  ASSUME TypesInv, ShelfInv', UploadReturns
  PROVE  TypesInv'
<1>1. /\ UNCHANGED <<row, sessions, stale, page, shown, call>> /\ form # None
      /\ CoverReturns \/ GalleryReturns \/ UploadFails
  BY DEF UploadReturns, database
<1>2. FormOK' /\ form' # None /\ form'.saving = form.saving
  BY <1>1, TabFacts, ReturnTypes
<1> QED BY <1>1, <1>2, StillWaits

--------------------------------------------------------------------------------
(* What is answered                                                        *)

(* A request that is answered makes room for another, which no form sends. *)
RoomMade(new, k) ==
  /\ IsCalls(new) /\ CallsOK(new, Len(sessions), row.status)
  /\ \A j \in Slots \ {k} : new[j] = call[j]
  /\ \A j, l \in FromForm(new) : j = l
  /\ call[k].from # "form" => FromForm(new) = FromForm(call)
  /\ call[k].from = "form" => FromForm(new) = {}

LEMMA Answered ==
  ASSUME TypesInv, NEW k \in Slots, NEW c, IsCall(c), CallOK(c, Len(sessions), row.status),
         c.from # "form", NEW new, new = [ call EXCEPT ![k] = c ]
  PROVE  RoomMade(new, k) /\ new[k] = c
<1>1. /\ IsCalls(call) /\ CallsOK(call, Len(sessions), row.status)
      /\ \A j, l \in FromForm(call) : j = l
  BY TabFacts DEF CallsFit
<1>2. IsCalls(new) /\ CallsOK(new, Len(sessions), row.status)
  BY <1>1, Replaced
<1>3. new[k] = c /\ \A j \in Slots \ {k} : new[j] = call[j]
  BY <1>1 DEF IsCalls
<1> HIDE DEF TypesInv
<1>4. FromForm(new) = FromForm(call) \ {k}
  BY <1>3 DEF FromForm
<1>5. call[k].from = "form" => k \in FromForm(call)
  BY DEF FromForm
<1>6. call[k].from # "form" => k \notin FromForm(call)
  BY DEF FromForm
<1> QED BY <1>1, <1>2, <1>3, <1>4, <1>5, <1>6 DEF RoomMade

LEMMA Forgets ==
  ASSUME TypesInv, NEW k \in Slots, NEW new, new = Forget(k)
  PROVE  RoomMade(new, k) /\ new[k].from = "left"
<1>1. Len(sessions) \in Nat
  BY TabFacts
<1>2. PICK c : /\ new = [ call EXCEPT ![k] = c ]
               /\ CallOK(c, Len(sessions), row.status) /\ IsCall(c) /\ c.from = "left"
  BY <1>1, NoCallOK DEF Forget
<1>3. c.from # "form"
  BY <1>2
<1> QED BY <1>2, <1>3, Answered

(* It is forgotten; the tab waits as it did, unless its own form sent it.  *)
LEMMA Forgotten ==
  ASSUME TypesInv, NEW k \in Slots, call' = Forget(k), page' = page,
         call[k].from = "form" => ~Waits(shown', form'),
         call[k].from # "form" => (Waits(shown', form') <=> Waits(shown, form)),
         k \in Loading(call) \/ (form' = None <=> form = None)
  PROVE  CallsOK(call', Len(sessions), row.status) /\ CallsFit(call', page', shown', form')
<1>1. /\ CallsFit(call, page, shown, form) /\ Len(sessions) \in Nat
  BY TabFacts
<1>2. PICK new : new = Forget(k) /\ call' = new
  OBVIOUS
<1>3. /\ CallsOK(call', Len(sessions), row.status)
      /\ call'[k].from = "left" /\ (\A j \in Slots \ {k} : call'[j] = call[j])
      /\ (\A j, l \in FromForm(call') : j = l)
      /\ call[k].from # "form" => FromForm(call') = FromForm(call)
      /\ call[k].from = "form" => FromForm(call') = {}
  BY <1>2, Forgets DEF RoomMade
<1>4. Waits(shown', form') <=> FromForm(call') # {}
  BY <1>1, <1>3 DEF CallsFit
<1>5. Loading(call') = Loading(call) \ {k}
  BY <1>2, <1>3 DEF Loading
<1>6. \A j \in Slots : call'[j].from \in { "form", "page" } /\ call'[j].op \in { "auction", "rules", "cancel" }
                         => page' = "detail"
  BY <1>1, <1>2, <1>3 DEF CallsFit
<1>7. page = "edit" => (Loading(call') # {} => form' = None) /\ \A j, l \in Loading(call') : j = l
  BY <1>1, <1>5 DEF CallsFit
<1> QED BY <1>3, <1>4, <1>6, <1>7 DEF CallsFit

LEMMA AnsweredFacts ==
  ASSUME TypesInv, NEW k \in Slots, call[k].at = "done"
  PROVE  /\ Replied(call[k].op, Len(sessions), call[k].ok, call[k].reply)
         /\ call[k].from = "form" => call[k].op \in { "create", "edit", "publish", "rules" }
         /\ call[k].from = "form" => Waits(shown, form)
         /\ call[k].from \in { "form", "page" } /\ call[k].op \in { "auction", "rules", "cancel" } => page = "detail"
<1>1. /\ CallsFit(call, page, shown, form) /\ CallOK(call[k], Len(sessions), row.status)
  BY TabFacts DEF CallsOK
<1>2. call[k].from = "form" => k \in FromForm(call)
  BY DEF FromForm
<1> QED BY <1>1, <1>2 DEF CallsFit, CallOK

LEMMA AnotherTabTypes ==
  ASSUME TypesInv, ShelfInv', UNCHANGED <<row, sessions, stale>>, NEW k \in Slots,
         call' = Forget(k), call[k].from # "form", UNCHANGED tab
  PROVE  TypesInv'
<1>1. UNCHANGED <<page, shown, form, upload>>
  BY DEF tab, formVars
<1>2. CallsOK(call', Len(sessions), row.status) /\ CallsFit(call', page', shown', form')
  BY <1>1, Forgotten
<1>3. ShownOK(shown', Len(sessions)) /\ PageOK(page', shown', form') /\ FormOK'
  BY <1>1, TabFacts DEF FormOK, FormTypeOK
<1> QED BY <1>2, <1>3, TabStep

LEMMA ShowListTypes ==
  ASSUME TypesInv, ShelfInv', UNCHANGED <<row, sessions, stale>>, NEW k \in Slots,
         call[k].at = "done", call[k].op = "list", ShowList(k)
  PROVE  TypesInv'
<1>1. ShownOK(shown, Len(sessions)) /\ PageOK(page, shown, form) /\ FormOK
  BY TabFacts
<1>2. call[k].from # "form" /\ (call[k].ok => call[k].reply \in Views \cup {None})
  BY AnsweredFacts DEF Replied
<1>3. /\ call' = Forget(k) /\ UNCHANGED <<page, form, upload>>
      /\ shown' = [ shown EXCEPT !.view = IF call[k].ok THEN call[k].reply ELSE @, !.loading = FALSE ]
  BY DEF ShowList, formVars
<1> DEFINE view == IF call[k].ok THEN call[k].reply ELSE shown.view
<1>4. view \in Views \cup {None} /\ shown' = [ shown EXCEPT !.view = view, !.loading = FALSE ]
  <2>1. shown.view \in Views \cup {None}
    BY <1>1 DEF ShownOK
  <2>2. view \in Views \cup {None}
    BY <1>2, <2>1
  <2> QED BY <1>3, <2>2
<1> HIDE DEF view
<1>5. shown' = [ view |-> view, session |-> shown.session, editing |-> shown.editing,
                 rules |-> shown.rules, busy |-> shown.busy, cancelBox |-> shown.cancelBox,
                 failed |-> shown.failed, loading |-> FALSE ]
  BY <1>1, <1>4 DEF ShownOK
<1>6. ShownOK(shown', Len(sessions)) /\ shown'.busy = shown.busy
  <2>1. /\ shown'.view = view /\ shown'.session = shown.session /\ shown'.editing = shown.editing
        /\ shown'.rules = shown.rules /\ shown'.busy = shown.busy /\ shown'.cancelBox = shown.cancelBox
        /\ shown'.failed = shown.failed /\ shown'.loading = FALSE
    BY <1>5
  <2> QED BY <1>1, <1>4, <1>5, <2>1 DEF ShownOK
<1>7. PageOK(page', shown', form') /\ FormOK'
  BY <1>1, <1>3, <1>5 DEF PageOK, OnScreen, FormOK, FormTypeOK
<1>8. CallsOK(call', Len(sessions), row.status) /\ CallsFit(call', page', shown', form')
  <2>1. Waits(shown', form') <=> Waits(shown, form)
    BY <1>3, <1>6 DEF Waits
  <2> QED BY <1>2, <1>3, <2>1, Forgotten
<1> QED BY <1>6, <1>7, <1>8, TabStep

(* On the pages other than the detail page, a product that is loaded fills *)
(* the form: that of the product once, as the page loads it once.          *)
LEMMA ShowFormTypes ==
  ASSUME TypesInv, ShelfInv', UNCHANGED <<row, sessions, stale>>, NEW k \in Slots,
         call[k].at = "done", call[k].op = "get", call[k].from \in { "form", "page" },
         page # "detail", ShowForm(k)
  PROVE  TypesInv'
<1>1. /\ ShownOK(shown, Len(sessions)) /\ PageOK(page, shown, form) /\ FormOK
      /\ CallsFit(call, page, shown, form)
  BY TabFacts
<1>2. /\ call[k].from = "page"
      /\ call[k].ok => call[k].reply \in Views
  BY AnsweredFacts DEF Replied
<1>3. k \in Loading(call)
  BY <1>2 DEF Loading
<1>4. page = "edit" => form = None
  BY <1>1, <1>3 DEF CallsFit
<1>5. call' = Forget(k) /\ UNCHANGED <<page, upload>>
  BY DEF ShowForm
<1> DEFINE loaded == call[k].ok /\ (page = "publish" => call[k].reply.auction = 0)
<1>6. CASE loaded
  <2> DEFINE rules == IF page = "publish" THEN AnyRules ELSE None
  <2>1. shown' = [ shown EXCEPT !.view = call[k].reply, !.rules = rules ]
    BY <1>6 DEF ShowForm
  <2>2. /\ page = "publish" => rules \in Rules /\ rules # None
        /\ page # "publish" => rules = None
    <3>1. AnyRules \in Rules
      BY CatalogueAssumption DEF AnyRules
    <3> QED BY <3>1, CatalogueAssumption
  <2> HIDE DEF rules
  <2>3. shown' = [ view |-> call[k].reply, session |-> shown.session, editing |-> shown.editing,
                   rules |-> rules, busy |-> shown.busy, cancelBox |-> shown.cancelBox,
                   failed |-> shown.failed, loading |-> shown.loading ]
    BY <1>1, <2>1 DEF ShownOK
  <2>4. page # "publish" => shown.busy = FALSE
    BY NoRulesForm
  <2>5. ShownOK(shown', Len(sessions)) /\ shown'.busy = shown.busy /\ shown'.rules = rules
    BY <1>1, <1>2, <1>6, <2>2, <2>3, <2>4 DEF ShownOK
  <2>6. /\ page = "edit" => form' \in Fields /\ form' # None /\ form'.saving = FALSE
        /\ page # "edit" => form' = form
    <3>1. CASE page = "edit"
      <4>1. form' = FormOf(call[k].reply.body) /\ call[k].reply.body \in Bodies
        BY <1>2, <1>6, <3>1 DEF ShowForm, Views
      <4>2. PICK body \in Bodies : form' = [ cover |-> body.cover, images |-> body.images, saving |-> FALSE ]
        BY <4>1 DEF FormOf
      <4>3. body.cover \in Pictures \cup {None} /\ body.images \in Seq(Pictures)
        BY DEF Bodies
      <4>4. form' \in Fields /\ form' # None
        BY <4>2, <4>3, MakesFields
      <4> QED BY <3>1, <4>2, <4>4
    <3>2. CASE page # "edit"
      BY <3>2 DEF ShowForm
    <3> QED BY <3>1, <3>2
  <2>7. FormOK'
    BY <1>1, <1>4, <1>5, <2>6 DEF FormOK, FormTypeOK
  <2>8. PageOK(page', shown', form')
    BY <1>1, <1>5, <2>2, <2>5, <2>6 DEF PageOK
  <2>9. Waits(shown', form') <=> Waits(shown, form)
    BY <1>4, <2>5, <2>6 DEF Waits
  <2>10. CallsOK(call', Len(sessions), row.status) /\ CallsFit(call', page', shown', form')
    BY <1>2, <1>3, <1>5, <2>9, Forgotten
  <2> QED BY <2>5, <2>7, <2>8, <2>10, TabStep
<1>7. CASE ~loaded
  <2>1. shown' = [ shown EXCEPT !.failed = TRUE ] /\ form' = form
    BY <1>7 DEF ShowForm
  <2>2. shown' = [ view |-> shown.view, session |-> shown.session, editing |-> shown.editing,
                   rules |-> shown.rules, busy |-> shown.busy, cancelBox |-> shown.cancelBox,
                   failed |-> TRUE, loading |-> shown.loading ]
    BY <1>1, <2>1 DEF ShownOK
  <2>3. ShownOK(shown', Len(sessions)) /\ shown'.busy = shown.busy /\ shown'.rules = shown.rules
    BY <1>1, <2>2 DEF ShownOK
  <2>4. PageOK(page', shown', form') /\ FormOK'
    BY <1>1, <1>5, <2>1, <2>3 DEF PageOK, FormOK, FormTypeOK
  <2>5. Waits(shown', form') <=> Waits(shown, form)
    BY <2>1, <2>3 DEF Waits
  <2>6. CallsOK(call', Len(sessions), row.status) /\ CallsFit(call', page', shown', form')
    BY <1>2, <1>5, <2>1, <2>5, Forgotten
  <2> QED BY <2>3, <2>4, <2>6, TabStep
<1> QED BY <1>6, <1>7

(* What the detail page shows when something is answered; its rules form   *)
(* waits for another answer, if for any.                                   *)
LEMMA DetailAnswered ==
  ASSUME TypesInv, ShelfInv', UNCHANGED <<row, sessions, stale>>, page = "detail",
         NEW k \in Slots, NEW calls, RoomMade(calls, k), NEW new, ShownOK(new, Len(sessions)),
         ShowDetail(new, calls),
         call[k].from # "form" => new.busy = shown.busy,
         call[k].from = "form" => ~new.busy \/ ~OnScreen(new)
  PROVE  TypesInv'
<1>1. IsCalls(calls) /\ CallsOK(calls, Len(sessions), row.status) /\ (\A i, j \in FromForm(calls) : i = j)
  BY DEF RoomMade
<1>2. OnScreen(new) => (new.busy <=> FromForm(calls) # {})
  BY DetailFacts DEF RoomMade
<1>3. /\ CallsOK(call', Len(sessions), row.status)
      /\ ShownOK(shown', Len(sessions)) /\ PageOK(page', shown', form') /\ FormOK'
      /\ CallsFit(call', page', shown', form')
  BY <1>1, <1>2, ShowDetailTypes
<1> QED BY <1>3, TabStep

(* The answers that the detail page shows; the form's own leaves it idle.  *)
LEMMA ShownAs ==
  ASSUME TypesInv, NEW new, NEW view \in Views \cup {None}, NEW session,
         session # None => session.id \in 1..Len(sessions) /\ session.rules \in Rules,
         NEW editing \in BOOLEAN, NEW busy \in BOOLEAN, busy => shown.busy, NEW cancelBox, NEW failed \in BOOLEAN,
         new = [ view |-> view, session |-> session, editing |-> editing, rules |-> shown.rules, busy |-> busy,
                 cancelBox |-> cancelBox, failed |-> failed, loading |-> shown.loading ]
  PROVE  /\ ShownOK(new, Len(sessions)) /\ new.busy = busy /\ new.editing = editing
<1>1. ShownOK(shown, Len(sessions))
  BY TabFacts
<1>2. /\ new.view = view /\ new.session = session /\ new.editing = editing /\ new.rules = shown.rules
      /\ new.busy = busy /\ new.cancelBox = cancelBox /\ new.failed = failed /\ new.loading = shown.loading
  OBVIOUS
<1> QED BY <1>1, <1>2 DEF ShownOK

LEMMA ShowProductTypes ==
  ASSUME TypesInv, ShelfInv', UNCHANGED <<row, sessions, stale>>, NEW k \in Slots, page = "detail",
         call[k].at = "done", call[k].op = "get", ShowProduct(k)
  PROVE  TypesInv'
<1>1. ShownOK(shown, Len(sessions)) /\ Len(sessions) \in Nat
  BY TabFacts
<1>2. /\ call[k].from # "form"
      /\ call[k].ok => call[k].reply \in Views /\ call[k].reply.auction \in 0..Len(sessions)
  BY AnsweredFacts DEF Replied
<1>3. shown = [ view |-> shown.view, session |-> shown.session, editing |-> shown.editing,
                rules |-> shown.rules, busy |-> shown.busy, cancelBox |-> shown.cancelBox,
                failed |-> shown.failed, loading |-> shown.loading ]
  BY <1>1 DEF ShownOK
<1>7. /\ shown.view \in Views \cup {None} /\ shown.editing \in BOOLEAN /\ shown.busy \in BOOLEAN
      /\ shown.failed \in BOOLEAN
      /\ shown.session # None => shown.session.id \in 1..Len(sessions) /\ shown.session.rules \in Rules
  BY <1>1 DEF ShownOK
<1>4. CASE call[k].ok /\ call[k].reply.auction # 0
  <2> DEFINE id == call[k].reply.auction
             calls == [ call EXCEPT ![k] = Asked("auction", "page", id, None) ]
  <2>1. PICK new : new = [ shown EXCEPT !.view = call[k].reply ] /\ ShowDetail(new, calls)
    BY <1>4 DEF ShowProduct
  <2>2. id \in 0..Len(sessions) /\ id # 0 /\ "auction" \in Ops
    BY <1>2, <1>4 DEF Ops
  <2> HIDE DEF id
  <2>3. PICK c : c = Asked("auction", "page", id, None) /\ calls = [ call EXCEPT ![k] = c ]
    OBVIOUS
  <2>6. CallOK(c, Len(sessions), row.status) /\ IsCall(c) /\ c.from = "page"
    BY <1>1, <2>2, <2>3, AskedOK
  <2> HIDE DEF calls
  <2>4. RoomMade(calls, k)
    <3>1. c.from # "form"
      BY <2>6
    <3> QED BY <2>3, <2>6, <3>1, Answered
  <2>5. ShownOK(new, Len(sessions)) /\ new.busy = shown.busy
    <3>1. new = [ view |-> call[k].reply, session |-> shown.session, editing |-> shown.editing,
                  rules |-> shown.rules, busy |-> shown.busy, cancelBox |-> shown.cancelBox,
                  failed |-> shown.failed, loading |-> shown.loading ]
      BY <1>3, <2>1
    <3>2. call[k].reply \in Views \cup {None}
      BY <1>2, <1>4
    <3> QED BY <1>7, <3>1, <3>2, ShownAs
  <2> QED BY <1>2, <2>1, <2>4, <2>5, DetailAnswered
<1>5. CASE call[k].ok /\ call[k].reply.auction = 0
  <2> DEFINE calls == Forget(k)
  <2>1. PICK new : new = [ shown EXCEPT !.view = call[k].reply, !.session = None ] /\ ShowDetail(new, calls)
    BY <1>5 DEF ShowProduct
  <2>2. RoomMade(calls, k)
    BY Forgets
  <2> HIDE DEF calls
  <2>3. ShownOK(new, Len(sessions)) /\ new.busy = shown.busy
    <3>1. new = [ view |-> call[k].reply, session |-> None, editing |-> shown.editing,
                  rules |-> shown.rules, busy |-> shown.busy, cancelBox |-> shown.cancelBox,
                  failed |-> shown.failed, loading |-> shown.loading ]
      BY <1>3, <2>1
    <3>2. call[k].reply \in Views \cup {None}
      BY <1>2, <1>5
    <3> QED BY <1>7, <3>1, <3>2, ShownAs
  <2> QED BY <1>2, <2>1, <2>2, <2>3, DetailAnswered
<1>6. CASE ~call[k].ok
  <2> DEFINE calls == Forget(k)
  <2>1. PICK new : new = [ shown EXCEPT !.failed = TRUE ] /\ ShowDetail(new, calls)
    BY <1>6 DEF ShowProduct
  <2>2. RoomMade(calls, k)
    BY Forgets
  <2> HIDE DEF calls
  <2>3. ShownOK(new, Len(sessions)) /\ new.busy = shown.busy
    <3>1. new = [ view |-> shown.view, session |-> shown.session, editing |-> shown.editing,
                  rules |-> shown.rules, busy |-> shown.busy, cancelBox |-> shown.cancelBox,
                  failed |-> TRUE, loading |-> shown.loading ]
      BY <1>3, <2>1
    <3>2. PICK failed \in BOOLEAN :
            new = [ view |-> shown.view, session |-> shown.session, editing |-> shown.editing,
                    rules |-> shown.rules, busy |-> shown.busy, cancelBox |-> shown.cancelBox,
                    failed |-> failed, loading |-> shown.loading ]
      BY <3>1
    <3> QED BY <1>7, <3>2, ShownAs
  <2> QED BY <1>2, <2>1, <2>2, <2>3, DetailAnswered
<1> QED BY <1>4, <1>5, <1>6

(* The page loads again what was done to its session.                      *)
LEMMA LoadsAgain ==
  ASSUME TypesInv, NEW k \in Slots
  PROVE  RoomMade(Again(k), k)
<1>1. Len(sessions) \in Nat
  BY TabFacts
<1>2. PICK c : /\ Again(k) = [ call EXCEPT ![k] = c ]
               /\ CallOK(c, Len(sessions), row.status) /\ IsCall(c) /\ c.from = "page"
  BY <1>1, OpeningOK DEF Again
<1>3. c.from # "form"
  BY <1>2
<1> QED BY <1>2, <1>3, Answered

LEMMA SessionAnswerTypes ==
  ASSUME TypesInv, ShelfInv', UNCHANGED <<row, sessions, stale>>, NEW k \in Slots, page = "detail",
         call[k].at = "done",
         \/ call[k].op = "auction" /\ ShowSession(k)
         \/ call[k].op = "rules" /\ RulesSaved(k)
         \/ call[k].op = "cancel" /\ Cancelled(k)
  PROVE  TypesInv'
<1>1. ShownOK(shown, Len(sessions))
  BY TabFacts
<1>2. /\ call[k].op # "rules" => call[k].from # "form"
      /\ call[k].op = "auction" /\ call[k].ok => call[k].reply.id \in 1..Len(sessions) /\ call[k].reply.rules \in Rules
  BY AnsweredFacts DEF Replied
<1>3. shown = [ view |-> shown.view, session |-> shown.session, editing |-> shown.editing,
                rules |-> shown.rules, busy |-> shown.busy, cancelBox |-> shown.cancelBox,
                failed |-> shown.failed, loading |-> shown.loading ]
  BY <1>1 DEF ShownOK
<1>5. RoomMade(Forget(k), k) /\ RoomMade(Again(k), k)
  BY Forgets, LoadsAgain
<1>7. CASE call[k].op = "auction" /\ ShowSession(k) /\ call[k].ok
  <2>1. PICK new, calls : /\ new = [ shown EXCEPT !.session = call[k].reply ]
                          /\ calls = Forget(k) /\ ShowDetail(new, calls)
    BY <1>7 DEF ShowSession
  <2>2. new = [ view |-> shown.view, session |-> call[k].reply, editing |-> shown.editing, rules |-> shown.rules,
                busy |-> shown.busy, cancelBox |-> shown.cancelBox, failed |-> shown.failed, loading |-> shown.loading ]
    BY <1>3, <2>1
  <2>3. /\ new.view = shown.view /\ new.session = call[k].reply /\ new.editing = shown.editing /\ new.rules = shown.rules
        /\ new.busy = shown.busy /\ new.cancelBox = shown.cancelBox /\ new.failed = shown.failed /\ new.loading = shown.loading
    BY <2>2
  <2>4. new = [ view |-> new.view, session |-> new.session, editing |-> new.editing, rules |-> new.rules,
                busy |-> new.busy, cancelBox |-> new.cancelBox, failed |-> new.failed, loading |-> new.loading ]
    BY <2>2, <2>3
  <2>5. ShownOK(new, Len(sessions))
    BY <1>1, <1>2, <1>7, <2>3, <2>4 DEF ShownOK
  <2>6. /\ call[k].from # "form" => new.busy = shown.busy
        /\ call[k].from = "form" => ~new.busy \/ ~OnScreen(new)
    BY <1>1, <1>2, <1>7, <2>3 DEF OnScreen, ShownOK
  <2>7. RoomMade(calls, k)
    BY <1>5, <2>1
  <2> QED BY <2>1, <2>5, <2>6, <2>7, DetailAnswered
<1>8. CASE call[k].op = "auction" /\ ShowSession(k) /\ ~call[k].ok
  <2>1. PICK new, calls : /\ new = [ shown EXCEPT !.failed = TRUE ]
                          /\ calls = Forget(k) /\ ShowDetail(new, calls)
    BY <1>8 DEF ShowSession
  <2>2. new = [ view |-> shown.view, session |-> shown.session, editing |-> shown.editing, rules |-> shown.rules,
                busy |-> shown.busy, cancelBox |-> shown.cancelBox, failed |-> TRUE, loading |-> shown.loading ]
    BY <1>3, <2>1
  <2>3. /\ new.view = shown.view /\ new.session = shown.session /\ new.editing = shown.editing /\ new.rules = shown.rules
        /\ new.busy = shown.busy /\ new.cancelBox = shown.cancelBox /\ new.failed = TRUE /\ new.loading = shown.loading
    BY <2>2
  <2>4. new = [ view |-> new.view, session |-> new.session, editing |-> new.editing, rules |-> new.rules,
                busy |-> new.busy, cancelBox |-> new.cancelBox, failed |-> new.failed, loading |-> new.loading ]
    BY <2>2, <2>3
  <2>5. ShownOK(new, Len(sessions))
    BY <1>1, <1>2, <1>8, <2>3, <2>4 DEF ShownOK
  <2>6. /\ call[k].from # "form" => new.busy = shown.busy
        /\ call[k].from = "form" => ~new.busy \/ ~OnScreen(new)
    BY <1>1, <1>2, <1>8, <2>3 DEF OnScreen, ShownOK
  <2>7. RoomMade(calls, k)
    BY <1>5, <2>1
  <2> QED BY <2>1, <2>5, <2>6, <2>7, DetailAnswered
<1>9. CASE call[k].op = "rules" /\ RulesSaved(k) /\ call[k].ok
  <2>1. PICK new, calls : /\ new = [ shown EXCEPT !.editing = FALSE, !.failed = FALSE ]
                          /\ calls = Again(k) /\ ShowDetail(new, calls)
    BY <1>9 DEF RulesSaved
  <2>2. new = [ view |-> shown.view, session |-> shown.session, editing |-> FALSE, rules |-> shown.rules,
                busy |-> shown.busy, cancelBox |-> shown.cancelBox, failed |-> FALSE, loading |-> shown.loading ]
    BY <1>3, <2>1
  <2>3. /\ new.view = shown.view /\ new.session = shown.session /\ new.editing = FALSE /\ new.rules = shown.rules
        /\ new.busy = shown.busy /\ new.cancelBox = shown.cancelBox /\ new.failed = FALSE /\ new.loading = shown.loading
    BY <2>2
  <2>4. new = [ view |-> new.view, session |-> new.session, editing |-> new.editing, rules |-> new.rules,
                busy |-> new.busy, cancelBox |-> new.cancelBox, failed |-> new.failed, loading |-> new.loading ]
    BY <2>2, <2>3
  <2>5. ShownOK(new, Len(sessions))
    BY <1>1, <1>2, <1>9, <2>3, <2>4 DEF ShownOK
  <2>6. /\ call[k].from # "form" => new.busy = shown.busy
        /\ call[k].from = "form" => ~new.busy \/ ~OnScreen(new)
    BY <1>1, <1>2, <1>9, <2>3 DEF OnScreen, ShownOK
  <2>7. RoomMade(calls, k)
    BY <1>5, <2>1
  <2> QED BY <2>1, <2>5, <2>6, <2>7, DetailAnswered
<1>10. CASE call[k].op = "rules" /\ RulesSaved(k) /\ ~call[k].ok
  <2>1. PICK new, calls : /\ new = [ shown EXCEPT !.busy = shown.busy /\ call[k].from # "form" ]
                          /\ calls = Forget(k) /\ ShowDetail(new, calls)
    BY <1>10 DEF RulesSaved
  <2>2. new = [ view |-> shown.view, session |-> shown.session, editing |-> shown.editing, rules |-> shown.rules,
                busy |-> (shown.busy /\ call[k].from # "form"), cancelBox |-> shown.cancelBox, failed |-> shown.failed, loading |-> shown.loading ]
    BY <1>3, <2>1
  <2>3. /\ new.view = shown.view /\ new.session = shown.session /\ new.editing = shown.editing /\ new.rules = shown.rules
        /\ new.busy = (shown.busy /\ call[k].from # "form") /\ new.cancelBox = shown.cancelBox /\ new.failed = shown.failed /\ new.loading = shown.loading
    BY <2>2
  <2>4. new = [ view |-> new.view, session |-> new.session, editing |-> new.editing, rules |-> new.rules,
                busy |-> new.busy, cancelBox |-> new.cancelBox, failed |-> new.failed, loading |-> new.loading ]
    BY <2>2, <2>3
  <2>5. ShownOK(new, Len(sessions))
    BY <1>1, <1>2, <1>10, <2>3, <2>4 DEF ShownOK
  <2>6. /\ call[k].from # "form" => new.busy = shown.busy
        /\ call[k].from = "form" => ~new.busy \/ ~OnScreen(new)
    BY <1>1, <1>2, <1>10, <2>3 DEF OnScreen, ShownOK
  <2>7. RoomMade(calls, k)
    BY <1>5, <2>1
  <2> QED BY <2>1, <2>5, <2>6, <2>7, DetailAnswered
<1>11. CASE call[k].op = "cancel" /\ Cancelled(k) /\ call[k].ok
  <2>1. PICK new, calls : /\ new = [ shown EXCEPT !.cancelBox = FALSE, !.failed = FALSE ]
                          /\ calls = Again(k) /\ ShowDetail(new, calls)
    BY <1>11 DEF Cancelled
  <2>2. new = [ view |-> shown.view, session |-> shown.session, editing |-> shown.editing, rules |-> shown.rules,
                busy |-> shown.busy, cancelBox |-> FALSE, failed |-> FALSE, loading |-> shown.loading ]
    BY <1>3, <2>1
  <2>3. /\ new.view = shown.view /\ new.session = shown.session /\ new.editing = shown.editing /\ new.rules = shown.rules
        /\ new.busy = shown.busy /\ new.cancelBox = FALSE /\ new.failed = FALSE /\ new.loading = shown.loading
    BY <2>2
  <2>4. new = [ view |-> new.view, session |-> new.session, editing |-> new.editing, rules |-> new.rules,
                busy |-> new.busy, cancelBox |-> new.cancelBox, failed |-> new.failed, loading |-> new.loading ]
    BY <2>2, <2>3
  <2>5. ShownOK(new, Len(sessions))
    BY <1>1, <1>2, <1>11, <2>3, <2>4 DEF ShownOK
  <2>6. /\ call[k].from # "form" => new.busy = shown.busy
        /\ call[k].from = "form" => ~new.busy \/ ~OnScreen(new)
    BY <1>1, <1>2, <1>11, <2>3 DEF OnScreen, ShownOK
  <2>7. RoomMade(calls, k)
    BY <1>5, <2>1
  <2> QED BY <2>1, <2>5, <2>6, <2>7, DetailAnswered
<1>12. CASE call[k].op = "cancel" /\ Cancelled(k) /\ ~call[k].ok
  <2>1. PICK calls : calls = Forget(k) /\ ShowDetail(shown, calls)
    BY <1>12 DEF Cancelled
  <2>2. RoomMade(calls, k) /\ call[k].from # "form"
    BY <1>2, <1>5, <1>12, <2>1
  <2> QED BY <1>1, <2>1, <2>2, DetailAnswered
<1> QED BY <1>7, <1>8, <1>9, <1>10, <1>11, <1>12

(* The next page is opened, or an error ends the waiting of its form.      *)
LEMMA SavedTypes ==
  ASSUME TypesInv, ShelfInv', UNCHANGED <<row, sessions, stale>>, NEW k \in Slots,
         call[k].at = "done", Saved(k)
  PROVE  TypesInv'
<1>1. ShownOK(shown, Len(sessions)) /\ PageOK(page, shown, form) /\ FormOK
  BY TabFacts
<1>2. CASE call[k].ok /\ page # Target(call[k].op)
  <2> DEFINE p == Target(call[k].op)
  <2>4. p \in Pages
    BY DEF Target, Pages
  <2> HIDE DEF p
  <2>1. PICK calls : calls = Forget(k) /\ Enter(p, calls)
    BY <1>2 DEF Saved, p
  <2>2. IsCalls(calls) /\ CallsOK(calls, Len(sessions), row.status)
    BY <2>1, Forgets DEF RoomMade
  <2> QED BY <2>1, <2>2, <2>4, EnterStep
<1>3. CASE ~(call[k].ok /\ page # Target(call[k].op)) /\ call[k].from # "form"
  <2>1. call' = Forget(k) /\ UNCHANGED <<page, shown, form, upload>>
    BY <1>3 DEF Saved
  <2>2. UNCHANGED tab \/ filter' # filter
    BY <2>1 DEF tab, formVars
  <2>3. CallsOK(call', Len(sessions), row.status) /\ CallsFit(call', page', shown', form')
    BY <1>3, <2>1, Forgotten
  <2>4. ShownOK(shown', Len(sessions)) /\ PageOK(page', shown', form') /\ FormOK'
    BY <1>1, <2>1 DEF FormOK, FormTypeOK
  <2> QED BY <2>3, <2>4, TabStep
<1>4. CASE ~(call[k].ok /\ page # Target(call[k].op)) /\ call[k].from = "form"
  <2>1. /\ call' = Forget(k) /\ UNCHANGED <<page, upload>>
        /\ form' = IF form # None THEN [ form EXCEPT !.saving = FALSE ] ELSE form
        /\ shown' = [ shown EXCEPT !.busy = FALSE ]
    BY <1>4 DEF Saved
  <2>2. PICK busy \in BOOLEAN : ~busy /\ shown' = [ shown EXCEPT !.busy = busy ]
    BY <2>1
  <2>3. shown' = [ view |-> shown.view, session |-> shown.session, editing |-> shown.editing,
                   rules |-> shown.rules, busy |-> busy, cancelBox |-> shown.cancelBox,
                   failed |-> shown.failed, loading |-> shown.loading ]
    BY <1>1, <2>2 DEF ShownOK
  <2>4. ShownOK(shown', Len(sessions)) /\ shown'.busy = busy
    BY <1>1, <2>2, <2>3 DEF ShownOK
  <2>5. PageOK(page', shown', form') /\ (form' = None <=> form = None)
        /\ (form # None => form' \in Fields /\ form' # None /\ ~form'.saving)
    <3>1. form # None => form' \in Fields /\ form' # None /\ ~form'.saving
      <4>1. ASSUME form # None
            PROVE  form' \in Fields /\ form' # None /\ ~form'.saving
        <5>1. PICK saving \in BOOLEAN : ~saving /\ form' = [ form EXCEPT !.saving = saving ]
          BY <2>1, <4>1
        <5>2. form' = [ cover |-> form.cover, images |-> form.images, saving |-> saving ]
              /\ form.cover \in Pictures \cup {None} /\ form.images \in Seq(Pictures)
          BY <1>1, <4>1, <5>1, FormShape
        <5>3. form' \in Fields /\ form' # None
          BY <5>2, MakesFields
        <5> QED BY <5>1, <5>2, <5>3
      <4> QED BY <4>1
    <3>2. form' = None <=> form = None
      BY <2>1, <3>1
    <3>3. PageOK(page', shown', form')
      BY <1>1, <2>1, <2>3, <3>2 DEF PageOK, OnScreen
    <3> QED BY <3>1, <3>2, <3>3
  <2>6. FormOK'
    <3>1. CASE form = None
      BY <1>1, <2>1, <3>1 DEF FormOK, FormTypeOK
    <3>2. CASE form # None
      BY <1>1, <2>1, <2>5, <3>2 DEF FormOK, FormTypeOK
    <3> QED BY <3>1, <3>2
  <2>7. ~Waits(shown', form')
    BY <2>2, <2>4, <2>5 DEF Waits
  <2>8. CallsOK(call', Len(sessions), row.status) /\ CallsFit(call', page', shown', form')
    BY <1>4, <2>1, <2>5, <2>7, Forgotten
  <2> QED BY <2>4, <2>5, <2>6, <2>8, TabStep
<1> QED BY <1>2, <1>3, <1>4

LEMMA AnswerTypes ==
  ASSUME TypesInv, ShelfInv', NEW k \in Slots, Answer(k)
  PROVE  TypesInv'
<1>1. UNCHANGED <<row, sessions, stale>> /\ call[k].at = "done"
  BY DEF Answer, database
<1>2. CASE call[k].op \in { "create", "edit", "delete", "publish" } /\ Saved(k)
  BY <1>1, <1>2, SavedTypes
<1>3. CASE call[k].from \in { "form", "page" } /\ call[k].op = "list" /\ ShowList(k)
  BY <1>1, <1>3, ShowListTypes
<1>4. CASE call[k].from \in { "form", "page" } /\ call[k].op = "get" /\ page = "detail" /\ ShowProduct(k)
  BY <1>1, <1>4, ShowProductTypes
<1>5. CASE call[k].from \in { "form", "page" } /\ call[k].op = "get" /\ page # "detail" /\ ShowForm(k)
  BY <1>1, <1>5, ShowFormTypes
<1>6. CASE /\ call[k].from \in { "form", "page" }
           /\ \/ call[k].op = "auction" /\ ShowSession(k)
              \/ call[k].op = "rules" /\ RulesSaved(k)
              \/ call[k].op = "cancel" /\ Cancelled(k)
  <2>1. page = "detail"
    BY <1>1, <1>6, AnsweredFacts
  <2> QED BY <1>1, <1>6, <2>1, SessionAnswerTypes
<1>7. CASE call[k].from \notin { "form", "page" } /\ call' = Forget(k) /\ UNCHANGED tab
  BY <1>1, <1>7, AnotherTabTypes
<1> QED BY <1>2, <1>3, <1>4, <1>5, <1>6, <1>7 DEF Answer

--------------------------------------------------------------------------------
(* Every step                                                              *)

LEMMA TypesInit ==
  ASSUME Init
  PROVE  TypesInv
<1>1. ShelfInv
  BY ShelfInit
<1>2. Len(sessions) \in Nat /\ DOMAIN sessions = 1..Len(sessions)
  BY <1>1, SessionFacts DEF ShelfInv, CatalogueTypes
<1>3. DataOK
  <2>1. row.body \in Bodies \cup {None} /\ (row.status # "none" => row.body \in Bodies)
    <3>1. CASE row = [ status |-> "none", body |-> None ]
      BY <3>1
    <3>2. ASSUME NEW p \in Pictures, NEW b, b = [ cover |-> p, images |-> <<p>> ],
                 row \in [ status : {"draft", "listed"}, body : {b} ]
          PROVE  row.body \in Bodies \cup {None} /\ (row.status # "none" => row.body \in Bodies)
      <4>1. <<p>> \in Seq(Pictures) \ {<<>>}
        BY OnePicture
      <4>2. b \in Bodies
        BY <3>2, <4>1 DEF Bodies
      <4> QED BY <3>2, <4>2
    <3> QED BY <3>1, <3>2 DEF Init
  <2>2. \A i \in DOMAIN sessions : sessions[i].rules \in Rules
    <3>1. CASE sessions = <<>>
      BY <3>1
    <3>2. ASSUME NEW s, NEW r \in Rules, sessions = << [ status |-> s, rules |-> r ] >>
          PROVE  \A i \in DOMAIN sessions : sessions[i].rules \in Rules
      BY <3>2
    <3> QED BY <3>1, <3>2 DEF Init
  <2>3. row.status = "none" => DOMAIN sessions = {}
    <3>1. row.status = "listed" <=> sessions # <<>>
      BY DEF Init
    <3> QED BY <3>1
  <2>4. stale = {}
    BY DEF Init
  <2> QED BY <2>1, <2>2, <2>3, <2>4 DEF DataOK
<1>4. /\ page \in Pages /\ shown = Blank /\ upload = NoUpload
      /\ form = IF page = "new" THEN EmptyForm ELSE None
  <2>1. page \in Pages
    BY DEF Init, Pages
  <2> QED BY <2>1 DEF Init
<1>5. ShownOK(shown, Len(sessions)) /\ PageOK(page, shown, form) /\ FormOK /\ ~Waits(shown, form)
  BY <1>2, <1>4, BlankFacts, EmptyFormFacts DEF PageOK, FormOK, FormTypeOK, Waits
<1>6. PICK first \in Slots : \E c : /\ c \in { Opening(page), NoCall }
                                    /\ call = [ k \in Slots |-> IF k = first THEN c ELSE NoCall ]
  <2>1. PICK first \in Slots :
          call = [ k \in Slots |-> IF k = first /\ page # "new" THEN Opening(page) ELSE NoCall ]
    BY DEF Init
  <2>2. CASE page = "new"
    <3>1. call = [ k \in Slots |-> IF k = first THEN NoCall ELSE NoCall ]
      BY <2>1, <2>2
    <3> QED BY <3>1
  <2>3. CASE page # "new"
    <3>1. call = [ k \in Slots |-> IF k = first THEN Opening(page) ELSE NoCall ]
      BY <2>1, <2>3
    <3> QED BY <3>1
  <2> QED BY <2>2, <2>3
<1>7. PICK c : /\ c \in { Opening(page), NoCall }
               /\ call = [ k \in Slots |-> IF k = first THEN c ELSE NoCall ]
  BY <1>6
<1>8. /\ CallOK(c, Len(sessions), row.status) /\ c.from \in { "page", "left" } /\ c.op \in { "list", "get" }
      /\ CallOK(NoCall, Len(sessions), row.status) /\ NoCall.from = "left"
  BY <1>2, <1>7, OpeningOK, NoCallOK
<1>9. CallsOK(call, Len(sessions), row.status)
  BY <1>7, <1>8 DEF CallsOK
<1>10. /\ \A k \in Slots : call[k].from \in { "page", "left" }
       /\ call[first].op \in { "list", "get" }
       /\ \A k \in Slots \ {first} : call[k].from = "left"
  BY <1>6, <1>7, <1>8
<1>11. FromForm(call) = {} /\ Loading(call) \subseteq {first}
  BY <1>10 DEF FromForm, Loading
<1>12. page = "edit" => form = None
  BY <1>4
<1>13. CallsFit(call, page, shown, form)
  BY <1>5, <1>6, <1>10, <1>11, <1>12 DEF CallsFit
<1> QED BY <1>1, <1>3, <1>5, <1>9, <1>13 DEF TypesInv, TabOK

LEMMA TypesStep ==
  ASSUME TypesInv, [Next]_vars
  PROVE  TypesInv'
<1>1. ShelfInv'
  BY StepKeeps DEF TypesInv
<1>2. CASE UNCHANGED vars
  <2>1. UNCHANGED <<row, sessions, stale, page, shown, form, upload, call>>
    BY <1>2 DEF vars, database, tab, formVars
  <2>2. CallsOK(call', Len(sessions), row.status) /\ CallsFit(call', page', shown', form')
    BY <2>1, TabFacts
  <2>3. ShownOK(shown', Len(sessions)) /\ PageOK(page', shown', form') /\ FormOK'
    BY <2>1, TabFacts DEF FormOK, FormTypeOK
  <2> QED BY <1>1, <2>1, <2>2, <2>3, TabStep
<1>3. CASE BidOrSettle \/ Sell
  BY <1>1, <1>3, BidTypes, SellTypes
<1>4. CASE Follow \/ Act \/ UploadReturns
  BY <1>1, <1>4, FollowTypes, ActTypes, UploadReturnsTypes
<1>5. ASSUME NEW k \in Slots, Serve(k) \/ Lose(k) \/ Answer(k)
      PROVE  TypesInv'
  BY <1>1, <1>5, ServeTypes, LoseTypes, AnswerTypes
<1> QED BY <1>2, <1>3, <1>4, <1>5 DEF Next

LEMMA TypesTell ==
  ASSUME TypesInv
  PROVE  TypeOK
<1>1. /\ ShelfInv /\ DataOK /\ CallsOK(call, Len(sessions), row.status)
      /\ ShownOK(shown, Len(sessions)) /\ PageOK(page, shown, form) /\ FormOK /\ CallsFit(call, page, shown, form)
  BY TabFacts
<1>2. row.status \in Statuses /\ row.body \in Bodies \cup {None}
      /\ settling \subseteq DOMAIN sessions
      /\ stale \subseteq Overwriting \cup { "cancel", "settle" }
  BY <1>1 DEF ShelfInv, CatalogueTypes, DataOK
<1>3. sessions \in Seq(Sessions)
  <2>1. PICK S : sessions \in Seq(S)
    BY <1>1 DEF ShelfInv, CatalogueTypes, IsSessions
  <2>2. sessions \in [ 1..Len(sessions) -> S ] /\ Len(sessions) \in Nat /\ DOMAIN sessions = 1..Len(sessions)
    BY <2>1
  <2>3. ASSUME NEW i \in DOMAIN sessions
        PROVE  sessions[i] \in Sessions
    <3>1. IsSession(sessions[i]) /\ sessions[i].rules \in Rules
      BY <1>1, SessionFacts DEF ShelfInv, CatalogueTypes, DataOK
    <3> QED BY <3>1 DEF IsSession, Progress, Sessions
  <2>4. sessions \in [ 1..Len(sessions) -> Sessions ]
    BY <2>2, <2>3
  <2> QED BY <2>2, <2>4, SeqDef
<1>4. ASSUME NEW k \in Slots
      PROVE  /\ call[k].at \in { "idle", "sent", "half", "third", "done" } /\ call[k].op \in Ops
             /\ call[k].from \in { "form", "page", "left", "other" }
             /\ call[k].item \in 0..Len(sessions)
  BY <1>1 DEF ShelfInv, CatalogueTypes, IsCalls, IsCall, Ats, CallsOK, CallOK
<1>5. page \in Pages /\ shown.view \in Views \cup {None} /\ shown.rules \in Rules \cup {None} /\ FormTypeOK
      /\ (form # None => page \in { "new", "edit" })
  BY <1>1 DEF PageOK, ShownOK, FormOK
<1>6. (shown.busy \/ (form # None /\ form.saving)) <=> \E k \in Slots : call[k].from = "form"
  BY <1>1 DEF CallsFit, Waits, FromForm
<1> QED BY <1>2, <1>3, <1>4, <1>5, <1>6 DEF TypeOK

(* For any number of sessions, requests and faults: what the pages ask     *)
(* for, are answered and show is of its kind; a form waits exactly as long *)
(* as the request that it sent is under way, and there is never more than  *)
(* one form on screen.                                                     *)
THEOREM FormsWait == Spec => []TypeOK
<1>1. Init => TypesInv
  BY TypesInit
<1>2. TypesInv /\ [Next]_vars => TypesInv'
  BY TypesStep
<1>3. TypesInv => TypeOK
  BY TypesTell
<1> QED BY <1>1, <1>2, <1>3, PTL DEF Spec

--------------------------------------------------------------------------------
(* Uploads                                                                 *)

(* A button starts an upload where there is none.                          *)
LEMMA ButtonKeeps ==
  ASSUME FormOK, form # None, Change
  PROVE  PicturesKept
<1>1. /\ upload = [ cover |-> upload.cover, gallery |-> upload.gallery ]
  BY UploadShape DEF FormOK, FormTypeOK
<1>2. CASE TypeCover \/ TypeImages
  BY <1>2 DEF TypeCover, TypeImages, PicturesKept
<1>3. CASE UploadCover
  <2>1. PICK p \in Pictures : upload' = [ upload EXCEPT !.cover = p ]
    BY <1>3 DEF UploadCover
  <2>2. upload.cover = None /\ form' = form /\ upload'.gallery = upload.gallery
    BY <1>1, <1>3, <2>1 DEF UploadCover
  <2> QED BY <2>2 DEF PicturesKept
<1>4. CASE UploadGallery
  <2>1. PICK g : upload' = [ upload EXCEPT !.gallery = g ]
    BY <1>4 DEF UploadGallery
  <2>2. upload.gallery = None /\ form' = form /\ upload'.cover = upload.cover
    BY <1>1, <1>4, <2>1 DEF UploadGallery
  <2> QED BY <2>2 DEF PicturesKept
<1> QED BY <1>2, <1>3, <1>4 DEF Change

(* Where uploads change, so do the fields, by the answer of one; or the    *)
(* form goes.                                                              *)
LEMMA StepKeepsPictures ==
  ASSUME TypesInv, faults \in Nat, Next
  PROVE  PicturesKept
<1>1. PageOK(page, shown, form) /\ FormOK
  BY TabFacts
<1>2. CASE upload' = upload \/ form = None \/ form' = None
  BY <1>2 DEF PicturesKept
<1>3. CASE BidOrSettle \/ Sell
  BY <1>2, <1>3 DEF BidOrSettle, Sell, tab, formVars
<1>4. CASE Follow
  <2>1. PICK p \in Links : Enter(p, call)
    BY <1>4 DEF Follow
  <2>2. form # None => p # "new"
    BY <1>1, LinksFacts DEF PageOK
  <2>3. form # None => form' = None
    BY <2>1, <2>2 DEF Enter
  <2> QED BY <1>2, <2>3
<1>5. CASE Act
  <2>1. CASE Change
    BY <1>1, <2>1, ButtonKeeps DEF Change
  <2>2. CASE ~Change
    BY <1>2, <1>5, <2>2 DEF Act, Reload, UnfoldRules, ShowDetail, UnfoldCancel, PressCancel, PressDelete, ChangeRules,
                            SubmitRules, SubmitProduct, PublishElsewhere, tab, formVars
  <2> QED BY <2>1, <2>2
<1>6. CASE UploadReturns
  <2>1. form # None /\ (CoverReturns \/ GalleryReturns \/ UploadFails)
    BY <1>6 DEF UploadReturns
  <2>2. UploadAnswers
    BY <1>1, <2>1, ReturnTypes
  <2>3. faults' = faults => CoverReturns \/ GalleryReturns
    BY <1>6 DEF UploadReturns, Fault
  <2> QED BY <2>2, <2>3 DEF UploadAnswers, PicturesKept
<1>7. ASSUME NEW k \in Slots, Serve(k) \/ Lose(k)
      PROVE  PicturesKept
  BY <1>2, <1>7 DEF Serve, Lose, tab, formVars
<1>8. ASSUME NEW k \in Slots, Answer(k)
      PROVE  PicturesKept
  <2>1. CASE Saved(k)
    <3>1. ASSUME NEW calls, Enter(Target(call[k].op), calls)
          PROVE  form' = None
      BY <3>1 DEF Enter, Target
    <3> QED BY <1>2, <2>1, <3>1 DEF Saved
  <2>2. CASE ~Saved(k)
    BY <1>2, <1>8, <2>2 DEF Answer, ShowList, ShowProduct, ShowSession, ShowForm, RulesSaved, Cancelled,
                            ShowDetail, tab, formVars
  <2> QED BY <2>1, <2>2
<1> QED BY <1>3, <1>4, <1>5, <1>6, <1>7, <1>8 DEF Next

FaultsCounted == faults \in Nat

LEMMA FaultsStep ==
  ASSUME FaultsCounted, [Next]_vars
  PROVE  FaultsCounted'
<1>1. \/ faults' = faults
      \/ Fault
  <2>1. CASE BidOrSettle \/ Sell \/ Follow \/ Act \/ UploadReturns
    BY <2>1 DEF BidOrSettle, Sell, Follow, Act, UploadReturns
  <2>2. CASE \E k \in Slots : Serve(k) \/ Lose(k) \/ Answer(k)
    BY <2>2 DEF Serve, Lose, Answer, bounds
  <2>3. CASE UNCHANGED vars
    BY <2>3 DEF vars, bounds
  <2> QED BY <2>1, <2>2, <2>3 DEF Next
<1> QED BY <1>1 DEF Fault, FaultsCounted

(* For any pictures, galleries of any length and faults: the answers of    *)
(* uploads, whenever and in whatever order they come, lose none of the     *)
(* gallery's pictures and bring their own; a cover is lost only to its own *)
(* upload or to a gallery whose button was pressed on a form without one.  *)
THEOREM PicturesStay == Spec => UploadsAreKept
<1>1. Init => TypesInv /\ FaultsCounted
  BY TypesInit DEF Init, FaultsCounted
<1>2. TypesInv /\ FaultsCounted /\ [Next]_vars => (TypesInv /\ FaultsCounted)'
  BY TypesStep, FaultsStep
<1>3. TypesInv /\ FaultsCounted /\ [Next]_vars => [PicturesKept]_vars
  BY StepKeepsPictures DEF FaultsCounted
<1> QED BY <1>1, <1>2, <1>3, PTL DEF Spec, UploadsAreKept
================================================================================
