-------------------------------- MODULE Catalogue --------------------------------
(***************************************************************************)
(* One product, its auction sessions, and the seller's pages for it: the   *)
(* list, the new product, the product with its session (ProductDetail),    *)
(* its editing, and the publication of an auction.  One browser tab shows  *)
(* one of the pages; a page that is left forgets what it showed, but what  *)
(* it asked for goes on, and may still take the tab to another page.       *)
(*                                                                         *)
(* Another tab or a live room's console publishes the product, too, and    *)
(* buyers bid.  A handler that decides by what it read and then writes is  *)
(* two steps or three, its reads being one of them.  A bid is one          *)
(* transaction, also the one that buys; a settlement of the worker or the  *)
(* console marks the session, then the product (AuctionSession has their   *)
(* reads, prices and orders).                                              *)
(***************************************************************************)
EXTENDS ProductForm, FiniteSets

CONSTANTS
  Rules,        \* the auction rules a seller may choose
  Filters,      \* the filters of the list that are tried
  Slots,        \* bound: requests under way at once
  MaxSessions,  \* bound: sessions of the product
  MaxBids,      \* bound: bids and settlements
  MaxPresses,   \* bound: what the seller and the other tab do
  MaxFaults     \* bound: requests that break off or are lost, uploads that fail

ASSUME CatalogueAssumption ==
  /\ None \notin Rules /\ Rules # {}
  /\ {MaxSessions, MaxBids, MaxPresses, MaxFaults} \subseteq Nat

VARIABLES
  row,       \* the product: its status and what the form has saved
  sessions,  \* its sessions, oldest first
  settling,  \* those marked settled whose product has yet to be
  call,      \* call[k]: a request under way
  page,      \* the page in the tab
  filter,    \* the list's filter
  shown,     \* what the page shows
  stale,     \* history: handlers that wrote after what they read had changed,
             \* or broke off half-way
  bids, presses, faults   \* bounds: how many so far

database == <<row, sessions, settling>>
tab      == <<page, filter, shown, formVars>>
bounds   == <<bids, presses, faults>>
vars     == <<database, call, tab, stale, bounds>>

--------------------------------------------------------------------------------
(* The product and its sessions                                            *)

(* A product is not made yet or deleted, or it has one of the code's       *)
(* statuses.                                                               *)
Absent   == { "none", "gone" }
Statuses == Absent \cup { "draft", "listed", "auctioning", "sold", "off_shelf" }
Open     == { "pending", "running" }
Sessions == [ status : Open \cup { "settled", "cancelled" }, rules : Rules ]

SomeAre(s) == \E i \in DOMAIN sessions : sessions[i].status = s
HasActive == \E i \in DOMAIN sessions : sessions[i].status \in Open

(* A product is shown with its newest open session or else its newest.     *)
PickSession ==
  LET open == { i \in DOMAIN sessions : sessions[i].status \in Open }
  IN  IF open # {} THEN CHOOSE i \in open : \A j \in open : j <= i ELSE Len(sessions)

Views == [ status : Statuses \ Absent, body : Bodies, auction : Nat,
           progress : Open \cup { "settled", "cancelled", "none" } ]

View == [ status |-> row.status, body |-> row.body, auction |-> PickSession,
          progress |-> IF PickSession = 0 THEN "none" ELSE sessions[PickSession].status ]

(* The list filters by product status at the server, by session status in  *)
(* the page.                                                               *)
Matches(view, f) == f.status \in {"any", view.status} /\ f.progress \in {"any", view.progress}

SetStatus(s) == row' = [ row EXCEPT !.status = s ]
SetSession(i, s) == sessions' = [ sessions EXCEPT ![i].status = s ]

--------------------------------------------------------------------------------
(* Requests                                                                *)

Ops   == { "get", "auction", "list", "create", "edit", "delete", "publish", "rules", "cancel" }
Pages == { "list", "new", "detail", "edit", "publish" }

(* A request is idle, sent, between the steps of its handler, or done.     *)
(* from is where it was sent: a form that is still on screen, a page that  *)
(* still is though the form is not, a page that was left, or elsewhere.    *)
NoCall == [ at |-> "idle", op |-> "get", from |-> "left", item |-> 0, arg |-> None,
            seen |-> None, ok |-> TRUE, reply |-> None ]

Asked(op, from, item, arg) ==
  [ NoCall EXCEPT !.at = "sent", !.op = op, !.from = from, !.item = item, !.arg = arg ]

UnderWay(op) == { k \in Slots : call[k].at # "idle" /\ call[k].op = op }
Idle(k) == call[k].at = "idle"
Fault == faults < MaxFaults /\ faults' = faults + 1

Press == presses < MaxPresses /\ presses' = presses + 1

(* The first bid takes the product into auction; one at the cap buys it.   *)
Bid(i) ==
  /\ sessions[i].status \in Open
  /\ \/ sessions[i].status = "pending" /\ SetSession(i, "running") /\ SetStatus("auctioning")
     \/ SetSession(i, "settled") /\ SetStatus("sold")
  /\ UNCHANGED settling

(* A session that has been bid on is settled; its product follows, unless  *)
(* the settlement breaks off or fails there: nobody asks for the error.    *)
Settle(i) ==
  /\ sessions[i].status = "running" /\ SetSession(i, "settled")
  /\ settling' = settling \cup {i}
  /\ UNCHANGED row

BidOrSettle ==
  /\ bids < MaxBids /\ bids' = bids + 1
  /\ \E i \in DOMAIN sessions : Bid(i) \/ Settle(i)
  /\ UNCHANGED <<call, tab, stale, presses, faults>>

Sell ==
  /\ \E i \in settling : settling' = settling \ {i}
  /\ \/ SetStatus("sold") /\ UNCHANGED <<stale, faults>>
     \/ Fault /\ stale' = stale \cup {"settle"} /\ UNCHANGED row
  /\ UNCHANGED <<sessions, call, tab, bids, presses>>

--------------------------------------------------------------------------------
(* The handlers (ProductService, AuctionService)                           *)

Done(k, ok, reply) ==
  call' = [ call EXCEPT ![k].at = "done", ![k].ok = ok, ![k].reply = reply, ![k].seen = None ]
Halfway(k, at, seen) == call' = [ call EXCEPT ![k].at = at, ![k].seen = seen ]

(* Writes that crossed another one, by kind.                               *)
Overwriting == { "edit", "delete", "publish", "relist" }

Seen == [ status |-> row.status, active |-> HasActive ]
Overtaken(op, now, seen) == stale' = IF now = seen THEN stale ELSE stale \cup {op}

Get(k) ==
  /\ Done(k, row.status \notin Absent, IF row.status \in Absent THEN None ELSE View)
  /\ UNCHANGED <<database, stale>>

GetAuction(k) ==
  /\ Done(k, TRUE, [ id |-> call[k].item, status |-> sessions[call[k].item].status,
                     rules |-> sessions[call[k].item].rules ])
  /\ UNCHANGED <<database, stale>>

ListProducts(k) ==
  /\ Done(k, TRUE, IF row.status \in Absent \/ ~Matches(View, call[k].arg) THEN None ELSE View)
  /\ UNCHANGED <<database, stale>>

Create(k) ==
  /\ row' = [ status |-> "draft", body |-> call[k].arg ]
  /\ Done(k, TRUE, None)
  /\ UNCHANGED <<sessions, stale>>

(* Editing writes the whole row back, with the status it has read.  An     *)
(* UPDATE that changes nothing (not the name either, which is left out)    *)
(* counts as one that found nothing.                                       *)
CheckEdit(k) ==
  /\ IF row.status \in Absent \cup {"auctioning", "sold"}
     THEN Done(k, FALSE, None)
     ELSE Halfway(k, "half", row.status)
  /\ UNCHANGED <<database, stale>>

WriteEdit(k) ==
  LET new == [ status |-> call[k].seen, body |-> call[k].arg ]
  IN  \E renamed \in BOOLEAN :
        LET found == row.status # "gone" /\ (row # new \/ renamed)
        IN  /\ row' = IF found THEN new ELSE row
            /\ Done(k, found, None)
            /\ Overtaken("edit", row.status, call[k].seen)
            /\ UNCHANGED sessions

(* A draft is deleted, unless a session refers to it; anything else that   *)
(* has no open session is taken off the shelf.                             *)
CheckDelete(k) ==
  /\ IF \/ row.status \in Absent \cup {"auctioning", "sold"}
        \/ row.status # "draft" /\ HasActive
     THEN Done(k, FALSE, None)
     ELSE Halfway(k, "half", Seen)
  /\ UNCHANGED <<database, stale>>

WriteDelete(k) ==
  LET target == IF call[k].seen.status = "draft" THEN "gone" ELSE "off_shelf"
      found == /\ row.status \notin {"gone", target}
               /\ target = "gone" => sessions = <<>>
  IN  /\ row' = IF found THEN [ row EXCEPT !.status = target ] ELSE row
      /\ Done(k, found, None)
      /\ Overtaken("delete", Seen, call[k].seen)
      /\ UNCHANGED sessions

(* (Mutant: whatever its status is.)                                       *)
PublishableUnlessGone == row.status \notin Absent
Publishable == row.status \in {"draft", "listed"}

CheckPublish(k) ==
  /\ IF Publishable /\ ~HasActive THEN Halfway(k, "half", Seen) ELSE Done(k, FALSE, None)
  /\ UNCHANGED <<database, stale>>

InsertSession(k) ==
  \/ /\ row.status # "gone"
     /\ Len(sessions) < MaxSessions
     /\ sessions' = Append(sessions, [ status |-> "pending", rules |-> call[k].arg ])
     /\ IF call[k].seen.status = "draft" THEN Halfway(k, "third", None) ELSE Done(k, TRUE, None)
     /\ Overtaken("publish", Seen, call[k].seen)
     /\ UNCHANGED row
  \/ /\ row.status = "gone"
     /\ Done(k, FALSE, None)
     /\ UNCHANGED <<database, stale>>

ListDraft(k) ==
  /\ SetStatus("listed")
  /\ Done(k, TRUE, None)
  /\ Overtaken("publish", row.status, "draft")
  /\ UNCHANGED sessions

(* Rules change while nobody has bid.  (Mutant: nobody had, at the read.)  *)
UnbidAnyway(i) == TRUE
Unbid(i) == sessions[i].status = "pending"

CheckRules(k) ==
  /\ IF sessions[call[k].item].status = "pending" THEN Halfway(k, "half", None) ELSE Done(k, FALSE, None)
  /\ UNCHANGED <<database, stale>>

WriteRules(k) ==
  LET i == call[k].item
      found == Unbid(i) /\ sessions[i].rules # call[k].arg
  IN  /\ sessions' = IF found THEN [ sessions EXCEPT ![i].rules = call[k].arg ] ELSE sessions
      /\ Done(k, found, None)
      /\ UNCHANGED <<row, stale>>

Cancel(k) ==
  LET i == call[k].item
  IN  /\ IF sessions[i].status \in Open
         THEN SetSession(i, "cancelled") /\ Halfway(k, "half", None)
         ELSE Done(k, FALSE, None) /\ UNCHANGED sessions
      /\ UNCHANGED <<row, stale>>

(* A product that is put back may have been taken by a later session.      *)
Taken == HasActive \/ SomeAre("settled")

Relist(k) ==
  /\ IF row.status = "auctioning" THEN SetStatus("listed") ELSE UNCHANGED row
  /\ Done(k, TRUE, None)
  /\ stale' = IF row.status = "auctioning" /\ Taken THEN stale \cup {"relist"} ELSE stale
  /\ UNCHANGED sessions

Handle(k) ==
  LET c == call[k]
  IN  \/ /\ c.at = "sent"
         /\ CASE c.op = "get"     -> Get(k)
              [] c.op = "auction" -> GetAuction(k)
              [] c.op = "list"    -> ListProducts(k)
              [] c.op = "create"  -> Create(k)
              [] c.op = "edit"    -> CheckEdit(k)
              [] c.op = "delete"  -> CheckDelete(k)
              [] c.op = "publish" -> CheckPublish(k)
              [] c.op = "rules"   -> CheckRules(k)
              [] c.op = "cancel"  -> Cancel(k)
      \/ /\ c.at = "half"
         /\ CASE c.op = "edit"    -> WriteEdit(k)
              [] c.op = "delete"  -> WriteDelete(k)
              [] c.op = "publish" -> InsertSession(k)
              [] c.op = "rules"   -> WriteRules(k)
              [] c.op = "cancel"  -> Relist(k)
      \/ c.at = "third" /\ ListDraft(k)

Serve(k) == Handle(k) /\ UNCHANGED <<settling, tab, bounds>>

(* A request or its answer gets lost, or its handler breaks off; what a    *)
(* cancellation had yet to do is left undone then.                         *)
Lose(k) ==
  /\ ~Idle(k) /\ call[k].ok
  /\ Fault
  /\ Done(k, FALSE, None)
  /\ stale' = IF call[k].at = "half" /\ call[k].op = "cancel" THEN stale \cup {"cancel"} ELSE stale
  /\ UNCHANGED <<database, tab, bids, presses>>

--------------------------------------------------------------------------------
(* Pages                                                                   *)

Anything == [ status |-> "any", progress |-> "any" ]
AnyRules == CHOOSE r \in Rules : TRUE

(* On the detail page, editing and cancelBox say whether the rules form    *)
(* and the cancellation were unfolded; rules is what the form holds, if it *)
(* is on screen, and busy whether it waits.                                *)
Blank == [ view |-> None, session |-> None, editing |-> FALSE, rules |-> None, busy |-> FALSE,
           cancelBox |-> FALSE, failed |-> FALSE, loading |-> TRUE ]

Opening(p) == IF p = "list" THEN Asked("list", "page", 0, Anything) ELSE Asked("get", "page", 0, None)

Left(calls) ==
  [ k \in Slots |-> IF calls[k].from = "other" THEN calls[k] ELSE [ calls[k] EXCEPT !.from = "left" ] ]

(* A page is opened: it starts empty, and all but a new product's loads.   *)
Enter(p, calls) ==
  /\ page' = p /\ filter' = Anything /\ shown' = Blank
  /\ form' = IF p = "new" THEN EmptyForm ELSE None
  /\ upload' = NoUpload
  /\ IF p = "new" THEN call' = Left(calls)
     ELSE LET free == { k \in Slots : calls[k].at = "idle" }
          IN  free # {} /\ call' = [ Left(calls) EXCEPT ![CHOOSE k \in free : TRUE] = Opening(p) ]

Init ==
  /\ \/ row = [ status |-> "none", body |-> None ]
     \/ \E b \in { [ cover |-> p, images |-> <<p>> ] : p \in Pictures } :
          row \in [ status : {"draft", "listed"}, body : {b} ]
  /\ sessions \in { <<>> } \cup { << [ status |-> s, rules |-> r ] >> : s \in {"pending", "cancelled"}, r \in Rules }
  /\ row.status = "listed" <=> sessions # <<>>
  /\ page \in IF row.status = "none" THEN {"new"} ELSE Pages
  /\ filter = Anything /\ shown = Blank
  /\ form = (IF page = "new" THEN EmptyForm ELSE None) /\ upload = NoUpload
  /\ \E first \in Slots :
       call = [ k \in Slots |-> IF k = first /\ page # "new" THEN Opening(page) ELSE NoCall ]
  /\ settling = {} /\ stale = {}
  /\ bids = 0 /\ presses = 0 /\ faults = 0

(* Which pages the page on screen links to.                                *)
CanEdit(view)    == view.status \in { "draft", "listed" }
CanPublish(view) == view.status = "listed" /\ view.auction = 0

LinksOf(view) == (IF CanEdit(view) THEN {"edit"} ELSE {}) \cup (IF CanPublish(view) THEN {"publish"} ELSE {})

Links ==
  {"list"} \cup
  CASE page = "list"    -> {"new"} \cup IF shown.view = None \/ shown.loading THEN {}
                                       ELSE {"detail"} \cup LinksOf(shown.view)
    [] page = "new"     -> {}
    [] page = "detail"  -> IF shown.view = None \/ shown.failed THEN {} ELSE LinksOf(shown.view)
    [] page = "edit"    -> IF shown.view = None THEN {} ELSE {"detail"}
    [] page = "publish" -> IF shown.view = None /\ ~shown.failed THEN {} ELSE {"detail"}

Follow ==
  /\ Press
  /\ \E p \in Links \ {page} : Enter(p, call)
  /\ UNCHANGED <<database, stale, bids, faults>>

(* A button asks for something; the page may show that it waits.           *)
Ask(op, from, item, arg) ==
  \E k \in Slots : Idle(k) /\ call' = [ call EXCEPT ![k] = Asked(op, from, item, arg) ]

(* The list: any filter may be chosen, or the same asked for again.        *)
Reload ==
  /\ page = "list"
  /\ filter' \in Filters
  /\ Ask("list", "page", 0, filter')
  /\ shown' = [ shown EXCEPT !.loading = TRUE ]
  /\ UNCHANGED <<page, formVars>>

(* The rules form of the detail page is on screen while it is unfolded and *)
(* there is a session; it starts with the session's rules each time.       *)
OnScreen(s) == s.editing /\ s.session # None /\ ~s.failed

ShowDetail(new, calls) ==
  /\ shown' = [ new EXCEPT !.rules = IF ~OnScreen(new) THEN None
                                     ELSE IF @ = None THEN new.session.rules ELSE @,
                           !.busy = @ /\ OnScreen(new) ]
  /\ call' = IF OnScreen(new) THEN calls
             ELSE [ k \in Slots |-> IF calls[k].from = "form" THEN [ calls[k] EXCEPT !.from = "page" ]
                                                              ELSE calls[k] ]
  /\ UNCHANGED <<page, filter, formVars>>

Detail == page = "detail" /\ shown.view # None /\ ~shown.failed
Status == IF shown.session = None THEN "none" ELSE shown.session.status

UnfoldRules ==
  /\ Detail /\ Status = "pending"
  /\ ShowDetail([ shown EXCEPT !.editing = ~@ ], call)

UnfoldCancel ==
  /\ Detail /\ Status \in Open
  /\ shown' = [ shown EXCEPT !.cancelBox = ~@ ]
  /\ UNCHANGED <<call, page, filter, formVars>>

PressCancel ==
  /\ Detail /\ shown.cancelBox /\ shown.session # None
  /\ Ask("cancel", "page", shown.session.id, None)
  /\ UNCHANGED tab

PressDelete ==
  /\ Detail /\ shown.view.status = "draft"
  /\ Ask("delete", "page", 0, None)
  /\ UNCHANGED tab

(* The rules form: its fields are filled in by hand or from a template.    *)
ChangeRules ==
  /\ shown.rules # None
  /\ \E r \in Rules \ {shown.rules} : shown' = [ shown EXCEPT !.rules = r ]
  /\ UNCHANGED <<call, page, filter, formVars>>

SubmitRules ==
  /\ shown.rules # None /\ ~shown.busy
  /\ IF page = "publish" THEN Ask("publish", "form", 0, shown.rules)
                         ELSE Ask("rules", "form", shown.session.id, shown.rules)
  /\ shown' = [ shown EXCEPT !.busy = TRUE ]
  /\ UNCHANGED <<page, filter, formVars>>

(* The product form, for a new product or one that is edited.              *)
SubmitProduct ==
  /\ CanSubmit
  /\ page = "new" => row.status = "none" /\ UnderWay("create") = {}
  /\ Ask(IF page = "new" THEN "create" ELSE "edit", "form", 0, Body)
  /\ form' = [ form EXCEPT !.saving = TRUE ]
  /\ UNCHANGED <<upload, page, filter, shown>>

Change ==
  /\ form # None
  /\ TypeCover \/ TypeImages \/ UploadCover \/ UploadGallery
  /\ UNCHANGED <<call, page, filter, shown>>

(* Another tab, or the console of a live room.                             *)
PublishElsewhere == (\E r \in Rules : Ask("publish", "other", 0, r)) /\ UNCHANGED tab

Act ==
  /\ Press
  /\ \/ Reload \/ UnfoldRules \/ UnfoldCancel \/ PressCancel \/ PressDelete
     \/ ChangeRules \/ SubmitRules \/ SubmitProduct \/ Change \/ PublishElsewhere
  /\ UNCHANGED <<database, stale, bids, faults>>

--------------------------------------------------------------------------------
(* Answers                                                                 *)

Forget(k) == [ call EXCEPT ![k] = NoCall ]
Again(k)  == [ call EXCEPT ![k] = Opening("detail") ]

ShowList(k) ==
  /\ shown' = [ shown EXCEPT !.view = IF call[k].ok THEN call[k].reply ELSE @, !.loading = FALSE ]
  /\ call' = Forget(k)
  /\ UNCHANGED <<page, filter, formVars>>

(* The detail page loads the product, then its session.                    *)
ShowProduct(k) ==
  LET reply == call[k].reply
      id == reply.auction
  IN  \/ /\ call[k].ok /\ id # 0
         /\ ShowDetail([ shown EXCEPT !.view = reply ],
                       [ call EXCEPT ![k] = Asked("auction", "page", id, None) ])
      \/ /\ call[k].ok /\ id = 0
         /\ ShowDetail([ shown EXCEPT !.view = reply, !.session = None ], Forget(k))
      \/ /\ ~call[k].ok
         /\ ShowDetail([ shown EXCEPT !.failed = TRUE ], Forget(k))

ShowSession(k) ==
  ShowDetail(IF call[k].ok THEN [ shown EXCEPT !.session = call[k].reply ]
                           ELSE [ shown EXCEPT !.failed = TRUE ], Forget(k))

(* The other pages load the product; one that has had a session cannot be  *)
(* published from its page.                                                *)
ShowForm(k) ==
  LET ok == call[k].ok /\ (page = "publish" => call[k].reply.auction = 0)
  IN  /\ shown' = IF ok THEN [ shown EXCEPT !.view = call[k].reply,
                                            !.rules = IF page = "publish" THEN AnyRules ELSE None ]
                        ELSE [ shown EXCEPT !.failed = TRUE ]
      /\ form' = IF ok /\ page = "edit" THEN FormOf(call[k].reply.body) ELSE form
      /\ call' = Forget(k)
      /\ UNCHANGED <<page, filter, upload>>

(* What was done to the session is followed by a load.                     *)
RulesSaved(k) ==
  IF call[k].ok THEN ShowDetail([ shown EXCEPT !.editing = FALSE, !.failed = FALSE ], Again(k))
                ELSE ShowDetail([ shown EXCEPT !.busy = @ /\ call[k].from # "form" ], Forget(k))

Cancelled(k) ==
  IF call[k].ok THEN ShowDetail([ shown EXCEPT !.cancelBox = FALSE, !.failed = FALSE ], Again(k))
                ELSE ShowDetail(shown, Forget(k))

(* What was done to the product takes the tab to the next page, also when  *)
(* the seller has gone on to another one; an error is shown on its form.   *)
Target(op) == IF op = "delete" THEN "list" ELSE "detail"

Saved(k) ==
  LET here == call[k].from = "form"
  IN  IF call[k].ok /\ page # Target(call[k].op) THEN Enter(Target(call[k].op), Forget(k))
      ELSE /\ call' = Forget(k)
           /\ form' = IF here /\ form # None THEN [ form EXCEPT !.saving = FALSE ] ELSE form
           /\ shown' = IF here THEN [ shown EXCEPT !.busy = FALSE ] ELSE shown
           /\ UNCHANGED <<page, filter, upload>>

Answer(k) ==
  LET c == call[k]
      Loads == { "list", "get", "auction", "rules", "cancel" }
      here == c.from \in { "form", "page" }
  IN  /\ c.at = "done"
      /\ \/ /\ c.op \in { "create", "edit", "delete", "publish" } /\ c.from # "other"
            /\ Saved(k)
         \/ /\ here /\ c.op \in Loads
            /\ CASE c.op = "list"    -> ShowList(k)
                 [] c.op = "get"     -> IF page = "detail" THEN ShowProduct(k) ELSE ShowForm(k)
                 [] c.op = "auction" -> ShowSession(k)
                 [] c.op = "rules"   -> RulesSaved(k)
                 [] c.op = "cancel"  -> Cancelled(k)
         \/ /\ ~here /\ (c.op \in Loads \/ c.from = "other")
            /\ call' = Forget(k)
            /\ UNCHANGED tab
      /\ UNCHANGED <<database, stale, bounds>>

UploadReturns ==
  /\ form # None
  /\ \/ (CoverReturns \/ GalleryReturns) /\ UNCHANGED faults
     \/ UploadFails /\ Fault
  /\ UNCHANGED <<database, call, page, filter, shown, stale, bids, presses>>

--------------------------------------------------------------------------------
Next ==
  \/ BidOrSettle \/ Sell \/ Follow \/ Act \/ UploadReturns
  \/ \E k \in Slots : Serve(k) \/ Lose(k) \/ Answer(k)

Spec == Init /\ [][Next]_vars

--------------------------------------------------------------------------------
(* Types; a form waits exactly for the request it sent, and no page has    *)
(* more than its own form on screen.                                       *)
TypeOK ==
  /\ row.status \in Statuses /\ row.body \in Bodies \cup {None}
  /\ sessions \in Seq(Sessions)
  /\ \A k \in Slots :
       /\ call[k].at \in { "idle", "sent", "half", "third", "done" } /\ call[k].op \in Ops
       /\ call[k].from \in { "form", "page", "left", "other" }
       /\ call[k].item \in 0..Len(sessions)
  /\ page \in Pages
  /\ shown.view \in Views \cup {None}
  /\ shown.rules \in Rules \cup {None}
  /\ FormTypeOK
  /\ form # None => page \in { "new", "edit" }
  /\ (shown.busy \/ (form # None /\ form.saving)) <=> \E k \in Slots : call[k].from = "form"
  /\ settling \subseteq DOMAIN sessions
  /\ stale \subseteq Overwriting \cup { "cancel", "settle" }

(* Once a session has been bid on its rules stand, whenever they were read *)
(* and however the seller's changes cross the bids.                        *)
RulesStandOnceBid ==
  [][ \A i \in DOMAIN sessions : sessions[i].status # "pending" => sessions'[i].rules = sessions[i].rules ]_vars

(* The shelf tells what the sessions tell.  What a handler that wrote      *)
(* after its read had changed, or broke off half-way, may upset is only    *)
(* this: a second publication that crosses the first may open a second     *)
(* session; any such write may take a product out of its auction; and one  *)
(* that broke off leaves a product in an auction that is over.             *)
Relisting == \E k \in Slots : call[k].op = "cancel" /\ call[k].at = "half"
Overwritten == stale \cap Overwriting # {}

ShelfTellsSessions ==
  /\ "publish" \notin stale =>
       \A i, j \in DOMAIN sessions : {sessions[i].status, sessions[j].status} \subseteq Open => i = j
  /\ row.status = "sold" => SomeAre("settled")
  /\ ~Overwritten =>
       /\ SomeAre("running") => row.status = "auctioning"
       /\ HasActive => row.status \in { "draft", "listed", "auctioning" }
       /\ SomeAre("settled") => row.status \in { "auctioning", "sold" } /\ ~HasActive
       /\ SomeAre("settled") /\ settling = {} => row.status = "sold" \/ "settle" \in stale
  /\ (stale = {} /\ settling = {} /\ row.status = "auctioning") => SomeAre("running") \/ Relisting

(* Answers of uploads, in whatever order they come, lose none of the       *)
(* gallery's pictures and bring their own.  Only a cover may be lost: to   *)
(* its own upload, and to a gallery whose button was pressed on a form     *)
(* that had none, as the gallery's handler still believes.                 *)
SawNoCover == upload.gallery # None /\ upload.gallery.saw.cover = None

PicturesKept ==
  (form # None /\ form' # None /\ upload' # upload) =>
    /\ Range(form.images) \subseteq Range(form'.images)
    /\ form'.cover \in { form.cover, upload.cover } \/ SawNoCover
    /\ faults' = faults =>
         /\ upload'.cover # upload.cover => upload.cover \in { None, form'.cover }
         /\ upload'.gallery # upload.gallery =>
              upload.gallery = None \/ Range(upload.gallery.urls) \subseteq Range(form'.images)

UploadsAreKept == [][PicturesKept]_vars
================================================================================
