--------------------------------- MODULE Inbox ---------------------------------
(***************************************************************************)
(* The buyer reads his messages: the message page with its tabs, its cards *)
(* and its count of unread messages, and the page's badge, which asks for  *)
(* the count again and again.  (The tab bar's badge is the same hook and   *)
(* does less: it is not refreshed by the page.)  What fills the inbox is   *)
(* FanOut.                                                                 *)
(*                                                                         *)
(* Every request is sent, served and answered in steps of their own, and   *)
(* whatever is lost is an error to the page.  An empty list is answered as *)
(* null, over which the page falls (FallsOver).  (There are fewer messages *)
(* than a page has room for.)                                              *)
(***************************************************************************)
EXTENDS FanOut, FiniteSets

CONSTANTS
  MaxLoads, MaxReads, MaxPolls     \* bounds: requests of a kind under way

ASSUME InboxConstants == MaxLoads \in Nat \ {0} /\ MaxReads \in Nat /\ MaxPolls \in Nat \ {0}

VARIABLES
  open,      \* whether the page is there: opened, and not fallen over
  filter,    \* the tab
  cards,     \* the messages shown,
  dots,      \* those shown as unread,
  pill,      \* and how many are said to be
  loading,
  load,      \* requests for the list
  read,      \* requests to mark one message
  all,       \* the request to mark all
  badge, poll,
  crossed    \* history: what was under way together with a load

shownVars == <<filter, cards, dots, pill, loading>>
badgeVars == <<badge, poll>>
vars      == <<fanVars, open, shownVars, load, read, all, badgeVars, crossed>>

Filters == { "all", "unread", "auction", "order" }

(* Of what may be under way together with a load: another load, a mark of  *)
(* one message, the mark of all, a message read elsewhere.                 *)
Crossings == { "loads", "mark", "all", "elsewhere" }
Loads   == 1..MaxLoads
Reads   == 1..MaxReads
Polls   == 1..MaxPolls
Timer   == 1                       \* the timer's poll; the others are the page's

NoLoad == [ at |-> "idle", filter |-> "all", items |-> {}, dots |-> {}, count |-> 0 ]
NoRead == [ at |-> "idle", message |-> None ]
NoPoll == [ at |-> "idle", count |-> 0 ]

SentLoad(f) == [ NoLoad EXCEPT !.at = "sent", !.filter = f ]
SentPoll    == [ NoPoll EXCEPT !.at = "sent" ]

UnderWay(request)   == \E k \in DOMAIN request : request[k].at # "idle"
Kind(kind, happens) == IF happens THEN {kind} ELSE {}

(* Opening the page is some work, so that a page sees less happen.         *)
Init ==
  /\ FanInit
  /\ open \in BOOLEAN /\ work = IF open THEN 1 ELSE 0
  /\ filter = "all" /\ cards = {} /\ dots = {} /\ pill = 0 /\ loading = open
  /\ load = [ k \in Loads |-> IF k = 1 /\ open THEN SentLoad("all") ELSE NoLoad ]
  /\ read = [ k \in Reads |-> NoRead ] /\ all = "idle"
  /\ badge = 0 /\ poll = [ k \in Polls |-> NoPoll ]
  /\ crossed = {}

--------------------------------------------------------------------------------
(* The list                                                                *)

Step(quiet) == UNCHANGED <<saleVars, handlers, inbox, hit, overtaken, open, quiet>>

(* Another tab is chosen; its load does not wait for the last one.         *)
SetFilter(f) ==
  /\ open /\ f # filter /\ Work
  /\ \E k \in Loads :
       /\ load[k].at = "idle"
       /\ load' = [ load EXCEPT ![k] = SentLoad(f) ]
  /\ filter' = f /\ loading' = TRUE
  /\ crossed' = crossed \cup Kind("loads", UnderWay(load)) \cup Kind("mark", UnderWay(read))
                  \cup Kind("all", all # "idle")
  /\ Step(<<unread, faults, cards, dots, pill, read, all, badgeVars>>)

(* List reads the messages, then counts those that are unread.  (A slice   *)
(* nothing was put into is null in JSON: {} stands for that here.)         *)
ListByUser(k) ==
  /\ load[k].at = "sent"
  /\ load' = [ load EXCEPT ![k].at = "listed", ![k].dots = unread,
                           ![k].items = IF load[k].filter = "unread" THEN unread ELSE inbox ]
  /\ Step(<<unread, work, faults, shownVars, read, all, badgeVars, crossed>>)

CountUnread(k) ==
  /\ load[k].at = "listed"
  /\ load' = [ load EXCEPT ![k].at = "done", ![k].count = Cardinality(unread) ]
  /\ Step(<<unread, work, faults, shownVars, read, all, badgeVars, crossed>>)

LoseLoad(k) ==
  /\ load[k].at \in { "sent", "listed", "done" } /\ Fault
  /\ load' = [ load EXCEPT ![k] = [ NoLoad EXCEPT !.at = "failed" ] ]
  /\ Step(<<unread, work, shownVars, read, all, badgeVars, crossed>>)

Category(m) == IF m.event \in OrderEvents THEN "order" ELSE "auction"

Fits(m, f) == f \in { "auction", "order" } => Category(m) = f

(* Null is shown as such by a tab that shows every message.                *)
IsNull(k) ==
  load[k].at = "done" /\ load[k].items = {} /\ load[k].filter \in { "all", "unread" }

(* The answer is shown, whichever tab is open by now.  A tab of one        *)
(* category filters null in vain, which is an error to it.                 *)
ShowList(k) ==
  /\ open /\ load[k].at \in { "done", "failed" } /\ ~IsNull(k)
  /\ cards' = { m \in load[k].items : Fits(m, load[k].filter) }
  /\ dots' = cards' \cap load[k].dots
  /\ pill' = IF load[k].items # {} THEN load[k].count ELSE pill
  /\ loading' = FALSE
  /\ load' = [ load EXCEPT ![k] = NoLoad ]
  /\ Step(<<unread, work, faults, filter, read, all, badgeVars, crossed>>)

(* Rendering null throws, and React takes the whole tree away, timers and  *)
(* all.  Marks that were sent are still served.                            *)
FallsOver(k) ==
  /\ open /\ IsNull(k)
  /\ open' = FALSE
  /\ cards' = {} /\ dots' = {} /\ pill' = 0 /\ loading' = FALSE /\ badge' = 0
  /\ load' = [ i \in Loads |-> NoLoad ] /\ poll' = [ p \in Polls |-> NoPoll ]
  /\ UNCHANGED <<saleVars, handlers, inbox, hit, overtaken, unread, work, faults,
                 filter, read, all, crossed>>

--------------------------------------------------------------------------------
(* Marking as read                                                         *)

(* A card is clicked, perhaps again before the answer.                     *)
ReadCard(m) ==
  /\ ~loading /\ m \in dots /\ Work
  /\ \E j \in Reads :
       /\ read[j].at = "idle"
       /\ read' = [ read EXCEPT ![j] = [ at |-> "sent", message |-> m ] ]
  /\ crossed' = crossed \cup Kind("mark", UnderWay(load))
  /\ Step(<<unread, faults, shownVars, load, all, badgeVars>>)

(* MarkRead finds only what is unread.                                     *)
MarkRead(j) ==
  /\ read[j].at = "sent"
  /\ unread' = unread \ { read[j].message }
  /\ read' = [ read EXCEPT ![j].at = IF read[j].message \in unread THEN "done" ELSE "failed" ]
  /\ Step(<<work, faults, shownVars, load, all, badgeVars, crossed>>)

LoseRead(j) ==
  /\ read[j].at \in { "sent", "done" } /\ Fault
  /\ read' = [ read EXCEPT ![j].at = "failed" ]
  /\ Step(<<unread, work, shownVars, load, all, badgeVars, crossed>>)

(* The badge is asked for again, whether the timer's poll is back or not.  *)
RefreshPage ==
  \E p \in Polls \ {Timer} :
    /\ poll[p].at = "idle"
    /\ poll' = [ poll EXCEPT ![p] = SentPoll ]
    /\ UNCHANGED badge

Less(n) == IF n = 0 THEN 0 ELSE n - 1

(* (Mutant: the card is marked whatever the answer was.)                   *)
HandleReadAnyway(j) ==
  /\ open /\ read[j].at \in { "done", "failed" }
  /\ read' = [ read EXCEPT ![j] = NoRead ]
  /\ dots' = dots \ { read[j].message } /\ pill' = Less(pill)
  /\ RefreshPage
  /\ Step(<<unread, work, faults, filter, cards, loading, load, all, crossed>>)

HandleRead(j) ==
  /\ open /\ read[j].at \in { "done", "failed" }
  /\ read' = [ read EXCEPT ![j] = NoRead ]
  /\ IF read[j].at = "done"
     THEN dots' = dots \ { read[j].message } /\ pill' = Less(pill) /\ RefreshPage
     ELSE UNCHANGED <<dots, pill, badgeVars>>
  /\ Step(<<unread, work, faults, filter, cards, loading, load, all, crossed>>)

ReadAll ==
  /\ pill > 0 /\ all = "idle" /\ Work
  /\ all' = "sent"
  /\ crossed' = crossed \cup Kind("all", UnderWay(load))
  /\ Step(<<unread, faults, shownVars, load, read, badgeVars>>)

MarkAllRead ==
  /\ all = "sent"
  /\ all' = "done" /\ unread' = {}
  /\ Step(<<work, faults, shownVars, load, read, badgeVars, crossed>>)

LoseAll ==
  /\ all \in { "sent", "done" } /\ Fault
  /\ all' = "failed"
  /\ Step(<<unread, work, shownVars, load, read, badgeVars, crossed>>)

HandleReadAll ==
  /\ open /\ all \in { "done", "failed" }
  /\ all' = "idle"
  /\ IF all = "done"
     THEN dots' = {} /\ pill' = 0 /\ RefreshPage
     ELSE UNCHANGED <<dots, pill, badgeVars>>
  /\ Step(<<unread, work, faults, filter, cards, loading, load, read, crossed>>)

(* The same user reads a message elsewhere.                                *)
ReadElsewhere(m) ==
  /\ open /\ m \in unread /\ Work
  /\ unread' = unread \ {m}
  /\ crossed' = crossed \cup Kind("elsewhere", \E k \in Loads : load[k].at = "listed")
  /\ Step(<<faults, shownVars, load, read, all, badgeVars>>)

--------------------------------------------------------------------------------
(* The badge: at once and every thirty seconds                             *)

(* (Mutant: only at once.)                                                 *)
RefreshOnce ==
  /\ open /\ poll[Timer].at = "idle" /\ badge = 0
  /\ poll' = [ poll EXCEPT ![Timer] = SentPoll ]
  /\ UNCHANGED badge

Refresh ==
  /\ open /\ poll[Timer].at = "idle"
  /\ poll' = [ poll EXCEPT ![Timer] = SentPoll ]
  /\ UNCHANGED badge

UnreadCount(p) ==
  /\ poll[p].at = "sent"
  /\ poll' = [ poll EXCEPT ![p] = [ at |-> "done", count |-> Cardinality(unread) ] ]
  /\ UNCHANGED badge

SetCount(p) ==
  /\ poll[p].at = "done"
  /\ badge' = poll[p].count
  /\ poll' = [ poll EXCEPT ![p] = NoPoll ]

(* An error counts as none.                                                *)
LosePoll(p) ==
  /\ poll[p].at # "idle" /\ Fault
  /\ poll' = [ poll EXCEPT ![p] = [ at |-> "done", count |-> 0 ] ]
  /\ UNCHANGED badge

Elsewhere == <<unread, work, shownVars, load, read, all, crossed>>

Asks    == Refresh /\ UNCHANGED faults /\ Step(Elsewhere)
Poll(p) == (UnreadCount(p) \/ SetCount(p)) /\ UNCHANGED faults /\ Step(Elsewhere)

--------------------------------------------------------------------------------
PageNext ==
  \/ \E f \in Filters : SetFilter(f)
  \/ \E k \in Loads : ListByUser(k) \/ CountUnread(k) \/ LoseLoad(k) \/ ShowList(k) \/ FallsOver(k)
  \/ \E m \in inbox : ReadCard(m) \/ ReadElsewhere(m)
  \/ \E j \in Reads : MarkRead(j) \/ LoseRead(j) \/ HandleRead(j)
  \/ ReadAll \/ MarkAllRead \/ LoseAll \/ HandleReadAll
  \/ Asks \/ \E p \in Polls : Poll(p) \/ (LosePoll(p) /\ Step(Elsewhere))

Next ==
  \/ FanNext /\ UNCHANGED <<open, shownVars, load, read, all, badgeVars, crossed>>
  \/ PageNext

Spec == Init /\ [][Next]_vars

(* The hook's timer goes on, the API counts, its answers arrive.           *)
BadgeFairness ==
  /\ WF_vars(Asks)
  /\ \A p \in Polls :
       /\ WF_vars(UnreadCount(p) /\ UNCHANGED faults /\ Step(Elsewhere))
       /\ WF_vars(SetCount(p) /\ UNCHANGED faults /\ Step(Elsewhere))

FairSpec == Spec /\ BadgeFairness

--------------------------------------------------------------------------------
(* What the page tells of the inbox.  A card shown as read is read,        *)
(* whatever loads and clicks met on their way, unless all were marked      *)
(* while a load was under way.  The number over the cards counts at least  *)
(* those shown as unread, so that the button that marks them all is there, *)
(* unless a mark, or a message read elsewhere, met a load.  And a tab      *)
(* shows what belongs to it, unless one load overtook another.  Answers    *)
(* may have been lost, and messages read elsewhere.                        *)
CardsTellTheInbox ==
  /\ "all" \notin crossed => cards \cap unread \subseteq dots
  /\ crossed \subseteq {"loads"} => Cardinality(dots) <= pill
  /\ "loads" \notin crossed /\ ~loading => \A m \in cards : Fits(m, filter)

(* The badge of a page that does not fall over comes to the true number,   *)
(* whichever polls, the timer's and those after a mark, are lost or answer *)
(* one after the other.                                                    *)
UnreadBadgeCatchesUp == <>[](open => badge = Cardinality(unread))
================================================================================
