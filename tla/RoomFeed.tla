------------------------------- MODULE RoomFeed -------------------------------
(***************************************************************************)
(* A page of the web app following a room: AuctionSocket and the hub,      *)
(* joined by connections that may break at any moment.                     *)
(***************************************************************************)
EXTENDS RoomHub, AuctionSocket

CONSTANT MaxMoves   \* bound: changes of the auction and presses of the button

ASSUME MovesAssumption == MaxMoves \in Nat

vars == <<channelVars, hubVars, linkVars, viewVars>>

(* The page comes with the number an earlier visit stored, or with none.   *)
Init ==
  /\ HubInit
  /\ lastSeq \in 0..seq
  /\ SocketInit

(* The steps of the page                                                   *)
Open(s) ==
  /\ Opened(s)
  /\ Accepted(s)
  /\ UNCHANGED <<version, seq, ring, bus, tick, pub, joined, left, faults, lost>>
  /\ UNCHANGED <<cacheVars, deaf>>

CloseEvent(s) == conn[s] = "closing" /\ Closed(s) /\ UNCHANGED hubVars

Break(s) ==
  /\ conn[s] \in Alive
  /\ Fault
  /\ Closed(s)
  /\ UNCHANGED <<version, seq, ring, bus, tick, pub, sub, joined, left, lost>>
  /\ UNCHANGED <<cacheVars, deaf>>

PageStep ==
  /\ \/ Mount \/ Unmount \/ ReconnectTimer
     \/ version + clicks < MaxMoves /\ ClickReconnect
     \/ \E s \in Sockets : HandleMessage(s)
  /\ UNCHANGED hubVars

(* The steps of the hub that do not touch the wire                         *)
HubStep ==
  /\ \/ version + clicks < MaxMoves /\ (\E p \in Publishers : Change(p))
     \/ \E p \in Publishers : Publish(p)
     \/ Load \/ Fill \/ ReadTick
     \/ \E s \in Sockets, h \in Hows : Subscribe(s, h)
     \/ \E s \in Sockets : LeaveRoom(s)
  /\ UNCHANGED channelVars
  /\ UNCHANGED <<linkVars, viewVars>>

HubSend ==
  /\ \/ Deliver
     \/ DeliverTick
     \/ \E s \in Sockets : ReadFrame(s) \/ (\E h \in Hows : Answer(s, h))
  /\ UNCHANGED <<linkVars, viewVars>>

(* An execution may end when the page is gone or has nothing left to show. *)
Rest ==
  /\ ~mounted \/ (IsOpen(Page) /\ down[ws] = << >>)
  /\ UNCHANGED vars

Next ==
  \/ PageStep \/ HubStep \/ HubSend
  \/ \E s \in Sockets : Open(s) \/ CloseEvent(s) \/ Break(s)
  \/ Rest

Spec == Init /\ [][Next]_vars

(* The API's goroutines go on, its loops keep looping, and the browser     *)
(* runs its timers, connects or fails, and handles what has arrived.  What *)
(* publishers and subscriptions have to do is finite, so that some one of  *)
(* them going on is enough; the ticks never end, and so it takes fairness  *)
(* of its own for them and for each socket's messages.                     *)
HubWorks ==
  \/ /\ (\E p \in Publishers : Publish(p)) \/ Load \/ Fill \/ (\E s \in Sockets, h \in Hows : Subscribe(s, h))
     /\ UNCHANGED channelVars
  \/ Deliver
  \/ \E s \in Sockets : ReadFrame(s) \/ (\E h \in Hows : Answer(s, h))

Ticks == (ReadTick /\ UNCHANGED channelVars) \/ DeliverTick

BrowserWorks(s) == Open(s) \/ CloseEvent(s) \/ (HandleMessage(s) /\ UNCHANGED hubVars)

Fairness ==
  /\ WF_vars(HubWorks /\ UNCHANGED <<linkVars, viewVars>>)
  /\ WF_vars(Ticks /\ UNCHANGED <<linkVars, viewVars>>)
  /\ WF_vars(ReconnectTimer /\ UNCHANGED hubVars)
  /\ \A s \in Sockets : WF_vars(BrowserWorks(s))

FairSpec == Spec /\ Fairness

--------------------------------------------------------------------------------
(* Types                                                                   *)

PubState == [ pc : { "idle", "reread", "drop", "save", "number", "store", "publish" },
              ev : RoomEvent ]
SubState == [ pc : { "idle", "register", "read", "answer" },
              last : Nat, cur : Nat, missed : SUBSET RoomEvent, v : Nat \cup {None} ]

TypeOK ==
  /\ conn \in [ Sockets -> { "unused", "connecting", "open", "closing", "closed" } ]
  /\ up \in [ Sockets -> Seq(Nat) ]
  /\ down \in [ Sockets -> Seq(Message) ]
  /\ version \in Nat /\ seq \in Nat
  /\ ring \in Seq(RoomEvent) /\ bus \in Seq(RoomEvent)
  /\ tick \in Nat \cup {None}
  /\ pub \in [ Publishers -> PubState ]
  /\ sub \in [ Sockets \X Hows -> SubState ]
  /\ joined \subseteq Sockets /\ left \subseteq Sockets
  /\ faults \in Nat /\ clicks \in Nat
  /\ hidden \subseteq Nat
  /\ cache \in Nat \cup {None} /\ load \in Nat \cup {None}
  /\ crossed \in BOOLEAN
  /\ deaf \subseteq Sockets
  /\ lost \subseteq Nat /\ applied \subseteq Nat
  /\ mounted \in BOOLEAN /\ timer \in BOOLEAN
  /\ intentional \in BOOLEAN /\ raced \in BOOLEAN
  /\ ws \in Sockets \cup {None}
  /\ state \in States
  /\ attempt \in Nat /\ lastSeq \in Nat /\ rank \in Nat
  /\ snapshot \in Nat \cup {None}
  /\ base \in Nat \cup {None}

--------------------------------------------------------------------------------
(* Safety                                                                  *)

(* The numbers on their way to the page: being published, broadcast, in    *)
(* the queue of an open socket, or in a replay that was asked for.         *)
BeingPublished ==
  { pub[p].ev.seq : p \in { q \in Publishers : pub[q].pc \in {"store", "publish"} } }
    \cup Seqs(Entries(bus))

InMessage(m) ==
  CASE m.type = "event" -> Numbered({m.ev})
    [] m.type = "sync"  -> Numbered(m.events)
    [] m.type \in {"connected", "error"} -> {}

Queued(s) == UNION { InMessage(down[s][i]) : i \in DOMAIN down[s] }

Replayed(s) ==
  LET r == sub[<<s, "frame">>]
      asked == { up[s][i] : i \in DOMAIN up[s] }
                 \cup (IF r.pc \in {"register", "read"} THEN {r.last} ELSE {})
  IN  Seqs(r.missed) \cup { e.seq : e \in { f \in Entries(ring) : \E n \in asked : f.seq > n } }

OnItsWay == BeingPublished \cup (IF IsOpen(Page) THEN Queued(ws) \cup Replayed(ws) ELSE {})

(* lastSeq is what the page asks the next replay from, so a number it has  *)
(* passed had better been applied: every event the page owes up to lastSeq *)
(* was applied, is on its way, or was dropped: by a full buffer or ring,   *)
(* or with the replay of a room whose item is cancelled or failed.         *)
Owed == IF base = None THEN {} ELSE (base + 1)..lastSeq

SeenIsAccountedFor == mounted => Owed \subseteq applied \cup lost \cup OnItsWay

(* ... on a connection that has not broken.                                *)
SteadyPageMissesNothing == faults = 0 => SeenIsAccountedFor

(* Unless the reconnect button was pressed while the object still held a   *)
(* socket, the page has one living socket at most, it is the one the       *)
(* object holds, the timer is armed only without one, "connected" is shown *)
(* exactly when a bid can be sent, and a page that was left has none.      *)
Living == { s \in Sockets : conn[s] \in Alive }

OneSocket ==
  ~raced => /\ Living = IF ws = None THEN {} ELSE {ws}
            /\ timer => ws = None
            /\ state = "connected" <=> IsOpen(Page)
            /\ ~mounted => ws = None

--------------------------------------------------------------------------------
(* Liveness                                                                *)

(* A page that stays is connected again, whatever the button did.          *)
AlwaysReconnects == []<>(mounted => state = "connected" /\ IsOpen(Page))

(* While the session runs, the ticks bring every page that stays to the    *)
(* snapshot in Redis, whatever was lost or came out of order, and that is  *)
(* the auction's last state unless a change was committed while another    *)
(* snapshot was still to be written, or one was not written at all.  (A    *)
(* connection whose room was not found hears nothing while it lasts.)      *)
ViewCatchesUp ==
  Ticking => <>[](mounted /\ ws \notin deaf \ joined =>
                    /\ snapshot = cache
                    /\ crossed \/ cache = version)

================================================================================
