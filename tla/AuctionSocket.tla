----------------------------- MODULE AuctionSocket -----------------------------
(***************************************************************************)
(* The web app's side of the room (src/frontend/src/ws): one AuctionSocket *)
(* as the hook useAuctionSocket creates it, with its reconnect timer, and  *)
(* every browser socket it opens.  The handlers of a socket are closures   *)
(* of the object: they run for a socket the object has forgotten, too.     *)
(* The object reconnects by itself and keeps lastSeq in localStorage (the  *)
(* defaults, which every page uses).  The heartbeat changes nothing here.  *)
(***************************************************************************)
EXTENDS RoomChannel

VARIABLES
  mounted,      \* is the page that uses the hook on screen?
  ws,           \* the socket the object holds, or None
  state,        \* ConnectionState, as the page shows it
  attempt,      \* reconnectAttempt
  timer,        \* is the reconnect timer armed?
  intentional,  \* intentionalClose
  lastSeq,      \* the highest event number seen
  snapshot,     \* the version shown, or None
  rank,         \* the version of the leaderboard shown; 0 is none
  applied,      \* history: the numbers of the events applied on this page
  base,         \* history: the number from which this page owes events
  raced,        \* history: was a socket abandoned before it was open?
  clicks        \* how often the reconnect button was pressed

linkVars == <<mounted, ws, state, attempt, timer, intentional, raced, clicks>>
viewVars == <<lastSeq, snapshot, rank, applied, base>>

States == { "idle", "connecting", "connected", "reconnecting", "closed" }

Unused    == { s \in Sockets : conn[s] = "unused" }
NewSocket == CHOOSE s \in Unused : TRUE
IsOpen(p) == p.ws # None /\ p.conn[p.ws] = "open"

--------------------------------------------------------------------------------
(* A handler runs to its end before the next: what it does to the object   *)
(* and to the browser's sockets is a function from one page to another.    *)
(* Definitions that a comment calls mutants are plausible bugs of the one  *)
(* they precede; nothing uses them.                                        *)

Page == [ conn |-> conn, ws |-> ws, state |-> state, attempt |-> attempt,
          timer |-> timer, intentional |-> intentional ]

Becomes(p) ==
  /\ conn' = p.conn
  /\ ws' = p.ws
  /\ state' = p.state
  /\ attempt' = p.attempt
  /\ timer' = p.timer
  /\ intentional' = p.intentional

(* disconnect(): close() leaves an open or opening socket closing.         *)
(* (Mutant: it does not clear the timer.)                                  *)
DisconnectedTimed(p) ==
  [ p EXCEPT !.conn = IF p.ws = None \/ p.conn[p.ws] \notin Alive THEN p.conn
                      ELSE [ p.conn EXCEPT ![p.ws] = "closing" ],
             !.ws = None, !.state = "closed", !.intentional = TRUE ]

Disconnected(p) ==
  [ conn |-> IF p.ws = None \/ p.conn[p.ws] \notin Alive THEN p.conn
             ELSE [ p.conn EXCEPT ![p.ws] = "closing" ],
    ws |-> None, state |-> "closed", attempt |-> p.attempt,
    timer |-> FALSE, intentional |-> TRUE ]

(* openSocket(): only a socket that is open already stops it.              *)
WithSocket(p) ==
  IF IsOpen(p) THEN p
  ELSE [ p EXCEPT !.conn = [ p.conn EXCEPT ![NewSocket] = "connecting" ],
                  !.ws = NewSocket,
                  !.state = IF p.attempt > 0 THEN "reconnecting" ELSE "connecting" ]

(* connect()  (Mutant: the close stays intentional.)                       *)
ConnectingStillIntentional(p) == WithSocket([ p EXCEPT !.timer = FALSE ])
Connecting(p) == WithSocket([ p EXCEPT !.intentional = FALSE, !.timer = FALSE ])

--------------------------------------------------------------------------------
(* The hook: mounting, unmounting and the reconnect button                 *)

SocketInit ==
  /\ conn = [ s \in Sockets |-> "unused" ]
  /\ up = [ s \in Sockets |-> << >> ]
  /\ down = [ s \in Sockets |-> << >> ]
  /\ mounted = FALSE
  /\ ws = None
  /\ state = "idle"
  /\ attempt = 0
  /\ timer = FALSE
  /\ intentional = FALSE
  /\ snapshot = None
  /\ rank = 0
  /\ applied = {}
  /\ base = IF lastSeq = 0 THEN None ELSE lastSeq
  /\ raced = FALSE
  /\ clicks = 0

Mount ==
  /\ ~mounted
  /\ state = "idle"
  /\ mounted' = TRUE
  /\ Becomes(Connecting(Page))
  /\ UNCHANGED <<up, down, raced, clicks>>
  /\ UNCHANGED viewVars

Unmount ==
  /\ mounted
  /\ mounted' = FALSE
  /\ Becomes(Disconnected(Page))
  /\ UNCHANGED <<up, down, raced, clicks>>
  /\ UNCHANGED viewVars

(* The button is offered while the page shows closed or reconnecting.      *)
ClickReconnect ==
  /\ mounted
  /\ state \in {"closed", "reconnecting"}
  /\ clicks' = clicks + 1
  /\ Unused # {}
  /\ raced' = (raced \/ ws # None)
  /\ Becomes(Connecting(Disconnected(Page)))
  /\ UNCHANGED <<mounted, up, down>>
  /\ UNCHANGED viewVars

ReconnectTimer ==
  /\ timer
  /\ Unused # {}
  /\ Becomes(WithSocket([ Page EXCEPT !.timer = FALSE ]))
  /\ UNCHANGED <<mounted, up, down, raced, clicks>>
  /\ UNCHANGED viewVars

--------------------------------------------------------------------------------
(* The handlers of a socket                                                *)

(* onopen: send() uses the socket the object holds now.                    *)
Opened(s) ==
  /\ conn[s] = "connecting"
  /\ LET p == [ Page EXCEPT !.conn = [ conn EXCEPT ![s] = "open" ],
                            !.attempt = 0, !.state = "connected" ]
     IN  /\ Becomes(p)
         /\ up' = IF lastSeq > 0 /\ IsOpen(p)
                  THEN [ up EXCEPT ![p.ws] = Append(@, lastSeq) ] ELSE up
  /\ UNCHANGED <<mounted, down, raced, clicks>>
  /\ UNCHANGED viewVars

(* onclose: it forgets whatever socket the object holds.                   *)
AfterClose(p) ==
  IF p.intentional
  THEN [ p EXCEPT !.ws = None, !.state = "closed" ]
  ELSE [ p EXCEPT !.ws = None, !.state = "reconnecting",
                  !.attempt = @ + 1, !.timer = TRUE ]

Closed(s) ==
  /\ conn[s] \in Alive \cup {"closing"}
  /\ Becomes(AfterClose([ Page EXCEPT !.conn = [ conn EXCEPT ![s] = "closed" ] ]))
  /\ up' = [ up EXCEPT ![s] = << >> ]
  /\ down' = [ down EXCEPT ![s] = << >> ]
  /\ UNCHANGED <<mounted, raced, clicks>>
  /\ UNCHANGED viewVars

--------------------------------------------------------------------------------
(* onmessage: what it shows                                                *)

(* (Mutant: ticks only move the countdown.)                                *)
ShowsAuctionUnnumbered(e) == e.kind \in {"state", "switch"}
ShowsAuction(e) == e.kind \in {"state", "tick", "switch"}
ShowsRank(e)    == e.kind \in {"rank", "switch"}
Last(E)         == CHOOSE e \in E : \A f \in E : f.seq <= e.seq

(* applyRoomEvent on the events E in the order of their numbers.           *)
SnapshotAfter(E, v) ==
  LET S == { e \in E : ShowsAuction(e) } IN IF S = {} THEN v ELSE Last(S).v

RankAfter(E, r) ==
  LET S == { e \in E : ShowsRank(e) }
  IN  IF S = {} THEN r ELSE IF Last(S).kind = "rank" THEN Last(S).v ELSE 0

Numbered(E) == { e.seq : e \in E } \ {0}

(* (Mutant: lastSeq is whatever the last hello said.)                      *)
HandleConnectedAnyway(m) ==
  /\ lastSeq' = IF m.cur = 0 THEN None ELSE m.cur
  /\ base' = IF base = None THEN m.cur ELSE base
  /\ UNCHANGED <<snapshot, rank, applied>>

HandleConnected(m) ==
  /\ lastSeq' = IF m.cur > lastSeq THEN m.cur ELSE lastSeq
  /\ base' = IF base = None THEN m.cur ELSE base
  /\ UNCHANGED <<snapshot, rank, applied>>

HandleSync(m) ==
  /\ snapshot' = SnapshotAfter(m.events, m.v)
  /\ rank' = RankAfter(m.events, rank)
  /\ applied' = applied \cup Numbered(m.events)
  /\ UNCHANGED <<lastSeq, base>>

HandleServerEvent(m) ==
  /\ lastSeq' = IF m.ev.seq > lastSeq THEN m.ev.seq ELSE lastSeq
  /\ snapshot' = SnapshotAfter({m.ev}, snapshot)
  /\ rank' = RankAfter({m.ev}, rank)
  /\ applied' = applied \cup Numbered({m.ev})
  /\ UNCHANGED base

HandleMessage(s) ==
  /\ conn[s] = "open"
  /\ down[s] # << >>
  /\ LET m == Head(down[s])
     IN  CASE m.type = "connected" -> HandleConnected(m)
           [] m.type = "sync"      -> HandleSync(m)
           [] m.type = "event"     -> HandleServerEvent(m)
           [] m.type = "error"     -> UNCHANGED viewVars
  /\ down' = [ down EXCEPT ![s] = Tail(@) ]
  /\ UNCHANGED <<conn, up>>
  /\ UNCHANGED linkVars

================================================================================
