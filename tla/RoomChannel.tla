------------------------------ MODULE RoomChannel ------------------------------
(***************************************************************************)
(* The wire between the WebSocket hub of the API and one page of the web   *)
(* app.  A page may open several sockets in its life; each is a pair of    *)
(* FIFO queues that die with it.  A room event is what the hub numbers:    *)
(* its payload is abstracted to the version of the auction it shows        *)
(* (kinds "state" and "switch") or of the leaderboard (kind "rank").       *)
(* Countdown ticks are events that carry a version and no number.          *)
(***************************************************************************)
EXTENDS Naturals, Sequences, FiniteSets

CONSTANTS
  Kinds,        \* the kinds of numbered events that occur
  MaxSockets,   \* bound: sockets a page opens
  SendBuffer,   \* capacity of a connection's send channel
  None

ASSUME ChannelAssumption ==
  /\ Kinds \subseteq {"state", "rank", "switch"}
  /\ MaxSockets \in Nat \ {0}
  /\ SendBuffer \in Nat \ {0}
  /\ None \notin Nat

VARIABLES
  conn,   \* conn[s]: the browser's readyState of socket s, or "unused"
  up,     \* up[s]: the subscribe frames sent and not read (their lastSeq)
  down    \* down[s]: what the hub sent and the page has not handled

channelVars == <<conn, up, down>>

Sockets == 1..MaxSockets
Alive   == { "connecting", "open" }

RoomEvent == [ seq : Nat, kind : { "state", "rank", "switch", "tick" }, v : Nat ]

ConnectedMsg(cur) == [ type |-> "connected", cur |-> cur ]
SyncMsg(v, events) == [ type |-> "sync", v |-> v, events |-> events ]
EventMsg(ev) == [ type |-> "event", ev |-> ev ]
ErrorMsg == [ type |-> "error" ]

Message ==
  [ type : {"connected"}, cur : Nat ]
    \cup [ type : {"sync"}, v : Nat, events : SUBSET RoomEvent ]
    \cup [ type : {"event"}, ev : RoomEvent ]
    \cup [ type : {"error"} ]

(* A send never blocks: what does not fit in the channel is dropped.       *)
Room(q)    == Len(q) < SendBuffer
Push(q, m) == IF Room(q) THEN Append(q, m) ELSE q
================================================================================
