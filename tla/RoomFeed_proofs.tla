---------------------------- MODULE RoomFeed_proofs ----------------------------
(***************************************************************************)
(* Proofs about RoomFeed, for any number of sockets a page opens, of       *)
(* publishers, of events and of broken connections, and for every size of  *)
(* the send buffer and of the list of events: one living socket, and a     *)
(* page whose connection does not break misses nothing unnoticed.          *)
(*                                                                         *)
(* OneSocket is not inductive: the handler of a socket that closes clears  *)
(* whatever socket the object holds.  What saves it is that a socket is    *)
(* left closing only by a page that is gone, and that such a page has no   *)
(* timer and means its close (Leaving).                                    *)
(*                                                                         *)
(* SteadyPageMissesNothing is not inductive either: it looks at lastSeq    *)
(* only, and base is unknown until the page has been told "connected".     *)
(* SteadyInv follows every number given out so far, from every number the  *)
(* page may still be told to begin with (Following), and relies on two     *)
(* facts about the hub: an event is stored before it is broadcast          *)
(* (Recorded), and the connection is in the room before its number is read *)
(* (Asking).                                                               *)
(*                                                                         *)
(* TypeOK is not inductive: what a page shows after a replay is the last   *)
(* of its events, and sets of events need not have one.  CountedInv adds   *)
(* that none carries a number that has not been given out.                 *)
(***************************************************************************)
EXTENDS RoomFeed, SequenceTheorems, WellFoundedInduction, TLAPS

ConnStates == { "unused", "connecting", "open", "closing", "closed" }

LinkTypes ==
  /\ conn \in [ Sockets -> ConnStates ]
  /\ ws \in Sockets \cup {None}
  /\ state \in States
  /\ timer \in BOOLEAN /\ intentional \in BOOLEAN
  /\ mounted \in BOOLEAN /\ raced \in BOOLEAN

(* An object that has not been used yet.                                   *)
Fresh == state = "idle" => /\ ~mounted /\ ~timer /\ ws = None
                           /\ \A s \in Sockets : conn[s] = "unused"

(* A socket on its way out belongs to a page that has been left.           *)
Leaving ==
  /\ mounted => \A s \in Sockets : conn[s] # "closing"
  /\ ~mounted => ~timer
  /\ ~mounted /\ state # "idle" => intentional

Held ==
  /\ \A s \in Sockets : conn[s] \in Alive <=> s = ws
  /\ timer => ws = None
  /\ state = "connected" <=> (ws # None /\ conn[ws] = "open")
  /\ ~mounted => ws = None

LinkInv == LinkTypes /\ Fresh /\ (~raced => Leaving /\ Held)

LEMMA NoneIsNoSocket == Sockets \subseteq Nat /\ None \notin Sockets /\ 1 \in Sockets
BY ChannelAssumption DEF Sockets

LEMMA NewIsUnused ==
  ASSUME Unused # {}
  PROVE  NewSocket \in Sockets /\ conn[NewSocket] = "unused"
BY DEF NewSocket, Unused

LEMMA HeldIsOne == LinkInv => OneSocket
<1> SUFFICES ASSUME LinkInv, ~raced  PROVE OneSocket
  BY DEF OneSocket
<1>1. Held /\ LinkTypes
  BY DEF LinkInv
<1>2. Living = IF ws = None THEN {} ELSE {ws}
  BY <1>1, NoneIsNoSocket DEF Held, Living, LinkTypes
<1>3. IsOpen(Page) <=> (ws # None /\ conn[ws] = "open")
  BY DEF IsOpen, Page
<1> QED BY <1>1, <1>2, <1>3 DEF OneSocket, Held

LEMMA LinkHolds == Init => LinkInv
BY NoneIsNoSocket
DEF Init, SocketInit, LinkInv, LinkTypes, ConnStates, States, Fresh, Leaving, Held, Alive

LEMMA MountKeeps == ASSUME LinkInv, Mount  PROVE LinkInv'
<1>1. /\ state = "idle" /\ ws = None /\ \A s \in Sockets : conn[s] = "unused"
      /\ LinkTypes
  BY DEF Mount, LinkInv, Fresh
<1>2. Unused # {}
  BY <1>1, NoneIsNoSocket DEF Unused
<1>3. NewSocket \in Sockets
  BY <1>2, NewIsUnused
<1>4. /\ conn' = [ conn EXCEPT ![NewSocket] = "connecting" ] /\ ws' = NewSocket
      /\ state' \in {"reconnecting", "connecting"} /\ timer' = FALSE /\ intentional' = FALSE
      /\ mounted' = TRUE /\ raced' = raced
  BY <1>1 DEF Mount, Becomes, Connecting, WithSocket, IsOpen, Page
<1> QED
  BY <1>1, <1>3, <1>4, NoneIsNoSocket
  DEF LinkInv, LinkTypes, ConnStates, States, Fresh, Leaving, Held, Alive

LEMMA UnmountKeeps == ASSUME LinkInv, Unmount  PROVE LinkInv'
<1>1. LinkTypes
  BY DEF LinkInv
<1>2. /\ conn' = IF ws = None \/ conn[ws] \notin Alive THEN conn ELSE [ conn EXCEPT ![ws] = "closing" ]
      /\ ws' = None /\ state' = "closed" /\ timer' = FALSE /\ intentional' = TRUE
      /\ mounted' = FALSE /\ raced' = raced
  BY DEF Unmount, Becomes, Disconnected, Page
<1>3. LinkTypes' /\ Fresh'
  BY <1>1, <1>2 DEF LinkTypes, ConnStates, States, Fresh
<1>4. ASSUME ~raced'  PROVE Held'
  <2>1. Held
    BY <1>2, <1>4 DEF LinkInv
  <2>2. \A s \in Sockets : conn'[s] \notin Alive
    BY <1>1, <1>2, <2>1, NoneIsNoSocket DEF Held, LinkTypes, Alive
  <2> QED BY <1>2, <2>2, NoneIsNoSocket DEF Held
<1> QED BY <1>2, <1>3, <1>4 DEF LinkInv, Leaving

(* An object that holds no socket opens one.                               *)
LEMMA OpensOne ==
  ASSUME LinkInv, ~raced, mounted, ws = None, Unused # {},
         conn' = [ conn EXCEPT ![NewSocket] = "connecting" ], ws' = NewSocket,
         state' \in {"reconnecting", "connecting"}, timer' = FALSE, intentional' \in BOOLEAN,
         mounted' = mounted
  PROVE  Leaving' /\ Held'
<1>1. LinkTypes /\ Held /\ Leaving
  BY DEF LinkInv
<1>2. NewSocket \in Sockets
  BY NewIsUnused
<1> QED
  BY <1>1, <1>2, NoneIsNoSocket DEF LinkTypes, ConnStates, States, Leaving, Held, Alive

LEMMA ClickKeeps == ASSUME LinkInv, ClickReconnect  PROVE LinkInv'
<1>1. /\ mounted /\ mounted' = mounted /\ Unused # {} /\ LinkTypes
      /\ raced' = (raced \/ ws # None)
  BY DEF ClickReconnect, LinkInv
<1>2. NewSocket \in Sockets
  BY <1>1, NewIsUnused
<1> DEFINE C == IF ws = None \/ conn[ws] \notin Alive THEN conn ELSE [ conn EXCEPT ![ws] = "closing" ]
<1>3. /\ conn' = [ C EXCEPT ![NewSocket] = "connecting" ] /\ ws' = NewSocket
      /\ state' \in {"reconnecting", "connecting"} /\ timer' = FALSE /\ intentional' = FALSE
  BY DEF ClickReconnect, Becomes, Connecting, WithSocket, Disconnected, IsOpen, Page
<1>4. C \in [ Sockets -> ConnStates ]
  BY <1>1 DEF LinkTypes, ConnStates
<1>5. LinkTypes' /\ Fresh'
  BY <1>1, <1>2, <1>3, <1>4 DEF LinkTypes, ConnStates, States, Fresh
<1>6. ASSUME ~raced'  PROVE Leaving' /\ Held'
  BY <1>1, <1>3, <1>6, OpensOne
<1> QED BY <1>5, <1>6 DEF LinkInv

LEMMA TimerKeeps == ASSUME LinkInv, ReconnectTimer  PROVE LinkInv'
<1>1. /\ timer /\ mounted' = mounted /\ raced' = raced /\ Unused # {} /\ LinkTypes /\ state # "idle"
  BY DEF ReconnectTimer, LinkInv, Fresh
<1>2. NewSocket \in Sockets
  BY <1>1, NewIsUnused
<1>3. CASE IsOpen(Page)
  <2>1. conn' = conn /\ ws' = ws /\ state' = state /\ timer' = FALSE /\ intentional' = intentional
    BY <1>3 DEF ReconnectTimer, Becomes, WithSocket, IsOpen, Page
  <2>2. raced
    BY <1>1, <1>3 DEF LinkInv, Held, IsOpen, Page
  <2> QED BY <1>1, <2>1, <2>2 DEF LinkInv, LinkTypes, Fresh
<1>4. CASE ~IsOpen(Page)
  <2>1. /\ conn' = [ conn EXCEPT ![NewSocket] = "connecting" ] /\ ws' = NewSocket
        /\ state' \in {"reconnecting", "connecting"} /\ timer' = FALSE /\ intentional' = intentional
    BY <1>4 DEF ReconnectTimer, Becomes, WithSocket, IsOpen, Page
  <2>2. LinkTypes' /\ Fresh'
    BY <1>1, <1>2, <2>1 DEF LinkTypes, ConnStates, States, Fresh
  <2>3. ASSUME ~raced  PROVE Leaving' /\ Held'
    <3>1. mounted /\ ws = None
      BY <1>1, <2>3 DEF LinkInv, Leaving, Held
    <3> QED BY <1>1, <2>1, <2>3, <3>1, OpensOne DEF LinkTypes
  <2> QED BY <1>1, <2>2, <2>3 DEF LinkInv
<1> QED BY <1>3, <1>4

LEMMA OpenKeeps == ASSUME LinkInv, NEW s \in Sockets, Opened(s)  PROVE LinkInv'
<1>1. /\ conn[s] = "connecting" /\ conn' = [ conn EXCEPT ![s] = "open" ] /\ state' = "connected"
      /\ ws' = ws /\ timer' = timer /\ intentional' = intentional /\ mounted' = mounted /\ raced' = raced
      /\ LinkTypes /\ state # "idle"
  BY DEF Opened, Becomes, Page, LinkInv, Fresh
<1>2. LinkTypes' /\ Fresh'
  BY <1>1 DEF LinkTypes, ConnStates, States, Fresh
<1>3. ASSUME ~raced  PROVE Leaving' /\ Held'
  BY <1>1, <1>3, NoneIsNoSocket DEF LinkInv, LinkTypes, Leaving, Held, Alive
<1> QED BY <1>1, <1>2, <1>3 DEF LinkInv

LEMMA CloseKeeps == ASSUME LinkInv, NEW s \in Sockets, Closed(s)  PROVE LinkInv'
<1>1. /\ conn[s] \in Alive \cup {"closing"} /\ conn' = [ conn EXCEPT ![s] = "closed" ]
      /\ ws' = None /\ mounted' = mounted /\ raced' = raced /\ intentional' = intentional
      /\ LinkTypes /\ state # "idle"
      /\ \/ intentional /\ state' = "closed" /\ timer' = timer
         \/ ~intentional /\ state' = "reconnecting" /\ timer' = TRUE
  BY DEF Closed, AfterClose, Becomes, Page, LinkInv, Fresh, Alive
<1>2. LinkTypes' /\ Fresh'
  BY <1>1 DEF LinkTypes, ConnStates, States, Fresh
<1>3. ASSUME ~raced  PROVE Leaving' /\ Held'
  <2>1. Leaving /\ Held
    BY <1>3 DEF LinkInv
  <2>2. \A t \in Sockets : conn'[t] \notin Alive
    BY <1>1, <2>1, NoneIsNoSocket DEF LinkTypes, Leaving, Held, Alive
  <2> QED BY <1>1, <2>1, <2>2, NoneIsNoSocket DEF LinkTypes, Leaving, Held, Alive
<1> QED BY <1>1, <1>2, <1>3 DEF LinkInv

LEMMA LinkKept == ASSUME LinkInv, [Next]_vars  PROVE LinkInv'
<1>1. CASE UNCHANGED <<conn, linkVars>>
  BY <1>1 DEF linkVars, LinkInv, LinkTypes, Fresh, Leaving, Held
<1>2. CASE PageStep
  <2>1. CASE \E s \in Sockets : HandleMessage(s)
    BY <1>1, <2>1 DEF HandleMessage
  <2> QED
    BY <1>2, <2>1, MountKeeps, UnmountKeeps, ClickKeeps, TimerKeeps DEF PageStep
<1>3. CASE HubStep
  BY <1>1, <1>3 DEF HubStep, channelVars
<1>4. CASE HubSend
  BY <1>1, <1>4 DEF HubSend, Deliver, DeliverTick, ReadFrame, Answer
<1>5. ASSUME NEW s \in Sockets, Open(s) \/ CloseEvent(s) \/ Break(s)  PROVE LinkInv'
  BY <1>5, OpenKeeps, CloseKeeps DEF Open, CloseEvent, Break
<1>6. CASE Rest \/ UNCHANGED vars
  BY <1>1, <1>6 DEF Rest, vars, channelVars
<1> QED BY <1>2, <1>3, <1>4, <1>5, <1>6 DEF Next

(* Unless the reconnect button was pressed while the object held a socket, *)
(* the page has at most one living socket and it is the one the object     *)
(* holds: whatever breaks, however often it reconnects, and in whatever    *)
(* order the handlers of its sockets run.                                  *)
THEOREM OneSocketSafe == Spec => []OneSocket
<1>1. LinkInv /\ [Next]_vars => LinkInv'
  BY LinkKept
<1> QED BY LinkHolds, <1>1, HeldIsOne, PTL DEF Spec

--------------------------------------------------------------------------------
(* Queues as sets of what is in them.                                      *)

LEMMA EntriesOfAppend ==
  ASSUME NEW S, NEW q \in Seq(S), NEW e \in S
  PROVE  Append(q, e) \in Seq(S) /\ Len(Append(q, e)) = Len(q) + 1
         /\ Entries(Append(q, e)) = Entries(q) \cup {e}
<1>1. /\ Append(q, e) \in Seq(S) /\ Len(Append(q, e)) = Len(q) + 1 /\ Len(q) \in Nat
      /\ DOMAIN q = 1..Len(q) /\ DOMAIN Append(q, e) = 1..Len(q) + 1
      /\ \A i \in 1..Len(q) : Append(q, e)[i] = q[i]
      /\ Append(q, e)[Len(q) + 1] = e
  OBVIOUS
<1>2. \A x : x \in Entries(Append(q, e)) <=> x \in Entries(q) \cup {e}
  <2>1. ASSUME NEW i \in 1..Len(q) + 1
        PROVE  Append(q, e)[i] \in Entries(q) \cup {e}
    BY <1>1 DEF Entries
  <2>2. Entries(q) \cup {e} \subseteq Entries(Append(q, e))
    BY <1>1 DEF Entries
  <2> QED BY <1>1, <2>1, <2>2 DEF Entries
<1> QED BY <1>1, <1>2

LEMMA EntriesOfTail ==
  ASSUME NEW S, NEW q \in Seq(S), q # << >>
  PROVE  /\ Head(q) \in S /\ Tail(q) \in Seq(S) /\ Len(Tail(q)) = Len(q) - 1
         /\ Entries(q) = Entries(Tail(q)) \cup {Head(q)}
<1>1. /\ Len(q) \in Nat \ {0} /\ DOMAIN q = 1..Len(q) /\ Head(q) = q[1] /\ Head(q) \in S
      /\ Tail(q) \in Seq(S) /\ Len(Tail(q)) = Len(q) - 1 /\ DOMAIN Tail(q) = 1..Len(q) - 1
      /\ \A i \in 1..Len(q) - 1 : Tail(q)[i] = q[i + 1]
  OBVIOUS
<1>2. ASSUME NEW i \in 1..Len(q)
      PROVE  q[i] \in Entries(Tail(q)) \cup {Head(q)}
  <2>1. CASE i = 1
    BY <1>1, <2>1
  <2>2. CASE i # 1
    <3>1. i - 1 \in 1..Len(q) - 1 /\ Tail(q)[i - 1] = q[i]
      BY <1>1, <2>2
    <3> QED BY <1>1, <3>1 DEF Entries
  <2> QED BY <2>1, <2>2
<1>3. Entries(Tail(q)) \cup {Head(q)} \subseteq Entries(q)
  <2>1. ASSUME NEW i \in 1..Len(q) - 1
        PROVE  Tail(q)[i] \in Entries(q)
    BY <1>1 DEF Entries
  <2> QED BY <1>1, <2>1 DEF Entries
<1> QED BY <1>1, <1>2, <1>3 DEF Entries

LEMMA EntriesOfConcat ==
  ASSUME NEW S, NEW q \in Seq(S), NEW b \in Seq(S)
  PROVE  Entries(q \o b) = Entries(q) \cup Entries(b)
<1> DEFINE r == q \o b
<1>1. /\ r \in Seq(S) /\ Len(r) = Len(q) + Len(b)
      /\ \A i \in 1..Len(q) + Len(b) : r[i] = IF i <= Len(q) THEN q[i] ELSE b[i - Len(q)]
  <2>1. /\ q \o b \in Seq(S) /\ Len(q \o b) = Len(q) + Len(b)
        /\ \A i \in 1..Len(q) + Len(b) : (q \o b)[i] = IF i <= Len(q) THEN q[i] ELSE b[i - Len(q)]
    BY ConcatProperties
  <2> QED BY <2>1
<1>2. Len(q) \in Nat /\ Len(b) \in Nat /\ DOMAIN q = 1..Len(q) /\ DOMAIN b = 1..Len(b)
  OBVIOUS
<1> HIDE DEF r
<1>3. DOMAIN r = 1..Len(q) + Len(b)
  BY <1>1
<1>4. ASSUME NEW i \in 1..Len(q) + Len(b)
      PROVE  r[i] \in Entries(q) \cup Entries(b)
  <2>1. CASE i <= Len(q)
    BY <1>1, <1>2, <2>1 DEF Entries
  <2>2. CASE ~(i <= Len(q))
    <3>1. i - Len(q) \in DOMAIN b /\ r[i] = b[i - Len(q)]
      BY <1>1, <1>2, <2>2
    <3> QED BY <3>1 DEF Entries
  <2> QED BY <2>1, <2>2
<1>5. ASSUME NEW i \in 1..Len(q)
      PROVE  q[i] \in Entries(r)
  <2>0. i \in 1..Len(q) + Len(b) /\ i <= Len(q)
    BY <1>2
  <2>1. i \in DOMAIN r /\ r[i] = q[i]
    BY <1>1, <1>3, <2>0
  <2> QED BY <2>1 DEF Entries
<1>6. ASSUME NEW i \in 1..Len(b)
      PROVE  b[i] \in Entries(r)
  <2>0. Len(q) + i \in 1..Len(q) + Len(b) /\ ~(Len(q) + i <= Len(q)) /\ Len(q) + i - Len(q) = i
    BY <1>2
  <2>1. Len(q) + i \in DOMAIN r /\ r[Len(q) + i] = b[i]
    BY <1>1, <1>3, <2>0
  <2> QED BY <2>1 DEF Entries
<1>7. Entries(r) \subseteq Entries(q) \cup Entries(b)
  BY <1>3, <1>4 DEF Entries
<1>8. Entries(q) \cup Entries(b) \subseteq Entries(r)
  BY <1>2, <1>5, <1>6 DEF Entries
<1> QED BY <1>7, <1>8 DEF r

LEMMA EntriesOfSome ==
  ASSUME NEW S, NEW q \in Seq(S), NEW a \in Seq(S), NEW k \in Int, k <= Len(a)
  PROVE  LET r == q \o SubSeq(a, 1, k)
         IN  /\ r \in Seq(S) /\ Len(r) = Len(q) + (IF k < 0 THEN 0 ELSE k)
             /\ Entries(q) \subseteq Entries(r) /\ Entries(r) \subseteq Entries(q) \cup Entries(a)
             /\ k > 0 => a[1] \in Entries(r)
<1> DEFINE b == SubSeq(a, 1, k)
           r == q \o b
<1>1. /\ Len(a) \in Nat /\ \A i \in 1..Len(a) : a[i] \in S
      /\ DOMAIN a = 1..Len(a)
  OBVIOUS
<1>2. /\ b \in Seq(S) /\ Len(b) = (IF k < 0 THEN 0 ELSE k)
      /\ \A i \in 1..k : b[i] = a[i]
  <2>1. \A i \in 1..k : a[i] \in S
    BY <1>1
  <2>2. /\ b \in Seq(S) /\ Len(b) = (IF 1 <= k THEN k - 1 + 1 ELSE 0)
        /\ \A i \in 1..k - 1 + 1 : b[i] = a[1 + i - 1]
    BY <2>1, SubSeqProperties
  <2> QED BY <2>2
<1> HIDE DEF b
<1>3. /\ r \in Seq(S) /\ Len(r) = Len(q) + Len(b) /\ Len(q) \in Nat /\ Len(b) \in Nat
      /\ \A i \in 1..Len(q) + Len(b) : r[i] = IF i <= Len(q) THEN q[i] ELSE b[i - Len(q)]
  <2>1. b \in Seq(S)
    BY <1>2
  <2>2. /\ q \o b \in Seq(S) /\ Len(q \o b) = Len(q) + Len(b)
        /\ \A i \in 1..Len(q) + Len(b) : (q \o b)[i] = IF i <= Len(q) THEN q[i] ELSE b[i - Len(q)]
    BY <2>1, ConcatProperties
  <2>3. Len(q) \in Nat /\ Len(b) \in Nat
    BY <2>1
  <2> QED BY <2>2, <2>3
<1> HIDE DEF r
<1>4. DOMAIN r = 1..Len(q) + Len(b) /\ DOMAIN q = 1..Len(q) /\ DOMAIN b = 1..Len(b)
  BY <1>2, <1>3
<1>5. Entries(q) \subseteq Entries(r)
  BY <1>3, <1>4 DEF Entries
<1>6. ASSUME NEW i \in 1..Len(q) + Len(b)
      PROVE  r[i] \in Entries(q) \cup Entries(a)
  <2>1. CASE i <= Len(q)
    BY <1>3, <1>4, <2>1 DEF Entries
  <2>2. CASE ~(i <= Len(q))
    <3>1. i - Len(q) \in 1..k /\ i - Len(q) \in DOMAIN a /\ r[i] = a[i - Len(q)]
      BY <1>1, <1>2, <1>3, <2>2
    <3> QED BY <3>1 DEF Entries
  <2> QED BY <2>1, <2>2
<1>7. ASSUME k > 0
      PROVE  a[1] \in Entries(r)
  <2>1. Len(q) + 1 \in DOMAIN r /\ r[Len(q) + 1] = b[1] /\ b[1] = a[1]
    BY <1>2, <1>3, <1>4, <1>7
  <2> QED BY <2>1 DEF Entries
<1>8. Entries(r) \subseteq Entries(q) \cup Entries(a)
  BY <1>4, <1>6 DEF Entries
<1> QED BY <1>2, <1>3, <1>5, <1>7, <1>8 DEF b, r

--------------------------------------------------------------------------------
(* A page that nothing breaks                                              *)

FeedTypes ==
  /\ seq \in Nat /\ version \in Nat /\ tick \in Nat \cup {None}
  /\ ring \in Seq(RoomEvent) /\ bus \in Seq(RoomEvent)
  /\ pub \in [ Publishers -> PubState ]
  /\ sub \in [ Sockets \X Hows -> SubState ]
  /\ up \in [ Sockets -> Seq(Nat) ]
  /\ down \in [ Sockets -> Seq(Message) ] /\ \A s \in Sockets : Len(down[s]) <= SendBuffer
  /\ lastSeq \in Nat /\ base \in Nat \cup {None}

Stored == Seqs(Entries(ring))

(* What has been stored and is still to be delivered.                      *)
Outgoing == { pub[p].ev.seq : p \in { q \in Publishers : pub[q].pc = "publish" } } \cup Seqs(Entries(bus))

(* Every number given out is being published, in the ring or dropped, and  *)
(* what is delivered was stored before.                                    *)
Recorded ==
  /\ \A n \in 1..seq : n \in lost \cup BeingPublished \cup Stored
  /\ Outgoing \subseteq lost \cup Stored
  /\ \A n \in BeingPublished \cup Stored : n <= seq

(* The page has one socket all its life, and it closes for the page only.  *)
Alone ==
  /\ ~timer
  /\ mounted \/ state = "idle" \/ intentional
  /\ state = "idle" => attempt = 0
  /\ mounted => /\ ws \in Sockets /\ conn[ws] \in Alive
                /\ state = IF conn[ws] = "open" THEN "connected" ELSE "connecting"
                /\ \A s \in Sockets \ {ws} : conn[s] = "unused"

Watching  == mounted \/ state = "idle"
Beginning == state = "idle" \/ (mounted /\ conn[ws] = "connecting")
Playing   == mounted /\ conn[ws] = "open"

Untouched ==
  /\ \A s \in Sockets : up[s] = << >> /\ down[s] = << >> /\ s \notin joined
  /\ \A s \in Sockets, h \in Hows : sub[<<s, h>>].pc = "idle" /\ sub[<<s, h>>].missed = {}
  /\ lastSeq <= seq /\ base = IF lastSeq = 0 THEN None ELSE lastSeq

(* The replay the page has asked for and not been answered.                *)
Frame == sub[<<ws, "frame">>]
Asked == Entries(up[ws]) \cup (IF Frame.pc \in {"register", "read"} THEN {Frame.last} ELSE {})

InQueue(q) == UNION { InMessage(m) : m \in Entries(q) }
Replay == Seqs(Frame.missed) \cup { e.seq : e \in { f \in Entries(ring) : \E n \in Asked : f.seq > n } }

Accounted(n) == n \in applied \cup lost \cup BeingPublished \cup InQueue(down[ws]) \cup Replay

(* The numbers from which the page owes events, or will once it has been   *)
(* told "connected".                                                       *)
Told(q) == { m.cur : m \in { k \in Entries(q) : k.type = "connected" } }
Greets(r) == r.pc = "answer" /\ r.v # None
Promised == Told(down[ws]) \cup { sub[<<ws, h>>].cur : h \in { k \in Hows : Greets(sub[<<ws, k>>]) } }
From == IF base # None THEN {base} ELSE Promised

Asking ==
  /\ \A n \in Asked : base = n /\ n > 0 /\ n # None
  /\ Frame.pc = "answer" => base # None
  /\ Frame.pc # "answer" \/ Frame.v = None => Frame.missed = {}
  /\ \A h \in Hows : sub[<<ws, h>>].pc \in {"read", "answer"} => ws \in joined
  /\ ws \notin joined => Asked # {} \/ (base = None /\ Promised = {})

Known ==
  /\ lastSeq <= seq
  /\ \A m \in Entries(down[ws]) : m.type = "event" => m.ev.seq <= seq
  /\ \A c \in Promised : c <= seq

Following == ws \in Sockets /\ Asking /\ Known /\ \A c \in From : \A n \in 1..seq : n > c => Accounted(n)

Feed == /\ FeedTypes /\ Recorded
        /\ Beginning => Untouched
        /\ Playing => Following

SteadyInv == LinkInv /\ faults \in Nat /\ (faults = 0 => Alone /\ (Watching => Feed))

--------------------------------------------------------------------------------

LEMMA QueueOfAppend ==
  ASSUME NEW q \in Seq(Message), NEW m \in Message
  PROVE  /\ Append(q, m) \in Seq(Message) /\ Len(Append(q, m)) = Len(q) + 1
         /\ Entries(Append(q, m)) = Entries(q) \cup {m}
         /\ InQueue(Append(q, m)) = InQueue(q) \cup InMessage(m)
<1>1. /\ Append(q, m) \in Seq(Message) /\ Len(Append(q, m)) = Len(q) + 1
      /\ Entries(Append(q, m)) = Entries(q) \cup {m}
  BY EntriesOfAppend
<1> QED BY <1>1 DEF InQueue

LEMMA QueueOfTail ==
  ASSUME NEW q \in Seq(Message), q # << >>
  PROVE  /\ Head(q) \in Message /\ Tail(q) \in Seq(Message) /\ Len(Tail(q)) = Len(q) - 1
         /\ Entries(q) = Entries(Tail(q)) \cup {Head(q)}
         /\ InQueue(q) = InQueue(Tail(q)) \cup InMessage(Head(q))
<1>1. /\ Head(q) \in Message /\ Tail(q) \in Seq(Message) /\ Len(Tail(q)) = Len(q) - 1
      /\ Entries(q) = Entries(Tail(q)) \cup {Head(q)}
  BY EntriesOfTail
<1> QED BY <1>1 DEF InQueue

LEMMA TypedEntries ==
  ASSUME NEW S, NEW q \in Seq(S)
  PROVE  Entries(q) \subseteq S /\ (q = << >> <=> Entries(q) = {})
BY DEF Entries

LEMMA FeedIsSteady ==
  ASSUME SteadyInv
  PROVE  SteadyPageMissesNothing
<1>1. SUFFICES ASSUME faults = 0, mounted
               PROVE  Owed \subseteq applied \cup lost \cup OnItsWay
  BY DEF SteadyPageMissesNothing, SeenIsAccountedFor
<1>2. LinkTypes /\ Alone /\ FeedTypes /\ Recorded /\ (Beginning => Untouched) /\ (Playing => Following)
  BY <1>1 DEF SteadyInv, LinkInv, Feed, Watching
<1>3. ws \in Sockets /\ ws # None /\ conn[ws] \in {"connecting", "open"}
  BY <1>1, <1>2, NoneIsNoSocket DEF Alone, Alive
<1>4. CASE conn[ws] = "connecting"
  <2>1. Owed = {}
    BY <1>1, <1>2, <1>4 DEF Beginning, Untouched, Owed, FeedTypes
  <2> QED BY <2>1
<1>5. CASE conn[ws] = "open"
  <2>1. Following
    BY <1>1, <1>2, <1>5 DEF Playing
  <2>2. IsOpen(Page)
    BY <1>3, <1>5 DEF IsOpen, Page
  <2>3. Queued(ws) = InQueue(down[ws]) /\ Replayed(ws) = Replay
    BY DEF Queued, InQueue, Entries, Replayed, Replay, Asked, Frame
  <2>4. OnItsWay = BeingPublished \cup InQueue(down[ws]) \cup Replay
    BY <2>2, <2>3 DEF OnItsWay
  <2>5. CASE base = None
    BY <2>5 DEF Owed
  <2>6. ASSUME base # None, NEW n \in (base + 1)..lastSeq
        PROVE  Accounted(n)
    <3>1. base \in From /\ base \in Nat /\ seq \in Nat /\ lastSeq \in Nat /\ lastSeq <= seq
      BY <1>2, <2>1, <2>6 DEF From, FeedTypes, Following, Known
    <3>2. n \in 1..seq /\ n > base
      BY <2>6, <3>1
    <3> QED BY <2>1, <3>1, <3>2 DEF Following
  <2> QED BY <2>4, <2>5, <2>6 DEF Owed, Accounted
<1> QED BY <1>3, <1>4, <1>5

LEMMA SteadyInit == Init => SteadyInv
<1> SUFFICES ASSUME Init  PROVE SteadyInv
  OBVIOUS
<1>1. LinkInv
  BY LinkHolds
<1>2. /\ faults = 0 /\ state = "idle" /\ ~mounted /\ ~timer /\ attempt = 0 /\ joined = {} /\ lost = {}
      /\ version = 0 /\ tick = None /\ bus = << >>
      /\ pub = [ p \in Publishers |-> [ pc |-> "idle", ev |-> NoEvent ] ]
      /\ sub = [ x \in Sockets \X Hows |-> NoSub ]
      /\ up = [ s \in Sockets |-> << >> ] /\ down = [ s \in Sockets |-> << >> ]
      /\ base = IF lastSeq = 0 THEN None ELSE lastSeq
      /\ lastSeq \in 0..seq /\ seq \in 0..EarlierEvents
      /\ ring = IF seq = 0 THEN << >> ELSE << [ seq |-> 1, kind |-> "state", v |-> 0 ] >>
  BY DEF Init, HubInit, SocketInit
<1>3. seq \in 0..1 /\ lastSeq \in Nat /\ SendBuffer \in Nat
  BY <1>2, HubAssumption, ChannelAssumption
<1>4. Alone
  BY <1>2 DEF Alone
<1>5. NoSub \in SubState /\ NoSub.pc = "idle" /\ NoSub.missed = {} /\ [ pc |-> "idle", ev |-> NoEvent ] \in PubState
  BY DEF NoSub, SubState, PubState, NoEvent, RoomEvent
<1>6. /\ pub \in [ Publishers -> PubState ] /\ \A p \in Publishers : pub[p].pc = "idle"
  BY <1>2, <1>5
<1>7. /\ sub \in [ Sockets \X Hows -> SubState ]
      /\ \A s \in Sockets, h \in Hows : sub[<<s, h>>] = NoSub
  BY <1>2, <1>5
<1>8. ring \in Seq(RoomEvent) /\ (seq = 1 => Stored = {1}) /\ (seq = 0 => Stored = {})
  <2> DEFINE e == [ seq |-> 1, kind |-> "state", v |-> 0 ]
  <2>1. e \in RoomEvent /\ e.seq = 1
    BY DEF RoomEvent
  <2> HIDE DEF e
  <2>2. CASE seq = 0
    BY <1>2, <2>2 DEF Stored, Seqs, Entries
  <2>3. CASE seq = 1
    <3>1. ring = << e >>
      BY <1>2, <2>3 DEF e
    <3>2. ring \in Seq(RoomEvent) /\ Entries(ring) = { e }
      BY <2>1, <3>1 DEF Entries
    <3> QED BY <2>1, <2>3, <3>2 DEF Stored, Seqs
  <2> QED BY <1>3, <2>2, <2>3
<1>9. FeedTypes
  BY <1>2, <1>3, <1>6, <1>7, <1>8, ChannelAssumption DEF FeedTypes
<1>10. Recorded
  <2>1. BeingPublished = {} /\ Outgoing = {}
    BY <1>2, <1>6 DEF BeingPublished, Outgoing, Seqs, Entries
  <2> QED BY <1>3, <1>8, <2>1 DEF Recorded
<1>11. Untouched
  BY <1>2, <1>3, <1>5, <1>7 DEF Untouched
<1> QED BY <1>1, <1>2, <1>4, <1>9, <1>10, <1>11 DEF SteadyInv, Feed, Watching, Playing

--------------------------------------------------------------------------------
(* The publishers                                                          *)

LEMMA NumbersAreNaturals ==
  ASSUME FeedTypes
  PROVE  BeingPublished \cup Stored \cup Outgoing \subseteq Nat
<1>1. \A p \in Publishers : pub[p].ev.seq \in Nat
  BY DEF FeedTypes, PubState, RoomEvent
<1>2. Entries(ring) \subseteq RoomEvent /\ Entries(bus) \subseteq RoomEvent
  BY TypedEntries DEF FeedTypes
<1>3. \A e \in Entries(ring) \cup Entries(bus) : e.seq \in Nat
  BY <1>2 DEF RoomEvent
<1> QED BY <1>1, <1>3 DEF BeingPublished, Outgoing, Stored, Seqs

(* What the page may have been asked, told or sent is of the right type.   *)
LEMMA PageNumbers ==
  ASSUME FeedTypes, ws \in Sockets
  PROVE  /\ up[ws] \in Seq(Nat) /\ down[ws] \in Seq(Message) /\ Len(down[ws]) <= SendBuffer
         /\ \A h \in Hows : sub[<<ws, h>>] \in SubState
         /\ Frame \in SubState /\ Asked \subseteq Nat
         /\ Entries(down[ws]) \subseteq Message
         /\ \A m \in Entries(down[ws]) : m.type = "event" => m.ev.seq \in Nat
         /\ Promised \subseteq Nat /\ From \subseteq Nat
<1>1. /\ up[ws] \in Seq(Nat) /\ down[ws] \in Seq(Message) /\ Len(down[ws]) <= SendBuffer
      /\ \A h \in Hows : sub[<<ws, h>>] \in SubState
  BY DEF FeedTypes
<1>2. Entries(down[ws]) \subseteq Message /\ Entries(up[ws]) \subseteq Nat
  BY <1>1, TypedEntries
<1>3. Frame \in SubState
  BY <1>1 DEF Frame, Hows
<1>4. Asked \subseteq Nat
  BY <1>2, <1>3 DEF Asked, SubState
<1>5. \A m \in Message : /\ m.type = "event" => m.ev.seq \in Nat
                         /\ m.type = "connected" => m.cur \in Nat
  BY DEF Message, RoomEvent
<1>6. Promised \subseteq Nat
  BY <1>1, <1>2, <1>5 DEF Promised, Told, SubState
<1>7. From \subseteq Nat
  BY <1>6 DEF From, FeedTypes
<1> QED BY <1>1, <1>2, <1>3, <1>4, <1>5, <1>6, <1>7

LEMMA PublisherFeeds ==
  ASSUME Feed, FeedTypes', Recorded',
         UNCHANGED <<conn, up, down, sub, joined, linkVars, viewVars>>,
         seq <= seq', BeingPublished \subseteq BeingPublished', lost \subseteq lost',
         Stored \subseteq Stored' \cup lost',
         \A n \in seq + 1 .. seq' : n \in BeingPublished'
  PROVE  Feed'
<1>1. FeedTypes /\ Recorded
  BY DEF Feed
<1>2. /\ ws' = ws /\ base' = base /\ lastSeq' = lastSeq /\ applied' = applied
      /\ mounted' = mounted /\ state' = state
  BY DEF linkVars, viewVars
<1>3. /\ Frame' = Frame /\ Asked' = Asked /\ Promised' = Promised /\ From' = From
      /\ InQueue(down[ws])' = InQueue(down[ws])
  BY <1>2 DEF Frame, Asked, Promised, From, InQueue, Told
<1>4. ASSUME Beginning'  PROVE Untouched'
  <2>1. Untouched
    BY <1>2, <1>4 DEF Beginning, Feed
  <2> QED BY <1>1, <1>2, <2>1 DEF Untouched, FeedTypes
<1>5. ASSUME Playing'  PROVE Following'
  <2>1. Following
    BY <1>2, <1>5 DEF Playing, Feed
  <2>2. Asking'
    BY <1>2, <1>3, <2>1 DEF Following, Asking
  <2>3. Known'
    <3>1. /\ Promised \subseteq Nat
          /\ \A m \in Entries(down[ws]) : m.type = "event" => m.ev.seq \in Nat
      BY <1>1, <2>1, PageNumbers DEF Following
    <3>2. seq \in Nat /\ seq' \in Nat /\ lastSeq \in Nat
      BY <1>1 DEF FeedTypes
    <3>3. Known
      BY <2>1 DEF Following
    <3> QED BY <1>2, <1>3, <3>1, <3>2, <3>3 DEF Known
  <2>4. \A n \in Replay : n \in Replay' \cup lost'
    <3>1. Replay' = Seqs(Frame.missed) \cup { e.seq : e \in { f \in Entries(ring') : \E n \in Asked : f.seq > n } }
      BY <1>3 DEF Replay
    <3>2. ASSUME NEW f \in Entries(ring), \E n \in Asked : f.seq > n
          PROVE  f.seq \in Replay' \cup lost'
      BY <3>1, <3>2 DEF Stored, Seqs
    <3> QED BY <3>1, <3>2 DEF Replay
  <2>5. ASSUME NEW c \in From, NEW n \in 1..seq', n > c
        PROVE  Accounted(n)'
    <3>1. CASE n \in 1..seq
      <4>1. Accounted(n)
        BY <2>1, <2>5, <3>1 DEF Following
      <4> QED BY <1>2, <1>3, <2>4, <4>1 DEF Accounted
    <3>2. CASE n \notin 1..seq
      BY <1>1, <2>5, <3>2 DEF Accounted, FeedTypes
    <3> QED BY <3>1, <3>2
  <2>6. ws' \in Sockets
    BY <1>2, <2>1 DEF Following
  <2>7. \A c \in From' : \A n \in 1..seq' : n > c => Accounted(n)'
    BY <1>3, <2>5
  <2> QED BY <2>2, <2>3, <2>6, <2>7 DEF Following
<1> QED BY <1>4, <1>5 DEF Feed

(* What a publisher does before its event has a number is of no concern to *)
(* the page.                                                               *)
LEMMA EarlyFeeds ==
  ASSUME Feed, NEW p \in Publishers, NEW x \in PubState,
         pub[p].pc \notin {"store", "publish"}, x.pc \notin {"store", "publish"},
         pub' = [ pub EXCEPT ![p] = x ], version' \in Nat,
         UNCHANGED <<seq, ring, bus, tick, sub, joined, lost>>,
         UNCHANGED <<conn, up, down, linkVars, viewVars>>
  PROVE  Feed'
<1>1. FeedTypes /\ Recorded
  BY DEF Feed
<1>2. lastSeq' = lastSeq /\ base' = base
  BY DEF viewVars
<1>3. /\ pub' \in [ Publishers -> PubState ] /\ pub'[p] = x
      /\ \A q \in Publishers : q # p => pub'[q] = pub[q]
  BY <1>1 DEF FeedTypes
<1>4. FeedTypes'
  BY <1>1, <1>2, <1>3 DEF FeedTypes
<1>5. BeingPublished' = BeingPublished /\ Outgoing' = Outgoing
  <2>1. ASSUME NEW n
        PROVE  n \in BeingPublished' <=> n \in BeingPublished
    BY <1>3 DEF BeingPublished
  <2>2. ASSUME NEW n
        PROVE  n \in Outgoing' <=> n \in Outgoing
    BY <1>3 DEF Outgoing
  <2>3. BeingPublished' \subseteq BeingPublished /\ BeingPublished \subseteq BeingPublished'
    BY <2>1
  <2>4. Outgoing' \subseteq Outgoing /\ Outgoing \subseteq Outgoing'
    BY <2>2
  <2> QED BY <2>3, <2>4
<1>6. Recorded'
  BY <1>1, <1>5 DEF Recorded, Stored
<1>7. Stored' = Stored /\ seq <= seq' /\ \A n \in seq + 1 .. seq' : n \in BeingPublished'
  BY <1>1 DEF Stored, FeedTypes
<1> QED BY <1>4, <1>5, <1>6, <1>7, PublisherFeeds

LEMMA ChangeFeeds ==
  ASSUME Feed, NEW p \in Publishers, Change(p), UNCHANGED <<conn, up, down, linkVars, viewVars>>
  PROVE  Feed'
<1>1. PICK k \in Kinds : pub' = [ pub EXCEPT ![p] =
         [ pc |-> "reread", ev |-> [ seq |-> 0, kind |-> k, v |-> version + 1 ] ] ]
  BY DEF Change
<1>2. PICK x : x = [ pc |-> "reread", ev |-> [ seq |-> 0, kind |-> k, v |-> version + 1 ] ]
  OBVIOUS
<1>3. version \in Nat
  BY DEF Feed, FeedTypes
<1>4. x \in PubState /\ x.pc = "reread"
  BY <1>2, <1>3, ChannelAssumption DEF PubState, RoomEvent
<1>5. /\ pub[p].pc = "idle" /\ version' \in Nat
      /\ UNCHANGED <<seq, ring, bus, tick, sub, joined, lost>>
  BY <1>3 DEF Change
<1>6. pub' = [ pub EXCEPT ![p] = x ]
  BY <1>1, <1>2
<1> QED BY <1>4, <1>5, <1>6, EarlyFeeds

(* The three steps of a publisher that write the snapshot.                 *)
LEMMA EarlyStep ==
  ASSUME pub \in [ Publishers -> PubState ], version \in Nat,
         NEW p \in Publishers, Reread(p) \/ Drop(p) \/ Save(p)
  PROVE  /\ pub[p].pc \in {"reread", "drop", "save"}
         /\ UNCHANGED <<version, seq, ring, bus, tick, sub, joined, left, lost, hidden, load, deaf>>
         /\ \E x \in PubState : /\ x.pc \in {"idle", "drop", "save", "number"}
                                /\ x.ev = NoEvent \/ x.ev.seq = pub[p].ev.seq
                                /\ pub' = [ pub EXCEPT ![p] = x ]
<1>1. /\ pub[p].pc \in {"reread", "drop", "save"}
      /\ UNCHANGED <<version, seq, ring, bus, tick, sub, joined, left, lost, hidden, load, deaf>>
  BY DEF Reread, Drop, Save
<1>2. pub[p] \in PubState /\ p \in DOMAIN pub /\ pub[p].ev \in RoomEvent
  BY DEF PubState
<1>3. PICK i : i = [ pc |-> "idle", ev |-> NoEvent ]
  OBVIOUS
<1>4. i \in PubState /\ i.pc = "idle" /\ i.ev = NoEvent
  BY <1>3 DEF PubState, NoEvent, RoomEvent
<1>5. ASSUME NEW c \in {"drop", "save"}, pub' = [ pub EXCEPT ![p].ev.v = version, ![p].pc = c ]
      PROVE  \E x \in PubState : x.pc = c /\ x.ev.seq = pub[p].ev.seq /\ pub' = [ pub EXCEPT ![p] = x ]
  <2>1. PICK x : x = [ pub[p] EXCEPT !.ev = [ pub[p].ev EXCEPT !.v = version ], !.pc = c ]
    OBVIOUS
  <2>2. x \in PubState /\ x.pc = c /\ x.ev.seq = pub[p].ev.seq
    BY <1>2, <2>1 DEF PubState, RoomEvent
  <2>3. pub' = [ pub EXCEPT ![p] = x ]
    BY <1>2, <1>5, <2>1 DEF PubState, RoomEvent
  <2> QED BY <2>2, <2>3
<1>6. ASSUME NEW c \in {"save", "number"}, pub' = [ pub EXCEPT ![p].pc = c ]
      PROVE  \E x \in PubState : x.pc = c /\ x.ev.seq = pub[p].ev.seq /\ pub' = [ pub EXCEPT ![p] = x ]
  <2>1. PICK x : x = [ pub[p] EXCEPT !.pc = c ]
    OBVIOUS
  <2>2. x \in PubState /\ x.pc = c /\ x.ev.seq = pub[p].ev.seq /\ pub' = [ pub EXCEPT ![p] = x ]
    BY <1>2, <1>6, <2>1 DEF PubState
  <2> QED BY <2>2
<1>7. \/ pub' = [ pub EXCEPT ![p] = i ]
      \/ \E c \in {"drop", "save"} : pub' = [ pub EXCEPT ![p].ev.v = version, ![p].pc = c ]
      \/ \E c \in {"save", "number"} : pub' = [ pub EXCEPT ![p].pc = c ]
  BY <1>3 DEF Reread, Drop, Save
<1> QED BY <1>1, <1>4, <1>5, <1>6, <1>7

LEMMA EarlyStepFeeds ==
  ASSUME Feed, NEW p \in Publishers, Reread(p) \/ Drop(p) \/ Save(p),
         UNCHANGED <<conn, up, down, linkVars, viewVars>>
  PROVE  Feed'
<1>1. pub \in [ Publishers -> PubState ] /\ version \in Nat
  BY DEF Feed, FeedTypes
<1>2. /\ pub[p].pc \notin {"store", "publish"} /\ version' \in Nat
      /\ UNCHANGED <<seq, ring, bus, tick, sub, joined, lost>>
  BY <1>1, EarlyStep
<1>3. PICK x \in PubState : x.pc \notin {"store", "publish"} /\ pub' = [ pub EXCEPT ![p] = x ]
  BY <1>1, EarlyStep
<1> QED BY <1>2, <1>3, EarlyFeeds

LEMMA NumberFeeds ==
  ASSUME Feed, faults \in Nat, faults' = 0, NEW p \in Publishers, Number(p),
         UNCHANGED <<conn, up, down, linkVars, viewVars>>
  PROVE  Feed'
<1>1. FeedTypes /\ Recorded
  BY DEF Feed
<1>2. /\ pub[p].pc = "number" /\ seq' = seq + 1
      /\ pub' = [ pub EXCEPT ![p].pc = "store", ![p].ev.seq = seq + 1 ]
      /\ UNCHANGED <<version, ring, bus, tick, sub, joined, lost>>
  BY DEF Number, Fault
<1>3. lastSeq' = lastSeq /\ base' = base
  BY DEF viewVars
<1>4. /\ pub' \in [ Publishers -> PubState ]
      /\ pub'[p].pc = "store" /\ pub'[p].ev.seq = seq + 1
      /\ \A q \in Publishers : q # p => pub'[q] = pub[q]
  <2>1. pub[p] \in PubState /\ seq + 1 \in Nat /\ p \in DOMAIN pub
    BY <1>1 DEF FeedTypes
  <2> DEFINE x == [ pub[p] EXCEPT !.pc = "store" ]
             P == [ pub EXCEPT ![p] = x ]
             y == [ x EXCEPT !.ev = [ x.ev EXCEPT !.seq = seq + 1 ] ]
  <2>2. x \in PubState /\ x.pc = "store" /\ x.ev = pub[p].ev
    BY <2>1 DEF PubState
  <2>3. y \in PubState /\ y.pc = "store" /\ y.ev.seq = seq + 1
    BY <2>1, <2>2 DEF PubState, RoomEvent
  <2>4. P[p] = x /\ pub' = [ P EXCEPT ![p] = [ P[p] EXCEPT !.ev = [ P[p].ev EXCEPT !.seq = seq + 1 ] ] ]
    BY <1>2, <2>1
  <2>5. pub' = [ P EXCEPT ![p] = y ]
    BY <2>4
  <2> HIDE DEF x, y
  <2>6. P \in [ Publishers -> PubState ] /\ \A q \in Publishers : q # p => P[q] = pub[q]
    BY <1>1, <2>1, <2>2 DEF FeedTypes
  <2> HIDE DEF P
  <2>7. pub' \in [ Publishers -> PubState ] /\ pub'[p] = y
        /\ \A q \in Publishers : q # p => pub'[q] = P[q]
    BY <2>3, <2>5, <2>6
  <2> QED BY <2>3, <2>6, <2>7
<1>5. FeedTypes'
  BY <1>1, <1>2, <1>3, <1>4 DEF FeedTypes
<1>6. BeingPublished' = BeingPublished \cup {seq + 1} /\ Outgoing' = Outgoing
  <2>1. ASSUME NEW n
        PROVE  n \in BeingPublished' <=> n \in BeingPublished \cup {seq + 1}
    BY <1>2, <1>4 DEF BeingPublished
  <2>2. ASSUME NEW n
        PROVE  n \in Outgoing' <=> n \in Outgoing
    BY <1>2, <1>4 DEF Outgoing
  <2> QED BY <2>1, <2>2
<1>7. Recorded'
  <2>1. ASSUME NEW n \in 1..seq + 1
        PROVE  n \in 1..seq \/ n = seq + 1
    BY <1>1 DEF FeedTypes
  <2>2. ASSUME NEW n \in BeingPublished' \cup Stored
        PROVE  n <= seq + 1
    <3>1. BeingPublished \cup Stored \subseteq Nat
      BY <1>1, NumbersAreNaturals
    <3> QED BY <1>1, <1>6, <3>1 DEF Recorded, FeedTypes
  <2>3. Stored' = Stored
    BY <1>2 DEF Stored
  <2>4. \A n \in 1..seq' : n \in lost' \cup BeingPublished' \cup Stored'
    BY <1>1, <1>2, <1>6, <2>1, <2>3 DEF Recorded
  <2>5. Outgoing' \subseteq lost' \cup Stored'
    BY <1>1, <1>2, <1>6, <2>3 DEF Recorded
  <2>6. \A n \in BeingPublished' \cup Stored' : n <= seq'
    BY <1>2, <2>2, <2>3
  <2> QED BY <2>4, <2>5, <2>6 DEF Recorded
<1>8. seq <= seq' /\ \A n \in seq + 1 .. seq' : n \in BeingPublished'
  BY <1>1, <1>2, <1>6 DEF FeedTypes
<1>9. Stored' = Stored
  BY <1>2 DEF Stored
<1> QED BY <1>2, <1>5, <1>6, <1>7, <1>8, <1>9, PublisherFeeds

LEMMA StoreFeeds ==
  ASSUME Feed, faults \in Nat, faults' = 0, NEW p \in Publishers, Store(p),
         UNCHANGED <<conn, up, down, linkVars, viewVars>>
  PROVE  Feed'
<1>1. FeedTypes /\ Recorded
  BY DEF Feed
<1>2. /\ pub[p].pc = "store" /\ ring' = Pushed(ring, pub[p].ev)
      /\ lost' = lost \cup (Seqs(Entries(ring)) \ Seqs(Entries(ring')))
      /\ pub' = [ pub EXCEPT ![p].pc = "publish" ]
      /\ UNCHANGED <<version, seq, bus, tick, sub, joined>>
  BY DEF Store, Fault
<1>3. lastSeq' = lastSeq /\ base' = base
  BY DEF viewVars
<1>4. /\ pub' \in [ Publishers -> PubState ] /\ pub[p].ev \in RoomEvent
      /\ pub'[p].pc = "publish" /\ pub'[p].ev = pub[p].ev
      /\ \A q \in Publishers : q # p => pub'[q] = pub[q]
  BY <1>1, <1>2 DEF FeedTypes, PubState
<1>5. /\ ring' \in Seq(RoomEvent) /\ pub[p].ev \in Entries(ring')
      /\ Entries(ring') \subseteq Entries(ring) \cup {pub[p].ev}
  <2> DEFINE r == Append(ring, pub[p].ev)
  <2>1. /\ r \in Seq(RoomEvent) /\ Len(r) = Len(ring) + 1 /\ Len(ring) \in Nat
        /\ Entries(r) = Entries(ring) \cup {pub[p].ev}
    BY <1>1, <1>4, EntriesOfAppend DEF FeedTypes
  <2>2. ring' = IF Len(r) > RingSize THEN Tail(r) ELSE r
    BY <1>2 DEF Pushed
  <2>3. r[Len(ring) + 1] = pub[p].ev
    BY <1>1 DEF FeedTypes
  <2> HIDE DEF r
  <2>4. CASE Len(r) > RingSize
    <3>1. Len(r) > 1 /\ r # << >>
      BY <2>1, <2>4, HubAssumption
    <3>2. Tail(r) \in Seq(RoomEvent) /\ Entries(Tail(r)) \subseteq Entries(r)
      BY <2>1, <3>1, EntriesOfTail
    <3>3. Len(ring) \in DOMAIN Tail(r) /\ Tail(r)[Len(ring)] = r[Len(ring) + 1]
      BY <2>1, <3>1
    <3> QED BY <2>1, <2>2, <2>3, <2>4, <3>2, <3>3 DEF Entries
  <2> QED BY <2>1, <2>2, <2>4
<1>6. FeedTypes'
  BY <1>1, <1>2, <1>3, <1>4, <1>5 DEF FeedTypes
<1>7. /\ BeingPublished' = BeingPublished /\ Outgoing' = Outgoing \cup {pub[p].ev.seq}
      /\ pub[p].ev.seq \in BeingPublished
  <2>1. ASSUME NEW n
        PROVE  n \in BeingPublished' <=> n \in BeingPublished
    BY <1>2, <1>4 DEF BeingPublished
  <2>2. ASSUME NEW n
        PROVE  n \in Outgoing' <=> n \in Outgoing \cup {pub[p].ev.seq}
    BY <1>2, <1>4 DEF Outgoing
  <2> QED BY <1>2, <2>1, <2>2 DEF BeingPublished
<1>8. \A f \in Entries(ring) : f.seq \in Stored' \cup lost'
  BY <1>2 DEF Stored, Seqs
<1>9. Recorded'
  BY <1>1, <1>2, <1>5, <1>7 DEF Recorded, Stored, Seqs
<1>10. Stored \subseteq Stored' \cup lost'
  BY <1>2 DEF Stored
<1> QED BY <1>1, <1>2, <1>6, <1>7, <1>9, <1>10, PublisherFeeds DEF FeedTypes

LEMMA BroadcastFeeds ==
  ASSUME Feed, faults \in Nat, faults' = 0, NEW p \in Publishers, Broadcast(p),
         UNCHANGED <<conn, up, down, linkVars, viewVars>>
  PROVE  Feed'
<1>1. FeedTypes /\ Recorded
  BY DEF Feed
<1>2. /\ pub[p].pc = "publish" /\ bus' = Append(bus, pub[p].ev)
      /\ pub' = [ pub EXCEPT ![p] = [ pc |-> "idle", ev |-> NoEvent ] ]
      /\ UNCHANGED <<version, seq, ring, tick, sub, joined, lost>>
  BY DEF Broadcast, Fault
<1>3. lastSeq' = lastSeq /\ base' = base
  BY DEF viewVars
<1>4. /\ pub' \in [ Publishers -> PubState ] /\ pub[p].ev \in RoomEvent
      /\ pub'[p].pc = "idle" /\ \A q \in Publishers : q # p => pub'[q] = pub[q]
  BY <1>1, <1>2 DEF FeedTypes, PubState, NoEvent, RoomEvent
<1>5. bus' \in Seq(RoomEvent) /\ Entries(bus') = Entries(bus) \cup {pub[p].ev}
  BY <1>1, <1>2, <1>4, EntriesOfAppend DEF FeedTypes
<1>6. FeedTypes'
  BY <1>1, <1>2, <1>3, <1>4, <1>5 DEF FeedTypes
<1>7. BeingPublished' = BeingPublished /\ Outgoing' = Outgoing
  <2>1. ASSUME NEW n
        PROVE  n \in BeingPublished' <=> n \in BeingPublished
    BY <1>2, <1>4, <1>5 DEF BeingPublished, Seqs
  <2>2. ASSUME NEW n
        PROVE  n \in Outgoing' <=> n \in Outgoing
    BY <1>2, <1>4, <1>5 DEF Outgoing, Seqs
  <2>3. BeingPublished' \subseteq BeingPublished /\ BeingPublished \subseteq BeingPublished'
    BY <2>1
  <2>4. Outgoing' \subseteq Outgoing /\ Outgoing \subseteq Outgoing'
    BY <2>2
  <2> QED BY <2>3, <2>4
<1>8. Stored' = Stored /\ seq <= seq' /\ \A n \in seq + 1 .. seq' : n \in BeingPublished'
  BY <1>1, <1>2 DEF Stored, FeedTypes
<1>9. Recorded'
  BY <1>1, <1>2, <1>7, <1>8 DEF Recorded
<1> QED BY <1>2, <1>6, <1>7, <1>8, <1>9, PublisherFeeds

--------------------------------------------------------------------------------
(* What the hub sends to the room                                          *)

(* An event joins the queues that the room listens to and that have room.  *)
LEMMA RoomSends ==
  ASSUME FeedTypes, NEW ev \in RoomEvent, down' = SentToRoom(EventMsg(ev)), NEW s \in Sockets
  PROVE  /\ DOMAIN down' = Sockets
         /\ down'[s] \in Seq(Message) /\ Len(down'[s]) <= SendBuffer
         /\ \/ s \notin Listening /\ down'[s] = down[s]
            \/ s \in Listening /\ ~Room(down[s]) /\ down'[s] = down[s]
            \/ /\ s \in Listening /\ Room(down[s])
               /\ Entries(down'[s]) = Entries(down[s]) \cup {EventMsg(ev)}
               /\ InQueue(down'[s]) = InQueue(down[s]) \cup InMessage(EventMsg(ev))
<1>1. down[s] \in Seq(Message) /\ Len(down[s]) <= SendBuffer /\ EventMsg(ev) \in Message
  BY DEF FeedTypes, EventMsg, Message
<1>2. DOMAIN down' = Sockets /\ down'[s] = IF s \in Listening THEN Push(down[s], EventMsg(ev)) ELSE down[s]
  BY DEF SentToRoom
<1>3. CASE s \in Listening /\ Room(down[s])
  <2>1. down'[s] = Append(down[s], EventMsg(ev))
    BY <1>2, <1>3 DEF Push
  <2>2. /\ down'[s] \in Seq(Message) /\ Len(down'[s]) = Len(down[s]) + 1
        /\ Entries(down'[s]) = Entries(down[s]) \cup {EventMsg(ev)}
        /\ InQueue(down'[s]) = InQueue(down[s]) \cup InMessage(EventMsg(ev))
    BY <1>1, <2>1, QueueOfAppend
  <2>3. Len(down[s]) \in Nat /\ Len(down[s]) < SendBuffer /\ SendBuffer \in Nat
    BY <1>1, <1>3, ChannelAssumption DEF Room
  <2> QED BY <1>2, <1>3, <2>2, <2>3
<1>4. CASE ~(s \in Listening /\ Room(down[s]))
  BY <1>1, <1>2, <1>4 DEF Push
<1> QED BY <1>3, <1>4

(* An event that the page does not get is dropped, is in its replay, or    *)
(* comes before what the page is going to be told.                         *)
LEMMA RoomSendFeeds ==
  ASSUME Feed, Alone, NEW ev \in RoomEvent, down' = SentToRoom(EventMsg(ev)), ev.seq <= seq,
         UNCHANGED <<conn, up, sub, joined, version, seq, ring, linkVars, viewVars>>,
         tick' \in Nat \cup {None}, bus' \in Seq(RoomEvent), pub' \in [ Publishers -> PubState ],
         Recorded', lost \subseteq lost', BeingPublished \subseteq BeingPublished' \cup {ev.seq},
         ev.seq = 0 \/ ev.seq \in lost' \cup Stored,
         (\E s \in Listening : ~Room(down[s])) => ev.seq = 0 \/ ev.seq \in lost'
  PROVE  Feed'
<1>1. FeedTypes /\ Recorded
  BY DEF Feed
<1>2. /\ ws' = ws /\ base' = base /\ lastSeq' = lastSeq /\ applied' = applied
      /\ mounted' = mounted /\ state' = state
  BY DEF linkVars, viewVars
<1>3. \A s \in Sockets : /\ DOMAIN down' = Sockets
                         /\ down'[s] \in Seq(Message) /\ Len(down'[s]) <= SendBuffer
  BY <1>1, RoomSends
<1>4. down' \in [ Sockets -> Seq(Message) ]
  BY <1>3 DEF SentToRoom
<1>5. FeedTypes'
  BY <1>1, <1>2, <1>3, <1>4 DEF FeedTypes
<1>6. ASSUME Beginning'  PROVE Untouched'
  <2>1. Untouched
    BY <1>2, <1>6 DEF Beginning, Feed
  <2>2. \A s \in Sockets : s \notin Listening
    BY <1>1, <2>1 DEF Untouched, Listening
  <2>3. \A s \in Sockets : down'[s] = down[s]
    BY <2>2 DEF SentToRoom
  <2> QED BY <1>2, <2>1, <2>3 DEF Untouched
<1>7. ASSUME Playing'  PROVE Following'
  <2>1. Following /\ conn[ws] = "open" /\ ws \in Sockets
    BY <1>2, <1>7 DEF Playing, Feed, Following
  <2>2. /\ down[ws] \in Seq(Message) /\ Entries(down[ws]) \subseteq Message
        /\ \A m \in Entries(down[ws]) : m.type = "event" => m.ev.seq \in Nat
        /\ From \subseteq Nat /\ Promised \subseteq Nat
    BY <1>1, <2>1, PageNumbers
  <2>3. ws \in Listening <=> ws \in joined
    BY <2>1 DEF Listening, Alive
  <2>4. \/ down'[ws] = down[ws] /\ (ws \in joined => ev.seq = 0 \/ ev.seq \in lost')
        \/ /\ Entries(down'[ws]) = Entries(down[ws]) \cup {EventMsg(ev)}
           /\ InQueue(down'[ws]) = InQueue(down[ws]) \cup InMessage(EventMsg(ev))
    BY <1>1, <2>1, <2>3, RoomSends
  <2>5. EventMsg(ev).type = "event" /\ EventMsg(ev).ev = ev
    BY DEF EventMsg
  <2>6. InMessage(EventMsg(ev)) = {ev.seq} \ {0}
    BY <2>5 DEF InMessage, Numbered
  <2>7. Told(down'[ws]) = Told(down[ws])
    BY <2>4, <2>5 DEF Told
  <2>8. /\ Frame' = Frame /\ Asked' = Asked /\ Promised' = Promised /\ From' = From /\ Replay' = Replay
    <3>1. Frame' = Frame
      BY <1>2 DEF Frame
    <3>2. Asked' = Asked
      BY <1>2, <3>1 DEF Asked
    <3>3. Promised' = Promised
      BY <1>2, <2>7 DEF Promised
    <3>4. From' = From
      BY <1>2, <3>3 DEF From
    <3>5. Replay' = Replay
      BY <3>1, <3>2 DEF Replay
    <3> QED BY <3>1, <3>2, <3>3, <3>4, <3>5
  <2>9. Asking'
    BY <1>2, <2>1, <2>8 DEF Following, Asking
  <2>10. Known'
    <3>1. Known
      BY <2>1 DEF Following
    <3>2. \A m \in Entries(down'[ws]) : m \in Entries(down[ws]) \/ m = EventMsg(ev)
      BY <2>4
    <3>3. \A m \in Entries(down'[ws]) : m.type = "event" => m.ev.seq <= seq
      BY <2>5, <3>1, <3>2 DEF Known
    <3> QED BY <1>2, <2>8, <3>1, <3>3 DEF Known
  <2>11. ASSUME NEW c \in From, NEW n \in 1..seq, n > c
         PROVE  n \in applied \cup lost' \cup BeingPublished' \cup InQueue(down'[ws]) \cup Replay
    <3>1. n \in applied \cup lost \cup BeingPublished \cup InQueue(down[ws]) \cup Replay /\ n # 0
      BY <2>1, <2>11 DEF Following, Accounted
    <3>2. CASE n # ev.seq
      BY <2>4, <3>1, <3>2
    <3>3. CASE n = ev.seq
      <4>1. CASE down'[ws] # down[ws]
        BY <2>4, <2>6, <3>1, <3>3, <4>1
      <4>2. CASE n \in lost'
        BY <4>2
      <4>3. CASE down'[ws] = down[ws] /\ n \notin lost' /\ ws \in joined
        BY <2>4, <2>6, <3>1, <3>3, <4>3
      <4>4. CASE n \notin lost' /\ ws \notin joined
        <5>1. n \in Stored
          BY <3>1, <3>3, <4>4
        <5>2. Asked # {} /\ \A a \in Asked : a = c
          BY <2>1, <2>11, <4>4 DEF Following, Asking, From
        <5> QED BY <2>11, <5>1, <5>2 DEF Replay, Stored, Seqs
      <4> QED BY <4>1, <4>2, <4>3, <4>4
    <3> QED BY <3>2, <3>3
  <2> QED BY <1>2, <2>1, <2>8, <2>9, <2>10, <2>11 DEF Following, Accounted
<1> QED BY <1>5, <1>6, <1>7 DEF Feed

LEMMA DeliverFeeds ==
  ASSUME Feed, Alone, Deliver, UNCHANGED <<linkVars, viewVars>>
  PROVE  Feed'
<1>1. FeedTypes /\ Recorded
  BY DEF Feed
<1> DEFINE h == Head(bus)
<1>2. /\ bus # << >> /\ bus' = Tail(bus) /\ down' = SentToRoom(EventMsg(h))
      /\ lost' = IF \E s \in Listening : ~Room(down[s]) THEN lost \cup { h.seq } ELSE lost
      /\ UNCHANGED <<conn, up, version, seq, ring, tick, pub, sub, joined>>
  BY DEF Deliver
<1>3. h \in RoomEvent /\ bus' \in Seq(RoomEvent) /\ Entries(bus) = Entries(bus') \cup {h}
  BY <1>1, <1>2, EntriesOfTail DEF FeedTypes
<1> HIDE DEF h
<1>4. /\ BeingPublished = BeingPublished' \cup {h.seq}
      /\ Outgoing = Outgoing' \cup {h.seq}
  BY <1>2, <1>3 DEF BeingPublished, Outgoing, Seqs
<1>5. Stored' = Stored /\ h.seq \in lost \cup Stored /\ h.seq <= seq
  BY <1>1, <1>2, <1>4 DEF Recorded, Stored
<1>6. Recorded'
  BY <1>1, <1>2, <1>4, <1>5 DEF Recorded
<1>7. tick' \in Nat \cup {None} /\ pub' \in [ Publishers -> PubState ]
  BY <1>1, <1>2 DEF FeedTypes
<1> QED BY <1>2, <1>3, <1>4, <1>5, <1>6, <1>7, RoomSendFeeds

LEMMA DeliverTickFeeds ==
  ASSUME Feed, Alone, DeliverTick, UNCHANGED <<linkVars, viewVars>>
  PROVE  Feed'
<1>1. FeedTypes /\ Recorded
  BY DEF Feed
<1> DEFINE h == [ seq |-> 0, kind |-> "tick", v |-> tick ]
<1>2. /\ tick # None /\ down' = SentToRoom(EventMsg(h)) /\ tick' = None
      /\ UNCHANGED <<conn, up, version, seq, ring, bus, pub, sub, joined, lost>>
  BY DEF DeliverTick
<1>3. h \in RoomEvent /\ h.seq = 0
  BY <1>1, <1>2 DEF FeedTypes, RoomEvent
<1> HIDE DEF h
<1>4. BeingPublished' = BeingPublished /\ Outgoing' = Outgoing /\ Stored' = Stored
  BY <1>2 DEF BeingPublished, Outgoing, Stored
<1>5. Recorded'
  BY <1>1, <1>2, <1>4 DEF Recorded
<1>6. /\ tick' \in Nat \cup {None} /\ bus' \in Seq(RoomEvent) /\ pub' \in [ Publishers -> PubState ]
      /\ h.seq <= seq
  BY <1>1, <1>2, <1>3 DEF FeedTypes
<1> QED BY <1>2, <1>3, <1>4, <1>5, <1>6, RoomSendFeeds

LEMMA ReadTickFeeds ==
  ASSUME Feed, Snapshots \subseteq Nat, ReadTick, UNCHANGED <<conn, up, down, linkVars, viewVars>>
  PROVE  Feed'
<1>1. FeedTypes /\ Recorded
  BY DEF Feed
<1>2. tick' \in Snapshots /\ UNCHANGED <<version, seq, ring, bus, pub, sub, joined, lost>>
  BY DEF ReadTick
<1>3. lastSeq' = lastSeq /\ base' = base
  BY DEF viewVars
<1>4. FeedTypes'
  BY <1>1, <1>2, <1>3 DEF FeedTypes
<1>5. BeingPublished' = BeingPublished /\ Outgoing' = Outgoing /\ Stored' = Stored
  BY <1>2 DEF BeingPublished, Outgoing, Stored
<1>6. Recorded'
  BY <1>1, <1>2, <1>5 DEF Recorded
<1>7. seq <= seq' /\ \A n \in seq + 1 .. seq' : n \in BeingPublished'
  BY <1>1, <1>2 DEF FeedTypes
<1> QED BY <1>2, <1>4, <1>5, <1>6, <1>7, PublisherFeeds

(* Nor is the reader that loads the snapshot.                              *)
LEMMA LoadFeeds ==
  ASSUME Feed, Load \/ Fill, UNCHANGED <<conn, up, down, linkVars, viewVars>>
  PROVE  Feed'
<1>1. FeedTypes /\ Recorded
  BY DEF Feed
<1>2. UNCHANGED <<version, seq, ring, bus, tick, pub, sub, joined, lost>>
  BY DEF Load, Fill
<1>3. lastSeq' = lastSeq /\ base' = base
  BY DEF viewVars
<1>4. FeedTypes'
  BY <1>1, <1>2, <1>3 DEF FeedTypes
<1>5. BeingPublished' = BeingPublished /\ Outgoing' = Outgoing /\ Stored' = Stored
  BY <1>2 DEF BeingPublished, Outgoing, Stored
<1>6. Recorded'
  BY <1>1, <1>2, <1>5 DEF Recorded
<1>7. seq <= seq' /\ \A n \in seq + 1 .. seq' : n \in BeingPublished'
  BY <1>1, <1>2 DEF FeedTypes
<1> QED BY <1>2, <1>4, <1>5, <1>6, <1>7, PublisherFeeds

--------------------------------------------------------------------------------
(* The subscriptions                                                       *)

LEMMA RecordedStays ==
  ASSUME Recorded, UNCHANGED <<pub, bus, ring, seq>>, lost \subseteq lost'
  PROVE  Recorded' /\ BeingPublished' = BeingPublished /\ Stored' = Stored
<1>1. BeingPublished' = BeingPublished /\ Outgoing' = Outgoing /\ Stored' = Stored
  BY DEF BeingPublished, Outgoing, Stored
<1> QED BY <1>1 DEF Recorded

LEMMA PromisesStay ==
  ASSUME ws' = ws, down'[ws] = down[ws],
         \A h \in Hows :  /\ Greets(sub'[<<ws, h>>]) <=> Greets(sub[<<ws, h>>])
                          /\ Greets(sub[<<ws, h>>]) => sub'[<<ws, h>>].cur = sub[<<ws, h>>].cur
  PROVE  Promised' = Promised
<1>1. \A c : c \in Promised <=> \/ c \in Told(down[ws])
                                \/ \E h \in Hows : Greets(sub[<<ws, h>>]) /\ c = sub[<<ws, h>>].cur
  BY DEF Promised, Told
<1>2. \A c : c \in Promised' <=> \/ c \in Told(down[ws])
                                 \/ \E h \in Hows : Greets(sub'[<<ws, h>>]) /\ c = sub'[<<ws, h>>].cur
  BY DEF Promised, Told
<1>3. \A c : c \in Promised <=> c \in Promised'
  <2>1. ASSUME NEW c, NEW h \in Hows
        PROVE  (Greets(sub[<<ws, h>>]) /\ c = sub[<<ws, h>>].cur)
                 <=> (Greets(sub'[<<ws, h>>]) /\ c = sub'[<<ws, h>>].cur)
    OBVIOUS
  <2>2. ASSUME NEW c, c \in Promised  PROVE c \in Promised'
    BY <1>1, <1>2, <2>1, <2>2
  <2>3. ASSUME NEW c, c \in Promised'  PROVE c \in Promised
    BY <1>1, <1>2, <2>1, <2>3
  <2> QED BY <2>2, <2>3
<1> QED BY <1>3

(* A step of one connection's subscription concerns the page only when it  *)
(* is the page's own connection, and its socket is open.                   *)
LEMMA ConnectionFeeds ==
  ASSUME Feed, FeedTypes', NEW s \in Sockets,
         UNCHANGED <<conn, version, seq, ring, bus, tick, pub, linkVars, viewVars>>,
         lost \subseteq lost', ~Untouched,
         \A t \in Sockets : t # s => /\ up'[t] = up[t] /\ down'[t] = down[t]
                                     /\ t \in joined' <=> t \in joined
                                     /\ \A h \in Hows : sub'[<<t, h>>] = sub[<<t, h>>],
         Playing /\ Following /\ s = ws => Following'
  PROVE  Feed'
<1>1. FeedTypes /\ Recorded
  BY DEF Feed
<1>2. /\ ws' = ws /\ base' = base /\ lastSeq' = lastSeq /\ applied' = applied
      /\ mounted' = mounted /\ state' = state
  BY DEF linkVars, viewVars
<1>3. Recorded' /\ BeingPublished' = BeingPublished /\ Stored' = Stored
  BY <1>1, RecordedStays
<1>4. ~Beginning'
  <2>1. Beginning' => Beginning
    BY <1>2 DEF Beginning
  <2> QED BY <2>1 DEF Feed
<1>5. ASSUME Playing'  PROVE Following'
  <2>1. Playing /\ Following /\ ws \in Sockets
    BY <1>2, <1>5 DEF Playing, Feed, Following
  <2>2. CASE s # ws
    <3>1. /\ up'[ws] = up[ws] /\ down'[ws] = down[ws] /\ (ws \in joined' <=> ws \in joined)
          /\ \A h \in Hows : sub'[<<ws, h>>] = sub[<<ws, h>>]
      BY <2>1, <2>2
    <3>2. Frame' = Frame
      BY <1>2, <3>1 DEF Frame, Hows
    <3>3. Asked' = Asked
      BY <1>2, <3>1, <3>2 DEF Asked
    <3>4. Promised' = Promised
      BY <1>2, <3>1 DEF Promised
    <3>5. From' = From
      BY <1>2, <3>4 DEF From
    <3>6. Replay' = Replay
      BY <3>2, <3>3 DEF Replay
    <3>7. Asking'
      BY <1>2, <2>1, <3>1, <3>2, <3>3, <3>4 DEF Following, Asking
    <3>8. Known'
      BY <1>2, <2>1, <3>1, <3>4 DEF Following, Known
    <3>9. \A n : Accounted(n) => Accounted(n)'
      BY <1>2, <1>3, <3>1, <3>6 DEF Accounted
    <3>10. \A c \in From' : \A n \in 1..seq' : n > c => Accounted(n)'
      BY <2>1, <3>5, <3>9 DEF Following
    <3> QED BY <1>2, <2>1, <3>7, <3>8, <3>10 DEF Following
  <2> QED BY <2>1, <2>2
<1> QED BY <1>3, <1>4, <1>5 DEF Feed

LEMMA ReadFrameFeeds ==
  ASSUME Feed, NEW s \in Sockets, ReadFrame(s), UNCHANGED <<linkVars, viewVars>>
  PROVE  Feed'
<1>1. FeedTypes
  BY DEF Feed
<1> DEFINE x == [ NoSub EXCEPT !.pc = "register", !.last = Head(up[s]) ]
<1>2. /\ up[s] # << >> /\ sub[<<s, "frame">>].pc = "idle"
      /\ up' = [ up EXCEPT ![s] = Tail(up[s]) ] /\ sub' = [ sub EXCEPT ![<<s, "frame">>] = x ]
      /\ UNCHANGED <<conn, down, version, seq, ring, bus, tick, pub, joined, lost>>
  BY DEF ReadFrame
<1>3. /\ ws' = ws /\ base' = base /\ lastSeq' = lastSeq /\ applied' = applied
  BY DEF linkVars, viewVars
<1>4. /\ up[s] \in Seq(Nat) /\ Head(up[s]) \in Nat /\ Tail(up[s]) \in Seq(Nat)
      /\ Entries(up[s]) = Entries(Tail(up[s])) \cup {Head(up[s])}
  BY <1>1, <1>2, EntriesOfTail DEF FeedTypes
<1>5. x \in SubState /\ x.pc = "register" /\ x.last = Head(up[s]) /\ x.missed = {}
  BY <1>4 DEF NoSub, SubState
<1> HIDE DEF x
<1>6. /\ sub' \in [ Sockets \X Hows -> SubState ] /\ sub'[<<s, "frame">>] = x
      /\ \A t \in Sockets, h \in Hows : t # s \/ h # "frame" => sub'[<<t, h>>] = sub[<<t, h>>]
  BY <1>1, <1>2, <1>5 DEF FeedTypes, Hows
<1>7. /\ up' \in [ Sockets -> Seq(Nat) ] /\ up'[s] = Tail(up[s])
      /\ \A t \in Sockets : t # s => up'[t] = up[t]
  BY <1>1, <1>2, <1>4 DEF FeedTypes
<1>8. FeedTypes'
  BY <1>1, <1>2, <1>3, <1>6, <1>7 DEF FeedTypes
<1>9. ~Untouched
  BY <1>2 DEF Untouched
<1>10. ASSUME Playing, Following, s = ws  PROVE Following'
  <2>1. Frame.pc = "idle" /\ Frame' = x
    BY <1>2, <1>3, <1>6, <1>10 DEF Frame
  <2>2. Asked' = Asked
    BY <1>3, <1>4, <1>5, <1>7, <1>10, <2>1 DEF Asked
  <2>3. Promised' = Promised
    <3>1. \A h \in Hows : /\ sub'[<<ws, h>>].pc = "answer" <=> sub[<<ws, h>>].pc = "answer"
                          /\ sub[<<ws, h>>].pc = "answer" => sub'[<<ws, h>>] = sub[<<ws, h>>]
      BY <1>2, <1>5, <1>6, <1>10
    <3>2. \A h \in Hows : /\ Greets(sub'[<<ws, h>>]) <=> Greets(sub[<<ws, h>>])
                          /\ Greets(sub[<<ws, h>>]) => sub'[<<ws, h>>].cur = sub[<<ws, h>>].cur
      BY <3>1 DEF Greets
    <3> QED BY <1>2, <1>3, <3>2, PromisesStay
  <2>4. From' = From
    BY <1>3, <2>3 DEF From
  <2>5. Frame.missed = {}
    BY <1>10, <2>1 DEF Following, Asking
  <2>6. Replay' = Replay
    BY <1>2, <1>5, <2>1, <2>2, <2>5 DEF Replay
  <2>7. Asking'
    <3>1. \A h \in Hows : sub'[<<ws, h>>].pc \in {"read", "answer"} => ws \in joined
      BY <1>5, <1>6, <1>10 DEF Following, Asking
    <3> QED BY <1>2, <1>3, <1>5, <1>10, <2>1, <2>2, <2>3, <3>1 DEF Following, Asking
  <2>8. Known'
    BY <1>2, <1>3, <1>10, <2>3 DEF Following, Known
  <2>9. BeingPublished' = BeingPublished
    BY <1>2 DEF BeingPublished
  <2>10. \A n : Accounted(n) <=> Accounted(n)'
    BY <1>2, <1>3, <2>6, <2>9 DEF Accounted
  <2>11. \A c \in From' : \A n \in 1..seq' : n > c => Accounted(n)'
    BY <1>2, <1>10, <2>4, <2>10 DEF Following
  <2> QED BY <1>3, <1>10, <2>7, <2>8, <2>11 DEF Following
<1>11. \A t \in Sockets : t # s => \A h \in Hows : sub'[<<t, h>>] = sub[<<t, h>>]
  BY <1>6
<1> QED BY <1>2, <1>7, <1>8, <1>9, <1>10, <1>11, ConnectionFeeds

LEMMA RegisterFeeds ==
  ASSUME Feed, faults \in Nat, faults' = 0, NEW s \in Sockets, NEW h \in Hows, Register(s, h),
         UNCHANGED <<conn, up, down, linkVars, viewVars>>
  PROVE  Feed'
<1>1. FeedTypes
  BY DEF Feed
<1> DEFINE x == [ sub[<<s, h>>] EXCEPT !.pc = "read" ]
<1>2. /\ sub[<<s, h>>].pc = "register" /\ joined' = joined \cup {s}
      /\ sub' = [ sub EXCEPT ![<<s, h>>] = x ]
      /\ UNCHANGED <<version, seq, ring, bus, tick, pub, lost>>
  BY DEF Register, Fault
<1>3. /\ ws' = ws /\ base' = base /\ lastSeq' = lastSeq /\ applied' = applied
  BY DEF linkVars, viewVars
<1>4. /\ x \in SubState /\ x.pc = "read" /\ x.last = sub[<<s, h>>].last
      /\ x.missed = sub[<<s, h>>].missed /\ x.cur = sub[<<s, h>>].cur /\ x.v = sub[<<s, h>>].v
  <2>1. sub[<<s, h>>] \in SubState
    BY <1>1 DEF FeedTypes
  <2> QED BY <2>1 DEF SubState
<1> HIDE DEF x
<1>5. /\ sub' \in [ Sockets \X Hows -> SubState ] /\ sub'[<<s, h>>] = x
      /\ \A t \in Sockets, g \in Hows : t # s \/ g # h => sub'[<<t, g>>] = sub[<<t, g>>]
  BY <1>1, <1>2, <1>4 DEF FeedTypes
<1>6. FeedTypes'
  BY <1>1, <1>2, <1>3, <1>5 DEF FeedTypes
<1>7. ~Untouched
  BY <1>2 DEF Untouched
<1>8. ASSUME Playing, Following, s = ws  PROVE Following'
  <2>1. /\ Frame'.last = Frame.last /\ Frame'.missed = Frame.missed /\ Frame'.v = Frame.v
        /\ Frame.pc \in {"register", "read"} <=> Frame'.pc \in {"register", "read"}
        /\ Frame.pc = "answer" <=> Frame'.pc = "answer"
    BY <1>2, <1>3, <1>4, <1>5, <1>8 DEF Frame, Hows
  <2>2. Asked' = Asked
    BY <1>3, <1>8, <2>1 DEF Asked
  <2>3. Promised' = Promised
    <3>1. \A g \in Hows : /\ Greets(sub'[<<ws, g>>]) <=> Greets(sub[<<ws, g>>])
                          /\ sub'[<<ws, g>>].cur = sub[<<ws, g>>].cur
      BY <1>2, <1>4, <1>5, <1>8 DEF Greets
    <3> QED BY <1>2, <1>3, <3>1, PromisesStay
  <2>4. From' = From
    BY <1>3, <2>3 DEF From
  <2>5. Replay' = Replay
    BY <1>2, <2>1, <2>2 DEF Replay
  <2>6. Asking'
    BY <1>2, <1>3, <1>8, <2>1, <2>2, <2>3 DEF Following, Asking
  <2>7. Known'
    BY <1>2, <1>3, <1>8, <2>3 DEF Following, Known
  <2>8. BeingPublished' = BeingPublished
    BY <1>2 DEF BeingPublished
  <2>9. \A n : Accounted(n) <=> Accounted(n)'
    BY <1>2, <1>3, <2>5, <2>8 DEF Accounted
  <2>10. \A c \in From' : \A n \in 1..seq' : n > c => Accounted(n)'
    BY <1>2, <1>8, <2>4, <2>9 DEF Following
  <2> QED BY <1>3, <1>8, <2>6, <2>7, <2>10 DEF Following
<1>9. \A t \in Sockets : t # s => \A g \in Hows : sub'[<<t, g>>] = sub[<<t, g>>]
  BY <1>5
<1> QED BY <1>2, <1>6, <1>7, <1>8, <1>9, ConnectionFeeds

LEMMA ReadFeeds ==
  ASSUME Feed, Snapshots \subseteq Nat, faults \in Nat, faults' = 0,
         NEW s \in Sockets, NEW h \in Hows, Read(s, h),
         UNCHANGED <<conn, up, down, linkVars, viewVars>>
  PROVE  Feed'
<1>1. FeedTypes
  BY DEF Feed
<1> DEFINE r == sub[<<s, h>>]
           M == Due(r)
<1>2. r \in SubState /\ seq \in Nat /\ version \in Nat
  BY <1>1 DEF FeedTypes
<1>3. r.pc = "read" /\ UNCHANGED <<version, seq, ring, bus, tick, pub, joined>> /\ lost \subseteq lost'
  BY DEF Read, ReadRoom, ReadHidden, ReadFails, ReadForNobody
<1>4. M \subseteq RoomEvent
  <2>1. Entries(ring) \subseteq RoomEvent
    BY <1>1, TypedEntries DEF FeedTypes
  <2> QED BY <2>1 DEF Due, RoomEventsSince
<1>5. \E y \in SubState : /\ sub' = [ sub EXCEPT ![<<s, h>>] = y ]
                          /\ conn[s] \in Alive =>
                               /\ y.pc = "answer" /\ (y.v # None => y.cur = seq)
                               /\ (y.v = None => y.missed = {})
                               /\ Seqs(M) \subseteq Seqs(y.missed) \cup lost'
  <2> HIDE DEF r, M
  <2>1. CASE ReadRoom(s, h)
    <3>1. PICK v \in Snapshots : sub' = [ sub EXCEPT ![<<s, h>>] = Answered(r, seq, M, v) ]
      BY <2>1 DEF ReadRoom, r, M
    <3>2. PICK y : y = Answered(r, seq, M, v)
      OBVIOUS
    <3>3. y \in SubState /\ y.pc = "answer" /\ y.cur = seq /\ y.missed = M /\ y.v = v
      BY <1>2, <1>4, <3>2 DEF SubState, Answered
    <3>4. v # None
      BY DEF Snapshots
    <3> QED BY <3>1, <3>2, <3>3, <3>4
  <2>2. CASE ReadHidden(s, h)
    <3>1. sub' = [ sub EXCEPT ![<<s, h>>] = Refused(r) ] /\ lost' = lost \cup Seqs(M)
      BY <2>2 DEF ReadHidden, r, M
    <3>2. PICK y : y = Refused(r)
      OBVIOUS
    <3>3. y \in SubState /\ y.pc = "answer" /\ y.v = None /\ y.missed = {}
      BY <1>2, <3>2 DEF SubState, Refused, Answered
    <3> QED BY <3>1, <3>2, <3>3
  <2>3. CASE ReadFails(s, h)
    BY <2>3 DEF ReadFails, Fault
  <2>4. CASE ReadForNobody(s, h)
    <3>1. NoSub \in SubState
      BY DEF NoSub, SubState
    <3> QED BY <2>4, <3>1 DEF ReadForNobody
  <2> QED BY <2>1, <2>2, <2>3, <2>4 DEF Read
<1>6. PICK y \in SubState : /\ sub' = [ sub EXCEPT ![<<s, h>>] = y ]
                            /\ conn[s] \in Alive =>
                                 /\ y.pc = "answer" /\ (y.v # None => y.cur = seq)
                                 /\ (y.v = None => y.missed = {})
                                 /\ Seqs(M) \subseteq Seqs(y.missed) \cup lost'
  BY <1>5
<1> HIDE DEF M
<1>7. sub' = [ sub EXCEPT ![<<s, h>>] = y ] /\ sub \in [ Sockets \X Hows -> SubState ]
  BY <1>1, <1>6 DEF FeedTypes
<1>8. /\ sub' \in [ Sockets \X Hows -> SubState ] /\ sub'[<<s, h>>] = y
      /\ \A t \in Sockets, g \in Hows : t # s \/ g # h => sub'[<<t, g>>] = sub[<<t, g>>]
  <2> HIDE DEF r
  <2>1. \A z \in Sockets \X Hows : sub'[z] = IF z = <<s, h>> THEN y ELSE sub[z]
    BY <1>7
  <2>2. sub' \in [ Sockets \X Hows -> SubState ]
    BY <1>7
  <2>3. ASSUME NEW t \in Sockets, NEW g \in Hows, t # s \/ g # h  PROVE sub'[<<t, g>>] = sub[<<t, g>>]
    BY <2>1, <2>3
  <2> QED BY <2>1, <2>2, <2>3
<1>9. /\ ws' = ws /\ base' = base /\ lastSeq' = lastSeq /\ applied' = applied
  BY DEF linkVars, viewVars
<1>10. FeedTypes'
  BY <1>1, <1>3, <1>8, <1>9 DEF FeedTypes
<1>11. ~Untouched
  BY <1>3 DEF Untouched
<1>12. ASSUME Playing, Following, s = ws  PROVE Following'
  <2>1. /\ sub'[<<ws, h>>] = y /\ ws \in joined
        /\ y.pc = "answer" /\ (y.v # None => y.cur = seq) /\ (y.v = None => y.missed = {})
        /\ Seqs(M) \subseteq Seqs(y.missed) \cup lost'
    <3>1. conn[s] \in Alive
      BY <1>12 DEF Playing, Alive
    <3>2. ws \in joined
      BY <1>3, <1>12 DEF Following, Asking
    <3> HIDE DEF r
    <3>3. sub'[<<ws, h>>] = y
      BY <1>8, <1>12
    <3> QED BY <1>6, <3>1, <3>2, <3>3
  <2>2. Promised' \subseteq Promised \cup {seq}
    <3>1. \A g \in Hows : Greets(sub'[<<ws, g>>]) =>
             sub'[<<ws, g>>].cur = seq \/ (Greets(sub[<<ws, g>>]) /\ sub'[<<ws, g>>].cur = sub[<<ws, g>>].cur)
      BY <1>8, <1>12, <2>1 DEF Greets
    <3>2. Promised' = Told(down[ws])
            \cup { sub'[<<ws, g>>].cur : g \in { k \in Hows : Greets(sub'[<<ws, k>>]) } }
      BY <1>9 DEF Promised, Told
    <3> QED BY <3>1, <3>2 DEF Promised
  <2>3. From' \subseteq From \cup {seq}
    BY <1>9, <2>2 DEF From
  <2>4. Asked' \subseteq Asked /\ (h = "frame" => base # None) /\ (h # "frame" => Asked' = Asked)
    <3>1. CASE h = "frame"
      <4>1. Frame.pc = "read" /\ Frame'.pc = "answer"
        BY <1>3, <1>9, <1>12, <2>1, <3>1 DEF Frame
      <4>2. Frame.last \in Asked
        BY <4>1 DEF Asked
      <4> QED BY <1>9, <1>12, <3>1, <4>1, <4>2 DEF Asked, Following, Asking
    <3>2. CASE h # "frame"
      <4>1. Frame' = Frame
        BY <1>8, <1>9, <1>12, <3>2 DEF Frame, Hows
      <4> QED BY <1>9, <3>2, <4>1 DEF Asked
    <3> QED BY <3>1, <3>2
  <2>5. Asking'
    <3>1. (Frame.pc = "answer")' => base # None
      BY <1>8, <1>9, <1>12, <2>4 DEF Frame, Following, Asking, Hows
    <3>2. (Frame.pc # "answer" \/ Frame.v = None => Frame.missed = {})'
      <4>1. CASE h = "frame"
        BY <1>9, <2>1, <4>1 DEF Frame
      <4>2. CASE h # "frame"
        BY <1>8, <1>9, <1>12, <4>2 DEF Frame, Following, Asking, Hows
      <4> QED BY <4>1, <4>2
    <3> QED BY <1>3, <1>9, <1>12, <2>1, <2>4, <3>1, <3>2 DEF Following, Asking
  <2>6. Known'
    BY <1>2, <1>3, <1>9, <1>12, <2>2 DEF Following, Known
  <2>7. BeingPublished' = BeingPublished
    BY <1>3 DEF BeingPublished
  <2>8. ASSUME NEW c \in From, NEW n \in 1..seq, n > c, n \in Replay
        PROVE  n \in Replay' \cup lost'
    <3>1. CASE h # "frame"
      <4>1. Frame' = Frame /\ Asked' = Asked
        BY <1>8, <1>9, <1>12, <2>4, <3>1 DEF Frame, Hows
      <4> QED BY <1>3, <2>8, <4>1 DEF Replay
    <3>2. CASE h = "frame"
      <4>1. Frame = r /\ Frame.pc = "read" /\ Frame' = y /\ Frame.last \in Asked
        BY <1>3, <1>9, <1>12, <2>1, <3>2 DEF Frame, Asked
      <4>2. c = r.last /\ c > 0 /\ c \in Nat /\ \A a \in Asked : a = c
        BY <1>2, <1>12, <2>8, <4>1 DEF Following, Asking, From, SubState
      <4>3. PICK e \in Entries(ring) : e.seq = n
        BY <1>12, <2>8, <4>1 DEF Following, Asking, Replay, Seqs
      <4>4. e \in M
        BY <1>2, <2>8, <4>2, <4>3 DEF M, Due, RoomEventsSince
      <4>5. n \in Seqs(y.missed) \cup lost'
        BY <2>1, <4>3, <4>4 DEF Seqs
      <4> QED BY <4>1, <4>5 DEF Replay
    <3> QED BY <3>1, <3>2
  <2>9. ASSUME NEW c \in From', NEW n \in 1..seq, n > c
        PROVE  Accounted(n)'
    <3>1. c \in From
      BY <1>2, <2>3, <2>9
    <3>2. Accounted(n)
      BY <1>12, <2>9, <3>1 DEF Following
    <3> QED BY <1>3, <1>9, <2>7, <2>8, <2>9, <3>1, <3>2 DEF Accounted
  <2> QED BY <1>3, <1>9, <1>12, <2>5, <2>6, <2>9 DEF Following
<1>13. \A t \in Sockets : t # s => \A g \in Hows : sub'[<<t, g>>] = sub[<<t, g>>]
  BY <1>8
<1> QED BY <1>3, <1>10, <1>11, <1>12, <1>13, ConnectionFeeds

LEMMA GreetingIs ==
  ASSUME NEW r \in SubState, r.v # None
  PROVE  /\ Greeting(r) \in Seq(Message) /\ Len(Greeting(r)) \in Nat \ {0}
         /\ Entries(Greeting(r)) \subseteq { SyncMsg(r.v, r.missed), ConnectedMsg(r.cur), SyncMsg(r.v, {}) }
         /\ r.missed # {} => Greeting(r)[1] = SyncMsg(r.v, r.missed)
<1> DEFINE A == SyncMsg(r.v, r.missed)
           B == ConnectedMsg(r.cur)
           C == SyncMsg(r.v, {})
<1>1. A \in Message /\ B \in Message /\ C \in Message
  BY DEF SubState, SyncMsg, ConnectedMsg, Message
<1> DEFINE P == IF r.missed # {} THEN << A >> ELSE << >>
           Q == << B >>
           T == IF r.last = 0 THEN << C >> ELSE << >>
<1>2. Greeting(r) = (P \o Q) \o T
  BY DEF Greeting
<1> HIDE DEF A, B, C
<1>3. /\ P \in Seq(Message) /\ Entries(P) \subseteq {A}
      /\ r.missed # {} => Len(P) = 1 /\ P[1] = A
  BY <1>1 DEF Entries
<1>4. Q \in Seq(Message) /\ Entries(Q) = {B} /\ Len(Q) = 1
  BY <1>1 DEF Entries
<1>5. T \in Seq(Message) /\ Entries(T) \subseteq {C} /\ Len(T) \in Nat
  BY <1>1 DEF Entries
<1> HIDE DEF P, Q, T
<1>6. /\ P \o Q \in Seq(Message) /\ Len(P \o Q) = Len(P) + 1 /\ Len(P) \in Nat
      /\ Entries(P \o Q) \subseteq {A, B} /\ (r.missed # {} => (P \o Q)[1] = A)
  <2>1. /\ P \o Q \in Seq(Message) /\ Len(P \o Q) = Len(P) + Len(Q)
        /\ \A i \in 1..Len(P) + Len(Q) : (P \o Q)[i] = IF i <= Len(P) THEN P[i] ELSE Q[i - Len(P)]
    BY <1>3, <1>4, ConcatProperties
  <2>2. Entries(P \o Q) = Entries(P) \cup Entries(Q)
    BY <1>3, <1>4, EntriesOfConcat
  <2> QED BY <1>3, <1>4, <2>1, <2>2
<1>7. /\ Greeting(r) \in Seq(Message) /\ Len(Greeting(r)) = Len(P) + 1 + Len(T)
      /\ Entries(Greeting(r)) \subseteq {A, B, C} /\ (r.missed # {} => Greeting(r)[1] = A)
  <2> DEFINE W == P \o Q
  <2>1. W \in Seq(Message) /\ Len(W) = Len(P) + 1 /\ Greeting(r) = W \o T
    BY <1>2, <1>6
  <2>2. r.missed # {} => W[1] = A
    BY <1>6
  <2>3. Entries(W) \subseteq {A, B}
    BY <1>6
  <2> HIDE DEF W
  <2>4. /\ W \o T \in Seq(Message) /\ Len(W \o T) = Len(W) + Len(T)
        /\ \A i \in 1..Len(W) + Len(T) : (W \o T)[i] = IF i <= Len(W) THEN W[i] ELSE T[i - Len(W)]
    BY <1>5, <2>1, ConcatProperties
  <2>5. Entries(W \o T) = Entries(W) \cup Entries(T)
    BY <1>5, <2>1, EntriesOfConcat
  <2> QED BY <1>5, <1>6, <2>1, <2>2, <2>3, <2>4, <2>5
<1> QED BY <1>5, <1>6, <1>7 DEF A, B, C

LEMMA AnswersAre ==
  ASSUME NEW r \in SubState
  PROVE  /\ Answers(r) \in Seq(Message) /\ Len(Answers(r)) \in Nat \ {0}
         /\ \A m \in Entries(Answers(r)) :
              \/ m.type = "error"
              \/ m.type = "sync" /\ m.events \in {r.missed, {}}
              \/ m.type = "connected" /\ m.cur = r.cur /\ r.v # None
         /\ r.v # None /\ r.missed # {} => Answers(r)[1] = SyncMsg(r.v, r.missed)
<1>1. CASE r.v = None
  <2>1. Answers(r) = << ErrorMsg >> /\ ErrorMsg \in Message /\ ErrorMsg.type = "error"
    BY <1>1 DEF Answers, ErrorMsg, Message
  <2> HIDE DEF ErrorMsg
  <2>2. << ErrorMsg >> \in Seq(Message) /\ Len(<< ErrorMsg >>) = 1 /\ Entries(<< ErrorMsg >>) = { ErrorMsg }
    BY <2>1 DEF Entries
  <2> QED BY <1>1, <2>1, <2>2
<1>2. CASE r.v # None
  <2>1. Answers(r) = Greeting(r)
    BY <1>2 DEF Answers
  <2>2. /\ SyncMsg(r.v, r.missed).type = "sync" /\ SyncMsg(r.v, r.missed).events = r.missed
        /\ ConnectedMsg(r.cur).type = "connected" /\ ConnectedMsg(r.cur).cur = r.cur
        /\ SyncMsg(r.v, {}).type = "sync" /\ SyncMsg(r.v, {}).events = {}
    BY DEF SyncMsg, ConnectedMsg
  <2>3. /\ Greeting(r) \in Seq(Message) /\ Len(Greeting(r)) \in Nat \ {0}
        /\ r.missed # {} => Greeting(r)[1] = SyncMsg(r.v, r.missed)
        /\ \A m \in Entries(Greeting(r)) :
              m = SyncMsg(r.v, r.missed) \/ m = ConnectedMsg(r.cur) \/ m = SyncMsg(r.v, {})
    BY <1>2, GreetingIs
  <2>4. ASSUME NEW m \in Entries(Greeting(r))
        PROVE  \/ m.type = "sync" /\ m.events \in {r.missed, {}}
               \/ m.type = "connected" /\ m.cur = r.cur
    BY <2>2, <2>3
  <2> QED BY <1>2, <2>1, <2>3, <2>4
<1> QED BY <1>1, <1>2

LEMMA AnswerFeeds ==
  ASSUME Feed, NEW s \in Sockets, NEW h \in Hows, Answer(s, h), UNCHANGED <<linkVars, viewVars>>
  PROVE  Feed'
<1>1. FeedTypes
  BY DEF Feed
<1> DEFINE r == sub[<<s, h>>]
           A == Answers(r)
           fits == IF conn[s] \in Alive THEN SendBuffer - Len(down[s]) ELSE 0
           k == IF fits < Len(A) THEN fits ELSE Len(A)
           d == down[s] \o SubSeq(A, 1, k)
<1>2. /\ r \in SubState /\ down[s] \in Seq(Message) /\ Len(down[s]) \in Nat
      /\ Len(down[s]) <= SendBuffer /\ SendBuffer \in Nat
  BY <1>1, ChannelAssumption DEF FeedTypes
<1>3. /\ r.pc = "answer" /\ down' = [ down EXCEPT ![s] = d ]
      /\ lost' = IF fits = 0 THEN lost \cup Seqs(r.missed) ELSE lost
      /\ sub' = [ sub EXCEPT ![<<s, h>>] = NoSub ]
      /\ UNCHANGED <<conn, up, version, seq, ring, bus, tick, pub, joined>>
  BY DEF Answer
<1>4. /\ A \in Seq(Message) /\ Len(A) \in Nat \ {0}
      /\ \A m \in Entries(A) :
           \/ m.type \in {"error", "sync"}
           \/ m.type = "connected" /\ m.cur = r.cur /\ r.v # None
      /\ r.v # None /\ r.missed # {} => A[1] = SyncMsg(r.v, r.missed)
  BY <1>2, AnswersAre
<1> HIDE DEF A
<1>5. /\ k \in Nat /\ k <= Len(A) /\ Len(down[s]) + k <= SendBuffer
      /\ conn[s] \in Alive /\ fits # 0 => k > 0
  <2>0. Len(down[s]) \in Nat /\ Len(down[s]) <= SendBuffer /\ SendBuffer \in Nat
    BY <1>2
  <2>1. fits \in Nat /\ Len(down[s]) + fits <= SendBuffer
    <3>1. fits = SendBuffer - Len(down[s]) \/ fits = 0
      OBVIOUS
    <3> HIDE DEF fits
    <3> QED BY <2>0, <3>1
  <2> HIDE DEF fits
  <2>2. k \in Nat /\ k <= Len(A) /\ k <= fits /\ (fits # 0 => k > 0)
    BY <1>4, <2>1
  <2> HIDE DEF k
  <2> QED BY <1>2, <2>1, <2>2
<1> HIDE DEF k
<1>6. /\ d \in Seq(Message) /\ Len(d) <= SendBuffer
      /\ Entries(down[s]) \subseteq Entries(d) /\ Entries(d) \subseteq Entries(down[s]) \cup Entries(A)
      /\ k > 0 => A[1] \in Entries(d)
  <2>1. k \in Int
    BY <1>5
  <2> DEFINE q == down[s]
  <2>2. q \in Seq(Message)
    BY <1>2
  <2> HIDE DEF q
  <2>3. LET e == q \o SubSeq(A, 1, k)
        IN  /\ e \in Seq(Message) /\ Len(e) = Len(q) + (IF k < 0 THEN 0 ELSE k)
            /\ Entries(q) \subseteq Entries(e) /\ Entries(e) \subseteq Entries(q) \cup Entries(A)
            /\ k > 0 => A[1] \in Entries(e)
    BY <1>4, <1>5, <2>1, <2>2, EntriesOfSome
  <2>4. d = q \o SubSeq(A, 1, k)
    BY DEF q
  <2> HIDE DEF d
  <2>5. d \in Seq(Message) /\ Len(d) = Len(q) + k
    BY <1>5, <2>3, <2>4
  <2> QED BY <1>2, <1>5, <2>3, <2>4, <2>5 DEF q
<1> HIDE DEF d, fits
<1>7. NoSub \in SubState /\ NoSub.pc = "idle" /\ NoSub.missed = {}
  BY DEF NoSub, SubState
<1>8. /\ sub' \in [ Sockets \X Hows -> SubState ] /\ sub'[<<s, h>>] = NoSub
      /\ \A t \in Sockets, g \in Hows : t # s \/ g # h => sub'[<<t, g>>] = sub[<<t, g>>]
  BY <1>1, <1>3, <1>7 DEF FeedTypes
<1>9. /\ down' \in [ Sockets -> Seq(Message) ] /\ down'[s] = d
      /\ \A t \in Sockets : t # s => down'[t] = down[t]
  BY <1>1, <1>3, <1>6 DEF FeedTypes
<1>10. /\ ws' = ws /\ base' = base /\ lastSeq' = lastSeq /\ applied' = applied
  BY DEF linkVars, viewVars
<1>11. FeedTypes'
  BY <1>1, <1>3, <1>6, <1>8, <1>9, <1>10 DEF FeedTypes
<1>12. ~Untouched
  BY <1>3 DEF Untouched
<1>13. ASSUME Playing, Following, s = ws  PROVE Following'
  <2>1. \A m \in Entries(d) : \/ m \in Entries(down[ws])
                              \/ m.type \in {"error", "sync"}
                              \/ m.type = "connected" /\ m.cur = r.cur /\ r.v # None
    BY <1>4, <1>6, <1>13
  <2>2. r.v # None => r.cur \in Promised
    BY <1>3, <1>13 DEF Promised, Greets
  <2>3. Promised' \subseteq Promised
    <3>1. Promised' = Told(d) \cup { sub'[<<ws, g>>].cur : g \in { j \in Hows : Greets(sub'[<<ws, j>>]) } }
      BY <1>9, <1>10, <1>13 DEF Promised, Told
    <3>2. Told(d) \subseteq Promised
      <4>1. \A m \in Entries(down[ws]) : m.type = "connected" => m.cur \in Promised
        BY DEF Promised, Told
      <4>2. \A m \in Entries(d) : m.type = "connected" => m.cur \in Promised
        BY <2>1, <2>2, <4>1
      <4> QED BY <4>2 DEF Told
    <3>3. \A g \in Hows : Greets(sub'[<<ws, g>>]) => sub'[<<ws, g>>] = sub[<<ws, g>>]
      BY <1>7, <1>8, <1>13 DEF Greets
    <3> QED BY <3>1, <3>2, <3>3 DEF Promised
  <2>4. From' \subseteq From
    BY <1>10, <2>3 DEF From
  <2>5. /\ Asked' = Asked
        /\ h = "frame" => Frame = r /\ Frame' = NoSub
        /\ h # "frame" => Frame' = Frame
    <3>1. CASE h = "frame"
      BY <1>3, <1>7, <1>8, <1>10, <1>13, <3>1 DEF Asked, Frame
    <3>2. CASE h # "frame"
      <4>1. Frame' = Frame
        BY <1>8, <1>10, <1>13, <3>2 DEF Frame, Hows
      <4> QED BY <1>3, <1>10, <3>2, <4>1 DEF Asked
    <3> QED BY <3>1, <3>2
  <2>6. Asking'
    <3>1. (Frame.pc = "answer" => base # None)'
      BY <1>7, <1>10, <1>13, <2>5 DEF Following, Asking
    <3>2. (Frame.pc # "answer" \/ Frame.v = None => Frame.missed = {})'
      BY <1>7, <1>13, <2>5 DEF Following, Asking
    <3>3. ws \in joined
      BY <1>3, <1>13 DEF Following, Asking
    <3> QED BY <1>3, <1>10, <1>13, <2>5, <3>1, <3>2, <3>3 DEF Following, Asking
  <2>7. Known'
    <3>1. \A m \in Entries(d) : m.type = "event" => m.ev.seq <= seq
      BY <1>13, <2>1 DEF Following, Known
    <3> QED BY <1>3, <1>9, <1>10, <1>13, <2>3, <3>1 DEF Following, Known
  <2>8. BeingPublished' = BeingPublished
    BY <1>3 DEF BeingPublished
  <2>9. InQueue(down[ws]) \subseteq InQueue(d)
    BY <1>6, <1>13 DEF InQueue
  <2>10. ASSUME NEW n \in 1..seq, n \in Replay
         PROVE  n \in Replay' \cup lost' \cup InQueue(d)
    <3>1. CASE h # "frame"
      BY <1>3, <2>5, <2>10, <3>1 DEF Replay
    <3>2. CASE h = "frame" /\ n \notin Seqs(r.missed)
      BY <1>3, <2>5, <2>10, <3>2 DEF Replay
    <3>3. CASE h = "frame" /\ n \in Seqs(r.missed) /\ fits = 0
      BY <1>3, <3>3
    <3>4. CASE h = "frame" /\ n \in Seqs(r.missed) /\ fits # 0
      <4>1. r.missed # {} /\ r.v # None
        BY <1>13, <2>5, <3>4 DEF Seqs, Following, Asking
      <4>2. conn[s] \in Alive
        BY <1>13 DEF Playing, Alive
      <4>3. SyncMsg(r.v, r.missed) \in Entries(d)
        BY <1>4, <1>5, <1>6, <3>4, <4>1, <4>2
      <4>4. n \in InMessage(SyncMsg(r.v, r.missed))
        BY <2>10, <3>4 DEF InMessage, SyncMsg, Numbered, Seqs
      <4> QED BY <4>3, <4>4 DEF InQueue
    <3> QED BY <3>1, <3>2, <3>3, <3>4
  <2>11. lost \subseteq lost'
    BY <1>3
  <2>12. ASSUME NEW c \in From', NEW n \in 1..seq, n > c
         PROVE  Accounted(n)'
    <3>1. Accounted(n)
      BY <1>13, <2>4, <2>12 DEF Following
    <3>2. InQueue(down[ws])' = InQueue(d)
      BY <1>9, <1>10, <1>13 DEF InQueue
    <3> QED BY <1>10, <2>8, <2>9, <2>10, <2>11, <2>12, <3>1, <3>2 DEF Accounted
  <2> QED BY <1>3, <1>10, <1>13, <2>6, <2>7, <2>12 DEF Following
<1>14. \A t \in Sockets : t # s => \A g \in Hows : sub'[<<t, g>>] = sub[<<t, g>>]
  BY <1>8
<1>15. lost \subseteq lost'
  BY <1>3
<1> QED BY <1>3, <1>9, <1>11, <1>12, <1>13, <1>14, <1>15, ConnectionFeeds

--------------------------------------------------------------------------------
(* The page                                                                *)

LEMMA MountSteady ==
  ASSUME LinkInv, Alone, Watching => Feed, Mount, UNCHANGED hubVars
  PROVE  Alone' /\ Feed'
<1>1. /\ ~mounted /\ state = "idle" /\ ws = None /\ LinkTypes
      /\ \A s \in Sockets : conn[s] = "unused"
  BY DEF Mount, LinkInv, Fresh
<1>2. FeedTypes /\ Recorded /\ Untouched
  BY <1>1 DEF Watching, Feed, Beginning
<1>3. NewSocket \in Sockets
  <2>1. Unused # {}
    BY <1>1, NoneIsNoSocket DEF Unused
  <2> QED BY <2>1, NewIsUnused
<1>4. /\ conn' = [ conn EXCEPT ![NewSocket] = "connecting" ] /\ ws' = NewSocket
      /\ state' = IF attempt > 0 THEN "reconnecting" ELSE "connecting"
      /\ attempt' = attempt /\ timer' = FALSE /\ mounted' = TRUE
      /\ UNCHANGED <<up, down>>
  BY <1>1 DEF Mount, Becomes, Connecting, WithSocket, IsOpen, Page
<1>5. attempt = 0
  BY <1>1 DEF Alone
<1>6. /\ conn'[NewSocket] = "connecting"
      /\ \A s \in Sockets \ {NewSocket} : conn'[s] = "unused"
  BY <1>1, <1>3, <1>4 DEF LinkTypes
<1>7. Alone'
  BY <1>3, <1>4, <1>5, <1>6 DEF Alone, Alive
<1>8. /\ UNCHANGED <<version, seq, ring, bus, tick, pub, sub, joined, lost>>
      /\ UNCHANGED <<lastSeq, base, applied>>
  BY DEF hubVars, viewVars, Mount
<1>9. FeedTypes'
  BY <1>2, <1>4, <1>8 DEF FeedTypes
<1>10. Recorded'
  BY <1>2, <1>8, RecordedStays
<1>11. Untouched'
  BY <1>2, <1>4, <1>8 DEF Untouched
<1>12. ~Playing'
  BY <1>4, <1>6 DEF Playing
<1> QED BY <1>7, <1>9, <1>10, <1>11, <1>12 DEF Feed

LEMMA UnmountSteady ==
  ASSUME Unmount
  PROVE  Alone' /\ ~Watching'
<1>1. mounted' = FALSE /\ state' = "closed" /\ timer' = FALSE /\ intentional' = TRUE
  BY DEF Unmount, Becomes, Disconnected
<1> QED BY <1>1 DEF Alone, Watching

(* While the page is on screen only its own socket is not unused.          *)
LEMMA OnlyThePage ==
  ASSUME LinkInv, Alone, Watching, NEW s \in Sockets, conn[s] # "unused"
  PROVE  mounted /\ state # "idle" /\ s = ws /\ conn[s] \in Alive /\ (Beginning \/ Playing)
<1>1. mounted
  BY DEF Watching, LinkInv, Fresh
<1>2. s = ws
  BY <1>1 DEF Alone
<1> QED BY <1>1, <1>2 DEF Alone, Alive, Beginning, Playing, LinkInv, Fresh

LEMMA OpenSteady ==
  ASSUME LinkInv, Alone, Watching => Feed, NEW s \in Sockets, Open(s)
  PROVE  Alone' /\ (Watching' => Feed')
<1>1. /\ conn[s] = "connecting" /\ conn' = [ conn EXCEPT ![s] = "open" ] /\ state' = "connected"
      /\ ws' = ws /\ timer' = timer /\ intentional' = intentional /\ mounted' = mounted /\ attempt' = 0
      /\ UNCHANGED down /\ LinkTypes /\ state # "idle"
  BY DEF Open, Opened, Becomes, Page, LinkInv, Fresh
<1>2. CASE ~mounted
  BY <1>1, <1>2 DEF Alone, Watching
<1>3. CASE mounted
  <2>1. s = ws /\ ws \in Sockets /\ FeedTypes /\ Recorded /\ Untouched
    BY <1>1, <1>3, OnlyThePage DEF Alone, Watching, Feed, Beginning
  <2>2. Alone'
    BY <1>1, <1>3, <2>1 DEF Alone, Alive, LinkTypes
  <2> DEFINE x == [ NoSub EXCEPT !.pc = "register" ]
  <2>3. /\ UNCHANGED <<version, seq, ring, bus, tick, pub, joined, lost>>
        /\ UNCHANGED <<lastSeq, base, applied>>
        /\ sub' = [ sub EXCEPT ![<<ws, "query">>] = x ]
    BY <2>1 DEF Open, Opened, Accepted, viewVars
  <2>4. up' = IF lastSeq > 0 THEN [ up EXCEPT ![ws] = Append(up[ws], lastSeq) ] ELSE up
    <3>1. IsOpen([ Page EXCEPT !.conn = [ conn EXCEPT ![s] = "open" ], !.attempt = 0, !.state = "connected" ])
      BY <2>1, NoneIsNoSocket, <1>1 DEF IsOpen, Page, LinkTypes
    <3> DEFINE p == [ Page EXCEPT !.conn = [ conn EXCEPT ![s] = "open" ], !.attempt = 0, !.state = "connected" ]
    <3>2. up' = IF lastSeq > 0 /\ IsOpen(p) THEN [ up EXCEPT ![p.ws] = Append(@, lastSeq) ] ELSE up
      BY DEF Open, Opened
    <3>3. p.ws = ws
      BY DEF Page
    <3> HIDE DEF p
    <3>4. IsOpen(p)
      BY <3>1 DEF p
    <3> QED BY <3>2, <3>3, <3>4
  <2>5. x \in SubState /\ x.pc = "register"
    BY DEF NoSub, SubState
  <2> HIDE DEF x
  <2>6. /\ sub' \in [ Sockets \X Hows -> SubState ] /\ sub'[<<ws, "query">>] = x
        /\ \A h \in Hows : h # "query" => sub'[<<ws, h>>] = sub[<<ws, h>>]
    BY <2>1, <2>3, <2>5 DEF FeedTypes, Hows
  <2>7. lastSeq \in Nat /\ seq \in Nat /\ up[ws] = << >> /\ down[ws] = << >> /\ ws \notin joined
    BY <2>1 DEF FeedTypes, Untouched
  <2>8. up' \in [ Sockets -> Seq(Nat) ] /\ Entries(up'[ws]) = IF lastSeq > 0 THEN {lastSeq} ELSE {}
    <3>1. CASE lastSeq > 0
      <4>0. lastSeq \in Nat
        BY <2>7
      <4>1. up[ws] \in Seq(Nat)
        BY <2>7
      <4>2. Append(up[ws], lastSeq) \in Seq(Nat) /\ Entries(Append(up[ws], lastSeq)) = Entries(up[ws]) \cup {lastSeq}
        BY <4>0, <4>1, EntriesOfAppend
      <4>3. Entries(up[ws]) = {}
        BY <2>7 DEF Entries
      <4>4. up' \in [ Sockets -> Seq(Nat) ] /\ up'[ws] = Append(up[ws], lastSeq)
        BY <2>1, <2>4, <3>1, <4>2 DEF FeedTypes
      <4> QED BY <3>1, <4>2, <4>3, <4>4
    <3>2. CASE ~(lastSeq > 0)
      BY <2>1, <2>4, <2>7, <3>2 DEF FeedTypes, Entries
    <3> QED BY <3>1, <3>2
  <2>9. FeedTypes'
    BY <1>1, <2>1, <2>3, <2>6, <2>8 DEF FeedTypes
  <2>10. Recorded' /\ BeingPublished' = BeingPublished
    BY <2>1, <2>3, RecordedStays
  <2>11. ~Beginning'
    <3>1. conn'[ws] = "open"
      BY <1>1, <2>1 DEF LinkTypes
    <3> QED BY <1>1, <3>1 DEF Beginning
  <2>12. /\ Frame.pc = "idle" /\ Frame.missed = {} /\ Frame' = Frame
         /\ lastSeq <= seq /\ base = IF lastSeq = 0 THEN None ELSE lastSeq
    BY <1>1, <2>1, <2>6 DEF Frame, Hows, Untouched
  <2>13. Asked' = IF lastSeq > 0 THEN {lastSeq} ELSE {}
    BY <1>1, <2>8, <2>12 DEF Asked
  <2>14. \A h \in Hows : sub'[<<ws, h>>].pc \notin {"read", "answer"}
    BY <2>1, <2>5, <2>6 DEF Untouched
  <2>15. Entries(down[ws]) = {} /\ Promised' = {}
    <3>1. Entries(down[ws]) = {}
      BY <2>7 DEF Entries
    <3>2. Promised' = Told(down[ws]) \cup { sub'[<<ws, h>>].cur : h \in { k \in Hows : Greets(sub'[<<ws, k>>]) } }
      BY <1>1 DEF Promised, Told
    <3> QED BY <2>14, <3>1, <3>2 DEF Told, Greets
  <2>16. From' = IF lastSeq > 0 THEN {lastSeq} ELSE {}
    <3>1. From' = IF base # None THEN {base} ELSE {}
      BY <2>3, <2>15 DEF From
    <3>2. CASE lastSeq > 0
      <4>1. base = lastSeq /\ base # None
        BY <2>7, <2>12, <3>2, ChannelAssumption
      <4> QED BY <3>1, <3>2, <4>1
    <3>3. CASE ~(lastSeq > 0)
      BY <2>7, <2>12, <3>1, <3>3
    <3> QED BY <3>2, <3>3
  <2>17. Asking'
    BY <1>1, <2>3, <2>7, <2>12, <2>13, <2>14, <2>15, ChannelAssumption DEF Asking
  <2>18. Known'
    BY <1>1, <2>3, <2>12, <2>15 DEF Known
  <2>19. ASSUME NEW c \in From', NEW n \in 1..seq, n > c
         PROVE  Accounted(n)'
    <3>1. lastSeq > 0 /\ c = lastSeq /\ Asked' = {lastSeq}
      BY <2>13, <2>16, <2>19
    <3>2. n \in lost \cup BeingPublished \cup Stored
      BY <2>1, <2>19 DEF Recorded
    <3>3. n \in Stored => n \in Replay'
      BY <2>3, <2>19, <3>1 DEF Replay, Stored, Seqs
    <3> QED BY <2>3, <2>10, <3>2, <3>3 DEF Accounted
  <2>20. Following'
    BY <1>1, <2>1, <2>3, <2>17, <2>18, <2>19 DEF Following
  <2> QED BY <2>2, <2>9, <2>10, <2>11, <2>20 DEF Feed
<1> QED BY <1>2, <1>3

LEMMA CloseSteady ==
  ASSUME LinkInv, Alone, NEW s \in Sockets, CloseEvent(s)
  PROVE  Alone' /\ ~Watching'
<1>1. conn[s] = "closing" /\ mounted' = mounted
  BY DEF CloseEvent, Closed
<1>2. ~Watching
  BY <1>1, OnlyThePage DEF Alive
<1>3. intentional /\ ~timer /\ ~mounted
  BY <1>2 DEF Alone, Watching
<1>4. state' = "closed" /\ timer' = timer /\ intentional' = intentional
  BY <1>3 DEF CloseEvent, Closed, AfterClose, Becomes, Page
<1> QED BY <1>1, <1>3, <1>4 DEF Alone, Watching

(* What a message adds to the page, whatever it shows.                     *)
LEMMA MessageIs ==
  ASSUME NEW s \in Sockets, HandleMessage(s), down[s] \in Seq(Message),
         lastSeq \in Nat, base \in Nat \cup {None}
  PROVE  LET m == Head(down[s])
         IN  /\ m \in Message
             /\ applied' = applied \cup InMessage(m)
             /\ lastSeq' \in Nat /\ base' \in Nat \cup {None}
             /\ lastSeq' = lastSeq \/ (m.type = "event" /\ lastSeq' = m.ev.seq)
                  \/ (m.type = "connected" /\ lastSeq' = m.cur)
             /\ base' = IF m.type = "connected" /\ base = None THEN m.cur ELSE base
<1> DEFINE m == Head(down[s])
<1>1. m \in Message
  BY QueueOfTail DEF HandleMessage
<1> HIDE DEF m
<1>2. CASE m.type = "connected"
  <2>1. HandleConnected(m)
    BY <1>2 DEF HandleMessage, m
  <2>2. m.cur \in Nat /\ InMessage(m) = {}
    BY <1>1, <1>2 DEF Message, InMessage
  <2> QED BY <1>1, <1>2, <2>1, <2>2 DEF HandleConnected, m
<1>3. CASE m.type = "sync"
  <2>1. HandleSync(m)
    BY <1>3 DEF HandleMessage, m
  <2>2. InMessage(m) = Numbered(m.events)
    BY <1>3 DEF InMessage
  <2> QED BY <1>1, <1>3, <2>1, <2>2 DEF HandleSync, m
<1>4. CASE m.type = "event"
  <2>1. HandleServerEvent(m)
    BY <1>4 DEF HandleMessage, m
  <2>2. m.ev.seq \in Nat
    BY <1>1, <1>4 DEF Message, RoomEvent
  <2>3. InMessage(m) = Numbered({m.ev})
    BY <1>4 DEF InMessage
  <2> QED BY <1>1, <1>4, <2>1, <2>2, <2>3 DEF HandleServerEvent, m
<1>5. CASE m.type = "error"
  <2>1. UNCHANGED viewVars
    BY <1>5 DEF HandleMessage, m
  <2>2. InMessage(m) = {}
    BY <1>5 DEF InMessage
  <2> QED BY <1>1, <1>5, <2>1, <2>2 DEF viewVars, m
<1> QED BY <1>1, <1>2, <1>3, <1>4, <1>5 DEF Message, m

LEMMA MessageSteady ==
  ASSUME LinkInv, Alone, Watching => Feed, NEW s \in Sockets, HandleMessage(s), UNCHANGED hubVars
  PROVE  Alone' /\ (Watching' => Feed')
<1>1. /\ conn[s] = "open" /\ down[s] # << >> /\ down' = [ down EXCEPT ![s] = Tail(down[s]) ]
      /\ UNCHANGED <<conn, up>> /\ UNCHANGED linkVars
  BY DEF HandleMessage
<1>2. Alone' /\ (Watching' <=> Watching) /\ (Beginning' <=> Beginning)
      /\ ws' = ws
  BY <1>1 DEF linkVars, Alone, Watching, Beginning
<1>3. SUFFICES ASSUME Watching  PROVE Feed'
  BY <1>2
<1>4. s = ws /\ Playing /\ ~Beginning
  BY <1>1, <1>3, OnlyThePage DEF Playing, Beginning, Alone
<1>5. FeedTypes /\ Recorded /\ Following
  BY <1>3, <1>4 DEF Feed
<1>6. /\ UNCHANGED <<version, seq, ring, bus, tick, pub, sub, joined, lost>>
  BY DEF hubVars
<1> DEFINE m == Head(down[ws])
           q == Tail(down[ws])
<1>7. /\ down[ws] \in Seq(Message) /\ Len(down[ws]) <= SendBuffer /\ Len(down[ws]) \in Nat
      /\ lastSeq \in Nat /\ base \in Nat \cup {None} /\ seq \in Nat /\ SendBuffer \in Nat
  BY <1>4, <1>5, ChannelAssumption DEF FeedTypes
<1>8. /\ m \in Message /\ q \in Seq(Message) /\ Len(q) = Len(down[ws]) - 1
      /\ Entries(down[ws]) = Entries(q) \cup {m}
      /\ InQueue(down[ws]) = InQueue(q) \cup InMessage(m)
  BY <1>1, <1>4, <1>7, QueueOfTail
<1>9. /\ applied' = applied \cup InMessage(m)
      /\ lastSeq' \in Nat /\ base' \in Nat \cup {None}
      /\ lastSeq' = lastSeq \/ (m.type = "event" /\ lastSeq' = m.ev.seq)
           \/ (m.type = "connected" /\ lastSeq' = m.cur)
      /\ base' = IF m.type = "connected" /\ base = None THEN m.cur ELSE base
  BY <1>4, <1>7, MessageIs
<1> HIDE DEF m, q
<1>10. /\ down' \in [ Sockets -> Seq(Message) ] /\ down'[ws] = q
       /\ \A t \in Sockets : t # ws => down'[t] = down[t]
  BY <1>1, <1>4, <1>5, <1>8 DEF FeedTypes, q
<1>11. FeedTypes'
  BY <1>1, <1>4, <1>5, <1>6, <1>7, <1>8, <1>9, <1>10 DEF FeedTypes
<1>12. Recorded' /\ BeingPublished' = BeingPublished
  BY <1>5, <1>6, RecordedStays
<1>13. Frame' = Frame /\ Asked' = Asked
  BY <1>1, <1>2, <1>6 DEF Frame, Asked
<1>14. Replay' = Replay
  BY <1>6, <1>13 DEF Replay
<1>15. m.type = "connected" => m.cur \in Promised
  BY <1>8 DEF Promised, Told
<1>16. Promised' \subseteq Promised
  <2>1. Promised' = Told(q) \cup { sub[<<ws, h>>].cur : h \in { k \in Hows : Greets(sub[<<ws, k>>]) } }
    BY <1>2, <1>6, <1>10 DEF Promised, Told
  <2>2. Told(q) \subseteq Told(down[ws])
    BY <1>8 DEF Told
  <2> QED BY <2>1, <2>2 DEF Promised
<1>17. From' \subseteq From
  <2>1. CASE base # None
    BY <1>9, <2>1 DEF From
  <2>2. CASE base = None /\ m.type = "connected"
    <3>1. base' = m.cur /\ m.cur \in Nat /\ m.cur # None
      BY <1>8, <1>9, <2>2, ChannelAssumption DEF Message
    <3> QED BY <1>15, <2>2, <3>1 DEF From
  <2>3. CASE base = None /\ m.type # "connected"
    BY <1>9, <1>16, <2>3 DEF From
  <2> QED BY <2>1, <2>2, <2>3
<1>18. Asking'
  <2>1. Asking
    BY <1>5 DEF Following
  <2>2. ASSUME NEW n \in Asked  PROVE base' = n /\ n > 0 /\ n # None
    BY <1>9, <2>1, <2>2 DEF Asking
  <2>3. Frame.pc = "answer" => base' # None
    BY <1>9, <2>1 DEF Asking
  <2>4. ws \notin joined => Asked # {} \/ (base' = None /\ Promised' = {})
    BY <1>9, <1>15, <1>16, <2>1 DEF Asking
  <2> QED BY <1>2, <1>6, <1>13, <2>1, <2>2, <2>3, <2>4 DEF Asking
<1>19. Known'
  <2>1. Known
    BY <1>5 DEF Following
  <2>2. lastSeq' <= seq
    BY <1>8, <1>9, <1>15, <2>1 DEF Known
  <2>3. \A k \in Entries(q) : k.type = "event" => k.ev.seq <= seq
    BY <1>8, <2>1 DEF Known
  <2> QED BY <1>2, <1>6, <1>10, <1>16, <2>1, <2>2, <2>3 DEF Known
<1>20. ASSUME NEW c \in From', NEW n \in 1..seq, n > c
       PROVE  Accounted(n)'
  <2>1. Accounted(n)
    BY <1>5, <1>17, <1>20 DEF Following
  <2>2. InQueue(down[ws])' = InQueue(q)
    BY <1>2, <1>10 DEF InQueue
  <2> QED BY <1>6, <1>8, <1>9, <1>12, <1>14, <2>1, <2>2 DEF Accounted
<1>21. Following'
  BY <1>2, <1>4, <1>5, <1>6, <1>18, <1>19, <1>20 DEF Following
<1> QED BY <1>2, <1>4, <1>11, <1>12, <1>21 DEF Feed

--------------------------------------------------------------------------------

LEMMA FaultsGrow ==
  ASSUME faults \in Nat, HubStep \/ HubSend
  PROVE  faults' \in Nat /\ (faults' = 0 => faults = 0)
<1>1. ASSUME NEW p \in Publishers, Change(p) \/ Publish(p)
      PROVE  faults' = faults \/ faults' = faults + 1
  BY <1>1 DEF Change, Publish, Reread, Drop, Save, Number, Store, Broadcast, Fault
<1>2. ASSUME NEW s \in Sockets, NEW h \in Hows, Subscribe(s, h)
      PROVE  faults' = faults \/ faults' = faults + 1
  BY <1>2 DEF Subscribe, Register, Read, ReadRoom, ReadHidden, ReadFails, ReadForNobody, Fault
<1>3. ASSUME NEW s \in Sockets, LeaveRoom(s)  PROVE faults' = faults
  BY <1>3 DEF LeaveRoom
<1>4. CASE HubStep
  BY <1>1, <1>2, <1>3, <1>4 DEF HubStep, ReadTick, Load, Fill, Fault
<1>5. CASE HubSend
  BY <1>5 DEF HubSend, Deliver, DeliverTick, ReadFrame, Answer
<1> QED BY <1>4, <1>5

LEMMA HubSteady ==
  ASSUME SteadyInv, Snapshots \subseteq Nat, HubStep \/ HubSend, faults' = 0
  PROVE  Alone' /\ (Watching' => Feed')
<1>1. UNCHANGED conn /\ UNCHANGED <<linkVars, viewVars>>
  BY DEF HubStep, HubSend, channelVars, Deliver, DeliverTick, ReadFrame, Answer
<1>2. faults \in Nat /\ faults = 0
  BY FaultsGrow DEF SteadyInv
<1>3. Alone /\ LinkInv /\ (Watching => Feed)
  BY <1>2 DEF SteadyInv
<1>4. Alone' /\ (Watching' <=> Watching)
  BY <1>1, <1>3 DEF linkVars, Alone, Watching
<1>5. SUFFICES ASSUME Watching, Feed  PROVE Feed'
  BY <1>3, <1>4
<1>6. CASE HubStep
  <2>1. UNCHANGED <<conn, up, down, linkVars, viewVars>>
    BY <1>6 DEF HubStep, channelVars
  <2>2. ASSUME NEW p \in Publishers, Change(p)  PROVE Feed'
    BY <1>5, <2>1, <2>2, ChangeFeeds
  <2>3. ASSUME NEW p \in Publishers, Publish(p)  PROVE Feed'
    BY <1>2, <1>5, <2>1, <2>3, EarlyStepFeeds, NumberFeeds, StoreFeeds, BroadcastFeeds DEF Publish
  <2>4. CASE Load \/ Fill \/ ReadTick
    BY <1>5, <2>1, <2>4, LoadFeeds, ReadTickFeeds
  <2>5. ASSUME NEW s \in Sockets, NEW h \in Hows, Subscribe(s, h)  PROVE Feed'
    BY <1>2, <1>5, <2>1, <2>5, RegisterFeeds, ReadFeeds DEF Subscribe
  <2>6. ASSUME NEW s \in Sockets, LeaveRoom(s)  PROVE FALSE
    <3>1. conn[s] = "closed"
      BY <2>6 DEF LeaveRoom
    <3> QED BY <1>3, <1>5, <3>1, OnlyThePage DEF Alive
  <2> QED BY <1>6, <2>2, <2>3, <2>4, <2>5, <2>6 DEF HubStep
<1>7. CASE HubSend
  <2>1. UNCHANGED <<linkVars, viewVars>>
    BY <1>7 DEF HubSend
  <2>2. ASSUME NEW s \in Sockets, ReadFrame(s)  PROVE Feed'
    BY <1>5, <2>1, <2>2, ReadFrameFeeds
  <2>3. ASSUME NEW s \in Sockets, NEW h \in Hows, Answer(s, h)  PROVE Feed'
    BY <1>5, <2>1, <2>3, AnswerFeeds
  <2> QED BY <1>3, <1>5, <1>7, <2>1, <2>2, <2>3, DeliverFeeds, DeliverTickFeeds DEF HubSend
<1> QED BY <1>6, <1>7

LEMMA PageSteady ==
  ASSUME SteadyInv, PageStep, faults' = 0
  PROVE  Alone' /\ (Watching' => Feed')
<1>1. UNCHANGED hubVars /\ faults = 0
  BY DEF PageStep, hubVars
<1>2. Alone /\ LinkInv /\ (Watching => Feed)
  BY <1>1 DEF SteadyInv
<1>3. CASE Mount
  BY <1>1, <1>2, <1>3, MountSteady
<1>4. CASE Unmount
  BY <1>4, UnmountSteady
<1>5. CASE ReconnectTimer \/ ClickReconnect
  BY <1>2, <1>5 DEF ReconnectTimer, ClickReconnect, Alone
<1>6. ASSUME NEW s \in Sockets, HandleMessage(s)  PROVE Alone' /\ (Watching' => Feed')
  BY <1>1, <1>2, <1>6, MessageSteady
<1> QED BY <1>3, <1>4, <1>5, <1>6 DEF PageStep

LEMMA SteadyKept == ASSUME SteadyInv, Snapshots \subseteq Nat, [Next]_vars  PROVE SteadyInv'
<1>1. LinkInv'
  BY LinkKept DEF SteadyInv
<1>2. faults' \in Nat /\ (faults' = 0 => faults = 0)
  <2>1. faults \in Nat
    BY DEF SteadyInv
  <2>2. CASE PageStep \/ Rest \/ UNCHANGED vars
    BY <2>1, <2>2 DEF PageStep, hubVars, vars, Rest
  <2>3. ASSUME NEW s \in Sockets, Open(s) \/ CloseEvent(s) \/ Break(s)
        PROVE  faults' = faults \/ faults' = faults + 1
    BY <2>3 DEF Open, CloseEvent, Break, Fault, hubVars
  <2> QED BY <2>1, <2>2, <2>3, FaultsGrow DEF Next
<1>3. ASSUME faults' = 0  PROVE Alone' /\ (Watching' => Feed')
  <2>1. Alone /\ LinkInv /\ (Watching => Feed)
    BY <1>2, <1>3 DEF SteadyInv
  <2>2. CASE PageStep
    BY <1>3, <2>2, PageSteady
  <2>3. CASE HubStep \/ HubSend
    BY <1>3, <2>3, HubSteady
  <2>4. ASSUME NEW s \in Sockets, Open(s)  PROVE Alone' /\ (Watching' => Feed')
    BY <2>1, <2>4, OpenSteady
  <2>5. ASSUME NEW s \in Sockets, CloseEvent(s)  PROVE Alone' /\ (Watching' => Feed')
    BY <2>1, <2>5, CloseSteady
  <2>6. ASSUME NEW s \in Sockets, Break(s)  PROVE FALSE
    BY <1>3, <2>6 DEF Break, Fault, SteadyInv
  <2>7. CASE Rest \/ UNCHANGED vars
    <3>1. UNCHANGED <<conn, up, down, version, seq, ring, bus, tick, pub, sub, joined, lost>>
          /\ UNCHANGED <<linkVars, viewVars>>
      BY <2>7 DEF Rest, vars, channelVars, hubVars
    <3>2. Alone' /\ (Watching' <=> Watching)
      BY <2>1, <3>1 DEF linkVars, Alone, Watching
    <3>3. ASSUME Feed  PROVE Feed'
      <4>1. FeedTypes /\ Recorded /\ lastSeq' = lastSeq /\ base' = base
        BY <3>1, <3>3 DEF Feed, viewVars
      <4>2. FeedTypes'
        BY <3>1, <4>1 DEF FeedTypes
      <4>3. Recorded' /\ BeingPublished' = BeingPublished /\ Stored' = Stored
        BY <3>1, <4>1, RecordedStays
      <4>4. seq <= seq' /\ \A n \in seq + 1 .. seq' : n \in BeingPublished'
        BY <3>1, <4>1 DEF FeedTypes
      <4> QED BY <3>1, <3>3, <4>2, <4>3, <4>4, PublisherFeeds
    <3> QED BY <2>1, <3>2, <3>3
  <2> QED BY <2>2, <2>3, <2>4, <2>5, <2>6, <2>7 DEF Next
<1> QED BY <1>1, <1>2, <1>3 DEF SteadyInv

--------------------------------------------------------------------------------
(* Types, and what they need                                               *)

HubTyped ==
  /\ version \in Nat /\ seq \in Nat /\ tick \in Nat \cup {None}
  /\ ring \in Seq(RoomEvent) /\ bus \in Seq(RoomEvent)
  /\ pub \in [ Publishers -> PubState ]
  /\ sub \in [ Sockets \X Hows -> SubState ]
  /\ joined \subseteq Sockets /\ left \subseteq Sockets
  /\ faults \in Nat /\ lost \subseteq Nat

CacheTyped ==
  /\ hidden \subseteq Nat /\ cache \in Nat \cup {None} /\ load \in Nat \cup {None}
  /\ crossed \in BOOLEAN /\ deaf \subseteq Sockets

WireTyped == up \in [ Sockets -> Seq(Nat) ] /\ down \in [ Sockets -> Seq(Message) ]

ViewTyped ==
  /\ attempt \in Nat /\ clicks \in Nat /\ lastSeq \in Nat /\ rank \in Nat
  /\ snapshot \in Nat \cup {None} /\ base \in Nat \cup {None} /\ applied \subseteq Nat

(* No event that may come back in a replay has a number that has not been  *)
(* given out: a replay of any length has a last event.                     *)
Counted ==
  /\ \A e \in Entries(ring) : e.seq <= seq
  /\ \A p \in Publishers : pub[p].ev.seq <= seq
  /\ \A x \in Sockets \X Hows : \A e \in sub[x].missed : e.seq <= seq
  /\ \A s \in Sockets : \A m \in Entries(down[s]) : m.type = "sync" => \A e \in m.events : e.seq <= seq

CountedInv == LinkInv /\ HubTyped /\ CacheTyped /\ WireTyped /\ ViewTyped /\ Counted

LEMMA HasLeast ==
  ASSUME NEW S, S \subseteq Nat, S # {}
  PROVE  \E m \in S : \A n \in S : m <= n
<1> DEFINE R == OpToRel(<, Nat)
<1>1. PICK m \in S : \A n \in S : <<n, m>> \notin R
  <2>1. IsWellFoundedOn(R, Nat)
    BY NatLessThanWellFounded
  <2> HIDE DEF R
  <2> QED BY <2>1, WFMin
<1>2. ASSUME NEW n \in S, n < m
      PROVE  FALSE
  <2>1. <<n, m>> \in Nat \X Nat /\ <<n, m>>[1] < <<n, m>>[2]
    BY <1>2
  <2>2. <<n, m>> \in R
    BY <2>1 DEF OpToRel
  <2> QED BY <1>1, <2>2
<1> QED BY <1>2

LEMMA LastIs ==
  ASSUME NEW E, E \subseteq RoomEvent, E # {}, NEW n \in Nat, \A e \in E : e.seq <= n
  PROVE  Last(E) \in E
<1> DEFINE gaps == { n - e.seq : e \in E }
<1>1. \A e \in E : e.seq \in Nat /\ n - e.seq \in Nat
  BY DEF RoomEvent
<1>2. gaps \subseteq Nat /\ gaps # {}
  BY <1>1
<1>3. \E k \in gaps : \A i \in gaps : k <= i
  <2> HIDE DEF gaps
  <2> QED BY <1>2, HasLeast
<1>4. PICK e \in E : \A f \in E : n - e.seq <= n - f.seq
  BY <1>3
<1>5. \A f \in E : f.seq <= e.seq
  <2> HIDE DEF gaps
  <2>1. ASSUME NEW f \in E
        PROVE  f.seq <= e.seq
    <3>1. n - e.seq <= n - f.seq /\ e.seq \in Nat /\ f.seq \in Nat
      BY <1>1, <1>4
    <3> QED BY <3>1
  <2> QED BY <2>1
<1> QED BY <1>5 DEF Last

LEMMA ShownTyped ==
  ASSUME NEW E, E \subseteq RoomEvent, NEW n \in Nat, \A e \in E : e.seq <= n,
         NEW v \in Nat \cup {None}, NEW r \in Nat
  PROVE  SnapshotAfter(E, v) \in Nat \cup {None} /\ RankAfter(E, r) \in Nat
<1>1. ASSUME NEW S, S \subseteq E, S # {}
      PROVE  Last(S).v \in Nat
  <2>1. Last(S) \in S
    BY <1>1, LastIs
  <2> QED BY <1>1, <2>1 DEF RoomEvent
<1>2. SnapshotAfter(E, v) \in Nat \cup {None}
  <2> DEFINE S == { e \in E : ShowsAuction(e) }
  <2>1. S \subseteq E
    OBVIOUS
  <2> HIDE DEF S
  <2>2. S # {} => Last(S).v \in Nat
    BY <1>1, <2>1
  <2> QED BY <2>2 DEF SnapshotAfter, S
<1>3. RankAfter(E, r) \in Nat
  <2> DEFINE S == { e \in E : ShowsRank(e) }
  <2>1. S \subseteq E
    OBVIOUS
  <2> HIDE DEF S
  <2>2. S # {} => Last(S).v \in Nat
    BY <1>1, <2>1
  <2> QED BY <2>2 DEF RankAfter, S
<1> QED BY <1>2, <1>3

LEMMA CountedTypes ==
  ASSUME CountedInv
  PROVE  TypeOK
BY DEF CountedInv, LinkInv, LinkTypes, ConnStates, HubTyped, CacheTyped, WireTyped, ViewTyped, TypeOK

LEMMA CountedInit ==
  ASSUME Init
  PROVE  CountedInv
<1>1. LinkInv
  BY LinkHolds
<1>2. /\ version = 0 /\ seq \in 0..EarlierEvents /\ bus = << >> /\ tick = None
      /\ ring = IF seq = 0 THEN << >> ELSE << [ seq |-> 1, kind |-> "state", v |-> 0 ] >>
      /\ pub = [ p \in Publishers |-> [ pc |-> "idle", ev |-> NoEvent ] ]
      /\ sub = [ x \in Sockets \X Hows |-> NoSub ]
      /\ joined = {} /\ left = {} /\ faults = 0 /\ lost = {} /\ lastSeq \in 0..seq
  BY DEF Init, HubInit
<1>3. seq \in Nat /\ seq <= 1
  BY <1>2, HubAssumption
<1>4. NoEvent \in RoomEvent /\ NoEvent.seq = 0
  BY DEF NoEvent, RoomEvent
<1>5. [ pc |-> "idle", ev |-> NoEvent ] \in PubState /\ NoSub \in SubState /\ NoSub.missed = {}
  BY <1>4 DEF PubState, NoSub, SubState
<1>6. ring \in Seq(RoomEvent) /\ (\A e \in Entries(ring) : e.seq <= seq)
  <2>1. CASE seq = 0
    BY <1>2, <2>1 DEF Entries
  <2>2. CASE seq # 0
    <3> DEFINE e == [ seq |-> 1, kind |-> "state", v |-> 0 ]
    <3>1. e \in RoomEvent /\ e.seq = 1
      BY DEF RoomEvent
    <3>2. ring = << e >>
      BY <1>2, <2>2
    <3> HIDE DEF e
    <3>3. ring \in Seq(RoomEvent) /\ Entries(ring) = {e}
      BY <3>1, <3>2 DEF Entries
    <3> QED BY <1>3, <2>2, <3>1, <3>3
  <2> QED BY <2>1, <2>2
<1>7. HubTyped /\ CacheTyped
  <2>1. HubTyped
    BY <1>2, <1>3, <1>5, <1>6 DEF HubTyped
  <2>2. CacheTyped
    BY DEF Init, HubInit, CacheTyped
  <2> QED BY <2>1, <2>2
<1>8. WireTyped /\ ViewTyped
  BY <1>2, <1>3 DEF Init, SocketInit, WireTyped, ViewTyped
<1>9. Counted
  <2>1. \A s \in Sockets : Entries(down[s]) = {}
    BY DEF Init, SocketInit, Entries
  <2>2. \A p \in Publishers : pub[p].ev.seq = 0
    BY <1>2, <1>4
  <2>3. \A x \in Sockets \X Hows : sub[x].missed = {}
    <3> HIDE DEF Hows
    <3> QED BY <1>2, <1>5
  <2>4. \A e \in Entries(ring) : e.seq <= seq
    BY <1>6
  <2>5. \A p \in Publishers : pub[p].ev.seq <= seq
    BY <1>3, <2>2
  <2>6. \A x \in Sockets \X Hows : \A e \in sub[x].missed : e.seq <= seq
    <3> HIDE DEF Hows
    <3> QED BY <2>3
  <2>7. \A s \in Sockets : \A m \in Entries(down[s]) : m.type = "sync" => \A e \in m.events : e.seq <= seq
    BY <2>1
  <2> QED BY <2>4, <2>5, <2>6, <2>7 DEF Counted
<1> QED BY <1>1, <1>7, <1>8, <1>9 DEF CountedInv

(* Publishing                                                              *)

LEMMA PublisherSet ==
  ASSUME HubTyped, Counted, seq' \in Nat, seq <= seq', NEW p \in Publishers, NEW x \in PubState,
         x.ev.seq <= seq', pub' = [ pub EXCEPT ![p] = x ]
  PROVE  pub' \in [ Publishers -> PubState ] /\ \A q \in Publishers : pub'[q].ev.seq <= seq'
<1>1. pub \in [ Publishers -> PubState ] /\ seq \in Nat /\ \A q \in Publishers : pub[q].ev.seq <= seq
  BY DEF HubTyped, Counted
<1>2. pub' \in [ Publishers -> PubState ] /\ \A q \in Publishers : pub'[q] = IF q = p THEN x ELSE pub[q]
  BY <1>1
<1>3. \A q \in Publishers : pub[q].ev.seq \in Nat
  BY <1>1 DEF PubState, RoomEvent
<1>4. ASSUME NEW q \in Publishers  PROVE pub'[q].ev.seq <= seq'
  <2>1. CASE q = p
    BY <1>2, <2>1
  <2>2. CASE q # p
    <3>1. pub'[q] = pub[q]
      BY <1>2, <2>2
    <3>2. pub[q].ev.seq <= seq /\ pub[q].ev.seq \in Nat
      BY <1>1, <1>3
    <3> QED BY <1>1, <3>1, <3>2
  <2> QED BY <2>1, <2>2
<1> QED BY <1>2, <1>4

LEMMA CountsGrow ==
  ASSUME HubTyped, WireTyped, Counted, seq' \in Nat, seq <= seq', UNCHANGED <<down, sub>>,
         pub' \in [ Publishers -> PubState ], \A q \in Publishers : pub'[q].ev.seq <= seq',
         \A e \in Entries(ring') : e \in Entries(ring) \/ (\E q \in Publishers : e = pub[q].ev)
  PROVE  Counted'
<1>1. seq \in Nat
  BY DEF HubTyped
<1>2. \A e \in RoomEvent : e.seq <= seq => e.seq <= seq'
  BY <1>1 DEF RoomEvent
<1>3. ASSUME NEW e \in Entries(ring')  PROVE e.seq <= seq'
  <2>1. Entries(ring) \subseteq RoomEvent /\ \A q \in Publishers : pub[q].ev \in RoomEvent
    BY TypedEntries DEF HubTyped, PubState
  <2>2. e \in RoomEvent /\ e.seq <= seq
    BY <1>3, <2>1 DEF Counted
  <2> QED BY <1>2, <2>2
<1>4. ASSUME NEW x \in Sockets \X Hows, NEW e \in sub[x].missed  PROVE e.seq <= seq'
  <2>1. e \in RoomEvent /\ e.seq <= seq
    BY <1>4 DEF Counted, HubTyped, SubState
  <2> QED BY <1>2, <2>1
<1>5. ASSUME NEW s \in Sockets, NEW m \in Entries(down[s]), m.type = "sync", NEW e \in m.events
      PROVE  e.seq <= seq'
  <2>1. m \in Message
    BY <1>5, TypedEntries DEF WireTyped
  <2>2. e \in RoomEvent
    BY <1>5, <2>1 DEF Message
  <2>3. e.seq <= seq
    BY <1>5 DEF Counted
  <2> QED BY <1>2, <2>2, <2>3
<1>6. \A x \in Sockets \X Hows : \A e \in sub'[x].missed : e.seq <= seq'
  <2> HIDE DEF Hows
  <2> QED BY <1>4
<1>7. \A s \in Sockets : \A m \in Entries(down'[s]) : m.type = "sync" => \A e \in m.events : e.seq <= seq'
  BY <1>5
<1> QED BY <1>3, <1>6, <1>7 DEF Counted

LEMMA ChangeCounts ==
  ASSUME HubTyped, WireTyped, Counted, NEW p \in Publishers, Change(p), UNCHANGED down
  PROVE  HubTyped' /\ Counted'
<1>0. PICK k \in Kinds : pub' = [ pub EXCEPT ![p] =
         [ pc |-> "reread", ev |-> [ seq |-> 0, kind |-> k, v |-> version + 1 ] ] ]
  BY DEF Change
<1>1. PICK e : /\ e = [ seq |-> 0, kind |-> k, v |-> version + 1 ]
               /\ pub' = [ pub EXCEPT ![p] = [ pc |-> "reread", ev |-> e ] ]
  BY <1>0
<1>2. version' = version + 1 /\ UNCHANGED <<seq, ring, bus, tick, sub, joined, left, faults, lost>>
  BY DEF Change
<1>3. seq \in Nat /\ version \in Nat
  BY DEF HubTyped
<1>4. e \in RoomEvent /\ e.seq = 0
  BY <1>1, <1>3, ChannelAssumption DEF RoomEvent
<1>5. PICK x : x = [ pc |-> "reread", ev |-> e ]
  OBVIOUS
<1>6. x \in PubState /\ x.ev.seq <= seq'
  BY <1>2, <1>3, <1>4, <1>5 DEF PubState
<1>7. pub' \in [ Publishers -> PubState ] /\ \A q \in Publishers : pub'[q].ev.seq <= seq'
  <2>1. seq' \in Nat /\ seq <= seq' /\ pub' = [ pub EXCEPT ![p] = x ]
    BY <1>1, <1>2, <1>3, <1>5
  <2> QED BY <1>6, <2>1, PublisherSet
<1>8. HubTyped'
  BY <1>2, <1>7 DEF HubTyped
<1> QED BY <1>2, <1>3, <1>7, <1>8, CountsGrow

LEMMA EarlyStepCounts ==
  ASSUME HubTyped, WireTyped, Counted, NEW p \in Publishers, Reread(p) \/ Drop(p) \/ Save(p),
         UNCHANGED down
  PROVE  HubTyped' /\ Counted'
<1>1. pub \in [ Publishers -> PubState ] /\ version \in Nat /\ seq \in Nat /\ faults \in Nat
      /\ pub[p].ev.seq <= seq
  BY DEF HubTyped, Counted
<1>2. UNCHANGED <<version, seq, ring, bus, tick, sub, joined, left, lost>>
  BY <1>1, EarlyStep
<1>3. PICK x \in PubState : /\ x.ev = NoEvent \/ x.ev.seq = pub[p].ev.seq
                            /\ pub' = [ pub EXCEPT ![p] = x ]
  BY <1>1, EarlyStep
<1>4. x.ev.seq <= seq
  BY <1>1, <1>3 DEF NoEvent
<1>5. pub' \in [ Publishers -> PubState ] /\ \A q \in Publishers : pub'[q].ev.seq <= seq'
  <2>1. seq' \in Nat /\ seq <= seq' /\ x.ev.seq <= seq'
    BY <1>1, <1>2, <1>4
  <2> QED BY <1>3, <2>1, PublisherSet
<1>6. faults' \in Nat
  BY <1>1 DEF Reread, Drop, Save, Fault
<1>7. HubTyped'
  BY <1>2, <1>5, <1>6 DEF HubTyped
<1> QED BY <1>1, <1>2, <1>5, <1>7, CountsGrow

LEMMA QuietPublisher ==
  LET x == [ pc |-> "idle", ev |-> NoEvent ] IN x \in PubState /\ x.ev.seq = 0
BY DEF NoEvent, PubState, RoomEvent

LEMMA NumberCounts ==
  ASSUME HubTyped, WireTyped, Counted, NEW p \in Publishers, Number(p), UNCHANGED down
  PROVE  HubTyped' /\ Counted'
<1>1. UNCHANGED <<version, ring, bus, tick, sub, joined, left, lost>>
  BY DEF Number
<1>2. seq \in Nat /\ faults \in Nat /\ pub[p] \in PubState /\ p \in DOMAIN pub
  BY DEF HubTyped
<1>3. /\ seq' \in Nat /\ seq <= seq' /\ faults' \in Nat
      /\ pub' \in [ Publishers -> PubState ] /\ \A q \in Publishers : pub'[q].ev.seq <= seq'
  <2>1. CASE /\ seq' = seq + 1 /\ UNCHANGED faults
             /\ pub' = [ pub EXCEPT ![p].pc = "store", ![p].ev.seq = seq + 1 ]
    <3> DEFINE x == [ pub[p] EXCEPT !.pc = "store" ]
               P == [ pub EXCEPT ![p] = x ]
               y == [ x EXCEPT !.ev = [ x.ev EXCEPT !.seq = seq + 1 ] ]
    <3>1. x \in PubState /\ x.pc = "store" /\ x.ev = pub[p].ev
      BY <1>2 DEF PubState
    <3>2. y \in PubState /\ y.ev.seq = seq + 1
      <4>1. seq + 1 \in Nat
        BY <1>2
      <4> QED BY <3>1, <4>1 DEF PubState, RoomEvent
    <3>3. P[p] = x /\ pub' = [ P EXCEPT ![p] = [ P[p] EXCEPT !.ev = [ P[p].ev EXCEPT !.seq = seq + 1 ] ] ]
      BY <1>2, <2>1
    <3>4. pub' = [ P EXCEPT ![p] = y ]
      BY <3>3
    <3> HIDE DEF x, y
    <3>5. pub' = [ pub EXCEPT ![p] = y ]
      BY <3>4
    <3>6. seq' \in Nat /\ seq <= seq' /\ y.ev.seq <= seq'
      BY <1>2, <2>1, <3>2
    <3> HIDE DEF P
    <3> QED BY <1>2, <2>1, <3>2, <3>5, <3>6, PublisherSet
  <2>2. CASE Fault /\ pub' = [ pub EXCEPT ![p] = [ pc |-> "idle", ev |-> NoEvent ] ] /\ UNCHANGED seq
    <3>1. PICK x \in PubState : x.ev.seq = 0 /\ pub' = [ pub EXCEPT ![p] = x ]
      BY <2>2, QuietPublisher
    <3>2. seq' \in Nat /\ seq <= seq' /\ x.ev.seq <= seq' /\ faults' \in Nat
      BY <1>2, <2>2, <3>1 DEF Fault
    <3> QED BY <3>1, <3>2, PublisherSet
  <2> QED BY <2>1, <2>2 DEF Number
<1>4. HubTyped'
  BY <1>1, <1>3 DEF HubTyped
<1> QED BY <1>1, <1>3, <1>4, CountsGrow

LEMMA StoreCounts ==
  ASSUME HubTyped, WireTyped, Counted, NEW p \in Publishers, Store(p), UNCHANGED down
  PROVE  HubTyped' /\ Counted'
<1>1. UNCHANGED <<version, seq, bus, tick, sub, joined, left>> /\ pub' = [ pub EXCEPT ![p].pc = "publish" ]
  BY DEF Store
<1>2. /\ seq \in Nat /\ faults \in Nat /\ pub[p] \in PubState /\ p \in DOMAIN pub
      /\ ring \in Seq(RoomEvent) /\ pub[p].ev.seq <= seq /\ lost \subseteq Nat
  BY DEF HubTyped, Counted
<1>3. pub[p].ev \in RoomEvent /\ pub[p].ev.seq \in Nat
  BY <1>2 DEF PubState, RoomEvent
<1>4. /\ ring' \in Seq(RoomEvent) /\ lost' \subseteq Nat /\ faults' \in Nat
      /\ Entries(ring') \subseteq Entries(ring) \cup {pub[p].ev}
  <2>1. CASE /\ ring' = Pushed(ring, pub[p].ev) /\ UNCHANGED faults
             /\ lost' = lost \cup (Seqs(Entries(ring)) \ Seqs(Entries(ring')))
    <3>1. PICK r : r = Append(ring, pub[p].ev)
      OBVIOUS
    <3>2. /\ r \in Seq(RoomEvent) /\ Len(r) = Len(ring) + 1 /\ Len(ring) \in Nat
          /\ Entries(r) = Entries(ring) \cup {pub[p].ev}
      BY <1>2, <1>3, <3>1, EntriesOfAppend
    <3>3. r # << >>
      BY <3>2
    <3>4. Tail(r) \in Seq(RoomEvent) /\ Entries(Tail(r)) \subseteq Entries(r)
      BY <3>2, <3>3, EntriesOfTail
    <3>5. ring' = Tail(r) \/ ring' = r
      BY <2>1, <3>1 DEF Pushed
    <3>6. ring' \in Seq(RoomEvent) /\ Entries(ring') \subseteq Entries(ring) \cup {pub[p].ev}
      BY <3>2, <3>4, <3>5
    <3>7. Seqs(Entries(ring)) \subseteq Nat
      <4>1. \A e \in Entries(ring) : e.seq \in Nat
        <5>1. Entries(ring) \subseteq RoomEvent
          BY <1>2, TypedEntries
        <5> QED BY <5>1 DEF RoomEvent
      <4> QED BY <4>1 DEF Seqs
    <3> QED BY <1>2, <2>1, <3>6, <3>7
  <2>2. CASE Fault /\ lost' = lost \cup { pub[p].ev.seq } /\ UNCHANGED ring
    <3>1. faults' \in Nat
      BY <1>2, <2>2 DEF Fault
    <3>2. lost' \subseteq Nat
      BY <1>2, <1>3, <2>2
    <3> QED BY <1>2, <2>2, <3>1, <3>2
  <2> QED BY <2>1, <2>2 DEF Store
<1>5. pub' \in [ Publishers -> PubState ] /\ \A q \in Publishers : pub'[q].ev.seq <= seq'
  <2>1. PICK x : x = [ pub[p] EXCEPT !.pc = "publish" ]
    OBVIOUS
  <2>2. x \in PubState /\ x.ev = pub[p].ev
    BY <1>2, <2>1 DEF PubState
  <2>3. pub' = [ pub EXCEPT ![p] = x ] /\ x.ev.seq <= seq'
    BY <1>1, <1>2, <2>1, <2>2
  <2>4. seq' \in Nat /\ seq <= seq'
    BY <1>1, <1>2
  <2> QED BY <2>2, <2>3, <2>4, PublisherSet
<1>6. HubTyped'
  BY <1>1, <1>4, <1>5 DEF HubTyped
<1> QED BY <1>1, <1>2, <1>4, <1>5, <1>6, CountsGrow

LEMMA BroadcastCounts ==
  ASSUME HubTyped, WireTyped, Counted, NEW p \in Publishers, Broadcast(p), UNCHANGED down
  PROVE  HubTyped' /\ Counted'
<1>1. UNCHANGED <<version, seq, ring, tick, sub, joined, left>>
  BY DEF Broadcast
<1>2. seq \in Nat /\ faults \in Nat /\ pub[p] \in PubState /\ bus \in Seq(RoomEvent) /\ lost \subseteq Nat
  BY DEF HubTyped
<1>3. pub[p].ev \in RoomEvent /\ pub[p].ev.seq \in Nat
  BY <1>2 DEF PubState, RoomEvent
<1>4. bus' \in Seq(RoomEvent) /\ lost' \subseteq Nat /\ faults' \in Nat
  <2>1. CASE bus' = Append(bus, pub[p].ev) /\ UNCHANGED <<faults, lost>>
    BY <1>2, <1>3, <2>1
  <2>2. CASE Fault /\ lost' = lost \cup { pub[p].ev.seq } /\ UNCHANGED bus
    <3>1. faults' \in Nat
      BY <1>2, <2>2 DEF Fault
    <3>2. lost' \subseteq Nat
      BY <1>2, <1>3, <2>2
    <3> QED BY <1>2, <2>2, <3>1, <3>2
  <2> QED BY <2>1, <2>2 DEF Broadcast
<1>5. PICK x \in PubState : x.ev.seq = 0 /\ pub' = [ pub EXCEPT ![p] = x ]
  BY QuietPublisher DEF Broadcast
<1>6. pub' \in [ Publishers -> PubState ] /\ \A q \in Publishers : pub'[q].ev.seq <= seq'
  <2>1. seq' \in Nat /\ seq <= seq' /\ x.ev.seq <= seq'
    BY <1>1, <1>2, <1>5
  <2> QED BY <1>5, <2>1, PublisherSet
<1>7. HubTyped'
  BY <1>1, <1>4, <1>6 DEF HubTyped
<1> QED BY <1>1, <1>2, <1>6, <1>7, CountsGrow

(* What the hub sends                                                      *)

LEMMA SentCounts ==
  ASSUME WireTyped, Counted, NEW ev \in RoomEvent, down' = SentToRoom(EventMsg(ev)), UNCHANGED <<up, seq>>
  PROVE  /\ WireTyped'
         /\ \A s \in Sockets : \A m \in Entries(down'[s]) : m.type = "sync" => \A e \in m.events : e.seq <= seq'
<1>1. PICK k : k = EventMsg(ev)
  OBVIOUS
<1>2. k \in Message /\ k.type = "event"
  BY <1>1 DEF EventMsg, Message
<1>3. down' = [ s \in Sockets |-> IF s \in Listening THEN Push(down[s], k) ELSE down[s] ]
  BY <1>1 DEF SentToRoom
<1>4. ASSUME NEW s \in Sockets
      PROVE  down'[s] \in Seq(Message) /\ Entries(down'[s]) \subseteq Entries(down[s]) \cup {k}
  <2>1. down[s] \in Seq(Message)
    BY DEF WireTyped
  <2>2. Append(down[s], k) \in Seq(Message) /\ Entries(Append(down[s], k)) = Entries(down[s]) \cup {k}
    BY <1>2, <2>1, EntriesOfAppend
  <2>3. down'[s] = Append(down[s], k) \/ down'[s] = down[s]
    BY <1>3 DEF Push
  <2> QED BY <2>1, <2>2, <2>3
<1>5. WireTyped'
  BY <1>3, <1>4 DEF WireTyped
<1>6. ASSUME NEW s \in Sockets, NEW m \in Entries(down'[s]), m.type = "sync"
      PROVE  \A e \in m.events : e.seq <= seq
  <2>1. m \in Entries(down[s])
    BY <1>2, <1>4, <1>6
  <2> QED BY <1>6, <2>1 DEF Counted
<1> QED BY <1>5, <1>6

LEMMA DeliverCounts ==
  ASSUME HubTyped, WireTyped, Counted, Deliver
  PROVE  HubTyped' /\ WireTyped' /\ Counted'
<1>1. PICK h : h = Head(bus)
  OBVIOUS
<1>2. /\ bus # << >> /\ bus' = Tail(bus) /\ down' = SentToRoom(EventMsg(h))
      /\ lost' = lost \cup { h.seq } \/ lost' = lost
      /\ UNCHANGED <<conn, up, version, seq, ring, tick, pub, sub, joined, left, faults>>
  BY <1>1 DEF Deliver
<1>3. h \in RoomEvent /\ bus' \in Seq(RoomEvent)
  BY <1>1, <1>2, EntriesOfTail DEF HubTyped
<1>4. h.seq \in Nat
  BY <1>3 DEF RoomEvent
<1>5. HubTyped'
  BY <1>2, <1>3, <1>4 DEF HubTyped
<1>6. /\ WireTyped'
      /\ \A s \in Sockets : \A m \in Entries(down'[s]) : m.type = "sync" => \A e \in m.events : e.seq <= seq'
  BY <1>2, <1>3, SentCounts
<1> QED BY <1>2, <1>5, <1>6 DEF Counted

LEMMA DeliverTickCounts ==
  ASSUME HubTyped, WireTyped, Counted, DeliverTick
  PROVE  HubTyped' /\ WireTyped' /\ Counted'
<1>1. PICK h : h = [ seq |-> 0, kind |-> "tick", v |-> tick ]
  OBVIOUS
<1>2. /\ tick # None /\ down' = SentToRoom(EventMsg(h)) /\ tick' = None
      /\ UNCHANGED <<conn, up, version, seq, ring, bus, pub, sub, joined, left, faults, lost>>
  BY <1>1 DEF DeliverTick
<1>3. h \in RoomEvent
  BY <1>1, <1>2 DEF HubTyped, RoomEvent
<1>4. HubTyped'
  BY <1>2 DEF HubTyped
<1>5. /\ WireTyped'
      /\ \A s \in Sockets : \A m \in Entries(down'[s]) : m.type = "sync" => \A e \in m.events : e.seq <= seq'
  BY <1>2, <1>3, SentCounts
<1> QED BY <1>2, <1>4, <1>5 DEF Counted

LEMMA ReadTickCounts ==
  ASSUME HubTyped, CacheTyped, Counted, ReadTick \/ Load \/ Fill, UNCHANGED down
  PROVE  HubTyped' /\ Counted'
<1>1. UNCHANGED <<version, seq, ring, bus, pub, sub, joined, left, lost>>
  BY DEF ReadTick, Load, Fill
<1>2. tick' \in Nat \cup {None}
  BY DEF ReadTick, Load, Fill, HubTyped, CacheTyped, Snapshots
<1>3. faults' \in Nat
  BY DEF ReadTick, Load, Fill, HubTyped, Fault
<1> QED BY <1>1, <1>2, <1>3 DEF HubTyped, Counted

(* The subscriptions                                                       *)

LEMMA SubscriptionSet ==
  ASSUME HubTyped, Counted, NEW s \in Sockets, NEW h \in Hows, NEW x \in SubState,
         \A e \in x.missed : e.seq <= seq, sub' = [ sub EXCEPT ![<<s, h>>] = x ]
  PROVE  /\ sub' \in [ Sockets \X Hows -> SubState ]
         /\ \A y \in Sockets \X Hows : \A e \in sub'[y].missed : e.seq <= seq
<1> HIDE DEF Hows
<1>1. <<s, h>> \in Sockets \X Hows /\ sub \in [ Sockets \X Hows -> SubState ]
  BY DEF HubTyped
<1>2. /\ sub' \in [ Sockets \X Hows -> SubState ]
      /\ \A y \in Sockets \X Hows : sub'[y] = x \/ sub'[y] = sub[y]
  BY <1>1
<1>3. \A y \in Sockets \X Hows : \A e \in sub[y].missed : e.seq <= seq
  BY DEF Counted
<1> QED BY <1>2, <1>3

LEMMA EmptySub == NoSub \in SubState /\ NoSub.missed = {}
BY DEF NoSub, SubState

LEMMA ReadFrameCounts ==
  ASSUME HubTyped, WireTyped, Counted, NEW s \in Sockets, ReadFrame(s)
  PROVE  HubTyped' /\ WireTyped' /\ Counted'
<1>1. PICK x : x = [ NoSub EXCEPT !.pc = "register", !.last = Head(up[s]) ]
  OBVIOUS
<1>2. /\ up[s] # << >> /\ up' = [ up EXCEPT ![s] = Tail(up[s]) ]
      /\ sub' = [ sub EXCEPT ![<<s, "frame">>] = x ]
      /\ UNCHANGED <<down, version, seq, ring, bus, tick, pub, joined, left, faults, lost>>
  BY <1>1 DEF ReadFrame
<1>3. Head(up[s]) \in Nat /\ Tail(up[s]) \in Seq(Nat)
  BY <1>2, EntriesOfTail DEF WireTyped
<1>4. x \in SubState /\ x.missed = {}
  BY <1>1, <1>3 DEF NoSub, SubState
<1>5. /\ sub' \in [ Sockets \X Hows -> SubState ]
      /\ \A y \in Sockets \X Hows : \A e \in sub'[y].missed : e.seq <= seq
  <2>1. "frame" \in Hows
    BY DEF Hows
  <2> QED BY <1>2, <1>4, <2>1, SubscriptionSet
<1>6. HubTyped'
  BY <1>2, <1>5 DEF HubTyped
<1>7. WireTyped'
  BY <1>2, <1>3 DEF WireTyped
<1> QED BY <1>2, <1>5, <1>6, <1>7 DEF Counted

LEMMA SubscribeCounts ==
  ASSUME HubTyped, CacheTyped, Counted, NEW s \in Sockets, NEW h \in Hows, Subscribe(s, h),
         UNCHANGED down
  PROVE  HubTyped' /\ Counted'
<1>1. seq \in Nat /\ <<s, h>> \in DOMAIN sub /\ sub[<<s, h>>] \in SubState
      /\ \A e \in sub[<<s, h>>].missed : e.seq <= seq
  BY DEF HubTyped, Counted
<1>2. PICK r : r = sub[<<s, h>>]
  OBVIOUS
<1>3. Due(r) \subseteq RoomEvent /\ \A e \in Due(r) : e.seq <= seq
  <2>1. Entries(ring) \subseteq RoomEvent /\ \A e \in Entries(ring) : e.seq <= seq
    BY TypedEntries DEF HubTyped, Counted
  <2>2. Due(r) \subseteq Entries(ring)
    BY DEF Due, RoomEventsSince
  <2> QED BY <2>1, <2>2
<1>4. /\ joined' \subseteq Sockets
      /\ UNCHANGED <<version, seq, ring, bus, tick, pub, left>>
  BY DEF Subscribe, Register, Read, HubTyped
<1>5. lost' \subseteq Nat
  <2>1. Seqs(Due(r)) \subseteq Nat /\ lost \subseteq Nat
    BY <1>3 DEF Seqs, RoomEvent, HubTyped
  <2>2. lost' = lost \/ lost' = lost \cup Seqs(Due(r))
    BY <1>2 DEF Subscribe, Register, Read, ReadRoom, ReadHidden, ReadFails, ReadForNobody
  <2> QED BY <2>1, <2>2
<1>6. faults' \in Nat
  BY DEF Subscribe, Register, Read, ReadRoom, ReadHidden, ReadFails, ReadForNobody, Fault, HubTyped
<1>7. \A cur \in Nat : \A M \in {Due(r), {}} : \A v \in Snapshots \cup {None} :
        /\ Answered(r, cur, M, v) \in SubState
        /\ \A e \in Answered(r, cur, M, v).missed : e.seq <= seq
  <2>1. Snapshots \subseteq Nat
    BY DEF Snapshots, CacheTyped
  <2> QED BY <1>1, <1>2, <1>3, <2>1 DEF Answered, SubState
<1>8. \E x \in SubState : /\ sub' = [ sub EXCEPT ![<<s, h>>] = x ]
                          /\ \A e \in x.missed : e.seq <= seq
  <2>1. Refused(r) \in SubState /\ \A e \in Refused(r).missed : e.seq <= seq
    BY <1>7 DEF Refused
  <2>2. CASE Register(s, h)
    <3>1. PICK x : x = [ sub[<<s, h>>] EXCEPT !.pc = "read" ]
      OBVIOUS
    <3>2. x \in SubState /\ x.missed = sub[<<s, h>>].missed
      BY <1>1, <3>1 DEF SubState
    <3>3. sub' = [ sub EXCEPT ![<<s, h>>] = x ] \/ sub' = [ sub EXCEPT ![<<s, h>>] = Refused(r) ]
      BY <1>1, <1>2, <2>2, <3>1 DEF Register
    <3> QED BY <1>1, <2>1, <3>2, <3>3
  <2>3. CASE Read(s, h) /\ ReadRoom(s, h)
    <3>1. PICK v \in Snapshots : sub' = [ sub EXCEPT ![<<s, h>>] = Answered(r, seq, Due(r), v) ]
      BY <1>2, <2>3 DEF ReadRoom
    <3> QED BY <1>1, <1>7, <3>1
  <2>4. CASE Read(s, h) /\ ReadHidden(s, h)
    <3>1. sub' = [ sub EXCEPT ![<<s, h>>] = Refused(r) ]
      BY <1>2, <2>4 DEF ReadHidden
    <3> QED BY <2>1, <3>1
  <2>5. CASE Read(s, h) /\ ReadFails(s, h)
    <3>1. \/ sub' = [ sub EXCEPT ![<<s, h>>] = Refused(r) ]
          \/ \E v \in Snapshots, cur \in {0, seq} :
               sub' = [ sub EXCEPT ![<<s, h>>] = Answered(r, cur, {}, v) ]
      BY <1>2, <2>5 DEF ReadFails
    <3> QED BY <1>1, <1>7, <2>1, <3>1
  <2>6. CASE Read(s, h) /\ ReadForNobody(s, h)
    BY <2>6, EmptySub DEF ReadForNobody
  <2> QED BY <2>2, <2>3, <2>4, <2>5, <2>6 DEF Subscribe, Read
<1>9. /\ sub' \in [ Sockets \X Hows -> SubState ]
      /\ \A y \in Sockets \X Hows : \A e \in sub'[y].missed : e.seq <= seq
  BY <1>8, SubscriptionSet
<1>10. HubTyped'
  BY <1>4, <1>5, <1>6, <1>9 DEF HubTyped
<1> QED BY <1>4, <1>9, <1>10 DEF Counted

LEMMA AnswerCounts ==
  ASSUME HubTyped, WireTyped, Counted, NEW s \in Sockets, NEW h \in Hows, Answer(s, h)
  PROVE  HubTyped' /\ WireTyped' /\ Counted'
<1>1. PICK r : r = sub[<<s, h>>]
  OBVIOUS
<1>2. r \in SubState /\ (\A e \in r.missed : e.seq <= seq) /\ down[s] \in Seq(Message) /\ seq \in Nat
  BY <1>1 DEF HubTyped, WireTyped, Counted
<1>3. PICK a : a = Answers(r)
  OBVIOUS
<1>4. /\ a \in Seq(Message) /\ Len(a) \in Nat
      /\ \A m \in Entries(a) : m.type = "sync" => m.events \in {r.missed, {}}
  BY <1>2, <1>3, AnswersAre
<1>5. PICK k \in Int : /\ k <= Len(a)
                       /\ down' = [ down EXCEPT ![s] = down[s] \o SubSeq(a, 1, k) ]
  <2>1. PICK fits : fits = IF conn[s] \in Alive THEN SendBuffer - Len(down[s]) ELSE 0
    OBVIOUS
  <2>2. fits \in Int
    <3>1. Len(down[s]) \in Int /\ SendBuffer \in Int
      BY <1>2, ChannelAssumption
    <3> QED BY <2>1, <3>1
  <2>3. down' = [ down EXCEPT ![s] = down[s] \o SubSeq(a, 1, IF fits < Len(a) THEN fits ELSE Len(a)) ]
    BY <1>1, <1>3, <2>1 DEF Answer
  <2>4. PICK k : k = IF fits < Len(a) THEN fits ELSE Len(a)
    OBVIOUS
  <2>5. k \in Int /\ k <= Len(a)
    BY <1>4, <2>2, <2>4
  <2> QED BY <2>3, <2>4, <2>5
<1>6. PICK d : d = down[s] \o SubSeq(a, 1, k)
  OBVIOUS
<1>7. d \in Seq(Message) /\ Entries(d) \subseteq Entries(down[s]) \cup Entries(a)
  <2>1. k <= Len(a)
    BY <1>5
  <2> QED BY <1>2, <1>4, <1>6, <2>1, EntriesOfSome
<1>8. WireTyped' /\ \A t \in Sockets : down'[t] = IF t = s THEN d ELSE down[t]
  <2>1. down' = [ down EXCEPT ![s] = d ] /\ up' = up
    BY <1>5, <1>6 DEF Answer
  <2> QED BY <1>7, <2>1 DEF WireTyped
<1>9. UNCHANGED <<version, seq, ring, bus, tick, pub, joined, left, faults>> /\ lost' \subseteq Nat
  <2>1. lost \subseteq Nat /\ \A e \in r.missed : e.seq \in Nat
    BY <1>2 DEF HubTyped, SubState, RoomEvent
  <2>2. Seqs(r.missed) \subseteq Nat
    BY <2>1 DEF Seqs
  <2>3. lost' = lost \cup Seqs(r.missed) \/ lost' = lost
    BY <1>1 DEF Answer
  <2> QED BY <2>1, <2>2, <2>3 DEF Answer
<1>10. /\ sub' \in [ Sockets \X Hows -> SubState ]
       /\ \A y \in Sockets \X Hows : \A e \in sub'[y].missed : e.seq <= seq
  <2>1. sub' = [ sub EXCEPT ![<<s, h>>] = NoSub ] /\ \A e \in NoSub.missed : e.seq <= seq
    BY EmptySub DEF Answer
  <2> QED BY <2>1, EmptySub, SubscriptionSet
<1>11. HubTyped'
  BY <1>9, <1>10 DEF HubTyped
<1>12. ASSUME NEW t \in Sockets, NEW m \in Entries(down'[t]), m.type = "sync"
       PROVE  \A e \in m.events : e.seq <= seq
  <2>1. m \in Entries(down[t]) \/ m \in Entries(a)
    BY <1>7, <1>8, <1>12
  <2>2. CASE m \in Entries(down[t])
    BY <1>12, <2>2 DEF Counted
  <2>3. CASE m \in Entries(a)
    <3>1. m.events = r.missed \/ m.events = {}
      BY <1>4, <1>12, <2>3
    <3> QED BY <1>2, <3>1
  <2> QED BY <2>1, <2>2, <2>3
<1> QED BY <1>8, <1>9, <1>10, <1>11, <1>12 DEF Counted

LEMMA LeaveCounts ==
  ASSUME HubTyped, Counted, NEW s \in Sockets, LeaveRoom(s), UNCHANGED down
  PROVE  HubTyped' /\ Counted'
BY DEF LeaveRoom, HubTyped, Counted

(* The page                                                                *)

LEMMA PageCounts ==
  ASSUME CountedInv, Mount \/ Unmount \/ ClickReconnect \/ ReconnectTimer, UNCHANGED hubVars
  PROVE  HubTyped' /\ WireTyped' /\ ViewTyped' /\ Counted'
<1>1. UNCHANGED <<up, down>> /\ UNCHANGED viewVars /\ (clicks' = clicks \/ clicks' = clicks + 1)
  BY DEF Mount, Unmount, ClickReconnect, ReconnectTimer
<1>2. attempt' = attempt
  BY DEF Mount, Unmount, ClickReconnect, ReconnectTimer, Becomes, Page,
         Connecting, Disconnected, WithSocket
<1>3. HubTyped' /\ Counted'
  BY <1>1 DEF CountedInv, HubTyped, Counted, hubVars
<1>4. WireTyped' /\ ViewTyped'
  BY <1>1, <1>2 DEF CountedInv, WireTyped, ViewTyped, viewVars
<1> QED BY <1>3, <1>4

LEMMA MessageCounts ==
  ASSUME CountedInv, NEW s \in Sockets, HandleMessage(s), UNCHANGED hubVars
  PROVE  HubTyped' /\ WireTyped' /\ ViewTyped' /\ Counted'
<1>1. HubTyped /\ WireTyped /\ ViewTyped /\ Counted
  BY DEF CountedInv
<1>2. PICK m : m = Head(down[s])
  OBVIOUS
<1>3. /\ down[s] # << >> /\ down' = [ down EXCEPT ![s] = Tail(down[s]) ] /\ up' = up
      /\ attempt' = attempt /\ clicks' = clicks
      /\ CASE m.type = "connected" -> HandleConnected(m)
           [] m.type = "sync"      -> HandleSync(m)
           [] m.type = "event"     -> HandleServerEvent(m)
           [] m.type = "error"     -> UNCHANGED viewVars
  BY <1>2 DEF HandleMessage, linkVars
<1>4. /\ m \in Message /\ Tail(down[s]) \in Seq(Message)
      /\ Entries(down[s]) = Entries(Tail(down[s])) \cup {m}
  BY <1>1, <1>2, <1>3, EntriesOfTail DEF WireTyped
<1>5. seq \in Nat /\ lastSeq \in Nat /\ snapshot \in Nat \cup {None} /\ rank \in Nat
      /\ base \in Nat \cup {None} /\ applied \subseteq Nat
  BY <1>1 DEF HubTyped, ViewTyped
<1>6. /\ lastSeq' \in Nat /\ snapshot' \in Nat \cup {None} /\ rank' \in Nat
      /\ base' \in Nat \cup {None} /\ applied' \subseteq Nat
  <2>1. CASE m.type = "connected"
    <3>1. m.cur \in Nat
      BY <1>4, <2>1 DEF Message
    <3>2. HandleConnected(m)
      BY <1>3, <2>1
    <3> QED BY <1>5, <3>1, <3>2 DEF HandleConnected
  <2>2. CASE m.type = "sync"
    <3>1. m.events \subseteq RoomEvent /\ m.v \in Nat
      BY <1>4, <2>2 DEF Message
    <3>2. \A e \in m.events : e.seq <= seq
      BY <1>1, <1>4, <2>2 DEF Counted
    <3>3. HandleSync(m)
      BY <1>3, <2>2
    <3>4. m.v \in Nat \cup {None}
      BY <3>1
    <3>5. SnapshotAfter(m.events, m.v) \in Nat \cup {None} /\ RankAfter(m.events, rank) \in Nat
      BY <1>5, <3>1, <3>2, <3>4, ShownTyped
    <3>6. Numbered(m.events) \subseteq Nat
      BY <3>1 DEF Numbered, RoomEvent
    <3> QED BY <1>5, <3>3, <3>5, <3>6 DEF HandleSync
  <2>3. CASE m.type = "event"
    <3>1. m.ev \in RoomEvent /\ m.ev.seq \in Nat
      BY <1>4, <2>3 DEF Message, RoomEvent
    <3>2. HandleServerEvent(m)
      BY <1>3, <2>3
    <3>3. {m.ev} \subseteq RoomEvent /\ \A e \in {m.ev} : e.seq <= m.ev.seq
      BY <3>1
    <3>4. SnapshotAfter({m.ev}, snapshot) \in Nat \cup {None} /\ RankAfter({m.ev}, rank) \in Nat
      BY <1>5, <3>1, <3>3, ShownTyped
    <3>5. Numbered({m.ev}) \subseteq Nat
      BY <3>1 DEF Numbered
    <3> QED BY <1>5, <3>1, <3>2, <3>4, <3>5 DEF HandleServerEvent
  <2>4. CASE m.type = "error"
    BY <1>3, <1>5, <2>4 DEF viewVars
  <2> QED BY <1>4, <2>1, <2>2, <2>3, <2>4 DEF Message
<1>7. ViewTyped'
  BY <1>1, <1>3, <1>6 DEF ViewTyped
<1>8. HubTyped' /\ seq' = seq /\ ring' = ring /\ pub' = pub /\ sub' = sub
  BY <1>1 DEF HubTyped, hubVars
<1>9. WireTyped' /\ \A t \in Sockets : down'[t] = IF t = s THEN Tail(down[s]) ELSE down[t]
  BY <1>1, <1>3, <1>4 DEF WireTyped
<1>10. \A t \in Sockets : Entries(down'[t]) \subseteq Entries(down[t])
  BY <1>4, <1>9
<1>11. \A t \in Sockets : \A k \in Entries(down'[t]) : k.type = "sync" => \A e \in k.events : e.seq <= seq
  BY <1>1, <1>10 DEF Counted
<1> QED BY <1>1, <1>7, <1>8, <1>9, <1>11 DEF Counted

LEMMA OpenCounts ==
  ASSUME CountedInv, NEW s \in Sockets, Open(s)
  PROVE  HubTyped' /\ WireTyped' /\ ViewTyped' /\ Counted'
<1>1. HubTyped /\ WireTyped /\ ViewTyped /\ Counted
  BY DEF CountedInv
<1>2. /\ UNCHANGED <<version, seq, ring, bus, tick, pub, joined, left, faults, lost>>
      /\ UNCHANGED <<down, clicks>> /\ UNCHANGED viewVars /\ attempt' = 0
  BY DEF Open, Opened, Becomes, Page
<1>3. up' = up \/ \E t : up' = [ up EXCEPT ![t] = Append(@, lastSeq) ]
  BY DEF Open, Opened
<1>4. WireTyped'
  <2>1. up \in [ Sockets -> Seq(Nat) ] /\ lastSeq \in Nat
    BY <1>1 DEF WireTyped, ViewTyped
  <2>2. ASSUME NEW t, up' = [ up EXCEPT ![t] = Append(@, lastSeq) ]
        PROVE  up' \in [ Sockets -> Seq(Nat) ]
    <3>1. CASE t \in Sockets
      <4>1. Append(up[t], lastSeq) \in Seq(Nat)
        BY <2>1, <3>1
      <4> QED BY <2>1, <2>2, <4>1
    <3>2. CASE t \notin Sockets
      BY <2>1, <2>2, <3>2
    <3> QED BY <3>1, <3>2
  <2> QED BY <1>1, <1>2, <1>3, <2>1, <2>2 DEF WireTyped
<1>5. ViewTyped'
  BY <1>1, <1>2 DEF ViewTyped, viewVars
<1>6. /\ sub' \in [ Sockets \X Hows -> SubState ]
      /\ \A y \in Sockets \X Hows : \A e \in sub'[y].missed : e.seq <= seq
  <2>1. PICK x : x = [ NoSub EXCEPT !.pc = "register" ]
    OBVIOUS
  <2>2. x \in SubState /\ x.missed = {} /\ "query" \in Hows
    BY <2>1 DEF NoSub, SubState, Hows
  <2>3. sub' = [ sub EXCEPT ![<<s, "query">>] = x ]
    BY <2>1 DEF Open, Accepted
  <2> QED BY <1>1, <2>2, <2>3, SubscriptionSet
<1>7. HubTyped'
  BY <1>1, <1>2, <1>6 DEF HubTyped
<1> QED BY <1>1, <1>2, <1>4, <1>5, <1>6, <1>7 DEF Counted

LEMMA CloseCounts ==
  ASSUME CountedInv, NEW s \in Sockets, CloseEvent(s) \/ Break(s)
  PROVE  HubTyped' /\ WireTyped' /\ ViewTyped' /\ Counted'
<1>1. HubTyped /\ WireTyped /\ ViewTyped /\ Counted
  BY DEF CountedInv
<1>2. /\ UNCHANGED <<version, seq, ring, bus, tick, pub, sub, joined, left, lost>>
      /\ faults' = faults \/ faults' = faults + 1
      /\ Closed(s)
  BY DEF CloseEvent, Break, Fault, hubVars
<1>3. /\ up' = [ up EXCEPT ![s] = << >> ] /\ down' = [ down EXCEPT ![s] = << >> ]
      /\ clicks' = clicks /\ UNCHANGED viewVars
  BY <1>2 DEF Closed
<1>4. attempt' = attempt \/ attempt' = attempt + 1
  BY <1>2 DEF Closed, Becomes, AfterClose, Page
<1>5. WireTyped'
  BY <1>1, <1>3 DEF WireTyped
<1>6. ViewTyped'
  BY <1>1, <1>3, <1>4 DEF ViewTyped, viewVars
<1>7. HubTyped'
  BY <1>1, <1>2 DEF HubTyped
<1>8. \A t \in Sockets : Entries(down'[t]) \subseteq Entries(down[t])
  BY <1>1, <1>3 DEF WireTyped, Entries
<1>9. \A t \in Sockets : \A k \in Entries(down'[t]) : k.type = "sync" => \A e \in k.events : e.seq <= seq
  BY <1>1, <1>8 DEF Counted
<1> QED BY <1>1, <1>2, <1>5, <1>6, <1>7, <1>9 DEF Counted

LEMMA CacheCounts == ASSUME HubTyped, CacheTyped, [Next]_vars  PROVE CacheTyped'
<1>1. version \in Nat /\ \A p \in Publishers : pub[p].ev.v \in Nat
  BY DEF HubTyped, PubState, RoomEvent
<1>2. ASSUME UNCHANGED <<cacheVars, deaf>>  PROVE CacheTyped'
  BY <1>2 DEF CacheTyped, cacheVars
<1>3. ASSUME NEW p \in Publishers, Change(p)  PROVE CacheTyped'
  <2>1. hidden' \subseteq Nat
    <3>1. version + 1 \in Nat
      BY <1>1
    <3> QED BY <1>3, <3>1 DEF Change, CacheTyped
  <2>2. crossed' \in BOOLEAN /\ UNCHANGED <<cache, load, deaf>>
    BY <1>3 DEF Change
  <2> QED BY <2>1, <2>2 DEF CacheTyped
<1>4. ASSUME NEW p \in Publishers, Publish(p)  PROVE CacheTyped'
  <2>1. CASE Reread(p) \/ Drop(p) \/ Save(p)
    BY <1>1, <2>1 DEF Reread, Drop, Save, CacheTyped
  <2>2. CASE Number(p) \/ Store(p) \/ Broadcast(p)
    BY <1>2, <2>2 DEF Number, Store, Broadcast
  <2> QED BY <1>4, <2>1, <2>2 DEF Publish
<1>5. ASSUME Load \/ Fill  PROVE CacheTyped'
  BY <1>1, <1>5 DEF Load, Fill, CacheTyped
<1>6. ASSUME NEW s \in Sockets, NEW h \in Hows, Subscribe(s, h)  PROVE CacheTyped'
  <2>1. CASE Register(s, h)
    BY <2>1 DEF Register, CacheTyped, cacheVars
  <2>2. CASE Read(s, h)
    BY <1>2, <2>2 DEF Read
  <2> QED BY <1>6, <2>1, <2>2 DEF Subscribe
<1>7. CASE HubStep
  BY <1>2, <1>3, <1>4, <1>5, <1>6, <1>7 DEF HubStep, ReadTick, LeaveRoom
<1>8. CASE HubSend
  BY <1>2, <1>8 DEF HubSend, Deliver, DeliverTick, ReadFrame, Answer
<1>9. CASE PageStep \/ Rest \/ UNCHANGED vars
  BY <1>2, <1>9 DEF PageStep, Rest, vars, hubVars
<1>10. ASSUME NEW s \in Sockets, Open(s) \/ CloseEvent(s) \/ Break(s)  PROVE CacheTyped'
  BY <1>2, <1>10 DEF Open, CloseEvent, Break, hubVars
<1> QED BY <1>7, <1>8, <1>9, <1>10 DEF Next

LEMMA CountedKept == ASSUME CountedInv, [Next]_vars  PROVE CountedInv'
<1>1. HubTyped /\ CacheTyped /\ WireTyped /\ ViewTyped /\ Counted
  BY DEF CountedInv
<1>2. LinkInv' /\ CacheTyped'
  BY <1>1, LinkKept, CacheCounts DEF CountedInv
<1>3. ASSUME PageStep  PROVE HubTyped' /\ WireTyped' /\ ViewTyped' /\ Counted'
  BY <1>3, PageCounts, MessageCounts DEF PageStep
<1>4. ASSUME HubStep \/ HubSend  PROVE HubTyped' /\ WireTyped' /\ ViewTyped' /\ Counted'
  <2>1. ViewTyped'
    <3>1. UNCHANGED <<linkVars, viewVars>>
      BY <1>4 DEF HubStep, HubSend
    <3> QED BY <1>1, <3>1 DEF ViewTyped, linkVars, viewVars
  <2>2. CASE HubStep
    <3>1. up' = up /\ down' = down
      BY <2>2 DEF HubStep, channelVars
    <3>2. WireTyped'
      BY <1>1, <3>1 DEF WireTyped
    <3>3. ASSUME NEW p \in Publishers, Change(p) \/ Publish(p)  PROVE HubTyped' /\ Counted'
      BY <1>1, <3>1, <3>3, ChangeCounts, EarlyStepCounts, NumberCounts, StoreCounts, BroadcastCounts
         DEF Publish
    <3>4. ASSUME NEW s \in Sockets, NEW h \in Hows, Subscribe(s, h)  PROVE HubTyped' /\ Counted'
      BY <1>1, <3>1, <3>4, SubscribeCounts
    <3>5. ASSUME ReadTick \/ Load \/ Fill \/ \E s \in Sockets : LeaveRoom(s)  PROVE HubTyped' /\ Counted'
      BY <1>1, <3>1, <3>5, ReadTickCounts, LeaveCounts
    <3>6. HubTyped' /\ Counted'
      BY <2>2, <3>3, <3>4, <3>5 DEF HubStep
    <3> QED BY <2>1, <3>2, <3>6
  <2>3. CASE HubSend
    <3>1. ASSUME NEW s \in Sockets, ReadFrame(s)  PROVE HubTyped' /\ WireTyped' /\ Counted'
      BY <1>1, <3>1, ReadFrameCounts
    <3>2. ASSUME NEW s \in Sockets, NEW h \in Hows, Answer(s, h)
          PROVE  HubTyped' /\ WireTyped' /\ Counted'
      BY <1>1, <3>2, AnswerCounts
    <3>3. HubTyped' /\ WireTyped' /\ Counted'
      BY <1>1, <2>3, <3>1, <3>2, DeliverCounts, DeliverTickCounts DEF HubSend
    <3> QED BY <2>1, <3>3
  <2> QED BY <1>4, <2>2, <2>3
<1>5. ASSUME NEW s \in Sockets, Open(s) \/ CloseEvent(s) \/ Break(s)
      PROVE  HubTyped' /\ WireTyped' /\ ViewTyped' /\ Counted'
  BY <1>5, OpenCounts, CloseCounts
<1>6. ASSUME Rest \/ UNCHANGED vars  PROVE HubTyped' /\ WireTyped' /\ ViewTyped' /\ Counted'
  <2>1. UNCHANGED hubVars /\ UNCHANGED linkVars /\ UNCHANGED viewVars /\ up' = up /\ down' = down
    BY <1>6 DEF Rest, vars, channelVars
  <2>2. HubTyped' /\ Counted'
    BY <1>1, <2>1 DEF HubTyped, Counted, hubVars
  <2> QED BY <1>1, <2>1, <2>2 DEF WireTyped, ViewTyped, linkVars, viewVars
<1>7. HubTyped' /\ WireTyped' /\ ViewTyped' /\ Counted'
  BY <1>3, <1>4, <1>5, <1>6 DEF Next
<1> QED BY <1>2, <1>7 DEF CountedInv

(* Every queue, list and subscription keeps its type, and so does what the *)
(* page shows: no replay holds a number that has not been given out, so    *)
(* the page always finds the last of the events it was sent.               *)
THEOREM FeedTyped == Spec => []TypeOK
<1>1. CountedInv /\ [Next]_vars => CountedInv'
  BY CountedKept
<1> QED BY CountedInit, <1>1, CountedTypes, PTL DEF Spec

(* On a connection that never breaks, every event the page owes up to the  *)
(* number it would ask the next replay from was applied, is on its way, or *)
(* was dropped (by a full buffer or ring, or with the replay of a room     *)
(* whose item is not public): whatever the publishers do, and however the  *)
(* two subscriptions of the connection interleave with them.               *)
THEOREM SteadySafe == Spec => []SteadyPageMissesNothing
<1>1. CountedInv => Snapshots \subseteq Nat
  BY DEF CountedInv, CacheTyped, Snapshots
<1>2. SteadyInv /\ CountedInv /\ [Next]_vars => SteadyInv' /\ CountedInv'
  BY <1>1, SteadyKept, CountedKept
<1> QED BY SteadyInit, CountedInit, <1>2, FeedIsSteady, PTL DEF Spec
================================================================================
