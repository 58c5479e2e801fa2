-------------------------------- MODULE RoomHub --------------------------------
(***************************************************************************)
(* The hub of the API (internal/ws) for one room, with Redis: publishers   *)
(* write the room's cached snapshot, then number, store and broadcast the  *)
(* event; the countdown loop sends the cached snapshot in unnumbered       *)
(* ticks; a connection is subscribed twice, once by the query of its URL   *)
(* and once by the frame the page sends.                                   *)
(*                                                                         *)
(* A step is one Redis call or one channel operation.  registerCh is       *)
(* unbuffered and the hub's loop joins the client in the instruction after *)
(* it received it: that is one step.                                       *)
(***************************************************************************)
EXTENDS RoomChannel

CONSTANTS
  Publishers,   \* goroutines that change the auction and publish it
  RingSize,     \* capacity of the Redis list of events
  Ticking,      \* is the session running, so that the countdown loop ticks?
  EarlierEvents, \* bound: events of the room before the page comes
  MaxTicks,     \* bound: ticks that wait for a page at once
  MaxFaults     \* bound: Redis errors and connections that break

ASSUME HubAssumption ==
  /\ RingSize \in Nat \ {0}
  /\ Ticking \in BOOLEAN
  /\ EarlierEvents \in 0..1
  /\ MaxTicks \in Nat
  /\ MaxFaults \in Nat

VARIABLES
  version,   \* the state of the auction: how often it has changed
  seq,       \* the room's event number in Redis
  ring,      \* the list of stored events, oldest first
  bus,       \* events broadcast and not yet delivered on this instance
  tick,      \* the countdown loop's pending tick, or None
  pub,       \* pub[p]: a publisher's place and its event
  sub,       \* sub[s, how]: a subscription being handled
  joined,    \* the room's clients
  left,      \* connections whose read pump has ended
  faults,    \* bound: faults so far
  lost,      \* history: numbers of events that were dropped somewhere
  hidden,    \* the versions whose item is not public: cancelled or failed
  cache,     \* the version of the snapshot in Redis, or None
  load,      \* what the reader that loads the cache has read, or None
  crossed,   \* history: was a snapshot not written, or not before a change?
  deaf       \* history: connections whose subscription did not find the room

cacheVars == <<hidden, cache, load, crossed>>
hubVars == <<version, seq, ring, bus, tick, pub, sub, joined, left, faults, lost,
             cacheVars, deaf>>

Hows == { "query", "frame" }

NoEvent == [ seq |-> 0, kind |-> "tick", v |-> 0 ]
NoSub   == [ pc |-> "idle", last |-> 0, cur |-> 0, missed |-> {}, v |-> 0 ]

HubInit ==
  /\ version = 0
  /\ seq \in 0..EarlierEvents
  /\ ring = IF seq = 0 THEN << >>
            ELSE << [ seq |-> 1, kind |-> "state", v |-> 0 ] >>
  /\ bus = << >>
  /\ tick = None
  /\ pub = [ p \in Publishers |-> [ pc |-> "idle", ev |-> NoEvent ] ]
  /\ sub = [ x \in Sockets \X Hows |-> NoSub ]
  /\ joined = {}
  /\ left = {}
  /\ faults = 0
  /\ lost = {}
  /\ hidden = {}
  /\ cache = IF seq = 0 THEN None ELSE 0
  /\ load = None
  /\ crossed = FALSE
  /\ deaf = {}

Entries(q) == { q[i] : i \in DOMAIN q }
Seqs(E)    == { e.seq : e \in E }

Fault == faults < MaxFaults /\ faults' = faults + 1

--------------------------------------------------------------------------------
(* The snapshot in Redis (RedisRoomCache)                                  *)

(* Publishers write it one after the other only while they hold the lock   *)
(* of the session; a reader that finds none loads the row and writes what  *)
(* it read.  (Its 24 hours may be over when the page comes, not later.)    *)
Wanted == \/ Ticking /\ joined # {} /\ tick = None
          \/ \E x \in Sockets \X Hows : sub[x].pc = "read"

Load ==
  /\ Wanted
  /\ cache = None /\ load = None
  /\ load' = version
  /\ UNCHANGED <<version, seq, ring, bus, tick, pub, sub, joined, left, faults, lost>>
  /\ UNCHANGED <<hidden, cache, crossed, deaf>>

Fill ==
  /\ load # None
  /\ \/ cache' = load /\ UNCHANGED faults
     \/ Fault /\ UNCHANGED cache
  /\ load' = None
  /\ UNCHANGED <<version, seq, ring, bus, tick, pub, sub, joined, left, lost>>
  /\ UNCHANGED <<hidden, crossed, deaf>>

(* What a reader gets: the snapshot, or the one it waited for.             *)
Snapshots == { cache, load } \ {None}

--------------------------------------------------------------------------------
(* Publishing (the services after their commit, Notifier.On..., Hub.Publish) *)

(* The auction changes.  While it runs it is public.                       *)
Change(p) ==
  /\ pub[p].pc = "idle"
  /\ version' = version + 1
  /\ \E k \in Kinds :
       pub' = [ pub EXCEPT ![p] =
                  [ pc |-> "reread", ev |-> [ seq |-> 0, kind |-> k, v |-> version + 1 ] ] ]
  /\ hidden' \in { hidden } \cup (IF Ticking THEN {} ELSE { hidden \cup {version + 1} })
  /\ crossed' = \/ crossed \/ load # None
                \/ \E q \in Publishers : pub[q].pc \in {"drop", "save"}
  /\ UNCHANGED <<seq, ring, bus, tick, sub, joined, left, faults, lost>>
  /\ UNCHANGED <<cache, load, deaf>>

(* The row is read again; an error ends the matter, with nothing told.     *)
Reread(p) ==
  /\ pub[p].pc = "reread"
  /\ \/ /\ pub' = [ pub EXCEPT ![p].ev.v = version,
                               ![p].pc = IF pub[p].ev.kind = "switch" \/ version \in hidden
                                         THEN "drop" ELSE "save" ]
        /\ UNCHANGED <<faults, crossed>>
     \/ /\ Fault
        /\ pub' = [ pub EXCEPT ![p] = [ pc |-> "idle", ev |-> NoEvent ] ]
        /\ crossed' = TRUE
  /\ UNCHANGED <<version, seq, ring, bus, tick, sub, joined, left, lost>>
  /\ UNCHANGED <<hidden, cache, load, deaf>>

(* A switch and a cancellation delete the snapshot before they write it.   *)
Drop(p) ==
  /\ pub[p].pc = "drop"
  /\ \/ cache' = None /\ UNCHANGED faults
     \/ Fault /\ UNCHANGED cache
  /\ pub' = [ pub EXCEPT ![p].pc = "save" ]
  /\ UNCHANGED <<version, seq, ring, bus, tick, sub, joined, left, lost>>
  /\ UNCHANGED <<hidden, load, crossed, deaf>>

(* A write that fails is logged.  An auction that ran out without a bid    *)
(* is told to nobody.                                                      *)
Save(p) ==
  /\ pub[p].pc = "save"
  /\ \/ cache' = pub[p].ev.v /\ UNCHANGED <<faults, crossed>>
     \/ Fault /\ crossed' = TRUE /\ UNCHANGED cache
  /\ \/ pub' = [ pub EXCEPT ![p].pc = "number" ]
     \/ pub[p].ev.v \in hidden /\ pub' = [ pub EXCEPT ![p] = [ pc |-> "idle", ev |-> NoEvent ] ]
  /\ UNCHANGED <<version, seq, ring, bus, tick, sub, joined, left, lost>>
  /\ UNCHANGED <<hidden, load, deaf>>

(* INCR; when it fails the event is given up.                              *)
Number(p) ==
  /\ pub[p].pc = "number"
  /\ \/ /\ seq' = seq + 1
        /\ pub' = [ pub EXCEPT ![p].pc = "store", ![p].ev.seq = seq + 1 ]
        /\ UNCHANGED faults
     \/ /\ Fault
        /\ pub' = [ pub EXCEPT ![p] = [ pc |-> "idle", ev |-> NoEvent ] ]
        /\ UNCHANGED seq
  /\ UNCHANGED <<version, ring, bus, tick, sub, joined, left, lost, cacheVars, deaf>>

(* LPUSH and LTRIM; a failure is logged and the event is sent all the same. *)
Pushed(q, ev) ==
  LET r == Append(q, ev)
  IN  IF Len(r) > RingSize THEN Tail(r) ELSE r

Store(p) ==
  /\ pub[p].pc = "store"
  /\ \/ /\ ring' = Pushed(ring, pub[p].ev)
        /\ lost' = lost \cup (Seqs(Entries(ring)) \ Seqs(Entries(ring')))
        /\ UNCHANGED faults
     \/ /\ Fault
        /\ lost' = lost \cup { pub[p].ev.seq }
        /\ UNCHANGED ring
  /\ pub' = [ pub EXCEPT ![p].pc = "publish" ]
  /\ UNCHANGED <<version, seq, bus, tick, sub, joined, left, cacheVars, deaf>>

(* PUBLISH on the room's channel (Kafka or Redis).                         *)
Broadcast(p) ==
  /\ pub[p].pc = "publish"
  /\ \/ /\ bus' = Append(bus, pub[p].ev)
        /\ UNCHANGED <<faults, lost>>
     \/ /\ Fault
        /\ lost' = lost \cup { pub[p].ev.seq }
        /\ UNCHANGED bus
  /\ pub' = [ pub EXCEPT ![p] = [ pc |-> "idle", ev |-> NoEvent ] ]
  /\ UNCHANGED <<version, seq, ring, tick, sub, joined, left, cacheVars, deaf>>

Publish(p) ==
  Reread(p) \/ Drop(p) \/ Save(p) \/ Number(p) \/ Store(p) \/ Broadcast(p)

(* The subscription callback hands the event to every client of the room;  *)
(* what is sent to a dead connection is never read.                        *)
Listening == { s \in joined : conn[s] \in Alive }

SentToRoom(m) == [ s \in Sockets |-> IF s \in Listening THEN Push(down[s], m) ELSE down[s] ]

Deliver ==
  /\ bus # << >>
  /\ bus' = Tail(bus)
  /\ down' = SentToRoom(EventMsg(Head(bus)))
  /\ lost' = IF \E s \in Listening : ~Room(down[s]) THEN lost \cup { Head(bus).seq } ELSE lost
  /\ UNCHANGED <<conn, up, version, seq, ring, tick, pub, sub, joined, left, faults, cacheVars, deaf>>

TicksIn(q) == Cardinality({ i \in DOMAIN q : q[i].type = "event" /\ q[i].ev.seq = 0 })

(* The countdown loop takes the snapshot of a room with clients, and the   *)
(* hub's loop delivers it without a number.                                *)
ReadTick ==
  /\ Ticking
  /\ joined # {}
  /\ tick = None
  /\ \A s \in joined : TicksIn(down[s]) < MaxTicks
  /\ tick' \in Snapshots
  /\ UNCHANGED <<version, seq, ring, bus, pub, sub, joined, left, faults, lost, cacheVars, deaf>>

DeliverTick ==
  /\ tick # None
  /\ down' = SentToRoom(EventMsg([ seq |-> 0, kind |-> "tick", v |-> tick ]))
  /\ tick' = None
  /\ UNCHANGED <<conn, up, version, seq, ring, bus, pub, sub, joined, left, faults, lost, cacheVars, deaf>>

--------------------------------------------------------------------------------
(* Subscribing (Handler.ServeWS, Hub.handleSubscribe)                      *)

(* The handshake is done: ServeWS subscribes by the query, whose lastSeq   *)
(* the web app never sets.                                                 *)
Accepted(s) == sub' = [ sub EXCEPT ![<<s, "query">>] = [ NoSub EXCEPT !.pc = "register" ] ]

(* The read pump takes a subscribe frame.                                  *)
ReadFrame(s) ==
  /\ conn[s] \in {"open", "closing"}
  /\ up[s] # << >>
  /\ sub[<<s, "frame">>].pc = "idle"
  /\ up' = [ up EXCEPT ![s] = Tail(@) ]
  /\ sub' = [ sub EXCEPT ![<<s, "frame">>] =
                [ NoSub EXCEPT !.pc = "register", !.last = Head(up[s]) ] ]
  /\ UNCHANGED <<conn, down, version, seq, ring, bus, tick, pub, joined, left, faults, lost, cacheVars, deaf>>

(* Without its room the connection stays open, outside of every room.      *)
Answered(r, cur, missed, v) ==
  [ r EXCEPT !.pc = "answer", !.cur = cur, !.missed = missed, !.v = v ]
Refused(r) == Answered(r, 0, {}, None)

Register(s, h) ==
  /\ sub[<<s, h>>].pc = "register"
  /\ \/ /\ joined' = joined \cup {s}
        /\ sub' = [ sub EXCEPT ![<<s, h>>].pc = "read" ]
        /\ UNCHANGED <<faults, deaf>>
     \/ /\ Fault
        /\ sub' = [ sub EXCEPT ![<<s, h>>] = Refused(@) ]
        /\ deaf' = deaf \cup {s}
        /\ UNCHANGED joined
  /\ UNCHANGED <<version, seq, ring, bus, tick, pub, left, lost, cacheVars>>

(* The number, then LRANGE filtered by it, then the snapshot.  One step:   *)
(* reading the list or the snapshot later would only add to the answer.    *)
(* (Mutant: the replay is off by one.)                                     *)
RoomEventsAfterNext(last) == { e \in Entries(ring) : e.seq > last + 1 }
RoomEventsSince(last) == { e \in Entries(ring) : e.seq > last }

Due(r) == IF 0 < r.last /\ r.last < seq THEN RoomEventsSince(r.last) ELSE {}

ReadRoom(s, h) ==
  /\ conn[s] \in Alive
  /\ \E v \in Snapshots \ hidden :
       sub' = [ sub EXCEPT ![<<s, h>>] = Answered(@, seq, Due(@), v) ]
  /\ UNCHANGED <<faults, lost>>

(* An item that is not public is answered with an error and nothing else.  *)
ReadHidden(s, h) ==
  /\ conn[s] \in Alive
  /\ Snapshots \cap hidden # {}
  /\ sub' = [ sub EXCEPT ![<<s, h>>] = Refused(@) ]
  /\ lost' = lost \cup Seqs(Due(sub[<<s, h>>]))
  /\ UNCHANGED faults

(* So is a snapshot that cannot be read; without the number or the list    *)
(* there is no replay.                                                     *)
ReadFails(s, h) ==
  /\ conn[s] \in Alive
  /\ Fault
  /\ \/ sub' = [ sub EXCEPT ![<<s, h>>] = Refused(@) ]
     \/ \E v \in Snapshots \ hidden, cur \in {0, seq} :
          sub' = [ sub EXCEPT ![<<s, h>>] = Answered(@, cur, {}, v) ]
  /\ lost' = lost \cup Seqs(Due(sub[<<s, h>>]))

(* A dead connection's subscription answers nobody: it ends here.          *)
ReadForNobody(s, h) ==
  /\ conn[s] \notin Alive
  /\ sub' = [ sub EXCEPT ![<<s, h>>] = NoSub ]
  /\ UNCHANGED <<faults, lost>>

Read(s, h) ==
  /\ sub[<<s, h>>].pc = "read"
  /\ ReadRoom(s, h) \/ ReadHidden(s, h) \/ ReadFails(s, h) \/ ReadForNobody(s, h)
  /\ UNCHANGED <<version, seq, ring, bus, tick, pub, joined, left, cacheVars, deaf>>

(* sync with what was missed, connected, and a bare sync for a newcomer;   *)
(* or an error.                                                            *)
Greeting(r) ==
  (IF r.missed # {} THEN << SyncMsg(r.v, r.missed) >> ELSE << >>)
    \o << ConnectedMsg(r.cur) >>
    \o (IF r.last = 0 THEN << SyncMsg(r.v, {}) >> ELSE << >>)

Answers(r) == IF r.v = None THEN << ErrorMsg >> ELSE Greeting(r)

Answer(s, h) ==
  LET answers == Answers(sub[<<s, h>>])
      fits    == IF conn[s] \in Alive THEN SendBuffer - Len(down[s]) ELSE 0
  IN  /\ sub[<<s, h>>].pc = "answer"
      /\ down' = [ down EXCEPT ![s] =
                     @ \o SubSeq(answers, 1, IF fits < Len(answers) THEN fits ELSE Len(answers)) ]
      /\ lost' = IF fits = 0 THEN lost \cup Seqs(sub[<<s, h>>].missed) ELSE lost
      /\ sub' = [ sub EXCEPT ![<<s, h>>] = NoSub ]
      /\ UNCHANGED <<conn, up, version, seq, ring, bus, tick, pub, joined, left, faults, cacheVars, deaf>>

(* The read pump of a dead connection unregisters it, once; the query's    *)
(* goroutine goes on and may still register it.                            *)
LeaveRoom(s) ==
  /\ conn[s] = "closed"
  /\ s \notin left
  /\ sub[<<s, "frame">>].pc = "idle"
  /\ joined' = joined \ {s}
  /\ left' = left \cup {s}
  /\ UNCHANGED <<version, seq, ring, bus, tick, pub, sub, faults, lost, cacheVars, deaf>>

Subscribe(s, h) == Register(s, h) \/ Read(s, h)

================================================================================
