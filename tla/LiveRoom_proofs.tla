---------------------------- MODULE LiveRoom_proofs ----------------------------
(***************************************************************************)
(* Proofs about LiveRoom, for any number of items, any cap, and any number *)
(* of moves, messages on their way and faults.                             *)
(*                                                                         *)
(* ShownInv: whatever is written down anywhere (in an event not yet        *)
(* published, in the log, in Redis, on the wire, in the API's answer, on   *)
(* the page) was true of the items when it was written, and items only     *)
(* grow: a bid raises the price, and what is closed stays as it is.        *)
(* AnswerInv: who waits for an answer waits on a connection that is up.    *)
(* TitleInv: what is on the wire with a number is the log's event of that  *)
(* number, in order, and the last switch is either on its way or shown     *)
(* with no other switch behind it; what a broken connection loses, the     *)
(* number the page has seen brings back, unless the hub turned it away.    *)
(***************************************************************************)
EXTENDS LiveRoom, SequenceTheorems, WellFoundedInduction, TLAPS

--------------------------------------------------------------------------------
(* Numbers, and a sync as one event after another                          *)

LEMMA HasLeast ==
  ASSUME NEW S, S \subseteq Nat, S # {}
  PROVE  \E m \in S : \A n \in S : m <= n
<1> DEFINE R == OpToRel(<, Nat)
<1>1. PICK m \in S : \A n \in S : <<n, m>> \notin R
  <2>1. IsWellFoundedOn(R, Nat)
    BY NatLessThanWellFounded
  <2> HIDE DEF R
  <2> QED BY <2>1, WFMin
<1>2. ASSUME NEW n \in S, n < m
      PROVE  FALSE
  <2>1. <<n, m>> \in Nat \X Nat /\ <<n, m>>[1] < <<n, m>>[2]
    BY <1>2
  <2>2. <<n, m>> \in R
    BY <2>1 DEF OpToRel
  <2> QED BY <1>1, <2>2
<1> QED BY <1>2

(* What holds at 0 and passes from each number to the next holds up to n.  *)
LEMMA UpTo ==
  ASSUME NEW n \in Nat, NEW S, 0 \in S, \A i \in 0..n : i < n /\ i \in S => i + 1 \in S
  PROVE  \A i \in 0..n : i \in S
<1> DEFINE out == { i \in 0..n : i \notin S }
<1> SUFFICES ASSUME out # {}  PROVE FALSE
  OBVIOUS
<1>1. PICK k \in out : \A i \in out : k <= i
  <2>1. out \subseteq Nat
    OBVIOUS
  <2> HIDE DEF out
  <2> QED BY <2>1, HasLeast
<1>2. k - 1 \in 0..n /\ k - 1 < n /\ k - 1 \notin out /\ (k - 1) + 1 = k
  BY <1>1
<1> QED BY <1>1, <1>2

LEMMA MaxIs ==
  ASSUME NEW n \in Nat, NEW S \in SUBSET (1..n), S # {}
  PROVE  Max(S) \in S /\ \A i \in S : i <= Max(S)
<1> DEFINE down == { n - i : i \in S }
<1>1. down \subseteq Nat /\ down # {}
  <2>1. \A i \in S : i \in Nat /\ n - i \in Nat
    OBVIOUS
  <2> QED BY <2>1
<1>2. \E k \in down : \A i \in down : k <= i
  <2> HIDE DEF down
  <2> QED BY <1>1, HasLeast
<1>3. \E k \in S : \A i \in S : k >= i
  <2>1. PICK k \in S : \A i \in S : n - k <= n - i
    BY <1>2
  <2>2. \A i \in S : k \in Int /\ i \in Int
    OBVIOUS
  <2>3. \A i \in S : k >= i
    <3> HIDE DEF down
    <3> QED BY <2>1, <2>2
  <2> QED BY <2>3
<1>4. Max(S) \in S /\ \A i \in S : Max(S) >= i
  BY <1>3 DEF Max
<1> QED BY <1>4

Folds(f, p, s, n) ==
  f = [ S \in SUBSET (1..n) |-> IF S = {} THEN p ELSE Applied(f[S \ {Max(S)}], s[Max(S)]) ]

(* One event more.                                                         *)
LEMMA FoldsOn ==
  ASSUME NEW p, NEW s, NEW n \in Nat, NEW f, Folds(f, p, s, n)
  PROVE  \E g : Folds(g, p, s, n + 1)
<1> DEFINE top == n + 1
           g == [ S \in SUBSET (1..top) |-> IF top \in S THEN Applied(f[S \ {top}], s[top]) ELSE f[S] ]
           step(h, S) == IF S = {} THEN p ELSE Applied(h[S \ {Max(S)}], s[Max(S)])
<1>1. ASSUME NEW S \in SUBSET (1..top), top \in S
      PROVE  g[S] = step(g, S)
  <2>1. top \in Nat /\ S # {}
    BY <1>1
  <2>2. Max(S) = top
    <3>1. Max(S) \in S /\ \A i \in S : i <= Max(S)
      BY <2>1, MaxIs
    <3>2. Max(S) \in 1..top /\ top <= Max(S)
      BY <3>1, <1>1
    <3> HIDE DEF g, step
    <3> QED BY <3>2, <2>1
  <2>3. S \ {top} \in SUBSET (1..top) /\ top \notin S \ {top}
    OBVIOUS
  <2>4. g[S \ {top}] = f[S \ {top}]
    BY <2>3
  <2>5. g[S] = Applied(f[S \ {top}], s[top])
    BY <1>1
  <2> HIDE DEF g
  <2> QED BY <2>1, <2>2, <2>4, <2>5
<1>2. ASSUME NEW S \in SUBSET (1..top), top \notin S
      PROVE  g[S] = step(g, S)
  <2>1. S \in SUBSET (1..n) /\ S \ {Max(S)} \in SUBSET (1..n) /\ S \ {Max(S)} \in SUBSET (1..top) /\ top \notin S \ {Max(S)}
    <3>1. \A i \in 1..top : i = top \/ i \in 1..n
      OBVIOUS
    <3>2. S \subseteq 1..n
      BY <1>2, <3>1
    <3> HIDE DEF g, step
    <3> QED BY <1>2, <3>2
  <2>2. g[S] = f[S] /\ g[S \ {Max(S)}] = f[S \ {Max(S)}]
    BY <1>2, <2>1
  <2>3. f[S] = step(f, S)
    <3> HIDE DEF g
    <3> QED BY <2>1 DEF Folds
  <2> HIDE DEF g
  <2> QED BY <2>2, <2>3
<1>3. g = [ S \in SUBSET (1..top) |-> step(g, S) ]
  <2>1. \A S \in SUBSET (1..top) : g[S] = step(g, S)
    BY <1>1, <1>2
  <2>2. g = [ S \in SUBSET (1..top) |-> g[S] ]
    OBVIOUS
  <2> HIDE DEF g, step
  <2> QED BY <2>1, <2>2
<1>4. Folds(g, p, s, top)
  <2> HIDE DEF g
  <2> QED BY <1>3 DEF Folds
<1> QED BY <1>4

LEMMA FoldsExist ==
  ASSUME NEW p, NEW s, NEW n \in Nat
  PROVE  \E f : Folds(f, p, s, n)
<1> DEFINE Good == { k \in 0..n : \E f : Folds(f, p, s, k) }
<1>1. 0 \in Good
  <2> DEFINE f == [ S \in SUBSET (1..0) |-> p ]
  <2>1. \A S \in SUBSET (1..0) : S = {}
    OBVIOUS
  <2>2. Folds(f, p, s, 0)
    BY <2>1 DEF Folds
  <2> QED BY <2>2
<1>2. ASSUME NEW k \in 0..n, k < n, k \in Good
      PROVE  k + 1 \in Good
  BY <1>2, FoldsOn
<1>3. \A k \in 0..n : k \in Good
  <2> HIDE DEF Good
  <2> QED BY <1>1, <1>2, UpTo
<1> QED BY <1>3

(* A sync is its snapshot, and then one event after another.               *)
LEMMA SyncedSteps ==
  ASSUME NEW p, NEW m, NEW n \in Nat, DOMAIN m.events = 1..n
  PROVE  \E g : /\ g[0] = [ p EXCEPT !.snap = m.snap ]
                /\ \A i \in 1..n : g[i] = Applied(g[i - 1], m.events[i])
                /\ Synced(p, m) = g[n]
<1> DEFINE s == m.events
           q == [ p EXCEPT !.snap = m.snap ]
           iter == CHOOSE f : Folds(f, q, s, n)
           g == [ i \in 0..n |-> iter[1..i] ]
<1>1. Synced(p, m) = iter[1..n]
  <2>1. Synced(p, m) = FoldLeft(Applied, q, s)
    BY DEF Synced
  <2>2. FoldLeft(Applied, q, s) = iter[1..n]
    BY DEF FoldLeft, MapThenFoldSet, Folds
  <2> QED BY <2>1, <2>2
<1>2. Folds(iter, q, s, n)
  <2> HIDE DEF q, s
  <2>1. \E f : Folds(f, q, s, n)
    BY FoldsExist
  <2> QED BY <2>1
<1> HIDE DEF iter, q, s
<1>3. g[0] = q
  <2>1. 1..0 = {} /\ 1..0 \in SUBSET (1..n) /\ 0 \in 0..n
    OBVIOUS
  <2> QED BY <1>2, <2>1 DEF Folds
<1>4. ASSUME NEW i \in 1..n
      PROVE  g[i] = Applied(g[i - 1], s[i])
  <2>1. /\ 1..i \in SUBSET (1..n) /\ 1..i # {} /\ i \in 0..n /\ i - 1 \in 0..n
        /\ i \in 1..i /\ \A k \in 1..i : k <= i
    OBVIOUS
  <2>2. Max(1..i) = i
    <3>1. Max(1..i) \in 1..i /\ \A k \in 1..i : k <= Max(1..i)
      BY <2>1, MaxIs
    <3> QED BY <3>1, <2>1
  <2>3. (1..i) \ {i} = 1..(i - 1)
    OBVIOUS
  <2>4. iter[1..i] = Applied(iter[(1..i) \ {Max(1..i)}], s[Max(1..i)])
    BY <1>2, <2>1 DEF Folds
  <2> QED BY <2>1, <2>2, <2>3, <2>4
<1>5. g[n] = iter[1..n]
  OBVIOUS
<1> HIDE DEF g
<1> QED BY <1>1, <1>3, <1>4, <1>5 DEF q, s

--------------------------------------------------------------------------------
(* What the page shows is behind the room                                  *)

Bars   == [ item : Items, name : Items \cup {None} ]
Pages  == [ phase : { "loading", "ready", "error" }, title : Items \cup {None}, strip : Strips,
            snap : Snapshots \cup {None}, event : Events, handled : Nat, isBidding : BOOLEAN,
            bar : Bars \cup {None}, nextUp : Items \cup {None}, hiding : BOOLEAN ]
Rows   == { its \in [ Items -> Snapshots ] : \A i \in Items : its[i].item = i }

RoomTypes ==
  /\ items \in Rows
  /\ current \in Items \cup {None} /\ closing \in Items \cup {None}
  /\ outbox \in [ Actors -> Seq(Events) ]
  /\ saving \in [ Actors -> Snapshots \cup {None} ] /\ cache \in Snapshots \cup {None}
  /\ log \in Seq(Events)

LinkTypes ==
  /\ link \in { "none", "open", "down" }
  /\ wire \in Seq(Messages)
  /\ sent \in Seq([ amount : 1..Cap, item : Items ])
  /\ lastSeq \in 0..Len(log)
  /\ rest \in [ strip : Strips, title : Items \cup {None} ] \cup {None}
  /\ moves \in Nat /\ faults \in Nat

(* What was true of the rows when it was written stays behind them.        *)
Behind(its, snap) ==
  snap # None => /\ snap.price <= its[snap.item].price
                 /\ snap.status \in Closed => snap = its[snap.item]
TrueStrip(its, strip) == \A i \in DOMAIN strip : strip[i] \in Closed => strip[i] = its[i].status
Tells(its, e) ==
  /\ Behind(its, e.snap) /\ TrueStrip(its, e.strip)
  /\ e.type = "auction.settled" => e.snap # None /\ e.snap.status = "settled"

RoomTells(its, box, lg) ==
  /\ \A a \in Actors : \A k \in DOMAIN box[a] : Tells(its, box[a][k])
  /\ \A k \in DOMAIN lg : Tells(its, lg[k])

(* So does what is in Redis, or on its way there.                          *)
Stores(its, saves, c) == Behind(its, c) /\ \A a \in Actors : Behind(its, saves[a])

Number(m) == IF m.type = "sync" THEN m.seq ELSE IF m.type = "event" THEN m.event.seq ELSE 0
Sound(its, top, m) ==
  /\ Number(m) <= top
  /\ m.type = "sync" => Behind(its, m.snap) /\ \A j \in DOMAIN m.events : Tells(its, m.events[j])
  /\ m.type = "event" => Tells(its, m.event)
WireSound(its, top, w) == \A k \in DOMAIN w : Sound(its, top, w[k])

PageBehind(its, p) ==
  /\ Behind(its, p.snap) /\ TrueStrip(its, p.strip) /\ Tells(its, p.event)
  /\ p.bar # None => its[p.bar.item].status = "settled" /\ its[p.bar.item].leader = "me"

RestTrue(its, r) == r # None => TrueStrip(its, r.strip)

ShownInv ==
  /\ RoomTypes /\ LinkTypes /\ page \in Pages
  /\ RoomTells(items, outbox, log) /\ WireSound(items, Len(log), wire)
  /\ PageBehind(items, page) /\ RestTrue(items, rest) /\ Stores(items, saving, cache)

LEMMA ItemsAre == Items \subseteq Nat /\ None \notin Items /\ 1 \in Items /\ Count \in Items /\ Cap \in Nat
BY LiveRoomAssumption DEF Items

LEMMA StripsAre ==
  ASSUME NEW strip
  PROVE  strip \in Strips <=> \E S \in SUBSET Items : strip \in [ S -> { "pending", "running" } \cup Closed ]
BY DEF Strips

LEMMA StripTyped ==
  ASSUME NEW strip \in Strips
  PROVE  /\ DOMAIN strip \subseteq Items
         /\ \A i \in DOMAIN strip : strip[i] \in { "pending", "running" } \cup Closed
<1>1. PICK S \in SUBSET Items : strip \in [ S -> { "pending", "running" } \cup Closed ]
  BY StripsAre
<1>2. DOMAIN strip = S
  BY <1>1
<1> QED BY <1>1, <1>2

LEMMA MadeStrip ==
  ASSUME NEW S \in SUBSET Items, NEW strip, strip = [ i \in S |-> strip[i] ],
         \A i \in S : strip[i] \in { "pending", "running" } \cup Closed
  PROVE  strip \in Strips
<1>1. strip \in [ S -> { "pending", "running" } \cup Closed ]
  OBVIOUS
<1> QED BY <1>1, StripsAre

LEMMA NoStripIs == NoStrip \in Strips /\ DOMAIN NoStrip = {} /\ \A its : TrueStrip(its, NoStrip)
<1>1. DOMAIN NoStrip = {} /\ NoStrip \in [ {} -> { "pending", "running" } \cup Closed ]
  BY DEF NoStrip
<1>2. NoStrip \in Strips
  BY <1>1, StripsAre
<1> QED BY <1>1, <1>2 DEF TrueStrip

LEMMA ClosedIs == Closed = { "settled", "cancelled" } /\ "pending" \notin Closed /\ "running" \notin Closed
BY DEF Closed

LEMMA SnapTyped ==
  ASSUME NEW s \in Snapshots
  PROVE  /\ s.item \in Items /\ s.price \in 0..Cap /\ s.price \in Nat
         /\ s.status \in { "pending", "running" } \cup Closed
         /\ s.leader \in { "me", "rival", None }
BY ItemsAre DEF Snapshots

(* What an event does to the page.                                         *)
LEMMA SwitchedKeeps ==
  ASSUME NEW its \in Rows, NEW p \in Pages, PageBehind(its, p), NEW e \in Events, Tells(its, e)
  PROVE  /\ Switched(p, e) \in Pages /\ PageBehind(its, Switched(p, e))
         /\ Switched(p, e).phase = p.phase /\ Switched(p, e).isBidding = p.isBidding
         /\ Switched(p, e).title = IF e.snap # None THEN e.snap.item ELSE p.title
<1> DEFINE new == e.snap
<1>1. e.strip \in Strips /\ e.snap \in Snapshots \cup {None} /\ p.strip \in Strips
      /\ TrueStrip(its, e.strip) /\ Behind(its, e.snap)
  BY DEF Events, Pages, Tells
<1>2. CASE new = None
  <2> DEFINE q == [ p EXCEPT !.strip = e.strip ]
  <2>1. Switched(p, e) = q
    BY <1>2 DEF Switched
  <2>2. q \in Pages /\ q.phase = p.phase /\ q.isBidding = p.isBidding /\ q.title = p.title
    BY <1>1 DEF Pages
  <2>3. q.strip = e.strip /\ q.snap = p.snap /\ q.event = p.event /\ q.bar = p.bar
    BY DEF Pages
  <2> HIDE DEF q
  <2>4. PageBehind(its, q)
    BY <1>1, <2>3 DEF PageBehind
  <2> QED BY <1>2, <2>1, <2>2, <2>4
<1>3. CASE new # None
  <2> DEFINE F(i) == IF i \in DOMAIN e.strip THEN e.strip[i] ELSE new.status
             S == DOMAIN e.strip \cup {new.item}
             strip == [ i \in S |-> F(i) ]
             q == [ p EXCEPT !.title = new.item, !.strip = strip ]
  <2>0. new \in Snapshots /\ new.item \in Items /\ new.status \in { "pending", "running" } \cup Closed
    BY <1>1, <1>3, SnapTyped
  <2>1. Switched(p, e) = q
    BY <1>3 DEF Switched
  <2>2. strip \in Strips
    <3>1. DOMAIN e.strip \subseteq Items /\ \A i \in DOMAIN e.strip : e.strip[i] \in { "pending", "running" } \cup Closed
      BY <1>1, StripTyped
    <3>2. S \in SUBSET Items /\ \A i \in S : F(i) \in { "pending", "running" } \cup Closed
      BY <2>0, <3>1
    <3>3. strip = [ i \in S |-> strip[i] ] /\ \A i \in S : strip[i] = F(i)
      OBVIOUS
    <3> HIDE DEF S, F, strip
    <3> QED BY <3>2, <3>3, MadeStrip
  <2>3. TrueStrip(its, strip)
    <3>1. \A i \in DOMAIN e.strip : e.strip[i] \in Closed => e.strip[i] = its[i].status
      BY <1>1 DEF TrueStrip
    <3>2. new.status \in Closed => new.status = its[new.item].status
      BY <1>1, <1>3 DEF Behind
    <3> QED BY <3>1, <3>2 DEF TrueStrip
  <2> HIDE DEF strip
  <2>4. q \in Pages /\ q.phase = p.phase /\ q.isBidding = p.isBidding /\ q.title = new.item
    BY <2>0, <2>2 DEF Pages
  <2>5. q.strip = strip /\ q.snap = p.snap /\ q.event = p.event /\ q.bar = p.bar
    BY DEF Pages
  <2> HIDE DEF q
  <2>6. PageBehind(its, q)
    BY <2>3, <2>5 DEF PageBehind
  <2> QED BY <1>3, <2>1, <2>4, <2>6
<1> QED BY <1>2, <1>3

IsSwitch(e) == e.type = "session.switch" /\ e.snap # None

LEMMA AppliedKeeps ==
  ASSUME NEW its \in Rows, NEW p \in Pages, PageBehind(its, p), NEW e \in Events, Tells(its, e)
  PROVE  /\ Applied(p, e) \in Pages /\ PageBehind(its, Applied(p, e))
         /\ Applied(p, e).phase = p.phase
         /\ Applied(p, e).isBidding = (p.isBidding /\ e.type # "bid.new")
         /\ Applied(p, e).title = IF IsSwitch(e) THEN e.snap.item ELSE p.title
<1> DEFINE snap == IF e.snap = None THEN p.snap ELSE e.snap
           busy == p.isBidding /\ e.type # "bid.new"
           q == [ p EXCEPT !.event = e, !.isBidding = busy, !.snap = snap ]
<1>1. Applied(p, e) = IF e.type = "session.switch" THEN Switched(q, e) ELSE q
  BY DEF Applied
<1>2. snap \in Snapshots \cup {None} /\ Behind(its, snap) /\ busy \in BOOLEAN
  BY DEF Events, Pages, Tells, PageBehind
<1> HIDE DEF snap, busy
<1>3. q \in Pages /\ q.phase = p.phase /\ q.isBidding = busy /\ q.title = p.title
  BY <1>2 DEF Pages
<1>4. q.strip = p.strip /\ q.snap = snap /\ q.event = e /\ q.bar = p.bar
  BY DEF Pages
<1> HIDE DEF q
<1>5. PageBehind(its, q)
  BY <1>2, <1>4 DEF PageBehind
<1>6. CASE e.type = "session.switch"
  BY <1>1, <1>3, <1>5, <1>6, SwitchedKeeps DEF IsSwitch, busy
<1>7. CASE e.type # "session.switch"
  BY <1>1, <1>3, <1>5, <1>7 DEF IsSwitch, busy
<1> QED BY <1>6, <1>7

(* A sync shows its events as if each had come alone.                      *)
LEMMA SyncedKeeps ==
  ASSUME NEW its \in Rows, NEW p \in Pages, PageBehind(its, p),
         NEW m \in Messages, m.type = "sync", Behind(its, m.snap),
         \A j \in DOMAIN m.events : Tells(its, m.events[j])
  PROVE  /\ Synced(p, m) \in Pages /\ PageBehind(its, Synced(p, m))
         /\ Synced(p, m).phase = p.phase
         /\ Synced(p, m).isBidding => p.isBidding
         /\ (\A j \in DOMAIN m.events : ~IsSwitch(m.events[j])) => Synced(p, m).title = p.title
         /\ \A j \in DOMAIN m.events :
              IsSwitch(m.events[j]) /\ (\A k \in DOMAIN m.events : k > j => ~IsSwitch(m.events[k]))
                => Synced(p, m).title = m.events[j].snap.item
<1> DEFINE n == Len(m.events)
           q == [ p EXCEPT !.snap = m.snap ]
<1>1. n \in Nat /\ DOMAIN m.events = 1..n /\ m.snap \in Snapshots /\ \A j \in 1..n : m.events[j] \in Events
  <2>1. m.events \in Seq(Events) /\ m.snap \in Snapshots
    BY DEF Messages, Events, ErrorMsg
  <2> QED BY <2>1
<1> HIDE DEF n
<1>2. q \in Pages /\ PageBehind(its, q) /\ q.phase = p.phase /\ q.isBidding = p.isBidding /\ q.title = p.title
  <2>1. q \in Pages /\ q.phase = p.phase /\ q.isBidding = p.isBidding /\ q.title = p.title
    BY <1>1 DEF Pages
  <2>2. q.strip = p.strip /\ q.snap = m.snap /\ q.event = p.event /\ q.bar = p.bar
    BY DEF Pages
  <2> HIDE DEF q
  <2> QED BY <2>1, <2>2 DEF PageBehind
<1>3. PICK g : /\ g[0] = q
               /\ \A i \in 1..n : g[i] = Applied(g[i - 1], m.events[i])
               /\ Synced(p, m) = g[n]
  BY <1>1, SyncedSteps
<1> HIDE DEF q
<1> DEFINE Fine(i)  == /\ g[i] \in Pages /\ PageBehind(its, g[i])
                       /\ g[i].phase = p.phase /\ (g[i].isBidding => p.isBidding)
           Named(i) == /\ (\A j \in 1..i : ~IsSwitch(m.events[j])) => g[i].title = p.title
                       /\ \A j \in 1..i :
                            IsSwitch(m.events[j]) /\ (\A k \in 1..i : k > j => ~IsSwitch(m.events[k]))
                              => g[i].title = m.events[j].snap.item
           Good == { i \in 0..n : Fine(i) /\ Named(i) }
<1>4. 0 \in Good
  BY <1>1, <1>2, <1>3
<1>5. ASSUME NEW i \in 0..n, i < n /\ i \in Good
      PROVE  i + 1 \in Good
  <2> DEFINE e == m.events[i + 1]
  <2>1. /\ i + 1 \in 1..n /\ i + 1 \in 0..n /\ (i + 1) - 1 = i
        /\ Fine(i) /\ Named(i) /\ 1..n = DOMAIN m.events
    BY <1>1, <1>5
  <2>2. g[i + 1] = Applied(g[i], e) /\ e \in Events /\ Tells(its, e)
    BY <1>1, <1>3, <2>1
  <2>3. /\ Fine(i + 1)
        /\ g[i + 1].title = IF IsSwitch(e) THEN e.snap.item ELSE g[i].title
    <3> DEFINE p1 == g[i]
    <3>1. p1 \in Pages /\ PageBehind(its, p1) /\ p1.phase = p.phase /\ (p1.isBidding => p.isBidding)
      BY <2>1
    <3>2. g[i + 1] = Applied(p1, e)
      BY <2>2
    <3> HIDE DEF p1, e, Named
    <3>3. /\ Applied(p1, e) \in Pages /\ PageBehind(its, Applied(p1, e))
          /\ Applied(p1, e).phase = p1.phase
          /\ Applied(p1, e).isBidding = (p1.isBidding /\ e.type # "bid.new")
          /\ Applied(p1, e).title = IF IsSwitch(e) THEN e.snap.item ELSE p1.title
      BY <3>1, <2>2, AppliedKeeps
    <3>4. /\ g[i + 1] \in Pages /\ PageBehind(its, g[i + 1])
          /\ g[i + 1].phase = p.phase /\ (g[i + 1].isBidding => p.isBidding)
      BY <3>1, <3>2, <3>3
    <3>5. g[i + 1].title = IF IsSwitch(e) THEN e.snap.item ELSE g[i].title
      BY <3>2, <3>3 DEF p1
    <3> QED BY <3>4, <3>5
  <2>4. \A j \in 1..(i + 1) : j = i + 1 \/ (j \in 1..i /\ j < i + 1)
    BY <1>5
  <2>5. Named(i + 1)
    <3> HIDE DEF Fine
    <3>1. CASE IsSwitch(e)
      <4>1. i + 1 \in 1..(i + 1) /\ \A j \in 1..i : i + 1 > j
        BY <1>5
      <4> QED BY <2>3, <2>4, <3>1, <4>1
    <3>2. CASE ~IsSwitch(e)
      <4>1. \A j \in 1..i : j \in 1..(i + 1)
        BY <1>5
      <4> QED BY <2>1, <2>3, <2>4, <3>2, <4>1
    <3> QED BY <3>1, <3>2
  <2> QED BY <2>1, <2>3, <2>5
<1>6. n \in Good
  <2>1. \A i \in 0..n : i < n /\ i \in Good => i + 1 \in Good
    BY <1>5
  <2>2. n \in 0..n
    BY <1>1
  <2> HIDE DEF Good
  <2> QED BY <1>1, <1>4, <2>1, <2>2, UpTo
<1>7. Fine(n) /\ Named(n) /\ 1..n = DOMAIN m.events
  BY <1>1, <1>6
<1> QED BY <1>3, <1>7

LEMMA BannerKeeps ==
  ASSUME NEW its \in Rows, NEW p \in Pages, PageBehind(its, p)
  PROVE  LET q == BannerEffect(p)
         IN  /\ q \in Pages /\ PageBehind(its, q)
             /\ q.phase = p.phase /\ q.isBidding = p.isBidding /\ q.title = p.title /\ q.event = p.event
<1> DEFINE q == BannerEffect(p)
<1>1. p.event.snap # None => p.event.snap.item \in Items
  <2>1. p.event.snap \in Snapshots \cup {None}
    BY DEF Pages, Events
  <2> QED BY <2>1, SnapTyped
<1>2. q \in Pages
  BY <1>1 DEF BannerEffect, Pages
<1>3. /\ q.phase = p.phase /\ q.isBidding = p.isBidding /\ q.title = p.title
      /\ q.event = p.event /\ q.strip = p.strip /\ q.snap = p.snap /\ q.bar \in { p.bar, None }
  BY DEF BannerEffect, Pages
<1> HIDE DEF q
<1>4. PageBehind(its, q)
  BY <1>3 DEF PageBehind
<1> QED BY <1>2, <1>3, <1>4 DEF q

LEMMA SettledKeeps ==
  ASSUME NEW its \in Rows, NEW p \in Pages, PageBehind(its, p),
         NEW snap \in Snapshots, Behind(its, snap), snap # None, snap.status = "settled"
  PROVE  LET q == Settled(p, snap)
         IN  /\ q \in Pages /\ PageBehind(its, q)
             /\ q.phase = p.phase /\ q.isBidding = p.isBidding /\ q.title = p.title
<1> DEFINE q == Settled(p, snap)
           strip == [ i \in DOMAIN p.strip |-> IF i = snap.item THEN "settled" ELSE p.strip[i] ]
<1>1. p.strip \in Strips /\ p.title \in Items \cup {None} /\ snap.item \in Items
  BY SnapTyped DEF Pages
<1>2. snap = its[snap.item] /\ its[snap.item].status = "settled"
  BY ClosedIs DEF Behind
<1>3. strip \in Strips
  <2>1. /\ DOMAIN p.strip \subseteq Items
        /\ \A i \in DOMAIN p.strip : p.strip[i] \in { "pending", "running" } \cup Closed
    BY <1>1, StripTyped
  <2>2. /\ strip = [ i \in DOMAIN p.strip |-> strip[i] ]
        /\ \A i \in DOMAIN p.strip : strip[i] \in { "pending", "running" } \cup Closed
    BY <2>1, ClosedIs
  <2> HIDE DEF strip
  <2> QED BY <2>1, <2>2, MadeStrip
<1>4. TrueStrip(its, strip)
  BY <1>2 DEF TrueStrip, PageBehind
<1>5. q \in Pages
  BY <1>1, <1>3 DEF Settled, Pages, Bars
<1>6. /\ q.phase = p.phase /\ q.isBidding = p.isBidding /\ q.title = p.title
      /\ q.event = p.event /\ q.strip = strip /\ q.snap = p.snap
      /\ q.bar = IF snap.leader = "me" THEN [ item |-> snap.item, name |-> p.title ] ELSE p.bar
  BY DEF Settled, Pages
<1> HIDE DEF q, strip
<1>7. PageBehind(its, q)
  BY <1>2, <1>4, <1>6 DEF PageBehind
<1> QED BY <1>5, <1>6, <1>7 DEF q

LEMMA NotifyKeeps ==
  ASSUME NEW its \in Rows, NEW p \in Pages, PageBehind(its, p)
  PROVE  LET q == NotifyEffect(p)
         IN  /\ q \in Pages /\ PageBehind(its, q)
             /\ q.phase = p.phase /\ q.isBidding = p.isBidding /\ q.title = p.title
<1> DEFINE q == [ p EXCEPT !.handled = p.event.seq ]
<1>1. NotifyEffect(p) = IF p.event.seq <= p.handled THEN p
                        ELSE IF p.event.type = "auction.settled" THEN Settled(q, p.event.snap) ELSE q
  BY DEF NotifyEffect
<1>2. q \in Pages /\ q.phase = p.phase /\ q.isBidding = p.isBidding /\ q.title = p.title
  BY DEF Pages, Events
<1>3. q.event = p.event /\ q.strip = p.strip /\ q.snap = p.snap /\ q.bar = p.bar
  BY DEF Pages
<1> HIDE DEF q
<1>4. PageBehind(its, q)
  BY <1>3 DEF PageBehind
<1>5. ASSUME p.event.type = "auction.settled"
      PROVE  /\ p.event.snap \in Snapshots /\ p.event.snap # None
             /\ Behind(its, p.event.snap) /\ p.event.snap.status = "settled"
  BY <1>5 DEF PageBehind, Tells, Pages, Events
<1>6. CASE p.event.seq > p.handled /\ p.event.type = "auction.settled"
  <2>1. p.event.seq \in Nat /\ p.handled \in Nat
    BY DEF Pages, Events
  <2>2. NotifyEffect(p) = Settled(q, p.event.snap)
    BY <1>1, <1>6, <2>1
  <2> QED BY <1>2, <1>4, <1>5, <1>6, <2>2, SettledKeeps
<1>7. CASE ~(p.event.seq > p.handled /\ p.event.type = "auction.settled")
  <2>1. p.event.seq \in Nat /\ p.handled \in Nat
    BY DEF Pages, Events
  <2>2. NotifyEffect(p) \in { p, q }
    BY <1>1, <1>7, <2>1
  <2> QED BY <1>2, <1>4, <2>2
<1> QED BY <1>6, <1>7

LEMMA NoEventIs == NoEvent \in Events /\ (\A its : Tells(its, NoEvent)) /\ ~IsSwitch(NoEvent) /\ NoEvent.seq = 0
<1>1. NoEvent = [ type |-> "none", seq |-> 0, snap |-> None, strip |-> NoStrip ]
  BY DEF NoEvent, Event
<1>2. NoEvent \in Events
  <2>1. NoStrip \in Strips
    BY NoStripIs, Zenon
  <2> QED BY <1>1, <2>1 DEF Events, EventTypes
<1>3. NoEvent.type = "none" /\ NoEvent.seq = 0 /\ NoEvent.snap = None /\ NoEvent.strip = NoStrip
  BY <1>1
<1> QED BY <1>2, <1>3, NoStripIs DEF Tells, Behind, IsSwitch

LEMMA RenderKeeps ==
  ASSUME NEW its \in Rows, NEW p \in Pages, PageBehind(its, p)
  PROVE  LET q == [ NotifyEffect(BannerEffect(p)) EXCEPT !.event = NoEvent ]
         IN  /\ q \in Pages /\ PageBehind(its, q)
             /\ q.phase = p.phase /\ q.isBidding = p.isBidding /\ q.title = p.title
<1> DEFINE b == BannerEffect(p)
           n == NotifyEffect(b)
           q == [ n EXCEPT !.event = NoEvent ]
<1>1. /\ b \in Pages /\ PageBehind(its, b)
      /\ b.phase = p.phase /\ b.isBidding = p.isBidding /\ b.title = p.title
  BY BannerKeeps
<1> HIDE DEF b
<1>2. /\ n \in Pages /\ PageBehind(its, n)
      /\ n.phase = p.phase /\ n.isBidding = p.isBidding /\ n.title = p.title
  BY <1>1, NotifyKeeps
<1> HIDE DEF n
<1>3. q \in Pages /\ q.phase = n.phase /\ q.isBidding = n.isBidding /\ q.title = n.title
  BY <1>2, NoEventIs DEF Pages
<1>4. q.event = NoEvent /\ q.strip = n.strip /\ q.snap = n.snap /\ q.bar = n.bar
  BY <1>2 DEF Pages
<1> HIDE DEF q
<1>5. PageBehind(its, q)
  BY <1>2, <1>4, NoEventIs DEF PageBehind
<1> QED BY <1>2, <1>3, <1>5 DEF q, n, b

--------------------------------------------------------------------------------
(* The rows only grow: bids raise prices, and what is closed stays so.     *)

Grows(its, new) ==
  \A i \in Items : /\ its[i].price <= new[i].price
                   /\ its[i].status \in Closed => new[i] = its[i]

LEMMA GrowthKeeps ==
  ASSUME NEW its \in Rows, NEW new \in Rows, Grows(its, new)
  PROVE  /\ \A s \in Snapshots \cup {None} : Behind(its, s) => Behind(new, s)
         /\ \A t \in Strips : TrueStrip(its, t) => TrueStrip(new, t)
         /\ \A e \in Events : Tells(its, e) => Tells(new, e)
         /\ \A p \in Pages : PageBehind(its, p) => PageBehind(new, p)
<1>1. \A i \in Items : its[i].price \in Nat /\ new[i].price \in Nat
  BY SnapTyped DEF Rows
<1>2. ASSUME NEW s \in Snapshots \cup {None}, Behind(its, s)
      PROVE  Behind(new, s)
  <2>1. CASE s = None
    BY <2>1 DEF Behind
  <2>2. CASE s # None
    <3>1. s.item \in Items /\ s.price \in Nat
      BY <2>2, SnapTyped
    <3>2. s.price <= its[s.item].price /\ (s.status \in Closed => s = its[s.item])
      BY <1>2, <2>2 DEF Behind
    <3>3. its[s.item].price <= new[s.item].price /\ (its[s.item].status \in Closed => new[s.item] = its[s.item])
      BY <3>1 DEF Grows
    <3>4. s.price <= new[s.item].price
      BY <1>1, <3>1, <3>2, <3>3
    <3> QED BY <3>2, <3>3, <3>4 DEF Behind
  <2> QED BY <2>1, <2>2
<1>3. ASSUME NEW t \in Strips, TrueStrip(its, t)
      PROVE  TrueStrip(new, t)
  BY <1>3, StripTyped DEF TrueStrip, Grows
<1>4. ASSUME NEW e \in Events, Tells(its, e)
      PROVE  Tells(new, e)
  <2>1. e.snap \in Snapshots \cup {None} /\ e.strip \in Strips
    BY DEF Events
  <2> QED BY <1>2, <1>3, <1>4, <2>1 DEF Tells
<1>5. ASSUME NEW p \in Pages, PageBehind(its, p)
      PROVE  PageBehind(new, p)
  <2>1. p.snap \in Snapshots \cup {None} /\ p.strip \in Strips /\ p.event \in Events /\ p.bar \in Bars \cup {None}
    BY DEF Pages
  <2>2. p.bar # None => p.bar.item \in Items
    BY <2>1 DEF Bars
  <2>3. p.bar # None => new[p.bar.item] = its[p.bar.item]
    BY <1>5, <2>2, ClosedIs DEF PageBehind, Grows
  <2> QED BY <1>2, <1>3, <1>4, <1>5, <2>1, <2>3 DEF PageBehind
<1> QED BY <1>2, <1>3, <1>4, <1>5

LEMMA MessageTyped ==
  ASSUME NEW m \in Messages
  PROVE  /\ m.type \in { "sync", "event", "error" }
         /\ m.type = "sync" => m.seq \in Nat /\ m.snap \in Snapshots /\ m.events \in Seq(Events)
         /\ m.type = "event" => m.event \in Events
BY DEF Messages, ErrorMsg

LEMMA IndexTyped ==
  ASSUME NEW S, NEW q \in Seq(S)
  PROVE  DOMAIN q = 1..Len(q) /\ Len(q) \in Nat /\ \A k \in DOMAIN q : q[k] \in S
OBVIOUS

LEMMA TailIs ==
  ASSUME NEW S, NEW q \in Seq(S), q # << >>
  PROVE  /\ Tail(q) \in Seq(S) /\ Head(q) \in S /\ Head(q) = q[1] /\ 1 \in DOMAIN q
         /\ Len(Tail(q)) = Len(q) - 1
         /\ \A k \in DOMAIN Tail(q) : k + 1 \in DOMAIN q /\ Tail(q)[k] = q[k + 1]
         /\ \A k \in DOMAIN q : k = 1 \/ (k - 1 \in DOMAIN Tail(q) /\ Tail(q)[k - 1] = q[k])
OBVIOUS

LEMMA AppendIs ==
  ASSUME NEW S, NEW q \in Seq(S), NEW x \in S
  PROVE  /\ Append(q, x) \in Seq(S) /\ Len(Append(q, x)) = Len(q) + 1
         /\ \A k \in DOMAIN q : k \in DOMAIN Append(q, x) /\ Append(q, x)[k] = q[k] /\ k < Len(q) + 1
         /\ Len(q) + 1 \in DOMAIN Append(q, x) /\ Append(q, x)[Len(q) + 1] = x
         /\ \A k \in DOMAIN Append(q, x) : k \in DOMAIN q \/ k = Len(q) + 1
OBVIOUS

LEMMA SoundGrows ==
  ASSUME NEW its \in Rows, NEW new \in Rows, Grows(its, new),
         NEW top \in Nat, NEW more \in Nat, top <= more,
         NEW m \in Messages, Sound(its, top, m)
  PROVE  Sound(new, more, m)
<1>1. Number(m) \in Nat
  BY MessageTyped DEF Number, Events
<1>2. Number(m) <= more
  BY <1>1 DEF Sound
<1>3. CASE m.type = "sync"
  <2>1. m.snap \in Snapshots /\ m.events \in Seq(Events)
    BY <1>3, MessageTyped
  <2>2. \A j \in DOMAIN m.events : m.events[j] \in Events
    BY <2>1
  <2>3. Behind(new, m.snap) /\ \A j \in DOMAIN m.events : Tells(new, m.events[j])
    BY <1>3, <2>1, <2>2, GrowthKeeps DEF Sound
  <2> QED BY <1>2, <1>3, <2>3 DEF Sound
<1>4. CASE m.type = "event"
  BY <1>2, <1>4, MessageTyped, GrowthKeeps DEF Sound
<1>5. CASE m.type = "error"
  BY <1>2, <1>5 DEF Sound
<1> QED BY <1>3, <1>4, <1>5, MessageTyped

LEMMA WireGrows ==
  ASSUME NEW its \in Rows, NEW new \in Rows, Grows(its, new),
         NEW top \in Nat, NEW more \in Nat, top <= more,
         NEW w \in Seq(Messages), WireSound(its, top, w)
  PROVE  WireSound(new, more, w)
<1> SUFFICES ASSUME NEW k \in DOMAIN w
             PROVE  Sound(new, more, w[k])
  BY DEF WireSound
<1>1. w[k] \in Messages /\ Sound(its, top, w[k])
  BY IndexTyped DEF WireSound
<1> QED BY <1>1, SoundGrows

LEMMA ToPageSound ==
  ASSUME NEW its, NEW top, wire \in Seq(Messages), WireSound(its, top, wire),
         NEW m \in Messages, Sound(its, top, m)
  PROVE  ToPage(m) \in Seq(Messages) /\ WireSound(its, top, ToPage(m))
<1>1. /\ Append(wire, m) \in Seq(Messages)
      /\ \A k \in DOMAIN Append(wire, m) : k \in DOMAIN wire \/ k = Len(wire) + 1
      /\ \A k \in DOMAIN wire : Append(wire, m)[k] = wire[k]
      /\ Append(wire, m)[Len(wire) + 1] = m
  BY AppendIs
<1>2. WireSound(its, top, Append(wire, m))
  BY <1>1 DEF WireSound
<1> QED BY <1>1, <1>2 DEF ToPage

LEMMA TailSound ==
  ASSUME NEW its, NEW top, NEW w \in Seq(Messages), w # << >>, WireSound(its, top, w)
  PROVE  /\ Tail(w) \in Seq(Messages) /\ WireSound(its, top, Tail(w))
         /\ Head(w) \in Messages /\ Sound(its, top, Head(w))
BY TailIs DEF WireSound

LEMMA RoomGrows ==
  ASSUME NEW its \in Rows, NEW new \in Rows, Grows(its, new),
         NEW box \in [ Actors -> Seq(Events) ], NEW lg \in Seq(Events), RoomTells(its, box, lg)
  PROVE  RoomTells(new, box, lg)
<1>1. \A a \in Actors : \A k \in DOMAIN box[a] : box[a][k] \in Events
  BY IndexTyped
<1>2. \A k \in DOMAIN lg : lg[k] \in Events
  BY IndexTyped
<1>3. \A e \in Events : Tells(its, e) => Tells(new, e)
  BY GrowthKeeps
<1> QED BY <1>1, <1>2, <1>3 DEF RoomTells

LEMMA SameRows == ASSUME NEW its \in Rows  PROVE Grows(its, its)
<1>1. \A i \in Items : its[i].price \in Nat
  BY SnapTyped DEF Rows
<1> QED BY <1>1 DEF Grows

(* The invariant at the next state, part by part.                          *)
LEMMA ShownNext ==
  ASSUME RoomTypes', LinkTypes', page' \in Pages,
         RoomTells(items', outbox', log'), WireSound(items', Len(log'), wire'),
         PageBehind(items', page'), RestTrue(items', rest'), Stores(items', saving', cache')
  PROVE  ShownInv'
BY DEF ShownInv, RoomTells, WireSound, PageBehind, RestTrue, Sound, Tells, TrueStrip, Behind, Number, Stores

(* The room moves and the page has not heard of it.                        *)
LEMMA RoomMoves ==
  ASSUME ShownInv,
         items' \in Rows, Grows(items, items'),
         outbox' \in [ Actors -> Seq(Events) ], RoomTells(items', outbox', log),
         saving' \in [ Actors -> Snapshots \cup {None} ], cache' \in Snapshots \cup {None},
         Stores(items', saving', cache'),
         current' \in Items \cup {None}, closing' \in Items \cup {None},
         wire' \in Seq(Messages), WireSound(items', Len(log), wire'),
         sent' \in Seq([ amount : 1..Cap, item : Items ]),
         moves' \in Nat,
         UNCHANGED <<log, link, lastSeq, rest, page, faults>>
  PROVE  ShownInv'
<1>1. RoomTypes' /\ LinkTypes'
  BY DEF ShownInv, RoomTypes, LinkTypes
<1>2. PageBehind(items', page)
  BY GrowthKeeps DEF ShownInv, RoomTypes
<1>3. RestTrue(items', rest)
  <2>1. rest # None => rest.strip \in Strips
    BY DEF ShownInv, LinkTypes
  <2> QED BY <2>1, GrowthKeeps DEF ShownInv, RoomTypes, RestTrue
<1>4. page' = page /\ rest' = rest /\ log' = log /\ page \in Pages
  BY DEF ShownInv
<1> QED BY <1>1, <1>2, <1>3, <1>4, ShownNext

(* What a committing handler has to say is true, and so is all that was.   *)
LEMMA CommitKeeps ==
  ASSUME ShownInv, NEW a \in Actors, NEW i \in Items, NEW snap \in Snapshots, snap.item = i,
         IsOpen(i), items[i].price <= snap.price, NEW events \in Seq(Events),
         \A k \in DOMAIN events : /\ events[k].snap = snap /\ events[k].strip = NoStrip
                                  /\ events[k].type = "auction.settled" => snap.status = "settled",
         Committed(a, i, snap, events)
  PROVE  /\ items' \in Rows /\ Grows(items, items')
         /\ outbox' \in [ Actors -> Seq(Events) ] /\ RoomTells(items', outbox', log)
         /\ saving' \in [ Actors -> Snapshots \cup {None} ] /\ Stores(items', saving', cache)
<1>1. items \in Rows /\ outbox \in [ Actors -> Seq(Events) ] /\ log \in Seq(Events)
  BY DEF ShownInv, RoomTypes
<1>2. items' = [ items EXCEPT ![i] = snap ] /\ outbox' = [ outbox EXCEPT ![a] = events ]
  BY DEF Committed
<1>3. items' \in Rows
  BY <1>1, <1>2 DEF Rows
<1>4. Grows(items, items')
  <2>1. \A j \in Items : items[j].price \in Nat
    BY <1>1, SnapTyped DEF Rows
  <2> QED BY <1>1, <1>2, <2>1 DEF Grows, IsOpen, Rows
<1>5. outbox' \in [ Actors -> Seq(Events) ]
  BY <1>1, <1>2
<1>6. Behind(items', snap)
  <2>1. items'[i] = snap /\ snap.price \in Nat
    BY <1>1, <1>2, SnapTyped DEF Rows
  <2> QED BY <2>1 DEF Behind
<1>7. \A k \in DOMAIN events : Tells(items', events[k])
  <2>1. snap # None
    BY NoneIsNoSnapshot
  <2> QED BY <1>6, <2>1, NoStripIs DEF Tells
<1>8. RoomTells(items', outbox, log)
  BY <1>1, <1>3, <1>4, RoomGrows DEF ShownInv
<1>9. RoomTells(items', outbox', log)
  <2>1. \A b \in Actors : outbox'[b] = IF b = a THEN events ELSE outbox[b]
    BY <1>1, <1>2
  <2> QED BY <1>7, <1>8, <2>1 DEF RoomTells
<1>10. saving \in [ Actors -> Snapshots \cup {None} ] /\ saving' = [ saving EXCEPT ![a] = snap ]
  BY DEF ShownInv, RoomTypes, Committed
<1>11. saving' \in [ Actors -> Snapshots \cup {None} ]
  BY <1>10
<1>12. Stores(items', saving', cache)
  <2>1. \A b \in Actors : saving'[b] = IF b = a THEN snap ELSE saving[b]
    BY <1>10
  <2>2. \A b \in Actors : saving[b] \in Snapshots \cup {None} /\ Behind(items', saving[b])
    BY <1>1, <1>3, <1>4, <1>10, GrowthKeeps DEF ShownInv, Stores
  <2>3. Behind(items', cache)
    BY <1>1, <1>3, <1>4, GrowthKeeps DEF ShownInv, RoomTypes, Stores
  <2> QED BY <1>6, <2>1, <2>2, <2>3 DEF Stores
<1> QED BY <1>3, <1>4, <1>5, <1>9, <1>11, <1>12

--------------------------------------------------------------------------------
(* The steps of the room                                                   *)

LEMMA Facts ==
  ASSUME ShownInv
  PROVE  /\ items \in Rows /\ current \in Items \cup {None} /\ closing \in Items \cup {None}
         /\ \A i \in Items : items[i] \in Snapshots /\ items[i].item = i /\ items[i].price \in Nat
         /\ outbox \in [ Actors -> Seq(Events) ] /\ log \in Seq(Events) /\ Len(log) \in Nat
         /\ link \in { "none", "open", "down" } /\ wire \in Seq(Messages)
         /\ sent \in Seq([ amount : 1..Cap, item : Items ])
         /\ lastSeq \in 0..Len(log) /\ moves \in Nat /\ faults \in Nat
         /\ page \in Pages /\ PageBehind(items, page)
         /\ RoomTells(items, outbox, log) /\ WireSound(items, Len(log), wire)
         /\ saving \in [ Actors -> Snapshots \cup {None} ] /\ cache \in Snapshots \cup {None}
         /\ Stores(items, saving, cache)
<1>1. RoomTypes /\ LinkTypes
  BY DEF ShownInv
<1>2. \A i \in Items : items[i] \in Snapshots /\ items[i].item = i /\ items[i].price \in Nat
  BY <1>1, SnapTyped DEF RoomTypes, Rows
<1> QED BY <1>1, <1>2 DEF ShownInv, RoomTypes, LinkTypes

LEMMA ShownInit == Init => ShownInv
<1> SUFFICES ASSUME Init  PROVE ShownInv
  OBVIOUS
<1> DEFINE row(i) == [ item |-> i, status |-> "pending", price |-> 0, leader |-> None ]
<1>1. items \in Rows
  <2>1. \A i \in Items : row(i) \in Snapshots /\ row(i).item = i
    BY ItemsAre DEF Snapshots
  <2>2. items = [ i \in Items |-> row(i) ]
    BY DEF Init
  <2> HIDE DEF row
  <2> QED BY <2>1, <2>2 DEF Rows
<1>2. RoomTypes
  <2>1. cache = items[1] /\ items[1] \in Snapshots
    BY <1>1, ItemsAre DEF Init, Rows
  <2> QED BY <1>1, <2>1, ItemsAre DEF Init, RoomTypes
<1>3. LinkTypes
  BY DEF Init, LinkTypes
<1>4. page \in Pages /\ page.snap = None /\ page.bar = None /\ page.event = NoEvent /\ page.strip = NoStrip
  <2>1. NoStrip \in Strips
    BY NoStripIs
  <2>2. NoEvent \in Events
    BY NoEventIs
  <2> QED BY <2>1, <2>2 DEF Init, PageInit, Pages
<1>5. PageBehind(items, page)
  BY <1>4, NoStripIs, NoEventIs DEF PageBehind, Behind
<1>6. RoomTells(items, outbox, log) /\ WireSound(items, Len(log), wire) /\ RestTrue(items, rest)
  <2>1. DOMAIN log = {} /\ DOMAIN wire = {} /\ rest = None /\ \A a \in Actors : DOMAIN outbox[a] = {}
    BY DEF Init
  <2> QED BY <2>1 DEF RoomTells, WireSound, RestTrue
<1>7. Stores(items, saving, cache)
  <2>1. cache = items[1] /\ cache \in Snapshots /\ cache.item = 1 /\ cache.price \in Nat
    BY <1>1, ItemsAre, SnapTyped DEF Init, Rows
  <2>2. \A a \in Actors : saving[a] = None
    BY DEF Init
  <2> QED BY <2>1, <2>2 DEF Stores, Behind
<1> QED BY <1>2, <1>3, <1>4, <1>5, <1>6, <1>7 DEF ShownInv

LEMMA BidShows ==
  ASSUME ShownInv, NEW a \in { "me", "rival" }, NEW i \in Items, NEW amount \in Nat, Bid(a, i, amount)
  PROVE  /\ items' \in Rows /\ Grows(items, items')
         /\ outbox' \in [ Actors -> Seq(Events) ] /\ RoomTells(items', outbox', log)
         /\ saving' \in [ Actors -> Snapshots \cup {None} ] /\ Stores(items', saving', cache)
         /\ outbox[a] = << >> /\ 1 \in DOMAIN outbox'[a] /\ outbox'[a][1].type = "bid.new"
         /\ \A b \in Actors \ {a} : outbox'[b] = outbox[b]
<1> DEFINE snap == [ item |-> i, price |-> amount, leader |-> a,
                     status |-> IF amount = Cap THEN "settled" ELSE "running" ]
           first == Event("bid.new", snap)
           second == Event("auction.settled", snap)
           rest1 == IF amount = Cap THEN << second >> ELSE << >>
           events == << first >> \o rest1
<1>1. /\ IsOpen(i) /\ items[i].price < amount /\ amount <= Cap /\ outbox[a] = << >>
      /\ Committed(a, i, snap, events)
  BY DEF Bid
<1>2. /\ snap \in Snapshots /\ snap.item = i /\ items[i].price <= snap.price
      /\ (amount = Cap => snap.status = "settled")
  <2>1. items[i].price \in Nat /\ Cap \in Nat
    BY Facts, ItemsAre
  <2>2. snap \in Snapshots /\ snap.item = i /\ snap.price = amount /\ (amount = Cap => snap.status = "settled")
    BY <1>1, <2>1, ClosedIs DEF Snapshots
  <2> HIDE DEF snap
  <2> QED BY <1>1, <2>1, <2>2
<1> HIDE DEF snap
<1>3. /\ first \in Events /\ first.snap = snap /\ first.strip = NoStrip /\ first.type = "bid.new"
      /\ second \in Events /\ second.snap = snap /\ second.strip = NoStrip
      /\ second.type = "auction.settled"
  <2>1. NoStrip \in Strips
    BY NoStripIs
  <2> QED BY <1>2, <2>1 DEF Event, Events, EventTypes
<1> HIDE DEF first, second
<1>4. /\ events \in Seq(Events) /\ 1 \in DOMAIN events /\ events[1] = first
      /\ \A k \in DOMAIN events : events[k] = first \/ (events[k] = second /\ amount = Cap)
  <2>1. /\ << first >> \in Seq(Events) /\ Len(<< first >>) = 1 /\ << first >>[1] = first
        /\ rest1 \in Seq(Events) /\ Len(rest1) = (IF amount = Cap THEN 1 ELSE 0)
        /\ amount = Cap => rest1[1] = second
    BY <1>3
  <2> HIDE DEF rest1
  <2> DEFINE one == << first >>
  <2>2. one \in Seq(Events) /\ Len(one) = 1 /\ one[1] = first /\ events = one \o rest1
    BY <2>1 DEF events
  <2> HIDE DEF one
  <2>3. /\ events \in Seq(Events) /\ Len(events) = 1 + Len(rest1)
        /\ \A k \in 1..1 + Len(rest1) : events[k] = IF k <= 1 THEN one[k] ELSE rest1[k - 1]
    <3>1. /\ one \o rest1 \in Seq(Events) /\ Len(one \o rest1) = Len(one) + Len(rest1)
          /\ \A k \in 1..Len(one) + Len(rest1) : (one \o rest1)[k] = IF k <= Len(one) THEN one[k] ELSE rest1[k - Len(one)]
      BY <2>1, <2>2, ConcatProperties
    <3> QED BY <2>2, <3>1
  <2> HIDE DEF events
  <2>4. DOMAIN events = 1..1 + Len(rest1)
    BY <2>3
  <2> QED BY <2>1, <2>2, <2>3, <2>4
<1> HIDE DEF events
<1>6. a \in Actors
  BY DEF Actors
<1>7. \A k \in DOMAIN events : /\ events[k].snap = snap /\ events[k].strip = NoStrip
                               /\ events[k].type = "auction.settled" => snap.status = "settled"
  BY <1>2, <1>3, <1>4
<1>8. /\ items' \in Rows /\ Grows(items, items')
      /\ outbox' \in [ Actors -> Seq(Events) ] /\ RoomTells(items', outbox', log)
      /\ saving' \in [ Actors -> Snapshots \cup {None} ] /\ Stores(items', saving', cache)
  BY <1>1, <1>2, <1>4, <1>6, <1>7, CommitKeeps
<1>9. outbox'[a] = events /\ \A b \in Actors \ {a} : outbox'[b] = outbox[b]
  BY <1>1, <1>6, Facts DEF Committed
<1> QED BY <1>1, <1>3, <1>4, <1>7, <1>8, <1>9

(* Closing an item by the worker or the anchor.                            *)
CloseOf(a, i, status, type) ==
  /\ outbox[a] = << >> /\ IsOpen(i)
  /\ Committed(a, i, [ items[i] EXCEPT !.status = status ],
               << Event(type, [ items[i] EXCEPT !.status = status ]) >>)

LEMMA ClosesAre ==
  ASSUME NEW a \in Actors, NEW i \in Items
  PROVE  /\ Sold(a, i) => CloseOf(a, i, "settled", "auction.settled")
         /\ Skipped(i) => CloseOf("anchor", i, "cancelled", "auction.cancelled")
BY ClosedIs DEF Sold, Skipped, CloseOf, IsOpen

LEMMA CloseShows ==
  ASSUME ShownInv, NEW a \in Actors, NEW i \in Items,
         NEW status \in Closed, NEW type \in { "auction.settled", "auction.cancelled" },
         type = "auction.settled" => status = "settled",
         CloseOf(a, i, status, type)
  PROVE  /\ items' \in Rows /\ Grows(items, items')
         /\ outbox' \in [ Actors -> Seq(Events) ] /\ RoomTells(items', outbox', log)
         /\ saving' \in [ Actors -> Snapshots \cup {None} ] /\ Stores(items', saving', cache)
         /\ outbox[a] = << >>
         /\ \A b \in Actors \ {a} : outbox'[b] = outbox[b]
<1> DEFINE snap == [ items[i] EXCEPT !.status = status ]
           first == Event(type, snap)
           events == << first >>
<1>1. IsOpen(i) /\ Committed(a, i, snap, events) /\ outbox[a] = << >>
  BY DEF CloseOf
<1>2. snap \in Snapshots /\ snap.item = i /\ items[i].price <= snap.price /\ snap.status = status
  <2>1. items[i] \in Snapshots /\ items[i].item = i /\ items[i].price \in Nat
    BY Facts
  <2>2. snap \in Snapshots /\ snap.item = i /\ snap.price = items[i].price /\ snap.status = status
    BY <2>1 DEF Snapshots
  <2> QED BY <2>1, <2>2
<1> HIDE DEF snap
<1>3. /\ first \in Events /\ first.snap = snap /\ first.strip = NoStrip /\ first.type = type
  <2>1. NoStrip \in Strips
    BY NoStripIs
  <2> QED BY <1>2, <2>1 DEF Event, Events, EventTypes
<1> HIDE DEF first
<1>4. events \in Seq(Events) /\ \A k \in DOMAIN events : events[k] = first
  BY <1>3
<1> HIDE DEF events
<1>5. \A k \in DOMAIN events : /\ events[k].snap = snap /\ events[k].strip = NoStrip
                               /\ events[k].type = "auction.settled" => snap.status = "settled"
  BY <1>2, <1>3, <1>4
<1>6. /\ items' \in Rows /\ Grows(items, items')
      /\ outbox' \in [ Actors -> Seq(Events) ] /\ RoomTells(items', outbox', log)
      /\ saving' \in [ Actors -> Snapshots \cup {None} ] /\ Stores(items', saving', cache)
  BY <1>1, <1>2, <1>4, <1>5, CommitKeeps
<1>7. outbox'[a] = events /\ \A b \in Actors \ {a} : outbox'[b] = outbox[b]
  BY <1>1, Facts DEF Committed
<1> QED BY <1>1, <1>5, <1>6, <1>7

LEMMA RivalBidsShows ==
  ASSUME ShownInv, RivalBids
  PROVE  ShownInv'
<1>1. /\ current \in Items /\ items[current].price + 1 \in Nat
      /\ Bid("rival", current, items[current].price + 1)
      /\ moves' \in Nat
      /\ UNCHANGED <<current, closing, cache, log, linkVars, rest, page, faults>>
  BY Facts DEF RivalBids
<1>2. /\ items' \in Rows /\ Grows(items, items')
      /\ outbox' \in [ Actors -> Seq(Events) ] /\ RoomTells(items', outbox', log)
      /\ saving' \in [ Actors -> Snapshots \cup {None} ] /\ Stores(items', saving', cache)
  BY <1>1, BidShows
<1>3. UNCHANGED <<current, closing, cache, log, link, wire, sent, lastSeq, rest, page, faults>>
  BY <1>1 DEF linkVars
<1>4. WireSound(items', Len(log), wire)
  BY <1>2, WireGrows, Facts
<1> QED BY <1>1, <1>2, <1>3, <1>4, Facts, RoomMoves

LEMMA WorkerShows ==
  ASSUME ShownInv, NEW i \in Items, WorkerSettles(i)
  PROVE  ShownInv'
<1>1. "worker" \in Actors /\ Sold("worker", i)
  BY DEF WorkerSettles, Actors
<1>2. CloseOf("worker", i, "settled", "auction.settled") /\ "settled" \in Closed
  BY <1>1, ClosesAre, ClosedIs
<1>3. /\ items' \in Rows /\ Grows(items, items')
      /\ outbox' \in [ Actors -> Seq(Events) ] /\ RoomTells(items', outbox', log)
      /\ saving' \in [ Actors -> Snapshots \cup {None} ] /\ Stores(items', saving', cache)
  BY <1>1, <1>2, CloseShows
<1>4. UNCHANGED <<current, closing, cache, log, link, wire, sent, lastSeq, rest, page, moves, faults>>
  BY DEF WorkerSettles, linkVars
<1>5. WireSound(items', Len(log), wire)
  <2>1. items \in Rows /\ wire \in Seq(Messages) /\ Len(log) \in Nat /\ WireSound(items, Len(log), wire)
    BY Facts
  <2> QED BY <1>3, <2>1, WireGrows
<1> QED BY <1>3, <1>4, <1>5, Facts, RoomMoves

LEMMA EndCurrentIs ==
  ASSUME ShownInv, EndCurrent
  PROVE  /\ items' \in Rows /\ Grows(items, items')
         /\ outbox' \in [ Actors -> Seq(Events) ] /\ RoomTells(items', outbox', log)
         /\ saving' \in [ Actors -> Snapshots \cup {None} ] /\ Stores(items', saving', cache)
         /\ \A b \in Actors \ {"anchor"} : outbox'[b] = outbox[b]
<1>1. "anchor" \in Actors /\ current \in Items /\ "settled" \in Closed /\ "cancelled" \in Closed
  BY Facts, ClosedIs DEF EndCurrent, Actors
<1>2. CASE Sold("anchor", current)
  <2>1. CloseOf("anchor", current, "settled", "auction.settled")
    BY <1>1, <1>2, ClosesAre
  <2> QED BY <1>1, <2>1, CloseShows
<1>3. CASE Skipped(current)
  <2>1. CloseOf("anchor", current, "cancelled", "auction.cancelled")
    BY <1>1, <1>3, ClosesAre
  <2> QED BY <1>1, <2>1, CloseShows
<1>4. CASE UNCHANGED <<items, outbox, saving>>
  <2>1. UNCHANGED <<items, outbox, saving>>
    BY <1>4
  <2> QED BY <2>1, Facts, SameRows DEF RoomTells, Stores
<1> QED BY <1>2, <1>3, <1>4 DEF EndCurrent

LEMMA EndCurrentShows ==
  ASSUME ShownInv, EndCurrent
  PROVE  ShownInv'
<1>1. /\ items' \in Rows /\ Grows(items, items')
      /\ outbox' \in [ Actors -> Seq(Events) ] /\ RoomTells(items', outbox', log)
      /\ saving' \in [ Actors -> Snapshots \cup {None} ] /\ Stores(items', saving', cache)
  BY EndCurrentIs
<1>2. /\ UNCHANGED <<current, cache, log, link, wire, sent, lastSeq, rest, page, moves, faults>>
      /\ closing' \in Items
  BY Facts DEF EndCurrent, linkVars
<1>3. WireSound(items', Len(log), wire)
  BY <1>1, WireGrows, Facts
<1> QED BY <1>1, <1>2, <1>3, Facts, RoomMoves

LEMMA StripOfIs ==
  ASSUME ShownInv, NEW next \in Items \cup {None}
  PROVE  StripOf(next) \in Strips /\ TrueStrip(items, StripOf(next))
<1> DEFINE S == { j \in Items : ~IsOpen(j) } \cup ({next} \ {None})
           strip == [ i \in S |-> items[i].status ]
<1>1. StripOf(next) = strip
  BY DEF StripOf
<1>2. S \in SUBSET Items
  OBVIOUS
<1>3. \A i \in Items : items[i].status \in { "pending", "running" } \cup Closed
  BY Facts, SnapTyped
<1>4. strip = [ i \in S |-> strip[i] ] /\ \A i \in S : strip[i] = items[i].status /\ i \in Items
  BY <1>2
<1>5. TrueStrip(items, strip)
  BY DEF TrueStrip
<1>6. strip \in Strips
  <2> HIDE DEF strip, S
  <2> QED BY <1>2, <1>3, <1>4, MadeStrip
<1> QED BY <1>1, <1>5, <1>6

SwitchEvent(next) ==
  [ Event("session.switch", IF next = None THEN None ELSE items[next]) EXCEPT !.strip = StripOf(None) ]

LEMMA SwitchOnIs ==
  ASSUME ShownInv, SwitchOn
  PROVE  \E next \in Items \cup {None} :
           LET e == SwitchEvent(next)
           IN  /\ current' = next
               /\ e \in Events /\ Tells(items, e)
               /\ outbox["anchor"] = << >> /\ outbox' = [ outbox EXCEPT !["anchor"] = << e >> ]
               /\ saving' = IF next = None THEN saving ELSE [ saving EXCEPT !["anchor"] = items[next] ]
<1> DEFINE next == IF NextPending(closing) = {} THEN None ELSE Least(NextPending(closing))
           snap == IF next = None THEN None ELSE items[next]
           e == [ Event("session.switch", snap) EXCEPT !.strip = StripOf(None) ]
<1>1. /\ closing \in Items /\ current' = next /\ outbox["anchor"] = << >>
      /\ outbox' = [ outbox EXCEPT !["anchor"] = << e >> ]
      /\ saving' = IF next = None THEN saving ELSE [ saving EXCEPT !["anchor"] = items[next] ]
  BY Facts DEF SwitchOn
<1>2. next \in Items \cup {None}
  <2>1. NextPending(closing) \subseteq Items /\ Items \subseteq Nat
    BY ItemsAre DEF NextPending
  <2>2. NextPending(closing) # {} => Least(NextPending(closing)) \in NextPending(closing)
    <3>1. ASSUME NextPending(closing) # {}
          PROVE  \E j \in NextPending(closing) : \A k \in NextPending(closing) : j <= k
      <4>1. NextPending(closing) \subseteq Nat
        BY <2>1
      <4> QED BY <3>1, <4>1, HasLeast
    <3> QED BY <3>1 DEF Least
  <2> QED BY <2>1, <2>2
<1> HIDE DEF next
<1>3. snap \in Snapshots \cup {None} /\ Behind(items, snap)
  BY <1>2, Facts DEF Behind
<1> HIDE DEF snap
<1>4. StripOf(None) \in Strips /\ TrueStrip(items, StripOf(None))
  BY StripOfIs
<1>5. e = [ type |-> "session.switch", seq |-> 0, snap |-> snap, strip |-> StripOf(None) ]
  BY DEF Event
<1> HIDE DEF e
<1>6. e \in Events /\ e.type = "session.switch" /\ e.snap = snap /\ e.strip = StripOf(None)
  BY <1>3, <1>4, <1>5 DEF Events, EventTypes
<1>7. Tells(items, e)
  BY <1>3, <1>4, <1>6 DEF Tells
<1>8. e = SwitchEvent(next)
  BY DEF e, snap, SwitchEvent
<1> QED BY <1>1, <1>2, <1>6, <1>7, <1>8

LEMMA SwitchOnShows ==
  ASSUME ShownInv, SwitchOn
  PROVE  ShownInv'
<1>1. PICK next \in Items \cup {None} :
        /\ current' = next
        /\ SwitchEvent(next) \in Events /\ Tells(items, SwitchEvent(next))
        /\ outbox' = [ outbox EXCEPT !["anchor"] = << SwitchEvent(next) >> ]
        /\ saving' = IF next = None THEN saving ELSE [ saving EXCEPT !["anchor"] = items[next] ]
  BY SwitchOnIs
<1> DEFINE e == SwitchEvent(next)
<1>2. e \in Events /\ Tells(items, e) /\ outbox' = [ outbox EXCEPT !["anchor"] = << e >> ]
  BY <1>1
<1> HIDE DEF e
<1>3. << e >> \in Seq(Events) /\ \A k \in DOMAIN << e >> : << e >>[k] = e
  BY <1>2
<1>4. outbox' \in [ Actors -> Seq(Events) ] /\ \A a \in Actors : outbox'[a] \in { outbox[a], << e >> }
  BY <1>2, <1>3, Facts
<1>5. RoomTells(items, outbox', log)
  BY <1>2, <1>3, <1>4, Facts DEF RoomTells
<1>6. /\ UNCHANGED <<items, cache, log, link, wire, sent, lastSeq, rest, page, moves, faults>>
      /\ closing' = None /\ current' \in Items \cup {None}
  BY <1>1 DEF SwitchOn, linkVars
<1>7. items' \in Rows /\ Grows(items, items') /\ RoomTells(items', outbox', log) /\ WireSound(items', Len(log), wire')
  BY <1>5, <1>6, Facts, SameRows DEF RoomTells, WireSound
<1>8. saving' \in [ Actors -> Snapshots \cup {None} ] /\ Stores(items', saving', cache')
  <2>1. CASE next = None
    BY <1>1, <1>6, <2>1, Facts DEF Stores
  <2>2. CASE next # None
    <3>1. items[next] \in Snapshots /\ Behind(items, items[next])
      BY <2>2, Facts DEF Behind
    <3>2. /\ saving' \in [ Actors -> Snapshots \cup {None} ]
          /\ \A a \in Actors : saving'[a] \in { saving[a], items[next] }
      BY <1>1, <2>2, <3>1, Facts
    <3> QED BY <1>6, <3>1, <3>2, Facts DEF Stores
  <2> QED BY <2>1, <2>2
<1> QED BY <1>4, <1>6, <1>7, <1>8, Facts, RoomMoves

LEMMA ByRoomIs == ASSUME ShownInv  PROVE ByRoom \in Items
BY ItemsAre, Facts DEF ByRoom

(* What a reader of the snapshot gets.                                     *)
LEMMA CachedIs ==
  ASSUME ShownInv
  PROVE  Cached \in Snapshots /\ Behind(items, Cached) /\ Cached # None
<1>1. /\ items[ByRoom] \in Snapshots /\ items[ByRoom].item = ByRoom /\ items[ByRoom].price \in Nat
      /\ Behind(items, items[ByRoom])
  BY ByRoomIs, Facts DEF Behind
<1>2. cache \in Snapshots \cup {None} /\ Behind(items, cache)
  BY Facts DEF Stores
<1>3. Cached \in Snapshots /\ Behind(items, Cached)
  BY <1>1, <1>2 DEF Cached
<1> QED BY <1>3, NoneIsNoSnapshot

LEMMA RememberShows ==
  ASSUME ShownInv, NEW a \in Actors, Remember(a)
  PROVE  ShownInv'
<1>1. /\ cache' \in { saving[a], cache, None } /\ saving' = [ saving EXCEPT ![a] = None ]
      /\ UNCHANGED <<items, current, closing, outbox, log, linkVars, rest, page, moves>>
  BY DEF Remember
<1>2. faults' \in Nat
  <2>1. faults' = faults \/ faults' = faults + 1
    BY DEF Remember, Fault
  <2> QED BY <2>1, Facts
<1>3. /\ saving' \in [ Actors -> Snapshots \cup {None} ]
      /\ \A b \in Actors : saving'[b] \in { saving[b], None }
  BY <1>1, Facts
<1>4. Behind(items, None)
  BY DEF Behind
<1>5. cache' \in Snapshots \cup {None} /\ Stores(items, saving', cache')
  BY <1>1, <1>3, <1>4, Facts DEF Stores
<1>6. UNCHANGED <<items, current, closing, outbox, log, link, wire, sent, lastSeq, rest, page, moves>>
  BY <1>1 DEF linkVars
<1>7. RoomTypes' /\ LinkTypes'
  BY <1>2, <1>3, <1>5, <1>6 DEF ShownInv, RoomTypes, LinkTypes
<1>8. /\ page' \in Pages /\ RoomTells(items', outbox', log') /\ WireSound(items', Len(log'), wire')
      /\ PageBehind(items', page') /\ RestTrue(items', rest') /\ Stores(items', saving', cache')
  BY <1>5, <1>6 DEF ShownInv, RoomTells, WireSound, PageBehind, RestTrue, Stores
<1> QED BY <1>7, <1>8, ShownNext

LEMMA EventMsgIs ==
  ASSUME NEW e \in Events
  PROVE  /\ EventMsg(e) \in Messages /\ EventMsg(e).type = "event" /\ EventMsg(e).event = e
         /\ Number(EventMsg(e)) = e.seq
         /\ \A its, top : e.seq <= top /\ Tells(its, e) => Sound(its, top, EventMsg(e))
<1>1. EventMsg(e) \in Messages /\ EventMsg(e).type = "event" /\ EventMsg(e).event = e
  BY DEF EventMsg, Messages
<1>2. Number(EventMsg(e)) = e.seq
  BY <1>1 DEF Number
<1> QED BY <1>1, <1>2 DEF Sound

LEMMA ErrorMsgIs ==
  ErrorMsg \in Messages /\ ErrorMsg.type = "error" /\ \A its, top : top \in Nat => Sound(its, top, ErrorMsg)
<1>1. ErrorMsg \in Messages /\ ErrorMsg.type = "error"
  BY DEF ErrorMsg, Messages
<1> QED BY <1>1 DEF Sound, Number

LEMMA PublishIs ==
  ASSUME ShownInv, NEW a \in Actors, Publish(a)
  PROVE  \E e \in Events :
           /\ outbox[a] # << >> /\ e = [ Head(outbox[a]) EXCEPT !.seq = Len(log) + 1 ]
           /\ Tells(items, e) /\ e.seq = Len(log) + 1
           /\ e.type = Head(outbox[a]).type
           /\ log' = Append(log, e) /\ wire' = ToPage(EventMsg(e))
           /\ outbox' = [ outbox EXCEPT ![a] = Tail(outbox[a]) ]
<1> DEFINE h == Head(outbox[a])
           e == [ h EXCEPT !.seq = Len(log) + 1 ]
<1>1. /\ outbox[a] # << >> /\ log' = Append(log, e) /\ wire' = ToPage(EventMsg(e))
      /\ outbox' = [ outbox EXCEPT ![a] = Tail(outbox[a]) ]
  BY DEF Publish
<1>2. h \in Events /\ Tells(items, h)
  <2>1. outbox[a] \in Seq(Events) /\ RoomTells(items, outbox, log)
    BY Facts
  <2>2. h \in Events /\ h = outbox[a][1] /\ 1 \in DOMAIN outbox[a]
    BY <1>1, <2>1, TailIs
  <2> QED BY <2>1, <2>2 DEF RoomTells
<1>3. Len(log) + 1 \in Nat
  BY Facts
<1> HIDE DEF h
<1>4. /\ e \in Events /\ e.seq = Len(log) + 1 /\ e.type = h.type /\ e.snap = h.snap /\ e.strip = h.strip
  BY <1>2, <1>3 DEF Events
<1> HIDE DEF e
<1>5. Tells(items, e)
  BY <1>2, <1>4 DEF Tells
<1> QED BY <1>1, <1>4, <1>5 DEF e, h

LEMMA PublishShows ==
  ASSUME ShownInv, NEW a \in Actors, Publish(a)
  PROVE  ShownInv'
<1>1. PICK e \in Events :
        /\ outbox[a] # << >> /\ Tells(items, e) /\ e.seq = Len(log) + 1
        /\ log' = Append(log, e) /\ wire' = ToPage(EventMsg(e))
        /\ outbox' = [ outbox EXCEPT ![a] = Tail(outbox[a]) ]
  BY PublishIs
<1>2. /\ UNCHANGED <<items, current, closing, saving, cache, link, sent, lastSeq, rest, page, moves, faults>>
  BY DEF Publish
<1>3. /\ log' \in Seq(Events) /\ Len(log') = Len(log) + 1 /\ Len(log) \in Nat
      /\ \A k \in DOMAIN log' : log'[k] = e \/ (k \in DOMAIN log /\ log'[k] = log[k])
  BY <1>1, Facts, AppendIs
<1>4. /\ outbox' \in [ Actors -> Seq(Events) ]
      /\ \A b \in Actors : outbox'[b] = IF b = a THEN Tail(outbox[a]) ELSE outbox[b]
  <2>1. Tail(outbox[a]) \in Seq(Events)
    BY <1>1, Facts, TailIs
  <2> QED BY <1>1, <2>1, Facts
<1>5. RoomTells(items, outbox', log')
  <2>1. \A k \in DOMAIN Tail(outbox[a]) : k + 1 \in DOMAIN outbox[a] /\ Tail(outbox[a])[k] = outbox[a][k + 1]
    BY <1>1, Facts, TailIs
  <2>2. RoomTells(items, outbox, log)
    BY Facts
  <2> QED BY <1>1, <1>3, <1>4, <2>1, <2>2 DEF RoomTells
<1>6. wire' \in Seq(Messages) /\ WireSound(items, Len(log'), wire')
  <2>1. WireSound(items, Len(log'), wire)
    BY <1>3, Facts, WireGrows, SameRows
  <2>2. EventMsg(e) \in Messages /\ Sound(items, Len(log'), EventMsg(e))
    BY <1>1, <1>3, EventMsgIs
  <2> QED BY <1>1, <2>1, <2>2, Facts, ToPageSound
<1>7. RoomTypes' /\ LinkTypes'
  <2>1. lastSeq' \in 0..Len(log')
    BY <1>2, <1>3, Facts
  <2> QED BY <1>2, <1>3, <1>4, <1>6, <2>1 DEF ShownInv, RoomTypes, LinkTypes
<1>8. page' \in Pages /\ PageBehind(items, page') /\ RestTrue(items, rest') /\ items' = items
  BY <1>2 DEF ShownInv
<1>9. Stores(items', saving', cache')
  BY <1>2, Facts DEF Stores
<1> QED BY <1>5, <1>6, <1>7, <1>8, <1>9, ShownNext

TickEvent == Event("countdown.tick", Cached)

LEMMA TickEventIs ==
  ASSUME ShownInv
  PROVE  /\ TickEvent \in Events /\ Tells(items, TickEvent) /\ TickEvent.seq = 0
         /\ TickEvent.type = "countdown.tick"
<1> DEFINE snap == Cached
<1>1. snap \in Snapshots /\ Behind(items, snap)
  BY CachedIs
<1> HIDE DEF snap
<1>2. TickEvent = [ type |-> "countdown.tick", seq |-> 0, snap |-> snap, strip |-> NoStrip ]
  BY DEF TickEvent, Event, snap
<1>3. NoStrip \in Strips
  BY NoStripIs
<1>4. TickEvent \in Events
  BY <1>1, <1>2, <1>3 DEF Events, EventTypes
<1>5. TickEvent.snap = snap /\ TickEvent.strip = NoStrip /\ TickEvent.seq = 0 /\ TickEvent.type = "countdown.tick"
  BY <1>2
<1> QED BY <1>1, <1>4, <1>5, NoStripIs DEF Tells

LEMMA TickShows ==
  ASSUME ShownInv, Tick
  PROVE  ShownInv'
<1>1. /\ wire' = ToPage(EventMsg(TickEvent)) /\ moves' = moves + 1
      /\ cache' = Cached
      /\ UNCHANGED <<items, current, closing, outbox, saving, log, link, sent, lastSeq, rest, page, faults>>
  BY DEF Tick, TickEvent
<1>2. EventMsg(TickEvent) \in Messages /\ Sound(items, Len(log), EventMsg(TickEvent))
  BY TickEventIs, EventMsgIs, Facts
<1>3. wire' \in Seq(Messages) /\ WireSound(items, Len(log), wire')
  BY <1>1, <1>2, Facts, ToPageSound
<1>4. items' \in Rows /\ Grows(items, items') /\ moves' \in Nat
  BY <1>1, Facts, SameRows
<1>5. RoomTells(items', outbox', log) /\ WireSound(items', Len(log), wire') /\ outbox' \in [ Actors -> Seq(Events) ]
  BY <1>1, <1>3, Facts DEF RoomTells
<1>6. cache' \in Snapshots \cup {None} /\ Stores(items', saving', cache')
  BY <1>1, CachedIs, Facts DEF Stores
<1> QED BY <1>1, <1>3, <1>4, <1>5, <1>6, Facts, RoomMoves

LEMMA TakeBidShows ==
  ASSUME ShownInv, TakeBid
  PROVE  ShownInv'
<1>1. /\ sent # << >> /\ sent' = Tail(sent)
      /\ UNCHANGED <<current, closing, cache, log, link, lastSeq, rest, page, moves, faults>>
  BY DEF TakeBid
<1>2. sent' \in Seq([ amount : 1..Cap, item : Items ]) /\ Head(sent).amount \in Nat
  <2>1. Head(sent) \in [ amount : 1..Cap, item : Items ]
    BY <1>1, Facts, TailIs
  <2>2. Tail(sent) \in Seq([ amount : 1..Cap, item : Items ])
    BY <1>1, Facts, TailIs
  <2> QED BY <1>1, <2>1, <2>2, ItemsAre
<1>3. CASE Bid("me", ByRoom, Head(sent).amount) /\ UNCHANGED wire
  <2>1. /\ items' \in Rows /\ Grows(items, items')
        /\ outbox' \in [ Actors -> Seq(Events) ] /\ RoomTells(items', outbox', log)
        /\ saving' \in [ Actors -> Snapshots \cup {None} ] /\ Stores(items', saving', cache)
    BY <1>2, <1>3, ByRoomIs, BidShows
  <2>2. WireSound(items', Len(log), wire)
    BY <2>1, WireGrows, Facts
  <2> QED BY <1>1, <1>2, <1>3, <2>1, <2>2, Facts, RoomMoves
<1>4. CASE Refused /\ UNCHANGED <<items, outbox, saving>>
  <2>1. wire' \in Seq(Messages) /\ WireSound(items, Len(log), wire')
    BY <1>4, Facts, ErrorMsgIs, ToPageSound DEF Refused
  <2>2. items' \in Rows /\ Grows(items, items')
    BY <1>4, Facts, SameRows
  <2>3. RoomTells(items', outbox', log) /\ WireSound(items', Len(log), wire') /\ outbox' \in [ Actors -> Seq(Events) ]
    BY <1>4, <2>1, Facts DEF RoomTells
  <2>4. saving' \in [ Actors -> Snapshots \cup {None} ] /\ Stores(items', saving', cache)
    BY <1>4, Facts DEF Stores
  <2> QED BY <1>1, <1>2, <2>1, <2>2, <2>3, <2>4, Facts, RoomMoves
<1> QED BY <1>3, <1>4 DEF TakeBid

(* The page moves and the room does not.                                   *)
LEMMA PageMoves ==
  ASSUME ShownInv, page' \in Pages, PageBehind(items, page'),
         wire' \in Seq(Messages), WireSound(items, Len(log), wire'),
         link' \in { "none", "open", "down" },
         sent' \in Seq([ amount : 1..Cap, item : Items ]), lastSeq' \in 0..Len(log),
         rest' \in [ strip : Strips, title : Items \cup {None} ] \cup {None}, RestTrue(items, rest'),
         moves' \in Nat, faults' \in Nat,
         UNCHANGED <<items, current, closing, outbox, saving, log>>,
         cache' = cache \/ cache' = Cached
  PROVE  ShownInv'
<1>1. UNCHANGED <<items, current, closing, outbox, saving, log>>
  OBVIOUS
<1>4. cache' \in Snapshots \cup {None} /\ Stores(items', saving', cache')
  BY CachedIs, Facts DEF Stores
<1>2. RoomTypes' /\ LinkTypes'
  BY <1>1, <1>4 DEF ShownInv, RoomTypes, LinkTypes
<1>3. /\ RoomTells(items', outbox', log') /\ WireSound(items', Len(log'), wire')
      /\ PageBehind(items', page') /\ RestTrue(items', rest')
  <2>1. RoomTells(items, outbox, log)
    BY Facts
  <2> QED BY <1>1, <2>1 DEF RoomTells, WireSound, PageBehind, RestTrue
<1> QED BY <1>2, <1>3, <1>4, ShownNext

LEMMA LinkFacts ==
  ASSUME ShownInv
  PROVE  /\ rest \in [ strip : Strips, title : Items \cup {None} ] \cup {None}
         /\ RestTrue(items, rest) /\ RestTrue(items, None)
BY DEF ShownInv, LinkTypes, RestTrue

LEMMA ServeRoomShows ==
  ASSUME ShownInv, ServeRoom
  PROVE  ShownInv'
<1>1. rest' = [ strip |-> StripOf(current), title |-> current ] /\ UNCHANGED <<roomVars, linkVars, page, moves, faults>>
  BY DEF ServeRoom
<1>2. StripOf(current) \in Strips /\ TrueStrip(items, StripOf(current)) /\ current \in Items \cup {None}
  BY Facts, StripOfIs
<1>3. rest' \in [ strip : Strips, title : Items \cup {None} ] /\ RestTrue(items, rest')
  BY <1>1, <1>2 DEF RestTrue
<1>4. UNCHANGED <<link, wire, sent, lastSeq, page, moves, faults>> /\ UNCHANGED roomVars
  BY <1>1 DEF linkVars
<1> QED BY <1>3, <1>4, Facts, PageMoves DEF roomVars

(* A change of the page that only shows less, or waits.                    *)
LEMMA PageChanges ==
  ASSUME ShownInv, page' \in Pages, PageBehind(items, page'), UNCHANGED roomVars,
         UNCHANGED <<link, wire, lastSeq>>,
         sent' \in Seq([ amount : 1..Cap, item : Items ]),
         rest' \in { rest, None }, moves' \in Nat, faults' \in Nat
  PROVE  ShownInv'
<1>1. /\ rest' \in [ strip : Strips, title : Items \cup {None} ] \cup {None}
      /\ RestTrue(items, rest')
  BY LinkFacts
<1> QED BY <1>1, Facts, PageMoves DEF roomVars

LEMMA LoadRoomShows ==
  ASSUME ShownInv, LoadRoom
  PROVE  ShownInv'
<1> DEFINE title == IF rest.title = None THEN page.title ELSE rest.title
           p == [ page EXCEPT !.phase = "ready", !.strip = rest.strip, !.title = title ]
<1>1. page' = p /\ rest' = None /\ rest # None /\ UNCHANGED <<roomVars, linkVars, moves, faults>>
  BY DEF LoadRoom
<1>2. /\ rest.strip \in Strips /\ TrueStrip(items, rest.strip) /\ title \in Items \cup {None}
  BY <1>1, LinkFacts, Facts DEF RestTrue, Pages
<1> HIDE DEF title
<1>3. p \in Pages /\ p.strip = rest.strip /\ p.snap = page.snap /\ p.event = page.event /\ p.bar = page.bar
  BY <1>2, Facts DEF Pages
<1> HIDE DEF p
<1>4. PageBehind(items, p)
  BY <1>2, <1>3, Facts DEF PageBehind
<1>5. UNCHANGED <<link, wire, sent, lastSeq, moves, faults>>
  BY <1>1 DEF linkVars
<1> QED BY <1>1, <1>3, <1>4, <1>5, Facts, PageChanges

LEMMA LoadFailsShows ==
  ASSUME ShownInv, LoadFails
  PROVE  ShownInv'
<1>1. /\ faults' \in Nat /\ rest' = None /\ UNCHANGED <<roomVars, link, wire, sent, lastSeq, moves>>
  <2>1. faults' = faults + 1
    BY DEF LoadFails, Fault
  <2>2. rest' = None /\ UNCHANGED <<roomVars, linkVars, moves>>
    BY DEF LoadFails
  <2> QED BY <2>1, <2>2, Facts DEF linkVars
<1>2. /\ page' \in Pages /\ page'.strip = page.strip /\ page'.snap = page.snap
      /\ page'.event = page.event /\ page'.bar = page.bar
  BY Facts DEF LoadFails, Pages
<1>3. PageBehind(items, page')
  BY <1>2, Facts DEF PageBehind
<1> QED BY <1>1, <1>2, <1>3, Facts, PageChanges

Replay == SyncMsg(Len(log), Cached, SubSeq(log, lastSeq + 1, Len(log)))

LEMMA SyncMsgIs ==
  ASSUME ShownInv, NEW events \in Seq(Events), \A j \in DOMAIN events : Tells(items, events[j])
  PROVE  LET m == SyncMsg(Len(log), Cached, events)
         IN  /\ m \in Messages /\ Sound(items, Len(log), m)
             /\ m.type = "sync" /\ m.seq = Len(log) /\ m.events = events
<1> DEFINE m == SyncMsg(Len(log), Cached, events)
<1>1. Cached \in Snapshots /\ Behind(items, Cached) /\ Len(log) \in Nat
  BY CachedIs, Facts
<1>2. /\ m \in Messages /\ m.type = "sync" /\ m.seq = Len(log) /\ m.events = events
      /\ m.snap = Cached
  BY <1>1 DEF SyncMsg, Messages
<1> HIDE DEF m
<1>4. Sound(items, Len(log), m)
  BY <1>1, <1>2 DEF Sound, Number
<1> QED BY <1>2, <1>4 DEF m

LEMMA ReplayIs ==
  ASSUME ShownInv, lastSeq < Len(log)
  PROVE  LET events == SubSeq(log, lastSeq + 1, Len(log))
         IN  /\ events \in Seq(Events) /\ DOMAIN events = 1..(Len(log) - lastSeq)
             /\ \A j \in DOMAIN events : events[j] = log[lastSeq + j] /\ lastSeq + j \in DOMAIN log
             /\ \A j \in DOMAIN events : Tells(items, events[j])
<1> DEFINE events == SubSeq(log, lastSeq + 1, Len(log))
<1>1. lastSeq \in Nat /\ Len(log) \in Nat /\ log \in Seq(Events) /\ DOMAIN log = 1..Len(log)
  BY Facts
<1>2. \A i \in (lastSeq + 1)..Len(log) : log[i] \in Events
  BY <1>1
<1>3. /\ events \in Seq(Events)
      /\ Len(events) = IF lastSeq + 1 <= Len(log) THEN Len(log) - (lastSeq + 1) + 1 ELSE 0
      /\ \A i \in 1..(Len(log) - (lastSeq + 1) + 1) : events[i] = log[(lastSeq + 1) + i - 1]
  <2>1. lastSeq + 1 \in Int /\ Len(log) \in Int
    BY <1>1
  <2> QED BY <1>2, <2>1, SubSeqProperties
<1> HIDE DEF events
<1>4. DOMAIN events = 1..(Len(log) - lastSeq)
  <2>1. Len(events) = Len(log) - lastSeq
    <3>1. lastSeq + 1 <= Len(log) /\ Len(log) - (lastSeq + 1) + 1 = Len(log) - lastSeq
      BY <1>1
    <3> QED BY <1>3, <3>1
  <2>2. DOMAIN events = 1..Len(events)
    BY <1>3
  <2> QED BY <2>1, <2>2
<1>5. \A j \in DOMAIN events : events[j] = log[lastSeq + j] /\ lastSeq + j \in DOMAIN log
  <2> SUFFICES ASSUME NEW j \in DOMAIN events  PROVE events[j] = log[lastSeq + j] /\ lastSeq + j \in DOMAIN log
    OBVIOUS
  <2>1. j \in 1..(Len(log) - lastSeq)
    BY <1>4
  <2>2. (lastSeq + 1) + j - 1 = lastSeq + j /\ lastSeq + j \in 1..Len(log) /\ j \in 1..(Len(log) - (lastSeq + 1) + 1)
    BY <1>1, <2>1
  <2> QED BY <1>1, <1>3, <2>2
<1>6. \A j \in DOMAIN events : Tells(items, events[j])
  BY <1>5, Facts DEF RoomTells
<1> QED BY <1>3, <1>4, <1>5, <1>6 DEF events

(* The hub greets a page, and replays what it has missed.                  *)
LEMMA GreetingIs ==
  ASSUME ShownInv
  PROVE  /\ Greeting \in Messages /\ Sound(items, Len(log), Greeting)
         /\ Greeting.type = "sync" /\ Greeting.seq = Len(log) /\ Greeting.events = << >>
<1>1. << >> \in Seq(Events) /\ \A j \in DOMAIN << >> : Tells(items, << >>[j])
  OBVIOUS
<1> QED BY <1>1, SyncMsgIs DEF Greeting

LEMMA GreetsIs ==
  ASSUME ShownInv, Greets
  PROVE  /\ wire' \in Seq(Messages) /\ wire' # << >>
         /\ wire'[1] = Greeting
         /\ Len(wire') = IF 0 < lastSeq /\ lastSeq < Len(log) THEN 2 ELSE 1
         /\ 0 < lastSeq /\ lastSeq < Len(log) => wire'[2] = Replay
<1> DEFINE late == 0 < lastSeq /\ lastSeq < Len(log)
           one == << Greeting >>
           more == IF late THEN << Replay >> ELSE << >>
<1>1. wire' = one \o more
  BY DEF Greets, Replay
<1>2. one \in Seq(Messages) /\ Len(one) = 1 /\ one[1] = Greeting
  BY GreetingIs
<1>3. late => Replay \in Messages
  BY ReplayIs, SyncMsgIs DEF Replay
<1>4. more \in Seq(Messages) /\ Len(more) = (IF late THEN 1 ELSE 0) /\ (late => more[1] = Replay)
  <2> HIDE DEF late
  <2> QED BY <1>3
<1> HIDE DEF more, one
<1>5. /\ one \o more \in Seq(Messages) /\ Len(one \o more) = Len(one) + Len(more)
      /\ \A k \in 1..Len(one) + Len(more) : (one \o more)[k] = IF k <= Len(one) THEN one[k] ELSE more[k - Len(one)]
  BY <1>2, <1>4, ConcatProperties
<1>6. CASE late
  BY <1>1, <1>2, <1>4, <1>5, <1>6
<1>7. CASE ~late
  BY <1>1, <1>2, <1>4, <1>5, <1>7
<1> QED BY <1>6, <1>7

(* Or it turns it away, with an error at least.                            *)
LEMMA TurnsAwayIs ==
  ASSUME ShownInv, TurnsAway
  PROVE  /\ wire' \in Seq(Messages) /\ DOMAIN wire' = {1, 2} /\ Len(wire') = 2
         /\ wire'[1] \in { Greeting, ErrorMsg } /\ wire'[2] = ErrorMsg
         /\ wire'[1] = Greeting => faults' = faults + 1
         /\ faults' \in Nat /\ faults <= faults'
<1>1. wire' = << ErrorMsg, ErrorMsg >> \/ wire' = << Greeting, ErrorMsg >>
  BY DEF TurnsAway
<1>2. ErrorMsg \in Messages /\ Greeting \in Messages /\ Greeting # ErrorMsg
  <2>1. Greeting.type # ErrorMsg.type
    BY GreetingIs, ErrorMsgIs
  <2> QED BY <2>1, ErrorMsgIs, GreetingIs
<1>3. /\ wire' \in Seq(Messages) /\ DOMAIN wire' = {1, 2} /\ Len(wire') = 2
      /\ wire'[1] \in { Greeting, ErrorMsg } /\ wire'[2] = ErrorMsg
  <2> HIDE DEF ErrorMsg, Greeting
  <2>1. \A m \in Messages : LET w == << m, ErrorMsg >>
                           IN  w \in Seq(Messages) /\ DOMAIN w = {1, 2} /\ Len(w) = 2 /\ w[1] = m /\ w[2] = ErrorMsg
    BY <1>2
  <2> QED BY <1>1, <1>2, <2>1
<1>4. faults' = faults \/ faults' = faults + 1
  BY DEF TurnsAway, Fault
<1>5. wire'[1] = Greeting => faults' = faults + 1
  <2>1. wire' = << Greeting, ErrorMsg >> \/ wire'[1] = ErrorMsg
    BY <1>1
  <2>2. CASE wire' = << ErrorMsg, ErrorMsg >> /\ UNCHANGED faults
    BY <1>2, <2>2
  <2>3. CASE Fault
    BY <2>3 DEF Fault
  <2> QED BY <2>2, <2>3 DEF TurnsAway
<1>6. faults' \in Nat /\ faults <= faults'
  BY <1>4, Facts
<1> QED BY <1>3, <1>5, <1>6

LEMMA ConnectShows ==
  ASSUME ShownInv, Connect
  PROVE  ShownInv'
<1>1. /\ link' = "open" /\ UNCHANGED <<sent, lastSeq, rest, page, moves>> /\ cache' = Cached
      /\ UNCHANGED <<items, current, closing, outbox, saving, log>>
  BY DEF Connect
<1>2. wire' \in Seq(Messages) /\ WireSound(items, Len(log), wire') /\ faults' \in Nat
  <2>1. CASE Greets
    <3>1. faults' \in Nat
      BY <2>1, Facts DEF Greets
    <3>2. \A k \in DOMAIN wire' : Sound(items, Len(log), wire'[k])
      <4>1. 0 < lastSeq /\ lastSeq < Len(log) => Sound(items, Len(log), Replay)
        BY ReplayIs, SyncMsgIs DEF Replay
      <4>2. \A k \in DOMAIN wire' : k = 1 \/ (k = 2 /\ 0 < lastSeq /\ lastSeq < Len(log))
        BY <2>1, GreetsIs
      <4> QED BY <2>1, <4>1, <4>2, GreetsIs, GreetingIs
    <3> QED BY <2>1, <3>1, <3>2, GreetsIs DEF WireSound
  <2>2. CASE TurnsAway
    <3>1. Sound(items, Len(log), ErrorMsg)
      BY Facts, ErrorMsgIs
    <3> QED BY <2>2, <3>1, TurnsAwayIs, GreetingIs DEF WireSound
  <2> QED BY <2>1, <2>2 DEF Connect
<1> QED BY <1>1, <1>2, Facts, LinkFacts, PageMoves

LEMMA BreakShows ==
  ASSUME ShownInv, Break
  PROVE  ShownInv'
<1>1. link' = "down" /\ wire' = << >> /\ sent' = << >> /\ UNCHANGED <<lastSeq, rest, moves>> /\ UNCHANGED roomVars
  BY DEF Break
<1>2. faults' = faults + 1
  BY DEF Break, Fault
<1>3. faults' \in Nat
  BY <1>2, Facts
<1>4. /\ page' \in Pages /\ page'.strip = page.strip /\ page'.snap = page.snap
      /\ page'.event = page.event /\ page'.bar = page.bar
  BY Facts DEF Break, Pages
<1>5. PageBehind(items, page')
  BY <1>4, Facts DEF PageBehind
<1>6. wire' \in Seq(Messages) /\ WireSound(items, Len(log), wire') /\ sent' \in Seq([ amount : 1..Cap, item : Items ])
  BY <1>1 DEF WireSound
<1> QED BY <1>1, <1>3, <1>4, <1>5, <1>6, Facts, LinkFacts, PageMoves DEF roomVars

LEMMA UnbusyKeeps ==
  ASSUME NEW its \in Rows, NEW p \in Pages, PageBehind(its, p)
  PROVE  LET q == [ p EXCEPT !.isBidding = FALSE ]
         IN  /\ q \in Pages /\ PageBehind(its, q) /\ ~q.isBidding /\ q.phase = p.phase /\ q.title = p.title
<1> DEFINE q == [ p EXCEPT !.isBidding = FALSE ]
<1>1. /\ q \in Pages /\ ~q.isBidding /\ q.phase = p.phase /\ q.title = p.title
      /\ q.strip = p.strip /\ q.snap = p.snap /\ q.event = p.event /\ q.bar = p.bar
  BY DEF Pages
<1> HIDE DEF q
<1>2. PageBehind(its, q)
  BY <1>1 DEF PageBehind
<1> QED BY <1>1, <1>2 DEF q

(* What handling the next message does, by its kind.                       *)
LEMMA HandleIs ==
  ASSUME ShownInv, HandleMessage
  PROVE  LET m == Head(wire)
         IN  /\ link = "open" /\ wire # << >> /\ wire' = Tail(wire) /\ m \in Messages /\ Sound(items, Len(log), m)
             /\ UNCHANGED <<roomVars, link, sent, rest, moves, faults>>
             /\ page' \in Pages /\ PageBehind(items, page') /\ page'.phase = page.phase
             /\ page'.isBidding => page.isBidding
             /\ lastSeq' \in 0..Len(log)
             /\ \/ /\ m.type = "sync" /\ page' = Synced(page, m) /\ lastSeq' = MaxOf(lastSeq, m.seq)
                   /\ base' = IF base = None THEN m.seq ELSE base
                \/ /\ m.type = "event" /\ page' = Applied(page, m.event) /\ lastSeq' = MaxOf(lastSeq, m.event.seq)
                   /\ base' = base
                \/ /\ m.type = "error" /\ page'.isBidding = FALSE /\ page'.title = page.title
                   /\ lastSeq' = lastSeq /\ base' = base
<1> DEFINE m == Head(wire)
<1>1. /\ link = "open" /\ wire # << >> /\ wire' = Tail(wire)
      /\ UNCHANGED <<roomVars, link, sent, rest, moves, faults>>
      /\ \/ m.type = "sync" /\ page' = Synced(page, m) /\ lastSeq' = MaxOf(lastSeq, m.seq)
            /\ base' = IF base = None THEN m.seq ELSE base
         \/ m.type = "event" /\ page' = Applied(page, m.event) /\ lastSeq' = MaxOf(lastSeq, m.event.seq)
            /\ base' = base
         \/ m.type = "error" /\ page' = [ page EXCEPT !.isBidding = FALSE ]
            /\ lastSeq' = lastSeq /\ base' = base
  BY DEF HandleMessage
<1>2. m \in Messages /\ Sound(items, Len(log), m)
  BY <1>1, Facts, TailSound
<1> HIDE DEF m
<1>3. items \in Rows /\ page \in Pages /\ PageBehind(items, page) /\ lastSeq \in 0..Len(log) /\ Len(log) \in Nat
  BY Facts
<1>4. CASE m.type = "sync"
  <2>1. page' = Synced(page, m) /\ lastSeq' = MaxOf(lastSeq, m.seq) /\ base' = IF base = None THEN m.seq ELSE base
    BY <1>1, <1>4
  <2>2. m.seq \in Nat /\ m.seq <= Len(log)
    BY <1>2, <1>4, MessageTyped DEF Sound, Number
  <2>3. lastSeq' \in 0..Len(log)
    BY <1>3, <2>1, <2>2 DEF MaxOf
  <2>4. Behind(items, m.snap) /\ \A j \in DOMAIN m.events : Tells(items, m.events[j])
    BY <1>2, <1>4 DEF Sound
  <2>5. /\ page' \in Pages /\ PageBehind(items, page') /\ page'.phase = page.phase
        /\ page'.isBidding => page.isBidding
    BY <1>2, <1>3, <1>4, <2>1, <2>4, SyncedKeeps
  <2> QED BY <1>1, <1>2, <1>4, <2>1, <2>3, <2>5 DEF m
<1>5. CASE m.type = "event"
  <2>1. page' = Applied(page, m.event) /\ lastSeq' = MaxOf(lastSeq, m.event.seq) /\ base' = base
    BY <1>1, <1>5
  <2>2. m.event \in Events /\ m.event.seq \in Nat /\ m.event.seq <= Len(log) /\ Tells(items, m.event)
    <3>1. m.event \in Events
      BY <1>2, <1>5, MessageTyped
    <3> QED BY <1>2, <1>5, <3>1 DEF Sound, Number, Events
  <2>3. lastSeq' \in 0..Len(log)
    BY <1>3, <2>1, <2>2 DEF MaxOf
  <2>4. /\ page' \in Pages /\ PageBehind(items, page') /\ page'.phase = page.phase
        /\ page'.isBidding => page.isBidding
    BY <1>3, <2>1, <2>2, AppliedKeeps
  <2> QED BY <1>1, <1>2, <1>5, <2>1, <2>3, <2>4 DEF m
<1>6. CASE m.type = "error"
  <2>1. page' = [ page EXCEPT !.isBidding = FALSE ] /\ lastSeq' = lastSeq /\ base' = base
    BY <1>1, <1>6
  <2>2. /\ page' \in Pages /\ PageBehind(items, page') /\ page'.phase = page.phase
        /\ page'.isBidding = FALSE /\ page'.title = page.title
    BY <1>3, <2>1, UnbusyKeeps
  <2> QED BY <1>1, <1>2, <1>3, <1>6, <2>1, <2>2 DEF m
<1> QED BY <1>2, <1>4, <1>5, <1>6, MessageTyped

LEMMA HandleShows ==
  ASSUME ShownInv, HandleMessage
  PROVE  ShownInv'
<1>1. /\ wire # << >> /\ wire' = Tail(wire)
      /\ UNCHANGED <<link, sent, rest, moves, faults>> /\ UNCHANGED roomVars
      /\ page' \in Pages /\ PageBehind(items, page') /\ lastSeq' \in 0..Len(log)
  BY HandleIs
<1>2. wire' \in Seq(Messages) /\ WireSound(items, Len(log), wire')
  BY <1>1, Facts, TailSound
<1> QED BY <1>1, <1>2, Facts, LinkFacts, PageMoves DEF roomVars

LEMMA RenderShows ==
  ASSUME ShownInv, Render
  PROVE  ShownInv'
<1>1. /\ page' = [ NotifyEffect(BannerEffect(page)) EXCEPT !.event = NoEvent ]
      /\ UNCHANGED <<link, wire, sent, lastSeq, rest, moves, faults>> /\ UNCHANGED roomVars
  BY DEF Render, linkVars
<1>2. page' \in Pages /\ PageBehind(items, page')
  BY <1>1, Facts, RenderKeeps
<1> QED BY <1>1, <1>2, Facts, PageChanges

LEMMA HideOrDismissShows ==
  ASSUME ShownInv, HideBanner \/ DismissBar
  PROVE  ShownInv'
<1>1. UNCHANGED <<link, wire, sent, lastSeq, rest, moves, faults>> /\ UNCHANGED roomVars
  BY DEF HideBanner, DismissBar, linkVars
<1>2. /\ page' \in Pages /\ page'.strip = page.strip /\ page'.snap = page.snap
      /\ page'.event = page.event /\ page'.bar \in { page.bar, None }
  BY Facts DEF HideBanner, DismissBar, Pages
<1>3. PageBehind(items, page')
  BY <1>2, Facts DEF PageBehind
<1> QED BY <1>1, <1>2, <1>3, Facts, PageChanges

LEMMA PressBidShows ==
  ASSUME ShownInv, PressBid
  PROVE  ShownInv'
<1>1. /\ UNCHANGED <<link, wire, lastSeq, rest, faults>> /\ UNCHANGED roomVars
      /\ page' = [ page EXCEPT !.isBidding = TRUE ] /\ page.snap # None
  BY DEF PressBid, Biddable
<1>2. moves' \in Nat
  <2>1. moves' = moves + 1
    BY DEF PressBid
  <2> QED BY <2>1, Facts
<1>3. sent' \in Seq([ amount : 1..Cap, item : Items ])
  <2>1. PICK amount \in Offers(page.snap) : sent' = Append(sent, [ amount |-> amount, item |-> page.snap.item ])
    BY DEF PressBid
  <2>2. page.snap \in Snapshots
    BY <1>1, Facts DEF Pages
  <2>3. page.snap.item \in Items /\ page.snap.price \in Nat
    BY <2>2, SnapTyped
  <2>4. amount \in 1..Cap
    BY <2>1, <2>3, ItemsAre DEF Offers
  <2>5. [ amount |-> amount, item |-> page.snap.item ] \in [ amount : 1..Cap, item : Items ]
    BY <2>3, <2>4
  <2> QED BY <2>1, <2>5, Facts, AppendIs
<1>4. /\ page' \in Pages /\ page'.strip = page.strip /\ page'.snap = page.snap
      /\ page'.event = page.event /\ page'.bar = page.bar
  BY <1>1, Facts DEF Pages
<1>5. PageBehind(items, page')
  BY <1>4, Facts DEF PageBehind
<1> QED BY <1>1, <1>2, <1>3, <1>4, <1>5, Facts, PageChanges

LEMMA ShownStutters ==
  ASSUME ShownInv, UNCHANGED vars
  PROVE  ShownInv'
<1>1. UNCHANGED <<roomVars, linkVars, rest, page, moves, faults>>
  BY DEF vars
<1>2. UNCHANGED <<link, wire, sent, lastSeq, rest, page, moves, faults>> /\ UNCHANGED roomVars
  BY <1>1 DEF linkVars
<1> QED BY <1>2, Facts, PageChanges

LEMMA ShownStep ==
  ASSUME ShownInv, [Next]_vars
  PROVE  ShownInv'
<1>1. ASSUME NEW i \in Items, WorkerSettles(i)
      PROVE  ShownInv'
  BY <1>1, WorkerShows
<1>2. ASSUME NEW a \in Actors, Publish(a)
      PROVE  ShownInv'
  BY <1>2, PublishShows
<1>7. ASSUME NEW a \in Actors, Remember(a)
      PROVE  ShownInv'
  BY <1>7, RememberShows
<1>3. CASE RivalBids \/ EndCurrent \/ SwitchOn \/ Tick \/ TakeBid
  BY <1>3, RivalBidsShows, EndCurrentShows, SwitchOnShows, TickShows, TakeBidShows
<1>4. CASE ServeRoom \/ LoadRoom \/ LoadFails \/ Connect \/ Break \/ HandleMessage
  BY <1>4, ServeRoomShows, LoadRoomShows, LoadFailsShows, ConnectShows, BreakShows, HandleShows
<1>5. CASE Render \/ HideBanner \/ DismissBar \/ PressBid
  BY <1>5, RenderShows, HideOrDismissShows, PressBidShows
<1>6. CASE Rest \/ UNCHANGED vars
  BY <1>6, ShownStutters DEF Rest
<1> QED BY <1>1, <1>2, <1>3, <1>4, <1>5, <1>6, <1>7 DEF Next

--------------------------------------------------------------------------------
(* The bid button                                                          *)

(* What will give the button back, wherever it is.                         *)
Answer == \/ sent # << >>
          \/ \E i \in DOMAIN wire : Releases(wire[i])
          \/ \E i \in DOMAIN outbox["me"] : outbox["me"][i].type = "bid.new"

(* The page waits for an answer only on a connection that holds.           *)
AnswerInv == (page.isBidding /\ faults = 0) => link = "open" /\ Answer

LEMMA AnswerKept ==
  ASSUME AnswerInv, UNCHANGED <<faults, link>>, page'.isBidding => page.isBidding,
         link = "open" => sent' = sent, \A i \in DOMAIN outbox["me"] : i \in DOMAIN outbox'["me"] /\ outbox'["me"][i] = outbox["me"][i],
         \A i \in DOMAIN wire : i \in DOMAIN wire' /\ wire'[i] = wire[i]
  PROVE  AnswerInv'
<1> SUFFICES ASSUME page'.isBidding, faults = 0, link = "open"  PROVE Answer'
  BY DEF AnswerInv
<1>1. Answer
  BY DEF AnswerInv
<1> QED BY <1>1 DEF Answer, Releases

LEMMA ToPageKeeps ==
  ASSUME ShownInv, NEW m \in Messages
  PROVE  \A i \in DOMAIN wire : i \in DOMAIN ToPage(m) /\ ToPage(m)[i] = wire[i]
BY Facts, AppendIs DEF ToPage

LEMMA RoomAnswers ==
  ASSUME ShownInv, AnswerInv, RivalBids \/ EndCurrent \/ SwitchOn \/ \E i \in Items : WorkerSettles(i)
  PROVE  AnswerInv' /\ outbox'["me"] = outbox["me"]
<1>1. UNCHANGED <<linkVars, page, faults>>
  BY DEF RivalBids, EndCurrent, SwitchOn, WorkerSettles
<1>2. outbox'["me"] = outbox["me"]
  <2>1. "me" \in Actors \ {"rival"} /\ "me" \in Actors \ {"anchor"} /\ "me" \in Actors \ {"worker"} /\ {"worker", "anchor"} \subseteq Actors
    BY DEF Actors
  <2>2. CASE RivalBids
    <3>1. /\ current \in Items /\ items[current].price + 1 \in Nat
          /\ Bid("rival", current, items[current].price + 1)
      BY <2>2, Facts DEF RivalBids
    <3> QED BY <2>1, <3>1, BidShows
  <2>3. CASE EndCurrent
    BY <2>1, <2>3, EndCurrentIs
  <2>4. CASE SwitchOn
    BY <2>1, <2>4, Facts DEF SwitchOn
  <2>5. ASSUME NEW i \in Items, WorkerSettles(i)
        PROVE  outbox'["me"] = outbox["me"]
    <3>1. CloseOf("worker", i, "settled", "auction.settled") /\ "settled" \in Closed
      BY <2>1, <2>5, ClosesAre, ClosedIs DEF WorkerSettles
    <3> QED BY <2>1, <3>1, CloseShows
  <2> QED BY <2>2, <2>3, <2>4, <2>5
<1>3. UNCHANGED <<faults, link, sent, wire, page>>
  BY <1>1 DEF linkVars
<1>4. AnswerInv'
  BY <1>2, <1>3, AnswerKept
<1> QED BY <1>2, <1>4

LEMMA TickAnswers ==
  ASSUME ShownInv, AnswerInv, Tick
  PROVE  AnswerInv'
<1>1. /\ wire' = ToPage(EventMsg(TickEvent)) /\ UNCHANGED <<outbox, link, sent, page, faults>>
  BY DEF Tick, TickEvent
<1>2. EventMsg(TickEvent) \in Messages
  BY TickEventIs, EventMsgIs
<1> QED BY <1>1, <1>2, ToPageKeeps, AnswerKept

LEMMA PublishAnswers ==
  ASSUME ShownInv, AnswerInv, NEW a \in Actors, Publish(a)
  PROVE  AnswerInv'
<1>1. PICK e \in Events :
        /\ outbox[a] # << >> /\ e.type = Head(outbox[a]).type
        /\ wire' = ToPage(EventMsg(e))
        /\ outbox' = [ outbox EXCEPT ![a] = Tail(outbox[a]) ]
  BY PublishIs
<1>2. UNCHANGED <<link, sent, page, faults>>
  BY DEF Publish
<1>3. /\ EventMsg(e) \in Messages /\ EventMsg(e).type = "event" /\ EventMsg(e).event = e
      /\ \A i \in DOMAIN wire : i \in DOMAIN wire' /\ wire'[i] = wire[i]
  BY <1>1, EventMsgIs, ToPageKeeps
<1>4. CASE a # "me"
  <2>1. outbox'["me"] = outbox["me"]
    BY <1>1, <1>4, Facts DEF Actors
  <2> QED BY <1>2, <1>3, <2>1, AnswerKept
<1>5. CASE a = "me"
  <2> SUFFICES ASSUME page'.isBidding, faults = 0  PROVE link = "open" /\ Answer'
    BY <1>2 DEF AnswerInv
  <2>1. link = "open" /\ Answer
    BY <1>2 DEF AnswerInv
  <2>2. CASE sent # << >>
    BY <1>2, <2>1, <2>2 DEF Answer
  <2>3. ASSUME NEW i \in DOMAIN wire, Releases(wire[i])
        PROVE  Answer'
    <3>1. i \in DOMAIN wire' /\ Releases(wire'[i])
      BY <1>3, <2>3
    <3> QED BY <3>1 DEF Answer, Releases
  <2>4. ASSUME NEW i \in DOMAIN outbox["me"], outbox["me"][i].type = "bid.new"
        PROVE  Answer'
    <3>1. /\ outbox["me"] \in Seq(Events) /\ outbox["me"] # << >> /\ outbox'["me"] = Tail(outbox["me"])
      BY <1>1, <1>5, Facts DEF Actors
    <3>2. /\ Head(outbox["me"]) = outbox["me"][1]
          /\ \A k \in DOMAIN outbox["me"] : k = 1 \/ (k - 1 \in DOMAIN Tail(outbox["me"])
                                                     /\ Tail(outbox["me"])[k - 1] = outbox["me"][k])
      BY <3>1, TailIs
    <3>3. CASE i = 1
      <4>1. e.type = "bid.new"
        BY <1>1, <1>5, <2>4, <3>2, <3>3
      <4>2. Len(wire) + 1 \in DOMAIN wire' /\ wire'[Len(wire) + 1] = EventMsg(e)
        <5>1. wire' = Append(wire, EventMsg(e))
          BY <1>1, <2>1 DEF ToPage
        <5> QED BY <1>3, <5>1, Facts, AppendIs
      <4>3. Releases(wire'[Len(wire) + 1])
        BY <1>3, <4>1, <4>2 DEF Releases
      <4> QED BY <4>2, <4>3 DEF Answer, Releases
    <3>4. CASE i # 1
      <4>1. i - 1 \in DOMAIN outbox'["me"] /\ outbox'["me"][i - 1].type = "bid.new"
        BY <2>4, <3>1, <3>2, <3>4
      <4> QED BY <4>1 DEF Answer
    <3> QED BY <3>3, <3>4
  <2> QED BY <2>1, <2>2, <2>3, <2>4 DEF Answer
<1> QED BY <1>4, <1>5

(* A bid that is taken is answered by its event or by a refusal.           *)
LEMMA TakeBidAnswers ==
  ASSUME ShownInv, AnswerInv, TakeBid
  PROVE  AnswerInv'
<1> SUFFICES ASSUME page'.isBidding, faults' = 0  PROVE link' = "open" /\ Answer'
  BY DEF AnswerInv
<1>1. sent # << >> /\ UNCHANGED <<link, page, faults>>
  BY DEF TakeBid
<1>2. link = "open" /\ link' = "open"
  BY <1>1 DEF AnswerInv
<1>3. CASE Bid("me", ByRoom, Head(sent).amount)
  <2>1. Head(sent).amount \in Nat
    <3>1. Head(sent) \in [ amount : 1..Cap, item : Items ]
      BY <1>1, Facts, TailIs
    <3> QED BY <3>1, ItemsAre
  <2>2. 1 \in DOMAIN outbox'["me"] /\ outbox'["me"][1].type = "bid.new"
    BY <1>3, <2>1, ByRoomIs, BidShows
  <2> QED BY <1>2, <2>2 DEF Answer
<1>4. CASE Refused
  <2>1. wire' = Append(wire, ErrorMsg)
    BY <1>2, <1>4 DEF Refused, ToPage
  <2>2. Len(wire) + 1 \in DOMAIN wire' /\ wire'[Len(wire) + 1] = ErrorMsg
    BY <2>1, Facts, ErrorMsgIs, AppendIs
  <2>3. Releases(wire'[Len(wire) + 1])
    BY <2>2, ErrorMsgIs DEF Releases
  <2> QED BY <1>2, <2>2, <2>3 DEF Answer, Releases
<1> QED BY <1>3, <1>4 DEF TakeBid

LEMMA HandleAnswers ==
  ASSUME ShownInv, AnswerInv, HandleMessage
  PROVE  AnswerInv'
<1> DEFINE m == Head(wire)
<1>1. /\ link = "open" /\ wire # << >> /\ wire' = Tail(wire) /\ m \in Messages /\ Sound(items, Len(log), m)
      /\ UNCHANGED <<roomVars, link, sent, rest, moves, faults>>
      /\ page'.isBidding => page.isBidding
      /\ \/ m.type = "sync"
         \/ m.type = "event" /\ page' = Applied(page, m.event)
         \/ m.type = "error" /\ page'.isBidding = FALSE
  BY HandleIs
<1>2. /\ m = wire[1]
      /\ \A k \in DOMAIN wire : k = 1 \/ (k - 1 \in DOMAIN wire' /\ wire'[k - 1] = wire[k])
  BY <1>1, Facts, TailIs
<1> HIDE DEF m
<1> SUFFICES ASSUME page'.isBidding, faults = 0  PROVE Answer'
  BY <1>1 DEF AnswerInv
<1>3. Answer
  BY <1>1 DEF AnswerInv
<1>4. ~Releases(m)
  <2>1. CASE m.type = "event" /\ m.event.type = "bid.new"
    <3>1. m.event \in Events /\ Tells(items, m.event)
      BY <1>1, <2>1, MessageTyped DEF Sound
    <3>2. Applied(page, m.event).isBidding = (page.isBidding /\ m.event.type # "bid.new")
      <4>1. items \in Rows /\ page \in Pages /\ PageBehind(items, page)
        BY Facts
      <4> QED BY <3>1, <4>1, AppliedKeeps
    <3>3. page' = Applied(page, m.event)
      BY <1>1, <2>1
    <3>4. page'.isBidding = FALSE
      BY <2>1, <3>2, <3>3, Zenon
    <3> QED BY <3>4
  <2> QED BY <1>1, <2>1 DEF Releases
<1>5. ASSUME NEW k \in DOMAIN wire, Releases(wire[k])
      PROVE  Answer'
  <2>1. k - 1 \in DOMAIN wire' /\ Releases(wire'[k - 1])
    BY <1>2, <1>4, <1>5
  <2> QED BY <2>1 DEF Answer, Releases
<1>6. UNCHANGED <<sent, outbox>>
  BY <1>1 DEF roomVars
<1> QED BY <1>3, <1>5, <1>6 DEF Answer

LEMMA PageAnswers ==
  ASSUME ShownInv, AnswerInv,
         ServeRoom \/ LoadRoom \/ Render \/ HideBanner \/ DismissBar \/ UNCHANGED vars
  PROVE  AnswerInv'
<1>1. UNCHANGED <<faults, link, sent, wire, outbox>>
  BY DEF ServeRoom, LoadRoom, Render, HideBanner, DismissBar, vars, linkVars, roomVars
<1>2. page'.isBidding = page.isBidding
  <2>1. CASE ServeRoom \/ UNCHANGED vars
    BY <2>1 DEF ServeRoom, vars
  <2>2. CASE LoadRoom
    BY <2>2, Facts DEF LoadRoom, Pages
  <2>3. CASE Render
    <3>1. page' = [ NotifyEffect(BannerEffect(page)) EXCEPT !.event = NoEvent ]
      BY <2>3 DEF Render
    <3> QED BY <3>1, Facts, RenderKeeps
  <2>4. CASE HideBanner \/ DismissBar
    BY <2>4, Facts DEF HideBanner, DismissBar, Pages
  <2> QED BY <2>1, <2>2, <2>3, <2>4
<1> QED BY <1>1, <1>2, AnswerKept

LEMMA PressBidAnswers ==
  ASSUME ShownInv, PressBid
  PROVE  AnswerInv'
<1>1. link = "open" /\ link' = link
  BY DEF PressBid, Biddable
<1>2. PICK amount : sent' = Append(sent, [ amount |-> amount, item |-> page.snap.item ])
  BY DEF PressBid
<1>3. sent' # << >>
  <2>1. sent \in Seq([ amount : 1..Cap, item : Items ])
    BY Facts
  <2> HIDE DEF PressBid
  <2>2. Len(sent') = Len(sent) + 1 /\ Len(sent) \in Nat
    BY <1>2, <2>1
  <2> QED BY <2>2
<1> QED BY <1>1, <1>3 DEF AnswerInv, Answer

LEMMA FaultsAnswer ==
  ASSUME ShownInv, AnswerInv, LoadFails \/ Break \/ Connect
  PROVE  AnswerInv'
<1>1. CASE LoadFails \/ Break
  <2>1. faults' = faults + 1
    BY <1>1 DEF LoadFails, Break, Fault
  <2>2. faults' # 0
    BY <2>1, Facts
  <2> QED BY <2>2 DEF AnswerInv
<1>2. CASE Connect
  <2>1. link # "open" /\ UNCHANGED page
    BY <1>2 DEF Connect
  <2>2. faults \in Nat /\ faults' \in Nat /\ faults <= faults'
    BY <1>2, Facts, TurnsAwayIs DEF Connect, Greets
  <2>3. faults' = 0 => faults = 0
    BY <2>2
  <2> QED BY <2>1, <2>3 DEF AnswerInv
<1> QED BY <1>1, <1>2

(* Writing the snapshot takes nothing away.                                *)
LEMMA RememberAnswers ==
  ASSUME ShownInv, AnswerInv, NEW a \in Actors, Remember(a)
  PROVE  AnswerInv'
<1>1. UNCHANGED <<outbox, linkVars, page>>
  BY DEF Remember
<1>2. UNCHANGED <<outbox, link, wire, sent, page>>
  BY <1>1 DEF linkVars
<1>3. faults' = 0 => faults = 0
  <2>1. faults' = faults \/ faults' = faults + 1
    BY DEF Remember, Fault
  <2> QED BY <2>1, Facts
<1> QED BY <1>2, <1>3 DEF AnswerInv, Answer, Releases

LEMMA AnswerStep ==
  ASSUME ShownInv, AnswerInv, [Next]_vars
  PROVE  AnswerInv'
<1>1. CASE \/ RivalBids \/ EndCurrent \/ SwitchOn \/ \E i \in Items : WorkerSettles(i)
  BY <1>1, RoomAnswers
<1>2. ASSUME NEW a \in Actors, Publish(a)
      PROVE  AnswerInv'
  BY <1>2, PublishAnswers
<1>6. ASSUME NEW a \in Actors, Remember(a)
      PROVE  AnswerInv'
  BY <1>6, RememberAnswers
<1>3. CASE Tick \/ TakeBid \/ HandleMessage
  BY <1>3, TickAnswers, TakeBidAnswers, HandleAnswers
<1>4. CASE ServeRoom \/ LoadRoom \/ Render \/ HideBanner \/ DismissBar \/ Rest \/ UNCHANGED vars
  BY <1>4, PageAnswers DEF Rest
<1>5. CASE PressBid \/ LoadFails \/ Break \/ Connect
  BY <1>5, PressBidAnswers, FaultsAnswer
<1> QED BY <1>1, <1>2, <1>3, <1>4, <1>5, <1>6 DEF Next

--------------------------------------------------------------------------------
(* The title                                                               *)

Numbers(m) == IF m.type = "sync" THEN { m.events[j].seq : j \in DOMAIN m.events }
              ELSE IF m.type = "event" THEN { m.event.seq } \ {0} ELSE {}
Coming(w) == UNION { Numbers(w[k]) : k \in DOMAIN w }

(* The last switch of a log.                                               *)
Newest(lg, n) == n \in DOMAIN lg /\ IsSwitch(lg[n]) /\ \A k \in DOMAIN lg : IsSwitch(lg[k]) => k <= n

(* Whatever is on the wire with a number is the log's event of that number,*)
(* and the numbers come in order.                                          *)
Genuine(lg, e) == IF e.seq = 0 THEN ~IsSwitch(e) ELSE e.seq \in DOMAIN lg /\ e = lg[e.seq]
Stamped(lg, m) ==
  /\ m.type = "event" => Genuine(lg, m.event)
  /\ m.type = "sync" =>
       /\ \A j \in DOMAIN m.events : m.events[j].seq # 0 /\ Genuine(lg, m.events[j])
       /\ \A i, j \in DOMAIN m.events : i < j => m.events[i].seq < m.events[j].seq
Ordered(w) == \A k, l \in DOMAIN w : k < l => \A a \in Numbers(w[k]), b \in Numbers(w[l]) : a < b
Numbered(lg, w) ==
  /\ \A k \in DOMAIN lg : lg[k].seq = k
  /\ \A k \in DOMAIN w : Stamped(lg, w[k])
  /\ Ordered(w)

(* The hub's greeting is still to be read: the last switch, if the greeting*)
(* does not count it, is on its way behind it.  On a first connection      *)
(* all that is on its way is behind it, and new.                           *)
Greeted(lg, w) ==
  /\ w # << >> /\ w[1].type = "sync" /\ w[1].events = << >>
  /\ \A n \in DOMAIN lg : Newest(lg, n) /\ n > w[1].seq => n \in Coming(w)
Fresh(w, last) ==
  /\ \A k \in DOMAIN w : k > 1 => w[k].type # "sync"
  /\ \A n \in Coming(w) : n > w[1].seq
  /\ last <= w[1].seq

(* The hub has turned the page away.                                       *)
Ungreeted(w) == \A k \in DOMAIN w : w[k].type # "sync"

(* The last switch is on its way, or shown with no other switch on its way.*)
Named(lg, w, p, n) ==
  n \in Coming(w) \/ (p.title = lg[n].snap.item /\ \A k \in Coming(w) : ~IsSwitch(lg[k]))

(* While the connection is broken, what was not shown can be replayed.     *)
Replayable(lg, last, p, n) == n > last \/ p.title = lg[n].snap.item

Followed(lg, w, p, l, from, last, out) ==
  \A n \in DOMAIN lg : Newest(lg, n) /\ n > from /\ n \notin out =>
     IF l = "open" THEN Named(lg, w, p, n) ELSE Replayable(lg, last, p, n)

(* On a first connection everything on the wire is new to the page.        *)
Steady(w, last) ==
  /\ \A k \in DOMAIN w : w[k].type # "sync"
  /\ \A n \in Coming(w) : n > last

OpensWith(lg, w, last, f) == Ungreeted(w) \/ (Greeted(lg, w) /\ (f = 0 => Fresh(w, last)))

TitleInv ==
  /\ Numbered(log, wire)
  /\ base \in Nat \cup {None}
  /\ link # "open" => wire = << >>
  /\ link = "none" => base = None /\ lastSeq = 0
  /\ link = "down" => faults # 0
  /\ page.phase # "ready" => link = "none"
  /\ base = None /\ link = "open" => OpensWith(log, wire, lastSeq, faults)
  /\ base # None => base <= lastSeq
  /\ base # None /\ (faults = 0 \/ (faults = 1 /\ base > 0))
       => Followed(log, wire, page, link, base, lastSeq, withheld)
  /\ base # None /\ faults = 0 => link = "open" /\ Steady(wire, lastSeq)

LEMMA ComingIs == \A w, n : n \in Coming(w) <=> \E k \in DOMAIN w : n \in Numbers(w[k])
BY DEF Coming

LEMMA StampedIn ==
  ASSUME NEW lg, NEW m, Stamped(lg, m)
  PROVE  Numbers(m) \subseteq DOMAIN lg
BY DEF Stamped, Genuine, Numbers

LEMMA ComingIn ==
  ASSUME NEW lg, NEW w, Numbered(lg, w)
  PROVE  Coming(w) \subseteq DOMAIN lg
<1> SUFFICES ASSUME NEW n \in Coming(w)  PROVE n \in DOMAIN lg
  OBVIOUS
<1>1. PICK k \in DOMAIN w : n \in Numbers(w[k])
  BY ComingIs
<1> QED BY <1>1, StampedIn DEF Numbered

LEMMA ComingOfAppend ==
  ASSUME NEW w \in Seq(Messages), NEW m \in Messages
  PROVE  \A n : n \in Coming(Append(w, m)) <=> n \in Coming(w) \/ n \in Numbers(m)
<1> SUFFICES ASSUME NEW n  PROVE n \in Coming(Append(w, m)) <=> n \in Coming(w) \/ n \in Numbers(m)
  OBVIOUS
<1>1. /\ \A k \in DOMAIN w : k \in DOMAIN Append(w, m) /\ Append(w, m)[k] = w[k]
      /\ Len(w) + 1 \in DOMAIN Append(w, m) /\ Append(w, m)[Len(w) + 1] = m
      /\ \A k \in DOMAIN Append(w, m) : k \in DOMAIN w \/ k = Len(w) + 1
  BY AppendIs
<1>2. n \in Coming(w) => n \in Coming(Append(w, m))
  BY <1>1, ComingIs
<1>3. n \in Numbers(m) => n \in Coming(Append(w, m))
  BY <1>1, ComingIs
<1>4. ASSUME n \in Coming(Append(w, m))
      PROVE  n \in Coming(w) \/ n \in Numbers(m)
  <2>1. PICK k \in DOMAIN Append(w, m) : n \in Numbers(Append(w, m)[k])
    BY <1>4, ComingIs
  <2> QED BY <1>1, <2>1, ComingIs
<1> QED BY <1>2, <1>3, <1>4

LEMMA ComingOfTail ==
  ASSUME NEW w \in Seq(Messages), w # << >>
  PROVE  \A n : n \in Coming(w) <=> n \in Numbers(w[1]) \/ n \in Coming(Tail(w))
<1> SUFFICES ASSUME NEW n  PROVE n \in Coming(w) <=> n \in Numbers(w[1]) \/ n \in Coming(Tail(w))
  OBVIOUS
<1>1. /\ 1 \in DOMAIN w
      /\ \A k \in DOMAIN Tail(w) : k + 1 \in DOMAIN w /\ Tail(w)[k] = w[k + 1]
      /\ \A k \in DOMAIN w : k = 1 \/ (k - 1 \in DOMAIN Tail(w) /\ Tail(w)[k - 1] = w[k])
  BY TailIs
<1>2. n \in Numbers(w[1]) => n \in Coming(w)
  BY <1>1, ComingIs
<1>3. ASSUME n \in Coming(Tail(w))
      PROVE  n \in Coming(w)
  <2>1. PICK k \in DOMAIN Tail(w) : n \in Numbers(Tail(w)[k])
    BY <1>3, ComingIs
  <2> QED BY <1>1, <2>1, ComingIs
<1>4. ASSUME n \in Coming(w)
      PROVE  n \in Numbers(w[1]) \/ n \in Coming(Tail(w))
  <2>1. PICK k \in DOMAIN w : n \in Numbers(w[k])
    BY <1>4, ComingIs
  <2> QED BY <1>1, <2>1, ComingIs
<1> QED BY <1>2, <1>3, <1>4

LEMMA GenuineStays ==
  ASSUME NEW lg \in Seq(Events), NEW x \in Events, NEW m, Stamped(lg, m)
  PROVE  Stamped(Append(lg, x), m)
<1>1. \A k \in DOMAIN lg : k \in DOMAIN Append(lg, x) /\ Append(lg, x)[k] = lg[k]
  BY AppendIs
<1>2. \A e : Genuine(lg, e) => Genuine(Append(lg, x), e)
  BY <1>1 DEF Genuine
<1> QED BY <1>2 DEF Stamped

LEMMA NumberedAppend ==
  ASSUME NEW lg, NEW w \in Seq(Messages), NEW m \in Messages,
         \A k \in DOMAIN lg : lg[k].seq = k, \A k \in DOMAIN w : Stamped(lg, w[k]), Ordered(w),
         Stamped(lg, m), \A a \in Coming(w), b \in Numbers(m) : a < b
  PROVE  Numbered(lg, Append(w, m))
<1> DEFINE r == Append(w, m)
<1>1. /\ DOMAIN w = 1..Len(w) /\ Len(w) \in Nat
      /\ \A k \in DOMAIN w : k \in DOMAIN r /\ r[k] = w[k] /\ k < Len(w) + 1
      /\ Len(w) + 1 \in DOMAIN r /\ r[Len(w) + 1] = m
      /\ \A k \in DOMAIN r : k \in DOMAIN w \/ k = Len(w) + 1
  BY AppendIs, IndexTyped
<1> HIDE DEF r
<1>2. \A k \in DOMAIN r : Stamped(lg, r[k])
  BY <1>1
<1>3. ASSUME NEW k \in DOMAIN r, NEW l \in DOMAIN r, k < l,
             NEW a \in Numbers(r[k]), NEW b \in Numbers(r[l])
      PROVE  a < b
  <2>1. k \in DOMAIN w
    <3>1. CASE k = Len(w) + 1
      <4>1. l \in Nat /\ l <= Len(w) + 1
        BY <1>1
      <4> QED BY <1>1, <1>3, <3>1, <4>1
    <3> QED BY <1>1, <3>1
  <2>2. CASE l \in DOMAIN w
    <3>1. a \in Numbers(w[k]) /\ b \in Numbers(w[l])
      BY <1>1, <2>1, <2>2
    <3> QED BY <1>3, <2>1, <2>2, <3>1 DEF Ordered
  <2>3. CASE l = Len(w) + 1
    <3>1. a \in Coming(w) /\ b \in Numbers(m)
      BY <1>1, <2>1, <2>3, ComingIs
    <3> QED BY <3>1
  <2> QED BY <1>1, <2>2, <2>3
<1> QED BY <1>2, <1>3 DEF Numbered, Ordered, r

LEMMA NumberedTail ==
  ASSUME NEW lg, NEW w \in Seq(Messages), w # << >>, Numbered(lg, w)
  PROVE  /\ Numbered(lg, Tail(w)) /\ Stamped(lg, w[1])
         /\ \A a \in Numbers(w[1]), b \in Coming(Tail(w)) : a < b
<1> DEFINE r == Tail(w)
<1>1. /\ 1 \in DOMAIN w /\ DOMAIN r = 1..Len(r) /\ Len(r) \in Nat
      /\ \A k \in DOMAIN r : k + 1 \in DOMAIN w /\ r[k] = w[k + 1]
  BY TailIs, IndexTyped
<1> HIDE DEF r
<1>2. Stamped(lg, w[1]) /\ \A k \in DOMAIN r : Stamped(lg, r[k])
  BY <1>1 DEF Numbered
<1>3. ASSUME NEW k \in DOMAIN r, NEW l \in DOMAIN r, k < l,
             NEW a \in Numbers(r[k]), NEW b \in Numbers(r[l])
      PROVE  a < b
  <2>1. k + 1 < l + 1
    BY <1>1, <1>3
  <2> QED BY <1>1, <1>3, <2>1 DEF Numbered, Ordered
<1>4. ASSUME NEW a \in Numbers(w[1]), NEW b \in Coming(r)
      PROVE  a < b
  <2>1. PICK k \in DOMAIN r : b \in Numbers(r[k])
    BY <1>4, ComingIs
  <2>2. 1 < k + 1
    BY <1>1, <2>1
  <2> QED BY <1>1, <1>4, <2>1, <2>2 DEF Numbered, Ordered
<1> QED BY <1>2, <1>3, <1>4 DEF Numbered, Ordered, r

(* The invariant at the next state, part by part.                          *)
LEMMA TitleNext ==
  ASSUME Numbered(log', wire'), base' \in Nat \cup {None},
         link' # "open" => wire' = << >>,
         link' = "none" => base' = None /\ lastSeq' = 0,
         link' = "down" => faults' # 0,
         page'.phase # "ready" => link' = "none",
         base' = None /\ link' = "open" => OpensWith(log', wire', lastSeq', faults'),
         base' # None => base' <= lastSeq',
         base' # None /\ (faults' = 0 \/ (faults' = 1 /\ base' > 0))
           => Followed(log', wire', page', link', base', lastSeq', withheld'),
         base' # None /\ faults' = 0 => link' = "open" /\ Steady(wire', lastSeq')
  PROVE  TitleInv'
BY DEF TitleInv, Numbered, Stamped, Genuine, Ordered, OpensWith, Ungreeted, Greeted, Fresh, Followed,
       Named, Replayable, Steady, Coming, Numbers, Newest, IsSwitch

LEMMA TitleFacts ==
  ASSUME TitleInv
  PROVE  /\ Numbered(log, wire) /\ base \in Nat \cup {None}
         /\ link # "open" => wire = << >>
         /\ link = "none" => base = None /\ lastSeq = 0
         /\ link = "down" => faults # 0
         /\ page.phase # "ready" => link = "none"
         /\ base = None /\ link = "open" => OpensWith(log, wire, lastSeq, faults)
         /\ base # None => base <= lastSeq
         /\ base # None /\ (faults = 0 \/ (faults = 1 /\ base > 0))
              => Followed(log, wire, page, link, base, lastSeq, withheld)
         /\ base # None /\ faults = 0 => link = "open" /\ Steady(wire, lastSeq)
BY DEF TitleInv

LEMMA TitleInit == Init => TitleInv
<1> SUFFICES ASSUME Init  PROVE TitleInv
  OBVIOUS
<1>1. /\ DOMAIN log = {} /\ DOMAIN wire = {} /\ wire = << >> /\ base = None /\ link = "none" /\ lastSeq = 0
  BY DEF Init
<1>2. Numbered(log, wire)
  BY <1>1 DEF Numbered, Ordered
<1> QED BY <1>1, <1>2 DEF TitleInv

(* What is neither told nor shown; a fault more asks for less.             *)
LEMMA TitleKept ==
  ASSUME ShownInv, TitleInv, UNCHANGED <<log, wire, link, base, lastSeq, withheld>>,
         faults' = faults \/ faults' = faults + 1,
         page'.title = page.title, page'.phase = page.phase
  PROVE  TitleInv'
<1>1. base # None /\ (faults = 0 \/ (faults = 1 /\ base > 0))
        => Followed(log, wire, page', link, base, lastSeq, withheld)
  BY TitleFacts DEF Followed, Named, Replayable
<1>2. /\ faults' = 0 => faults = 0
      /\ faults' = 1 => faults = 0 \/ faults = 1
      /\ faults # 0 => faults' # 0
  BY Facts
<1>3. base = None /\ link = "open" => OpensWith(log, wire, lastSeq, faults')
  BY <1>2, TitleFacts DEF OpensWith
<1> HIDE DEF OpensWith
<1>4. UNCHANGED <<log, wire, link, base, lastSeq, withheld>>
  OBVIOUS
<1>5. Numbered(log', wire') /\ (base' = None /\ link' = "open" => OpensWith(log', wire', lastSeq', faults'))
  BY <1>3, <1>4, TitleFacts
<1>6. base' # None /\ (faults' = 0 \/ (faults' = 1 /\ base' > 0))
           => Followed(log', wire', page', link', base', lastSeq', withheld')
  BY <1>1, <1>2, <1>4
<1>7. base' # None /\ faults' = 0 => link' = "open" /\ Steady(wire', lastSeq')
  BY <1>2, <1>4, TitleFacts
<1> QED BY <1>2, <1>4, <1>5, <1>6, <1>7, TitleFacts, TitleNext

(* Writing the snapshot is not seen on the page.                           *)
LEMMA TitleRemembers ==
  ASSUME ShownInv, TitleInv, NEW a \in Actors, Remember(a)
  PROVE  TitleInv'
<1>1. UNCHANGED <<log, linkVars, page>> /\ (faults' = faults \/ faults' = faults + 1)
  BY DEF Remember, Fault
<1>2. UNCHANGED <<log, wire, link, base, lastSeq, withheld>>
  BY <1>1 DEF linkVars
<1> QED BY <1>1, <1>2, TitleKept

LEMMA TitleQuiet ==
  ASSUME ShownInv, TitleInv,
         \/ RivalBids \/ EndCurrent \/ SwitchOn \/ (\E i \in Items : WorkerSettles(i))
         \/ ServeRoom \/ Render \/ HideBanner \/ DismissBar \/ PressBid \/ UNCHANGED vars
         \/ (TakeBid /\ UNCHANGED wire)
  PROVE  TitleInv'
<1>1. UNCHANGED <<log, wire, link, base, lastSeq, withheld, faults>>
  BY DEF RivalBids, EndCurrent, SwitchOn, WorkerSettles, ServeRoom, Render, HideBanner, DismissBar,
         PressBid, TakeBid, vars, roomVars, linkVars
<1>2. page'.title = page.title /\ page'.phase = page.phase
  <2>1. CASE Render
    <3>1. page' = [ NotifyEffect(BannerEffect(page)) EXCEPT !.event = NoEvent ]
      BY <2>1 DEF Render
    <3> QED BY <3>1, Facts, RenderKeeps
  <2>2. CASE HideBanner \/ DismissBar \/ PressBid
    BY <2>2, Facts DEF HideBanner, DismissBar, PressBid, Pages
  <2>3. CASE \/ RivalBids \/ EndCurrent \/ SwitchOn \/ (\E i \in Items : WorkerSettles(i))
             \/ ServeRoom \/ UNCHANGED vars \/ TakeBid
    BY <2>3 DEF RivalBids, EndCurrent, SwitchOn, WorkerSettles, ServeRoom, vars, TakeBid
  <2> QED BY <2>1, <2>2, <2>3
<1> QED BY <1>1, <1>2, TitleKept

(* A page that loads has no connection yet.                                *)
LEMMA TitleLoads ==
  ASSUME ShownInv, TitleInv, LoadRoom \/ LoadFails
  PROVE  TitleInv'
<1>1. page.phase = "loading" /\ UNCHANGED <<log, wire, link, base, lastSeq>>
  BY DEF LoadRoom, LoadFails, roomVars, linkVars
<1>2. /\ link = "none" /\ base = None /\ lastSeq = 0 /\ wire = << >>
      /\ Numbered(log, wire)
  BY <1>1, TitleFacts
<1> QED BY <1>1, <1>2, TitleNext DEF Numbered

(* What comes behind a greeting, or behind none.                           *)
LEMMA GreetedAppend ==
  ASSUME NEW lg, NEW more, NEW w \in Seq(Messages), NEW m \in Messages, NEW last, NEW f,
         OpensWith(lg, w, last, f), m.type # "sync",
         Greeted(lg, w) => \A n \in Numbers(m) : n > w[1].seq,
         Greeted(lg, w) =>
           \A n \in DOMAIN more : Newest(more, n) /\ n > w[1].seq => n \in Coming(w) \/ n \in Numbers(m)
  PROVE  OpensWith(more, Append(w, m), last, f)
<1> DEFINE v == Append(w, m)
<1>1. CASE Ungreeted(w)
  <2>1. \A k \in DOMAIN v : (k \in DOMAIN w /\ v[k] = w[k]) \/ v[k] = m
    BY AppendIs
  <2> HIDE DEF v
  <2>2. Ungreeted(v)
    BY <1>1, <2>1 DEF Ungreeted
  <2> QED BY <2>2 DEF OpensWith, v
<1>2. CASE Greeted(lg, w) /\ (f = 0 => Fresh(w, last))
  <2>1. w # << >> /\ w[1].type = "sync" /\ w[1].events = << >>
    BY <1>2 DEF Greeted
  <2>2. /\ 1 \in DOMAIN w
        /\ \A k \in DOMAIN w : k \in DOMAIN v /\ v[k] = w[k]
        /\ Len(w) + 1 \in DOMAIN v /\ v[Len(w) + 1] = m
        /\ \A k \in DOMAIN v : k \in DOMAIN w \/ k = Len(w) + 1
    BY <2>1, AppendIs, TailIs
  <2>3. \A n : n \in Coming(v) <=> n \in Coming(w) \/ n \in Numbers(m)
    BY ComingOfAppend
  <2>4. v # << >>
    BY <2>2
  <2> HIDE DEF v
  <2>5. v[1] = w[1]
    BY <2>2
  <2>6. Greeted(more, v)
    BY <1>2, <2>1, <2>3, <2>4, <2>5 DEF Greeted
  <2>7. Fresh(w, last) => Fresh(v, last)
    BY <1>2, <2>2, <2>3, <2>5 DEF Fresh
  <2> QED BY <1>2, <2>6, <2>7 DEF OpensWith, v
<1> QED BY <1>1, <1>2 DEF OpensWith

(* A message without a number changes nothing.                             *)
LEMMA TitleUnnumbered ==
  ASSUME ShownInv, TitleInv, NEW m \in Messages, m.type # "sync", Numbers(m) = {}, Stamped(log, m),
         wire' = ToPage(m), UNCHANGED <<log, link, base, lastSeq, withheld, faults, page>>
  PROVE  TitleInv'
<1>1. CASE link # "open"
  <2>1. wire' = wire
    BY <1>1 DEF ToPage
  <2> QED BY <2>1, TitleKept
<1>2. CASE link = "open"
  <2>1. wire' = Append(wire, m) /\ wire \in Seq(Messages)
    BY <1>2, Facts DEF ToPage
  <2>2. \A n : n \in Coming(wire') <=> n \in Coming(wire)
    BY <2>1, ComingOfAppend
  <2>3. Numbered(log, wire')
    BY <2>1, NumberedAppend, TitleFacts DEF Numbered
  <2>4. base = None => OpensWith(log, wire', lastSeq, faults)
    <3>1. ASSUME base = None
          PROVE  OpensWith(log, wire', lastSeq, faults)
      <4>1. OpensWith(log, wire, lastSeq, faults)
        BY <1>2, <3>1, TitleFacts
      <4>2. Greeted(log, wire) =>
              \A n \in DOMAIN log : Newest(log, n) /\ n > wire[1].seq => n \in Coming(wire) \/ n \in Numbers(m)
        BY DEF Greeted
      <4> QED BY <2>1, <4>1, <4>2, GreetedAppend
    <3> QED BY <3>1
  <2>5. Followed(log, wire, page, link, base, lastSeq, withheld)
          => Followed(log, wire', page, link, base, lastSeq, withheld)
    BY <2>2 DEF Followed, Named
  <2>6. Steady(wire, lastSeq) => Steady(wire', lastSeq)
    <3>1. \A k \in DOMAIN wire' : (k \in DOMAIN wire /\ wire'[k] = wire[k]) \/ wire'[k] = m
      BY <2>1, AppendIs
    <3> QED BY <2>2, <3>1 DEF Steady
  <2>7. UNCHANGED <<log, link, base, lastSeq, withheld, faults, page>>
    OBVIOUS
  <2> QED BY <1>2, <2>3, <2>4, <2>5, <2>6, <2>7, TitleFacts, TitleNext
<1> QED BY <1>1, <1>2

LEMMA TitleTicks ==
  ASSUME ShownInv, TitleInv, Tick \/ (TakeBid /\ Refused)
  PROVE  TitleInv'
<1>1. CASE Tick
  <2> DEFINE m == EventMsg(TickEvent)
  <2>1. wire' = ToPage(m) /\ UNCHANGED <<log, link, base, lastSeq, withheld, faults, page>>
    BY <1>1 DEF Tick, TickEvent
  <2>2. /\ TickEvent.seq = 0 /\ TickEvent.type = "countdown.tick"
        /\ m \in Messages /\ m.type = "event" /\ m.event = TickEvent
    BY TickEventIs, EventMsgIs
  <2> HIDE DEF m
  <2>3. Numbers(m) = {} /\ Stamped(log, m)
    BY <2>2 DEF Numbers, Stamped, Genuine, IsSwitch
  <2> QED BY <2>1, <2>2, <2>3, TitleUnnumbered
<1>2. CASE TakeBid /\ Refused
  <2>1. wire' = ToPage(ErrorMsg) /\ UNCHANGED <<log, link, base, lastSeq, withheld, faults, page>>
    BY <1>2 DEF TakeBid, Refused
  <2>2. ErrorMsg \in Messages /\ ErrorMsg.type = "error"
    BY ErrorMsgIs
  <2>3. Numbers(ErrorMsg) = {} /\ Stamped(log, ErrorMsg)
    BY <2>2 DEF Numbers, Stamped
  <2> QED BY <2>1, <2>2, <2>3, TitleUnnumbered
<1> QED BY <1>1, <1>2

LEMMA NewestOfAppend ==
  ASSUME NEW lg \in Seq(Events), NEW e \in Events, NEW n \in DOMAIN Append(lg, e), Newest(Append(lg, e), n)
  PROVE  \/ n = Len(lg) + 1
         \/ n \in DOMAIN lg /\ Newest(lg, n) /\ Append(lg, e)[n] = lg[n] /\ ~IsSwitch(e)
<1>1. /\ \A k \in DOMAIN lg : k \in DOMAIN Append(lg, e) /\ Append(lg, e)[k] = lg[k] /\ k < Len(lg) + 1
      /\ Len(lg) + 1 \in DOMAIN Append(lg, e) /\ Append(lg, e)[Len(lg) + 1] = e
      /\ \A k \in DOMAIN Append(lg, e) : k \in DOMAIN lg \/ k = Len(lg) + 1
      /\ DOMAIN lg = 1..Len(lg) /\ Len(lg) \in Nat
  BY AppendIs, IndexTyped
<1> SUFFICES ASSUME n # Len(lg) + 1
             PROVE  n \in DOMAIN lg /\ Newest(lg, n) /\ Append(lg, e)[n] = lg[n] /\ ~IsSwitch(e)
  OBVIOUS
<1>2. n \in DOMAIN lg
  BY <1>1
<1>3. ~IsSwitch(e)
  <2>1. IsSwitch(e) => Len(lg) + 1 <= n
    BY <1>1 DEF Newest
  <2> QED BY <1>1, <1>2, <2>1
<1>4. Newest(lg, n)
  BY <1>1, <1>2 DEF Newest
<1> QED BY <1>1, <1>2, <1>3, <1>4

(* A published event is the log's newest, and on its way if a connection   *)
(* is up.                                                                  *)
LEMMA TitlePublishes ==
  ASSUME ShownInv, TitleInv, NEW a \in Actors, Publish(a)
  PROVE  TitleInv'
<1>1. PICK e \in Events : /\ e.seq = Len(log) + 1
                          /\ log' = Append(log, e) /\ wire' = ToPage(EventMsg(e))
  BY PublishIs
<1>2. UNCHANGED <<link, lastSeq, base, withheld, faults, page>>
  BY DEF Publish
<1> DEFINE top == Len(log) + 1
           m == EventMsg(e)
<1>3. /\ log \in Seq(Events) /\ wire \in Seq(Messages) /\ Len(log) \in Nat /\ top \in Nat
      /\ DOMAIN log = 1..Len(log) /\ lastSeq \in 0..Len(log) /\ top > lastSeq /\ top # 0
      /\ \A k \in DOMAIN log : k \in Nat /\ k < top
  BY Facts
<1>4. m \in Messages /\ m.type = "event" /\ m.event = e
  BY EventMsgIs
<1> HIDE DEF m
<1>5. Numbers(m) = {top}
  BY <1>1, <1>3, <1>4 DEF Numbers
<1>6. /\ \A k \in DOMAIN log : k \in DOMAIN log' /\ log'[k] = log[k]
      /\ top \in DOMAIN log' /\ log'[top] = e
      /\ \A k \in DOMAIN log' : k \in DOMAIN log \/ k = top
  BY <1>1, <1>3, AppendIs
<1>7. /\ \A k \in DOMAIN log' : log'[k].seq = k
      /\ \A k \in DOMAIN wire : Stamped(log', wire[k])
      /\ Ordered(wire) /\ Stamped(log', m)
  <2>1. \A k \in DOMAIN log' : log'[k].seq = k
    BY <1>1, <1>6, TitleFacts DEF Numbered
  <2>2. \A k \in DOMAIN wire : Stamped(log', wire[k])
    BY <1>1, <1>3, TitleFacts, GenuineStays DEF Numbered
  <2>3. Stamped(log', m)
    BY <1>1, <1>3, <1>4, <1>6 DEF Stamped, Genuine
  <2> QED BY <2>1, <2>2, <2>3, TitleFacts DEF Numbered
<1>8. Coming(wire) \subseteq DOMAIN log
  BY TitleFacts, ComingIn
<1>9. ASSUME NEW n \in DOMAIN log', Newest(log', n)
      PROVE  n = top \/ (n \in DOMAIN log /\ Newest(log, n) /\ log'[n] = log[n] /\ ~IsSwitch(e))
  BY <1>1, <1>3, <1>9, NewestOfAppend
<1> HIDE DEF top
<1>10. CASE link # "open"
  <2>1. wire' = wire /\ wire = << >>
    BY <1>1, <1>10, TitleFacts DEF ToPage
  <2>2. Numbered(log', wire')
    BY <1>7, <2>1 DEF Numbered
  <2>3. Followed(log, wire, page, link, base, lastSeq, withheld)
          => Followed(log', wire, page, link, base, lastSeq, withheld)
    <3> SUFFICES ASSUME Followed(log, wire, page, link, base, lastSeq, withheld),
                        NEW n \in DOMAIN log', Newest(log', n), n > base, n \notin withheld
                 PROVE  Replayable(log', lastSeq, page, n)
      BY <1>10 DEF Followed
    <3>1. CASE n = top
      BY <1>3, <3>1 DEF Replayable
    <3>2. CASE n \in DOMAIN log /\ Newest(log, n) /\ log'[n] = log[n]
      BY <1>10, <3>2 DEF Followed, Replayable
    <3> QED BY <1>9, <3>1, <3>2
  <2>4. wire' = wire
    BY <2>1
  <2> QED BY <1>2, <1>10, <2>2, <2>3, <2>4, TitleFacts, TitleNext
<1>11. CASE link = "open"
  <2>1. wire' = Append(wire, m)
    BY <1>1, <1>11 DEF ToPage, m
  <2>2. \A n : n \in Coming(wire') <=> n \in Coming(wire) \/ n = top
    BY <1>3, <1>4, <1>5, <2>1, ComingOfAppend
  <2>3. Numbered(log', wire')
    <3>1. \A b \in Coming(wire), c \in Numbers(m) : b < c
      BY <1>3, <1>5, <1>8
    <3> QED BY <1>3, <1>4, <1>7, <2>1, <3>1, NumberedAppend
  <2>4. ASSUME base = None
        PROVE  OpensWith(log', wire', lastSeq, faults)
    <3>1. OpensWith(log, wire, lastSeq, faults)
      BY <1>11, <2>4, TitleFacts
    <3>2. Greeted(log, wire) => wire[1].seq \in Nat /\ wire[1].seq < top
      <4> SUFFICES ASSUME Greeted(log, wire)  PROVE wire[1].seq \in Nat /\ wire[1].seq < top
        OBVIOUS
      <4>1. wire # << >> /\ wire[1].type = "sync"
        BY DEF Greeted
      <4>2. 1 \in DOMAIN wire
        BY <1>3, <4>1, TailIs
      <4>3. wire[1] \in Messages /\ Sound(items, Len(log), wire[1])
        BY <1>3, <4>2, IndexTyped, Facts DEF WireSound
      <4>4. wire[1].seq \in Nat /\ wire[1].seq <= Len(log)
        BY <4>1, <4>3, MessageTyped DEF Sound, Number
      <4> QED BY <1>3, <4>4 DEF top
    <3>3. Greeted(log, wire) =>
            \A n \in DOMAIN log' : Newest(log', n) /\ n > wire[1].seq => n \in Coming(wire) \/ n \in Numbers(m)
      <4> SUFFICES ASSUME Greeted(log, wire), NEW n \in DOMAIN log', Newest(log', n), n > wire[1].seq, n # top
                   PROVE  n \in Coming(wire)
        BY <1>5
      <4>1. n \in DOMAIN log /\ Newest(log, n)
        BY <1>9
      <4> QED BY <4>1 DEF Greeted
    <3>4. Greeted(log, wire) => \A n \in Numbers(m) : n > wire[1].seq
      BY <1>3, <1>5, <3>2
    <3>5. m.type # "sync"
      BY <1>4
    <3> QED BY <1>3, <1>4, <2>1, <3>1, <3>3, <3>4, <3>5, GreetedAppend
  <2>5. Followed(log, wire, page, link, base, lastSeq, withheld)
          => Followed(log', wire', page, link, base, lastSeq, withheld)
    <3> SUFFICES ASSUME Followed(log, wire, page, link, base, lastSeq, withheld),
                        NEW n \in DOMAIN log', Newest(log', n), n > base, n \notin withheld
                 PROVE  Named(log', wire', page, n)
      BY <1>11 DEF Followed
    <3>1. CASE n = top
      BY <2>2, <3>1 DEF Named
    <3>2. CASE n \in DOMAIN log /\ Newest(log, n) /\ log'[n] = log[n] /\ ~IsSwitch(e)
      <4>1. Named(log, wire, page, n)
        BY <1>11, <3>2 DEF Followed
      <4>2. CASE n \in Coming(wire)
        BY <2>2, <4>2 DEF Named
      <4>3. CASE page.title = log[n].snap.item /\ \A k \in Coming(wire) : ~IsSwitch(log[k])
        <5>1. \A k \in Coming(wire') : ~IsSwitch(log'[k])
          BY <1>6, <1>8, <2>2, <3>2, <4>3
        <5> QED BY <3>2, <4>3, <5>1 DEF Named
      <4> QED BY <4>1, <4>2, <4>3 DEF Named
    <3> QED BY <1>9, <3>1, <3>2
  <2>6. Steady(wire, lastSeq) => Steady(wire', lastSeq)
    <3>1. \A k \in DOMAIN wire' : (k \in DOMAIN wire /\ wire'[k] = wire[k]) \/ wire'[k] = m
      BY <1>3, <1>4, <2>1, AppendIs
    <3> QED BY <1>3, <1>4, <2>2, <3>1 DEF Steady
  <2> QED BY <1>2, <1>11, <2>3, <2>4, <2>5, <2>6, TitleFacts, TitleNext
<1> QED BY <1>10, <1>11

(* A greeting counts what the log has; a replay brings all after the last  *)
(* number the page has seen.                                               *)
LEMMA GreetingsAre ==
  ASSUME ShownInv, TitleInv, Greets
  PROVE  /\ wire' \in Seq(Messages) /\ wire' # << >>
         /\ wire'[1].type = "sync" /\ wire'[1].events = << >> /\ wire'[1].seq = Len(log)
         /\ lastSeq = 0 => DOMAIN wire' = {1}
         /\ Numbered(log, wire')
         /\ \A n : n \in Coming(wire') <=> 0 < lastSeq /\ n \in (lastSeq + 1)..Len(log)
<1> DEFINE first == Greeting
           late == 0 < lastSeq /\ lastSeq < Len(log)
<1>1. /\ wire' \in Seq(Messages) /\ wire' # << >> /\ wire'[1] = first
      /\ Len(wire') = IF late THEN 2 ELSE 1
      /\ late => wire'[2] = Replay
  BY GreetsIs
<1>2. first.type = "sync" /\ first.seq = Len(log) /\ first.events = << >>
  BY GreetingIs
<1> HIDE DEF first
<1>3. Numbers(first) = {} /\ Stamped(log, first)
  BY <1>2 DEF Numbers, Stamped
<1>4. lastSeq \in Nat /\ Len(log) \in Nat /\ DOMAIN log = 1..Len(log) /\ \A k \in DOMAIN log : log[k].seq = k
  BY Facts, TitleFacts DEF Numbered
<1>5. ASSUME late
      PROVE  Stamped(log, Replay) /\ \A n : n \in Numbers(Replay) <=> n \in (lastSeq + 1)..Len(log)
  <2>1. /\ Replay.type = "sync" /\ DOMAIN Replay.events = 1..(Len(log) - lastSeq)
        /\ \A j \in DOMAIN Replay.events : Replay.events[j] = log[lastSeq + j] /\ lastSeq + j \in DOMAIN log
    <3>1. Replay.type = "sync" /\ Replay.events = SubSeq(log, lastSeq + 1, Len(log))
      BY DEF Replay, SyncMsg
    <3> QED BY <1>5, <3>1, ReplayIs
  <2>2. \A j \in DOMAIN Replay.events : Replay.events[j].seq = lastSeq + j
    BY <1>4, <2>1
  <2>3. \A j \in DOMAIN Replay.events : j \in Nat /\ j >= 1 /\ j <= Len(log) - lastSeq
    BY <1>4, <2>1
  <2>4. Stamped(log, Replay)
    <3>1. \A j \in DOMAIN Replay.events : Replay.events[j].seq # 0 /\ Genuine(log, Replay.events[j])
      BY <1>4, <2>1, <2>2, <2>3 DEF Genuine
    <3>2. \A i, j \in DOMAIN Replay.events : i < j => Replay.events[i].seq < Replay.events[j].seq
      BY <1>4, <2>2, <2>3
    <3>3. Replay.type # "event"
      BY <2>1
    <3> QED BY <3>1, <3>2, <3>3 DEF Stamped
  <2>5. Numbers(Replay) = { Replay.events[j].seq : j \in DOMAIN Replay.events }
    BY <2>1 DEF Numbers
  <2>6. ASSUME NEW n
        PROVE  n \in Numbers(Replay) <=> n \in (lastSeq + 1)..Len(log)
    <3>1. ASSUME n \in (lastSeq + 1)..Len(log)
          PROVE  n \in Numbers(Replay)
      <4>1. n - lastSeq \in DOMAIN Replay.events /\ lastSeq + (n - lastSeq) = n
        BY <1>4, <2>1, <3>1
      <4> QED BY <2>2, <2>5, <4>1
    <3>2. ASSUME n \in Numbers(Replay)
          PROVE  n \in (lastSeq + 1)..Len(log)
      <4>1. PICK j \in DOMAIN Replay.events : n = lastSeq + j
        BY <2>2, <2>5, <3>2
      <4> QED BY <1>4, <2>3, <4>1
    <3> QED BY <3>1, <3>2
  <2> QED BY <2>4, <2>6
<1> HIDE DEF late
<1>6. \A k \in DOMAIN wire' : k = 1 \/ (k = 2 /\ late)
  BY <1>1
<1>7. 1 \in DOMAIN wire' /\ (late => 2 \in DOMAIN wire') /\ (~late => DOMAIN wire' = {1})
  BY <1>1
<1>8. \A n : n \in Coming(wire') <=> late /\ n \in (lastSeq + 1)..Len(log)
  BY <1>1, <1>3, <1>5, <1>6, <1>7, ComingIs
<1>9. Numbered(log, wire')
  <2>1. \A k \in DOMAIN wire' : Stamped(log, wire'[k])
    BY <1>1, <1>3, <1>5, <1>6
  <2>2. Ordered(wire')
    <3>1. \A k \in DOMAIN wire', l \in DOMAIN wire' : k < l => Numbers(wire'[k]) = {}
      BY <1>1, <1>3, <1>6
    <3> QED BY <3>1 DEF Ordered
  <2> QED BY <1>4, <2>1, <2>2 DEF Numbered
<1>10. \A n : n \in (lastSeq + 1)..Len(log) => lastSeq < Len(log)
  BY <1>4
<1>11. lastSeq = 0 => ~late
  BY DEF late
<1> QED BY <1>1, <1>2, <1>7, <1>8, <1>9, <1>10, <1>11 DEF late

(* After a greeting, or after a refusal, which withholds what a replay     *)
(* would have brought.                                                     *)
LEMMA TitleGreets ==
  ASSUME ShownInv, TitleInv, Connect, Greets
  PROVE  TitleInv'
<1>1. /\ link' = "open" /\ link # "open" /\ page.phase = "ready"
      /\ UNCHANGED <<log, lastSeq, base, withheld, page, faults>>
  BY DEF Connect, Greets
<1>2. /\ wire'[1].type = "sync" /\ wire'[1].events = << >> /\ wire'[1].seq = Len(log)
      /\ wire' # << >> /\ (lastSeq = 0 => DOMAIN wire' = {1})
      /\ Numbered(log, wire')
      /\ \A n : n \in Coming(wire') <=> 0 < lastSeq /\ n \in (lastSeq + 1)..Len(log)
  BY GreetingsAre
<1>3. lastSeq \in Nat /\ Len(log) \in Nat /\ DOMAIN log = 1..Len(log) /\ lastSeq <= Len(log)
      /\ link \in { "none", "down", "open" }
  BY Facts, LinkFacts DEF ShownInv, LinkTypes
<1>4. OpensWith(log, wire', lastSeq, faults)
  <2>1. \A n \in DOMAIN log : ~(n > wire'[1].seq)
    BY <1>2, <1>3
  <2>2. Greeted(log, wire')
    BY <1>2, <2>1 DEF Greeted
  <2>3. ASSUME faults = 0
        PROVE  Fresh(wire', lastSeq)
    <3>1. lastSeq = 0
      BY <1>1, <1>3, <2>3, TitleFacts
    <3>2. Coming(wire') = {} /\ \A k \in DOMAIN wire' : k = 1
      BY <1>2, <3>1
    <3> QED BY <1>2, <1>3, <3>2 DEF Fresh
  <2> QED BY <2>2, <2>3 DEF OpensWith
<1>5. base # None /\ faults # 0 /\ Followed(log, wire, page, link, base, lastSeq, withheld) /\ base > 0
        => Followed(log, wire', page, "open", base, lastSeq, withheld)
  <2> SUFFICES ASSUME base # None, Followed(log, wire, page, link, base, lastSeq, withheld), base > 0,
                      NEW n \in DOMAIN log, Newest(log, n), n > base, n \notin withheld
               PROVE  Named(log, wire', page, n)
    BY DEF Followed
  <2>1. Replayable(log, lastSeq, page, n)
    BY <1>1 DEF Followed
  <2>2. 0 < lastSeq
    <3>1. base \in Nat /\ base <= lastSeq
      BY TitleFacts
    <3> QED BY <1>3, <3>1
  <2>3. CASE n > lastSeq
    <3>1. n \in (lastSeq + 1)..Len(log)
      BY <1>3, <2>3
    <3> QED BY <1>2, <2>2, <3>1 DEF Named
  <2>4. CASE n <= lastSeq /\ page.title = log[n].snap.item
    <3>1. \A k \in Coming(wire') : k \in DOMAIN log /\ ~(k <= n)
      BY <1>2, <1>3, <2>4
    <3>2. \A k \in Coming(wire') : ~IsSwitch(log[k])
      BY <3>1 DEF Newest
    <3> QED BY <2>4, <3>2 DEF Named
  <2> QED BY <1>3, <2>1, <2>3, <2>4 DEF Replayable
<1>6. base # None => faults # 0
  BY <1>1, TitleFacts
<1>7. base # None /\ (faults = 0 \/ (faults = 1 /\ base > 0))
        => Followed(log, wire', page, "open", base, lastSeq, withheld)
  BY <1>5, <1>6, TitleFacts
<1> HIDE DEF OpensWith
<1> QED BY <1>1, <1>2, <1>4, <1>6, <1>7, TitleFacts, TitleNext

LEMMA TitleTurned ==
  ASSUME ShownInv, TitleInv, Connect, TurnsAway
  PROVE  TitleInv'
<1>1. /\ link' = "open" /\ link # "open" /\ page.phase = "ready"
      /\ UNCHANGED <<log, lastSeq, base, page>>
      /\ withheld' = withheld \cup (lastSeq + 1)..Len(log)
  BY DEF Connect, TurnsAway
<1>2. /\ wire' \in Seq(Messages) /\ DOMAIN wire' = {1, 2} /\ Len(wire') = 2
      /\ wire'[1] \in { Greeting, ErrorMsg } /\ wire'[2] = ErrorMsg
      /\ wire'[1] = Greeting => faults' = faults + 1
      /\ faults' \in Nat /\ faults <= faults' /\ faults \in Nat
  BY TurnsAwayIs, Facts
<1>3. /\ lastSeq \in Nat /\ Len(log) \in Nat /\ DOMAIN log = 1..Len(log)
      /\ link \in { "none", "down", "open" } /\ \A k \in DOMAIN log : log[k].seq = k
  BY Facts, TitleFacts DEF ShownInv, LinkTypes, Numbered
<1>4. /\ Greeting.type = "sync" /\ Greeting.seq = Len(log) /\ Greeting.events = << >>
      /\ ErrorMsg.type = "error"
  BY GreetingIs, ErrorMsgIs
<1>5. \A k \in DOMAIN wire' : Numbers(wire'[k]) = {} /\ Stamped(log, wire'[k])
  <2>1. Numbers(Greeting) = {} /\ Stamped(log, Greeting)
    BY <1>4 DEF Numbers, Stamped
  <2>2. Numbers(ErrorMsg) = {} /\ Stamped(log, ErrorMsg)
    BY <1>4 DEF Numbers, Stamped
  <2> QED BY <1>2, <2>1, <2>2
<1>6. Numbered(log, wire') /\ Coming(wire') = {}
  <2>1. Ordered(wire')
    BY <1>5 DEF Ordered
  <2>2. Coming(wire') = {}
    BY <1>5, ComingIs
  <2> QED BY <1>3, <1>5, <2>1, <2>2 DEF Numbered
<1>7. OpensWith(log, wire', lastSeq, faults')
  <2>1. CASE wire'[1] = Greeting
    <3>1. wire' # << >>
      <4>1. Len(wire') = 2 /\ Len(<< >>) = 0
        BY <1>2
      <4> QED BY <4>1
    <3>2. \A n \in DOMAIN log : ~(n > wire'[1].seq)
      BY <1>3, <1>4, <2>1
    <3>3. Greeted(log, wire')
      BY <1>4, <2>1, <3>1, <3>2 DEF Greeted
    <3>4. faults' # 0
      BY <1>2, <2>1
    <3> QED BY <3>3, <3>4 DEF OpensWith
  <2>2. CASE wire'[1] = ErrorMsg
    <3>1. Ungreeted(wire')
      BY <1>2, <1>4, <2>2 DEF Ungreeted
    <3> QED BY <3>1 DEF OpensWith
  <2> QED BY <1>2, <2>1, <2>2
<1>8. base # None => faults # 0 /\ faults' # 0
  <2>1. base # None => faults # 0
    BY <1>1, TitleFacts
  <2> QED BY <1>2, <2>1
<1>9. ASSUME base # None, faults' = 1, base > 0
      PROVE  Followed(log, wire', page, "open", base, lastSeq, withheld')
  <2> SUFFICES ASSUME NEW n \in DOMAIN log, Newest(log, n), n > base, n \notin withheld'
               PROVE  Named(log, wire', page, n)
    BY DEF Followed
  <2>1. faults = 1
    BY <1>2, <1>8, <1>9
  <2>2. Followed(log, wire, page, link, base, lastSeq, withheld)
    BY <1>9, <2>1, TitleFacts
  <2>3. n \notin withheld /\ ~(n > lastSeq)
    BY <1>1, <1>3
  <2>4. Replayable(log, lastSeq, page, n)
    BY <1>1, <2>2, <2>3 DEF Followed
  <2> QED BY <1>6, <2>3, <2>4 DEF Replayable, Named
<1> HIDE DEF OpensWith
<1> QED BY <1>1, <1>6, <1>7, <1>8, <1>9, TitleFacts, TitleNext

LEMMA TitleConnects ==
  ASSUME ShownInv, TitleInv, Connect
  PROVE  TitleInv'
BY TitleGreets, TitleTurned DEF Connect

(* What a first connection loses when it breaks is past the last number.   *)
LEMMA TitleBreaks ==
  ASSUME ShownInv, TitleInv, Break
  PROVE  TitleInv'
<1>1. link = "open" /\ link' = "down" /\ wire' = << >> /\ UNCHANGED <<log, lastSeq, base, withheld>>
  BY DEF Break, roomVars
<1>2. faults' = faults + 1
  BY DEF Break, Fault
<1>3. page'.title = page.title /\ page'.phase = page.phase
  BY Facts DEF Break, Pages
<1>4. faults' # 0 /\ (faults' = 1 => faults = 0)
  BY <1>2, Facts
<1>5. Numbered(log, wire')
  <2>1. DOMAIN wire' = {}
    BY <1>1
  <2> QED BY <2>1, TitleFacts DEF Numbered, Ordered
<1>6. base # None /\ faults = 0 => Followed(log, wire', page', "down", base, lastSeq, withheld)
  <2> SUFFICES ASSUME base # None, faults = 0, NEW n \in DOMAIN log, Newest(log, n), n > base,
                      n \notin withheld
               PROVE  Replayable(log, lastSeq, page', n)
    BY DEF Followed
  <2>1. Followed(log, wire, page, link, base, lastSeq, withheld) /\ Steady(wire, lastSeq)
    BY TitleFacts
  <2>2. Named(log, wire, page, n)
    BY <1>1, <2>1 DEF Followed
  <2> QED BY <1>3, <2>1, <2>2 DEF Named, Steady, Replayable
<1> QED BY <1>1, <1>3, <1>4, <1>5, <1>6, TitleFacts, TitleNext

(* The title after a message is the item of the last switch it brings.     *)
LEMMA TitleOfHead ==
  ASSUME ShownInv, TitleInv, HandleMessage
  PROVE  LET N == Numbers(Head(wire))
         IN  /\ (\A k \in N : ~IsSwitch(log[k])) => page'.title = page.title
             /\ \A n \in N : IsSwitch(log[n]) /\ (\A k \in N : IsSwitch(log[k]) => k <= n)
                               => page'.title = log[n].snap.item
<1> DEFINE m == Head(wire)
<1>1. /\ wire # << >> /\ m \in Messages /\ Sound(items, Len(log), m)
      /\ \/ m.type = "sync" /\ page' = Synced(page, m)
         \/ m.type = "event" /\ page' = Applied(page, m.event)
         \/ m.type = "error" /\ page'.title = page.title
  BY HandleIs
<1>2. Stamped(log, m)
  <2>1. wire \in Seq(Messages) /\ Numbered(log, wire)
    BY Facts, TitleFacts
  <2> QED BY <1>1, <2>1, TailIs DEF Numbered
<1> HIDE DEF m
<1>3. items \in Rows /\ page \in Pages /\ PageBehind(items, page)
  BY Facts
<1> SUFFICES /\ (\A k \in Numbers(m) : ~IsSwitch(log[k])) => page'.title = page.title
             /\ \A n \in Numbers(m) : IsSwitch(log[n]) /\ (\A k \in Numbers(m) : IsSwitch(log[k]) => k <= n)
                                        => page'.title = log[n].snap.item
  BY DEF m
<1>4. CASE m.type = "sync" /\ page' = Synced(page, m)
  <2>1. /\ Behind(items, m.snap) /\ \A j \in DOMAIN m.events : Tells(items, m.events[j])
    BY <1>1, <1>4 DEF Sound
  <2>2. /\ (\A j \in DOMAIN m.events : ~IsSwitch(m.events[j])) => page'.title = page.title
        /\ \A j \in DOMAIN m.events :
             IsSwitch(m.events[j]) /\ (\A k \in DOMAIN m.events : k > j => ~IsSwitch(m.events[k]))
               => page'.title = m.events[j].snap.item
    BY <1>1, <1>3, <1>4, <2>1, SyncedKeeps
  <2>3. Numbers(m) = { m.events[j].seq : j \in DOMAIN m.events }
    BY <1>4 DEF Numbers
  <2>4. /\ \A j \in DOMAIN m.events : /\ m.events[j].seq \in DOMAIN log /\ m.events[j] = log[m.events[j].seq]
                                      /\ m.events[j].seq \in Numbers(m)
        /\ \A i, j \in DOMAIN m.events : i < j => m.events[i].seq < m.events[j].seq
    BY <1>2, <1>4, <2>3 DEF Stamped, Genuine
  <2>5. (\A k \in Numbers(m) : ~IsSwitch(log[k])) => page'.title = page.title
    BY <2>2, <2>4
  <2>6. ASSUME NEW n \in Numbers(m), IsSwitch(log[n]), \A k \in Numbers(m) : IsSwitch(log[k]) => k <= n
        PROVE  page'.title = log[n].snap.item
    <3>1. PICK j \in DOMAIN m.events : n = m.events[j].seq
      BY <2>3
    <3>2. IsSwitch(m.events[j]) /\ m.events[j] = log[n]
      BY <2>4, <2>6, <3>1
    <3>3. ASSUME NEW k \in DOMAIN m.events, k > j, IsSwitch(m.events[k])
          PROVE  FALSE
      <4>1. m.events \in Seq(Events) /\ log \in Seq(Events)
        BY <1>1, <1>4, MessageTyped, Facts
      <4>2. k \in Nat /\ j \in Nat /\ j < k
        BY <3>3, <4>1
      <4>3. n < m.events[k].seq /\ m.events[k].seq \in DOMAIN log /\ n \in DOMAIN log
        BY <2>4, <3>1, <4>2
      <4>4. m.events[k].seq <= n
        <5>1. m.events[k].seq \in Numbers(m) /\ IsSwitch(log[m.events[k].seq])
          BY <2>4, <3>3
        <5> QED BY <2>6, <5>1
      <4> QED BY <4>1, <4>3, <4>4
    <3> QED BY <2>2, <3>2, <3>3
  <2> QED BY <2>5, <2>6
<1>5. CASE m.type = "event" /\ page' = Applied(page, m.event)
  <2> DEFINE e == m.event
  <2>1. e \in Events /\ Tells(items, e) /\ Genuine(log, e)
    BY <1>1, <1>2, <1>5, MessageTyped DEF Sound, Stamped
  <2>2. Numbers(m) = {e.seq} \ {0}
    BY <1>5 DEF Numbers
  <2>3. page'.title = IF IsSwitch(e) THEN e.snap.item ELSE page.title
    BY <1>3, <1>5, <2>1, AppliedKeeps
  <2> HIDE DEF e
  <2>4. CASE e.seq = 0
    BY <2>1, <2>2, <2>3, <2>4 DEF Genuine
  <2>5. CASE e.seq # 0
    <3>1. e = log[e.seq] /\ Numbers(m) = {e.seq}
      BY <2>1, <2>2, <2>5 DEF Genuine
    <3> QED BY <2>3, <3>1
  <2> QED BY <2>4, <2>5
<1>6. CASE m.type = "error" /\ page'.title = page.title
  <2>1. Numbers(m) = {}
    BY <1>6 DEF Numbers
  <2> QED BY <1>6, <2>1
<1> QED BY <1>1, <1>4, <1>5, <1>6

LEMMA TitleHandles ==
  ASSUME ShownInv, TitleInv, HandleMessage
  PROVE  TitleInv'
<1> DEFINE m == Head(wire)
           w == Tail(wire)
<1>1. /\ link = "open" /\ wire # << >> /\ wire' = w /\ m \in Messages
      /\ UNCHANGED <<roomVars, link, faults>> /\ page'.phase = page.phase /\ lastSeq' \in 0..Len(log)
      /\ \/ /\ m.type = "sync" /\ lastSeq' = MaxOf(lastSeq, m.seq)
            /\ base' = IF base = None THEN m.seq ELSE base
         \/ m.type = "event" /\ lastSeq' = MaxOf(lastSeq, m.event.seq) /\ base' = base
         \/ m.type = "error" /\ lastSeq' = lastSeq /\ base' = base
  BY HandleIs
<1>2. UNCHANGED <<log, link, withheld, faults>>
  BY <1>1 DEF roomVars, HandleMessage
<1>3. /\ wire \in Seq(Messages) /\ m = wire[1] /\ 1 \in DOMAIN wire
      /\ \A k \in DOMAIN w : k + 1 \in DOMAIN wire /\ w[k] = wire[k + 1]
      /\ w \in Seq(Messages) /\ \A k \in DOMAIN w : k \in Nat /\ k >= 1
      /\ log \in Seq(Events) /\ Len(log) \in Nat /\ DOMAIN log = 1..Len(log) /\ lastSeq \in 0..Len(log)
  BY <1>1, Facts, TailIs
<1>4. /\ Numbered(log, w) /\ Stamped(log, m)
      /\ \A a \in Numbers(m), b \in Coming(w) : a < b
      /\ \A n : n \in Coming(wire) <=> n \in Numbers(m) \/ n \in Coming(w)
  BY <1>1, <1>3, TitleFacts, NumberedTail, ComingOfTail
<1>5. Numbers(m) \subseteq DOMAIN log /\ Coming(w) \subseteq DOMAIN log
  BY <1>4, StampedIn, ComingIn
<1>6. /\ (\A k \in Numbers(m) : ~IsSwitch(log[k])) => page'.title = page.title
      /\ \A n \in Numbers(m) : IsSwitch(log[n]) /\ (\A k \in Numbers(m) : IsSwitch(log[k]) => k <= n)
                                 => page'.title = log[n].snap.item
  BY TitleOfHead
<1> HIDE DEF m, w
<1>7. ASSUME NEW n \in DOMAIN log, Newest(log, n), Named(log, wire, page, n)
      PROVE  Named(log, w, page', n)
  <2>1. CASE n \in Coming(w)
    BY <2>1 DEF Named
  <2>2. CASE n \in Numbers(m)
    <3>1. IsSwitch(log[n]) /\ \A k \in DOMAIN log : IsSwitch(log[k]) => k <= n
      BY <1>7 DEF Newest
    <3>2. page'.title = log[n].snap.item
      BY <1>5, <1>6, <2>2, <3>1
    <3>3. ASSUME NEW k \in Coming(w)
          PROVE  ~IsSwitch(log[k])
      <4>1. n < k /\ k \in DOMAIN log
        BY <1>4, <1>5, <2>2
      <4> QED BY <1>3, <3>1, <4>1
    <3> QED BY <3>2, <3>3 DEF Named
  <2>3. CASE page.title = log[n].snap.item /\ \A k \in Coming(wire) : ~IsSwitch(log[k])
    <3>1. page'.title = page.title
      BY <1>4, <1>6, <2>3
    <3>2. \A k \in Coming(w) : ~IsSwitch(log[k])
      BY <1>4, <2>3
    <3> QED BY <2>3, <3>1, <3>2 DEF Named
  <2> QED BY <1>4, <1>7, <2>1, <2>2, <2>3 DEF Named
<1>8. CASE base = None /\ Greeted(log, wire) /\ (faults = 0 => Fresh(wire, lastSeq))
  <2>1. wire # << >> /\ wire[1].type = "sync" /\ wire[1].events = << >>
    BY <1>8 DEF Greeted
  <2>2. m.type = "sync" /\ m.events = << >>
    BY <1>3, <2>1
  <2>3. m.seq \in Nat /\ lastSeq' = MaxOf(lastSeq, m.seq) /\ base' = m.seq
    BY <1>1, <1>8, <2>2, MessageTyped
  <2>4. base' \in Nat /\ base' # None /\ base' <= lastSeq'
    BY <1>3, <2>3, LiveRoomAssumption DEF MaxOf
  <2>5. Numbers(m) = {}
    BY <2>2 DEF Numbers
  <2>6. Followed(log, w, page', link, base', lastSeq', withheld)
    <3> SUFFICES ASSUME NEW n \in DOMAIN log, Newest(log, n), n > m.seq
                 PROVE  n \in Coming(w)
      BY <1>1, <2>3 DEF Followed, Named
    <3> QED BY <1>3, <1>4, <1>8, <2>5 DEF Greeted
  <2>7. ASSUME faults = 0
        PROVE  Steady(w, lastSeq')
    <3>1. Fresh(wire, lastSeq)
      BY <1>8, <2>7
    <3>2. \A k \in DOMAIN w : k + 1 > 1
      BY <1>3
    <3>3. \A k \in DOMAIN w : w[k].type # "sync"
      BY <1>3, <3>1, <3>2 DEF Fresh
    <3>4. \A n \in Coming(w) : n > m.seq
      BY <1>3, <1>4, <3>1 DEF Fresh
    <3>5. lastSeq' = m.seq
      <4>1. lastSeq <= m.seq
        BY <1>3, <3>1 DEF Fresh
      <4> QED BY <1>3, <2>3, <4>1 DEF MaxOf
    <3> QED BY <3>3, <3>4, <3>5 DEF Steady
  <2> QED BY <1>1, <1>2, <1>4, <2>4, <2>6, <2>7, TitleFacts, TitleNext
<1>10. CASE base = None /\ Ungreeted(wire)
  <2>1. m.type # "sync" /\ Ungreeted(w)
    BY <1>3, <1>10 DEF Ungreeted
  <2>2. base' = None
    BY <1>1, <1>10, <2>1
  <2>3. OpensWith(log, w, lastSeq', faults)
    BY <2>1 DEF OpensWith
  <2> HIDE DEF OpensWith
  <2> QED BY <1>1, <1>2, <1>4, <2>2, <2>3, TitleFacts, TitleNext
<1>9. CASE base # None
  <2>1. base' = base /\ base \in Nat /\ base <= lastSeq
    BY <1>1, <1>9, TitleFacts
  <2>2. lastSeq <= lastSeq'
    <3>1. lastSeq \in Nat
      BY <1>3
    <3>2. m.type = "sync" => m.seq \in Nat
      BY <1>1, MessageTyped
    <3>3. m.type = "event" => m.event.seq \in Nat
      BY <1>1, MessageTyped DEF Events
    <3> QED BY <1>1, <3>1, <3>2, <3>3 DEF MaxOf
  <2>3. base' <= lastSeq'
    BY <1>1, <1>3, <2>1, <2>2
  <2>4. Followed(log, wire, page, link, base, lastSeq, withheld)
          => Followed(log, w, page', link, base, lastSeq', withheld)
    BY <1>1, <1>7 DEF Followed
  <2>5. ASSUME faults = 0
        PROVE  Steady(w, lastSeq')
    <3>1. Steady(wire, lastSeq)
      BY <1>9, <2>5, TitleFacts
    <3>2. m.type # "sync" /\ \A k \in DOMAIN w : w[k].type # "sync"
      BY <1>3, <3>1 DEF Steady
    <3>3. ASSUME NEW n \in Coming(w)
          PROVE  n > lastSeq'
      <4>1. n > lastSeq /\ n \in DOMAIN log
        BY <1>4, <1>5, <3>1 DEF Steady
      <4>2. CASE m.type = "event"
        <5>1. m.event.seq \in Nat /\ lastSeq' = MaxOf(lastSeq, m.event.seq)
          BY <1>1, <4>2, MessageTyped DEF Events
        <5>2. m.event.seq = 0 \/ m.event.seq \in Numbers(m)
          BY <3>2, <4>2 DEF Numbers
        <5>3. m.event.seq < n
          BY <1>3, <1>4, <4>1, <5>2
        <5> QED BY <4>1, <5>1, <5>3 DEF MaxOf
      <4>3. CASE m.type = "error"
        BY <1>1, <4>1, <4>3
      <4> QED BY <1>1, <3>2, <4>2, <4>3
    <3> QED BY <3>2, <3>3 DEF Steady
  <2> QED BY <1>1, <1>2, <1>4, <1>9, <2>1, <2>3, <2>4, <2>5, TitleFacts, TitleNext
<1> QED BY <1>1, <1>8, <1>9, <1>10, TitleFacts DEF OpensWith

LEMMA TitleStep ==
  ASSUME ShownInv, TitleInv, [Next]_vars
  PROVE  TitleInv'
<1>1. ASSUME NEW a \in Actors, Publish(a)
      PROVE  TitleInv'
  BY <1>1, TitlePublishes
<1>5. ASSUME NEW a \in Actors, Remember(a)
      PROVE  TitleInv'
  BY <1>5, TitleRemembers
<1>2. CASE TakeBid
  BY <1>2, TitleQuiet, TitleTicks DEF TakeBid
<1>3. CASE \/ RivalBids \/ EndCurrent \/ SwitchOn \/ (\E i \in Items : WorkerSettles(i))
           \/ ServeRoom \/ Render \/ HideBanner \/ DismissBar \/ PressBid \/ Rest \/ UNCHANGED vars
  BY <1>3, TitleQuiet DEF Rest
<1>4. CASE Tick \/ LoadRoom \/ LoadFails \/ Connect \/ Break \/ HandleMessage
  BY <1>4, TitleTicks, TitleLoads, TitleConnects, TitleBreaks, TitleHandles
<1> QED BY <1>1, <1>2, <1>3, <1>4, <1>5 DEF Next

--------------------------------------------------------------------------------
(* The theorems                                                            *)

LEMMA AlwaysTrue == Spec => [](ShownInv /\ AnswerInv /\ TitleInv)
<1>1. Init => ShownInv /\ AnswerInv /\ TitleInv
  <2>1. Init => AnswerInv
    BY DEF Init, PageInit, AnswerInv
  <2> QED BY <2>1, ShownInit, TitleInit
<1>2. ShownInv /\ AnswerInv /\ TitleInv /\ [Next]_vars => (ShownInv /\ AnswerInv /\ TitleInv)'
  BY ShownStep, AnswerStep, TitleStep
<1> QED BY <1>1, <1>2, PTL DEF Spec

LEMMA TypesHold == ShownInv => TypeOK
BY Facts DEF TypeOK, Pages, Bars, Rows

LEMMA BehindHolds == ShownInv => PageIsBehindTheRoom
BY Facts DEF PageBehind, Behind, TrueStrip, PageIsBehindTheRoom

LEMMA AnswerHolds == AnswerInv => AnswerIsComing
BY DEF AnswerInv, Answer, AnswerIsComing

LEMMA TitleHolds == ShownInv /\ TitleInv => TitleFollowsSwitches
<1> SUFFICES ASSUME ShownInv, TitleInv, link = "open", wire = << >>, base # None,
                    faults = 0 \/ (faults = 1 /\ base > 0), SwitchesSince # {}
             PROVE  LET last == CHOOSE n \in SwitchesSince : \A k \in SwitchesSince : k <= n
                    IN  last \in withheld \/ page.title = log[last].snap.item
  BY DEF TitleFollowsSwitches
<1>1. /\ DOMAIN log = 1..Len(log) /\ Len(log) \in Nat /\ base \in Nat
      /\ Followed(log, wire, page, link, base, lastSeq, withheld)
  BY Facts, TitleFacts
<1>2. Coming(wire) = {}
  BY ComingIs
<1>3. \E n \in SwitchesSince : \A k \in SwitchesSince : k <= n
  <2>1. SwitchesSince \in SUBSET (1..Len(log))
    BY <1>1 DEF SwitchesSince
  <2> QED BY <1>1, <2>1, MaxIs
<1>4. PICK n \in SwitchesSince : /\ \A k \in SwitchesSince : k <= n
                                 /\ n = CHOOSE j \in SwitchesSince : \A k \in SwitchesSince : k <= j
  BY <1>3
<1>5. Newest(log, n) /\ n \in DOMAIN log /\ n > base
  <2>1. n \in DOMAIN log /\ base < n /\ IsSwitch(log[n])
    BY DEF SwitchesSince, IsSwitch
  <2>2. ASSUME NEW k \in DOMAIN log, IsSwitch(log[k])
        PROVE  k <= n
    <3>1. CASE base < k
      BY <1>4, <2>2, <3>1 DEF SwitchesSince, IsSwitch
    <3>2. CASE ~(base < k)
      BY <1>1, <2>1, <3>2
    <3> QED BY <3>1, <3>2
  <2> QED BY <1>1, <2>1, <2>2 DEF Newest
<1>6. n \notin withheld => Named(log, wire, page, n)
  BY <1>1, <1>5 DEF Followed
<1>7. n \in withheld \/ page.title = log[n].snap.item
  BY <1>2, <1>6 DEF Named
<1> QED BY <1>4, <1>7

(* Every variable keeps its type: above all, the title, the strip and the  *)
(* banner (handleSessionSwitch, BannerEffect) only ever name items of the  *)
(* room, and the last number seen never passes the log.                    *)
THEOREM PageTyped == Spec => []TypeOK
<1>1. ShownInv /\ AnswerInv /\ TitleInv => TypeOK
  BY TypesHold
<1> QED BY <1>1, AlwaysTrue, PTL

(* The page never shows more than the room has come to: who is offered to  *)
(* pay has won, what is called closed is closed, and no price is above the *)
(* item's, in whatever order events, replays, answers and effects come.    *)
THEOREM PageBehindTheRoom == Spec => []PageIsBehindTheRoom
<1>1. ShownInv /\ AnswerInv /\ TitleInv => PageIsBehindTheRoom
  BY BehindHolds
<1> QED BY <1>1, AlwaysTrue, PTL

(* While the connection holds, a buyer who pressed the button is owed an   *)
(* answer that is on its way: the bid, its event, or the hub's refusal.    *)
THEOREM AnswerOwed == Spec => []AnswerIsComing
<1>1. ShownInv /\ AnswerInv /\ TitleInv => AnswerIsComing
  BY AnswerHolds
<1> QED BY <1>1, AlwaysTrue, PTL

(* With nothing on its way, the page names the item of the last switch     *)
(* since the first greeting, even over one broken connection when there    *)
(* was a number to replay from (onRoomEvent, the frame's subscription).    *)
THEOREM TitleFollows == Spec => []TitleFollowsSwitches
<1>1. ShownInv /\ AnswerInv /\ TitleInv => TitleFollowsSwitches
  BY TitleHolds
<1> QED BY <1>1, AlwaysTrue, PTL
================================================================================
