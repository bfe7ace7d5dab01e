---------------------------- MODULE MirrorProofs ----------------------------
(***************************************************************************)
(* Once nothing is on its way, the terminal's rows are the backend's queue *)
(* (QuietMirrorAgrees), for any number of turns and any bounds, if the     *)
(* user waits while a resume is under way.  Prompts are shown before the   *)
(* backend has heard of them and rows change some steps after it acted, so *)
(* the invariant says of every turn what its row shows already, or what is *)
(* still on its way that will make it so.                                  *)
(***************************************************************************)
EXTENDS LinkProofs

-----------------------------------------------------------------------------
(* When the pipe is empty *)

\* No turn is unfinished, or yet to be heard of.
NonePending == \A t \in Turn : ~Asks(up, t) /\ ~Asks(waiting, t) /\ t \notin Unended

\* Which connection is in use, and whether its process can be heard.
ConnectionInv ==
  /\ session = "live" => launching \in {"no", "relaunch"} /\ (launching = "no" => state = "Ready")
  /\ session # "live" => ~alive /\ up = <<>> /\ down = <<>>
  /\ state = "Ready" => launching = "no" /\ waiting = <<>>
  /\ launching = "relaunch" =>
       /\ flow \in {"relaunching", "rollback"}
       /\ IF fallback = "live" THEN session = "live" ELSE ~alive /\ up = <<>> /\ down = <<>>
  /\ launching # "relaunch" => fallback = "none"
  /\ flow = "attaching" => session = "live" /\ launching = "no"

\* The request to resume is the last that matters on its way, and it is not repeated.
AsksResume(q) == \E i \in DOMAIN q : q[i].kind = "resume"
ResumeLast(q) ==
  \A i, j \in DOMAIN q : i < j /\ q[i].kind = "resume" => q[j].kind \notin {"resume", "submit"}
TellsResumed(q) == \E i \in DOMAIN q : q[i].type = "resumed"
TurnsEnd(q) ==
  \A i, j \in DOMAIN q : i < j /\ q[i].type = "resumed" =>
    q[j].type # "resumed" /\ (q[i].ok => q[j].turn \notin Turn)
OneResume ==
  /\ ~AsksResume(waiting) /\ ResumeLast(up) /\ TurnsEnd(down)
  /\ ~(AsksResume(up) /\ TellsResumed(down))
  /\ AsksResume(up) \/ TellsResumed(down) => flow = "attaching"

\* Once the backend has agreed to resume, it has nothing to do and nothing more to tell.
Agreed(q) == \E i \in DOMAIN q : q[i].type = "resumed" /\ q[i].ok
ResumedIdle ==
  /\ Agreed(down) \/ flow = "labelling" => NonePending
  /\ flow = "labelling" => \A j \in DOMAIN down : down[j].turn \notin Turn

FlowInv == ConnectionInv /\ OneResume /\ ResumedIdle

\* A turn that may still be heard of, or is to be.
Pending(t) == Asks(up, t) \/ Asks(waiting, t) \/ t \in Unended
Live(t) == Pending(t) \/ (\E i \in DOMAIN down : down[i].turn = t) \/ mirror.held[t] # 0

\* The turn has its prompt on screen and has not ended there.
Open(m, t) == t \notin m.ignored /\ \E i \in DOMAIN m.rows : m.rows[i].turn = t /\ m.rows[i].text
Above(m, t, u) ==
  \E i, j \in DOMAIN m.rows : i < j /\ m.rows[i].turn = t /\ m.rows[j].turn = u
InState(m, t, x) == \E i \in DOMAIN m.rows : m.rows[i].turn = t /\ m.rows[i].state = x

\* t is to run before u.
Sooner(q, t, u) ==
  \E i, j \in DOMAIN q : i < j /\ q[i] = Request("submit", t) /\ q[j] = Request("submit", u)
Before(t, u) ==
  \/ t \in Unended /\ u \in Unended /\ t \in ahead[u]
  \/ t \in Unended /\ (Asks(up, u) \/ Asks(waiting, u))
  \/ Asks(up, t) /\ Asks(waiting, u)
  \/ Sooner(up, t, u) \/ Sooner(waiting, t, u)

RowsShown == \A t \in Turn : Live(t) => t \in mirror.ignored \/ Open(mirror, t)
PendingShown == \A t \in Turn : Pending(t) => t \in cleared \/ t \notin mirror.ignored
RowsInFlight ==
  \A t \in Turn : HasRow(mirror, t) /\ t \notin mirror.ignored =>
    t \notin cleared /\ (t \in ToSet(inFlight) \/ Asks(waiting, t))
FlightPending ==
  alive /\ session = "live" => \A t \in ToSet(inFlight) :
    Pending(t) \/ t \in cleared \/ Tells(down, "settled", t) \/ Tells(down, "removed", t)
StampHeard ==
  \A t \in Turn : Asks(up, t) \/ Asks(waiting, t) => t \in cleared \/ mirror.stamp[t] = 0
StampKnown == \A t \in Turn : mirror.stamp[t] # 0 => t \in submitted \cup ToSet(Past)
WaitingApart == \A t \in Turn : Asks(waiting, t) => t \notin ToSet(inFlight)
ClearedKnown == cleared \subseteq submitted \cup ToSet(Past)
\* A clear on its way drops only what the user cleared.
AsksClear(q) == \E i \in DOMAIN q : q[i].kind = "clear"
ClearsOnly(q, C) ==
  \A i, j \in DOMAIN q : i < j /\ q[i].kind = "submit" /\ q[j].kind = "clear" => q[i].turn \in C
ClearCovers ==
  /\ AsksClear(up) => Unended \subseteq cleared
  /\ ClearsOnly(up, cleared) /\ ClearsOnly(waiting, cleared)
RowsOrdered ==
  \A t, u \in Turn \ cleared : Before(t, u) => Above(mirror, t, u)
RunsFirst ==
  \A r \in Backend!Running :
    /\ ahead[r] = {} /\ \A u \in Backend!Waiting : r \in ahead[u]
    /\ \A u \in Backend!Running : u = r

Activates(e, t) ==
  e.turn = t /\ (e.type = "activated" \/ (e.type = "enqueued" /\ e.state = "active"))
Queues(e, t) == e.turn = t /\ e.type = "enqueued" /\ e.state = "queued"

\* What is still to be heard of rows becoming active ends with the turn that runs, and
\* what was heard shows.
ActiveTold ==
  /\ \A r \in Backend!Running : \A i \in DOMAIN down :
       (\E u \in Turn \ {r} : Activates(down[i], u)) \/ Queues(down[i], r) =>
         \E j \in DOMAIN down : i < j /\ Activates(down[j], r)
  /\ \A t \in Backend!Waiting : \A i \in DOMAIN down : ~Activates(down[i], t)
ActiveShown ==
  /\ \A r \in Backend!Running :
       r \in cleared \/ InState(mirror, r, "active") \/ \E i \in DOMAIN down : Activates(down[i], r)
  /\ \A t \in Backend!Waiting :
       t \in cleared \/ InState(mirror, t, "queued") \/ \E i \in DOMAIN down : Queues(down[i], t)

RowsInv ==
  /\ RowsShown /\ PendingShown /\ StampHeard /\ StampKnown /\ RowsOrdered
  /\ RowsInFlight /\ WaitingApart /\ FlightPending
  /\ ClearedKnown /\ ClearCovers /\ RunsFirst /\ ActiveTold /\ ActiveShown

QuietInv == FlowInv /\ RowsInv

\* From m to n the rows of the turns not ignored stay, in their order; at most the turns
\* of T are ignored as well, and at most those of S are heard of.
Follows(m, n, T, S) ==
  /\ m.ignored \subseteq n.ignored /\ n.ignored \subseteq m.ignored \cup T
  /\ \A t \in Turn \ n.ignored :
       /\ Open(m, t) => Open(n, t)
       /\ HasRow(n, t) => HasRow(m, t)
       /\ \A u \in Turn \ n.ignored : Above(m, t, u) => Above(n, t, u)
  /\ \A t \in Turn : /\ n.stamp[t] # 0 => m.stamp[t] # 0 \/ t \in S
                     /\ n.held[t] # 0 => m.held[t] # 0
SameStates(m, n) ==
  \A t \in Turn \ n.ignored : \A x \in {"active", "queued"} : InState(m, t, x) => InState(n, t, x)
Retains(m, n, T, S) == Follows(m, n, T, S) /\ SameStates(m, n)

LEMMA RetainsSelf ==
  ASSUME NEW m, NEW T, NEW S
  PROVE  Retains(m, m, T, S)
  BY DEF Retains, Follows, SameStates

LEMMA FollowsMore ==
  ASSUME NEW m, NEW n, NEW o, NEW T, NEW S, NEW U, NEW V, Follows(m, n, T, S), Follows(n, o, U, V)
  PROVE  Follows(m, o, T \cup U, S \cup V)
  <1>1. m.ignored \subseteq o.ignored /\ o.ignored \subseteq m.ignored \cup (T \cup U)
    BY DEF Follows
  <1>2. ASSUME NEW t \in Turn \ o.ignored
        PROVE  /\ Open(m, t) => Open(o, t)
               /\ HasRow(o, t) => HasRow(m, t)
               /\ \A u \in Turn \ o.ignored : Above(m, t, u) => Above(o, t, u)
    <2>1. t \in Turn \ n.ignored /\ \A u \in Turn \ o.ignored : u \in Turn \ n.ignored
      BY DEF Follows
    <2> QED BY <2>1 DEF Follows
  <1>3. \A t \in Turn : /\ o.stamp[t] # 0 => m.stamp[t] # 0 \/ t \in S \cup V
                        /\ o.held[t] # 0 => m.held[t] # 0
    BY DEF Follows
  <1> QED BY <1>1, <1>2, <1>3 DEF Follows

LEMMA RetainsMore ==
  ASSUME NEW m, NEW n, NEW o, NEW T, NEW S, NEW U, NEW V, Retains(m, n, T, S), Retains(n, o, U, V)
  PROVE  Retains(m, o, T \cup U, S \cup V)
  <1>1. Follows(m, o, T \cup U, S \cup V)
    BY FollowsMore DEF Retains
  <1>2. SameStates(m, o)
    <2>1. \A t \in Turn \ o.ignored : t \in Turn \ n.ignored
      BY DEF Retains, Follows
    <2> QED BY <2>1 DEF Retains, SameStates
  <1> QED BY <1>1, <1>2 DEF Retains

LEMMA RetainsWider ==
  ASSUME NEW m, NEW n, NEW T, NEW S, NEW U, NEW V, Retains(m, n, T, S), T \subseteq U, S \subseteq V
  PROVE  Retains(m, n, U, V)
  BY DEF Retains, Follows

\* Rows that stay where they are; those added are of turns ignored.
Marks(m, n, T, S) ==
  /\ m.ignored \subseteq n.ignored /\ n.ignored \subseteq m.ignored \cup T
  /\ \A t \in Turn : /\ n.stamp[t] # 0 => m.stamp[t] # 0 \/ t \in S
                     /\ n.held[t] # 0 => m.held[t] # 0

LEMMA PlaceFollows ==
  ASSUME NEW m, NEW n, NEW T, NEW S, DOMAIN m.rows \subseteq DOMAIN n.rows,
         \A i \in DOMAIN m.rows :
           /\ n.rows[i].turn = m.rows[i].turn
           /\ m.rows[i].turn \notin n.ignored => n.rows[i].text = m.rows[i].text,
         \A k \in DOMAIN n.rows : k \in DOMAIN m.rows \/ n.rows[k].turn \in n.ignored,
         Marks(m, n, T, S)
  PROVE  /\ Follows(m, n, T, S)
         /\ (\A i \in DOMAIN m.rows :
               m.rows[i].turn \notin n.ignored => n.rows[i].state = m.rows[i].state) =>
              Retains(m, n, T, S)
  <1>1. ASSUME NEW t \in Turn \ n.ignored
        PROVE  /\ Open(m, t) => Open(n, t)
               /\ HasRow(n, t) => HasRow(m, t)
    BY <1>1 DEF Open, HasRow, Marks
  <1>2. ASSUME NEW t \in Turn \ n.ignored, NEW u \in Turn \ n.ignored, Above(m, t, u)
        PROVE  Above(n, t, u)
    BY <1>2 DEF Above
  <1>3. Follows(m, n, T, S)
    BY <1>1, <1>2 DEF Follows, Marks
  <1>4. ASSUME \A i \in DOMAIN m.rows :
                 m.rows[i].turn \notin n.ignored => n.rows[i].state = m.rows[i].state
        PROVE  SameStates(m, n)
    BY <1>4 DEF SameStates, InState
  <1> QED BY <1>3, <1>4 DEF Retains

\* The rows of some turns, all ignored from now on, are taken out.
LEMMA WithoutFollows ==
  ASSUME NEW m, m.rows \in Seq(Row), NEW n, NEW T, NEW S, NEW U,
         n.rows = Without(m.rows, U), VisibleTurns(m) \cap U \subseteq n.ignored,
         Marks(m, n, T, S)
  PROVE  Retains(m, n, T, S)
  <1> DEFINE K == {r \in ToSet(m.rows) : r.turn \notin U}
             q == Only(m.rows, K)
  <1>1. n.rows = q
    BY DEF Without
  <1>2. q \in Seq(Row) /\ \E at : Picks(q, at, m.rows, Len(m.rows), K)
    <2> HIDE DEF K
    <2> QED BY OnlyPicks
  <1>3. \A i \in DOMAIN m.rows : m.rows[i].turn \notin n.ignored => m.rows[i] \in K
    BY DEF ToSet, VisibleTurns
  <1> HIDE DEF K, q
  <1>4. PICK at : Picks(q, at, m.rows, Len(m.rows), K)
    BY <1>2
  <1>5. /\ DOMAIN q = 1..Len(q) /\ DOMAIN m.rows = 1..Len(m.rows)
        /\ Len(q) \in Nat /\ Len(m.rows) \in Nat
    BY <1>2
  <1>6. \A i \in DOMAIN q : at[i] \in DOMAIN m.rows /\ q[i] = m.rows[at[i]]
    BY <1>4, <1>5 DEF Picks
  <1>7. \A j \in DOMAIN m.rows : m.rows[j].turn \notin n.ignored =>
          \E i \in DOMAIN q : at[i] = j /\ q[i] = m.rows[j]
    <2> SUFFICES ASSUME NEW j \in DOMAIN m.rows, m.rows[j].turn \notin n.ignored
                 PROVE  \E i \in DOMAIN q : at[i] = j /\ q[i] = m.rows[j]
      OBVIOUS
    <2>1. m.rows[j] \in K /\ j \in 1..Len(m.rows)
      BY <1>3, <1>5
    <2>2. PICK i \in DOMAIN q : at[i] = j
      BY <1>4, <1>5, <2>1 DEF Picks
    <2> QED BY <1>6, <2>2
  <1>8. ASSUME NEW i \in DOMAIN q, NEW j \in DOMAIN q, at[i] < at[j] PROVE i < j
    <2>1. i \in Nat /\ j \in Nat /\ at[i] \in Nat /\ at[j] \in Nat
      BY <1>5, <1>6
    <2>2. j < i => at[j] < at[i]
      BY <1>4, <1>5 DEF Picks
    <2>3. i # j /\ ~(j < i)
      BY <1>8, <2>1, <2>2
    <2> QED BY <2>1, <2>3
  <1>9. ASSUME NEW t \in Turn \ n.ignored
        PROVE  /\ Open(m, t) => Open(n, t)
               /\ HasRow(n, t) => HasRow(m, t)
               /\ \A x : InState(m, t, x) => InState(n, t, x)
    BY <1>1, <1>6, <1>7 DEF Open, HasRow, InState
  <1>10. ASSUME NEW t \in Turn \ n.ignored, NEW u \in Turn \ n.ignored, Above(m, t, u)
         PROVE  Above(n, t, u)
    <2>1. PICK i \in DOMAIN m.rows, j \in DOMAIN m.rows :
            i < j /\ m.rows[i].turn = t /\ m.rows[j].turn = u
      BY <1>10 DEF Above
    <2>2. PICK k \in DOMAIN q, l \in DOMAIN q :
            at[k] = i /\ q[k] = m.rows[i] /\ at[l] = j /\ q[l] = m.rows[j]
      BY <1>7, <2>1
    <2>3. k < l
      BY <1>8, <2>1, <2>2
    <2> QED BY <1>1, <2>1, <2>2, <2>3 DEF Above
  <1> QED BY <1>9, <1>10 DEF Retains, Follows, SameStates, Marks

LEMMA MirrorIs ==
  ASSUME NEW m \in GoodMirrors
  PROVE  /\ m \in Mirrors /\ m.rows \in Seq(Row) /\ m.ignored \subseteq Turn
         /\ DOMAIN m.rows = 1..Len(m.rows) /\ Len(m.rows) \in Nat
         /\ \A i \in DOMAIN m.rows : m.rows[i] \in Row /\ m.rows[i].turn \in Turn
  <1>1. m \in Mirrors /\ m.rows \in Seq(Row) /\ m.ignored \subseteq Turn
    BY DEF GoodMirrors, Mirrors
  <1>2. \A i \in DOMAIN m.rows : m.rows[i] \in Row
    BY <1>1
  <1>3. \A r \in Row : r.turn \in Turn
    BY DEF Row
  <1> QED BY <1>1, <1>2, <1>3

\* An event is stamped, and its turn gets a row.
Readied(m, t, n) ==
  /\ n \in GoodMirrors /\ n.ignored = m.ignored /\ n.held = m.held
  /\ \A u \in Turn : n.stamp[u] # 0 => m.stamp[u] # 0 \/ u = t
  /\ DOMAIN m.rows \subseteq DOMAIN n.rows /\ \A i \in DOMAIN m.rows : n.rows[i] = m.rows[i]
  /\ \A k \in DOMAIN n.rows : k \in DOMAIN m.rows \/ n.rows[k].turn = t
  /\ HasRow(n, t)
  /\ HasRow(m, t) => n.rows = m.rows

LEMMA ReadiedIs ==
  ASSUME NEW m \in GoodMirrors, NEW e, e.turn \in Turn \ m.ignored,
         e.type = "enqueued" => e.state \in {"active", "queued"}
  PROVE  Readied(m, e.turn, EnsureTurn(StampTurnGeneration(m, e.turn), e))
  <1> DEFINE t == e.turn
             o == StampTurnGeneration(m, t)
             n == EnsureTurn(o, e)
             r == [turn |-> e.turn, text |-> FALSE, result |-> "none",
                   state |-> IF e.type = "enqueued" THEN e.state ELSE "active"]
  <1>1. o \in GoodMirrors /\ o.rows = m.rows /\ o.ignored = m.ignored /\ o.held = m.held
    BY StampAfter DEF After
  <1>2. \A u \in Turn : o.stamp[u] # 0 => m.stamp[u] # 0 \/ u = t
    BY MirrorIs DEF StampTurnGeneration, Mirrors
  <1>3. HasRow(o, t) <=> HasRow(m, t)
    BY <1>1 DEF HasRow
  <1>4. n = IF HasRow(o, t) THEN o ELSE [o EXCEPT !.rows = Append(@, r)]
    BY DEF EnsureTurn
  <1>9. n \in GoodMirrors /\ n.ignored = m.ignored /\ n.held = m.held /\ HasRow(n, t)
    <2> HIDE DEF o
    <2>1. n \in After(o, {t}) /\ n.ignored = o.ignored /\ n.held = o.held /\ HasRow(n, t)
      BY <1>1, EnsureAfter
    <2> QED BY <1>1, <2>1 DEF After
  <1> HIDE DEF o, n, r
  <1>5. CASE HasRow(m, t)
    <2>1. Readied(m, t, n)
      BY <1>1, <1>2, <1>3, <1>4, <1>5, <1>9 DEF Readied
    <2> QED BY <2>1 DEF n, o
  <1>6. CASE ~HasRow(m, t)
    <2>1. o \in Mirrors /\ o.rows \in Seq(Row)
      BY <1>1, MirrorIs
    <2>2. n.rows = Append(m.rows, r) /\ n.stamp = o.stamp
      BY <1>1, <1>3, <1>4, <1>6, <2>1 DEF Mirrors
    <2>3. r.turn = t
      BY DEF r
    <2>4. /\ DOMAIN m.rows \subseteq DOMAIN n.rows /\ \A i \in DOMAIN m.rows : n.rows[i] = m.rows[i]
          /\ \A k \in DOMAIN n.rows : k \in DOMAIN m.rows \/ n.rows[k] = r
      BY <1>1, <2>1, <2>2
    <2>5. Readied(m, t, n)
      BY <1>2, <1>6, <1>9, <2>2, <2>3, <2>4 DEF Readied
    <2> QED BY <2>5 DEF n, o
  <1> QED BY <1>5, <1>6

LEMMA UpdateText ==
  ASSUME NEW m \in GoodMirrors, NEW t, NEW x \in {"queued", "active", "settled"}, NEW z \in Result
  PROVE  LET n == UpdateTurn(m, t, x, z)
         IN  Updated(m, n, t, x) /\ \A i \in DOMAIN m.rows : n.rows[i].text = m.rows[i].text
  <1> DEFINE n == UpdateTurn(m, t, x, z)
  <1>1. Updated(m, n, t, x)
    BY MirrorIs, UpdateIs
  <1>2. ASSUME NEW i \in DOMAIN m.rows PROVE n.rows[i].text = m.rows[i].text
    <2>1. m.rows[i] \in Row /\ m \in Mirrors
      BY MirrorIs
    <2>2. n.rows[i] = IF m.rows[i].turn = t THEN [m.rows[i] EXCEPT !.state = x, !.result = z]
                      ELSE m.rows[i]
      BY <2>1 DEF UpdateTurn, Mirrors
    <2>3. [m.rows[i] EXCEPT !.state = x, !.result = z].text = m.rows[i].text
      BY <2>1 DEF Row
    <2> QED BY <2>2, <2>3
  <1> QED BY <1>1, <1>2

\* A turn settles: it alone is ignored from then on.
LEMMA SettleFollows ==
  ASSUME NEW m \in GoodMirrors, NEW t \in Turn \ m.ignored, NEW z \in Result, NEW e,
         e.turn = t, e.type = "settled", e.result = z
  PROVE  LET n == ReduceKnown(m, e)
         IN  Retains(m, n, {t}, {t}) /\ n.ignored = m.ignored \cup {t}
  <1> DEFINE o == EnsureTurn(StampTurnGeneration(m, t), e)
             p == [o EXCEPT !.ignored = @ \cup {t}, !.stream[t] = 0]
             n == UpdateTurn(p, t, "settled", z)
  <1>1. ReduceKnown(m, e) = n
    BY DEF ReduceKnown, SettleTurn
  <1>2. Readied(m, t, o)
    BY ReadiedIs
  <1> HIDE DEF o
  <1>3. o \in GoodMirrors /\ o \in Mirrors
    BY <1>2, MirrorIs DEF Readied
  <1>4. /\ p \in Mirrors /\ p.rows = o.rows /\ p.ignored = o.ignored \cup {t} /\ p.held = o.held
        /\ p.stamp = o.stamp
    BY <1>3 DEF Mirrors
  <1> HIDE DEF p
  <1>5. Updated(p, n, t, "settled")
    BY <1>4, UpdateIs
  <1> HIDE DEF n
  <1>6. /\ DOMAIN n.rows = DOMAIN o.rows /\ n.ignored = m.ignored \cup {t}
        /\ n.held = m.held /\ n.stamp = o.stamp
        /\ \A i \in DOMAIN o.rows : /\ n.rows[i].turn = o.rows[i].turn
                                    /\ o.rows[i].turn # t => n.rows[i] = o.rows[i]
    BY <1>2, <1>4, <1>5 DEF Updated, Readied
  <1>7. Marks(m, n, {t}, {t})
    BY <1>2, <1>6 DEF Marks, Readied
  <1>8. Retains(m, n, {t}, {t})
    <2>1. DOMAIN m.rows \subseteq DOMAIN n.rows
      BY <1>2, <1>6 DEF Readied
    <2>2. \A i \in DOMAIN m.rows :
            /\ n.rows[i].turn = m.rows[i].turn
            /\ m.rows[i].turn \notin n.ignored => n.rows[i] = m.rows[i]
      BY <1>2, <1>6 DEF Readied
    <2>3. \A k \in DOMAIN n.rows : k \in DOMAIN m.rows \/ n.rows[k].turn \in n.ignored
      BY <1>2, <1>6 DEF Readied
    <2> QED BY <1>7, <2>1, <2>2, <2>3, PlaceFollows
  <1> QED BY <1>1, <1>6, <1>8

\* Text that is held back is of a turn that has a row or is ignored.
HeldRow(m) == \A t \in Turn : m.held[t] # 0 => t \in m.ignored \/ HasRow(m, t)

LEMMA FlushFollows ==
  ASSUME NEW m \in GoodMirrors, NEW t \in Turn, HeldRow(m)
  PROVE  LET n == FlushCoalescer(m, t)
         IN  Retains(m, n, {}, {t}) /\ n.rows = m.rows /\ n.ignored = m.ignored
             /\ n \in GoodMirrors /\ HeldRow(n)
  <1> DEFINE e == Delta(t, m.held[t])
             n == FlushCoalescer(m, t)
             o == EnsureTurn(StampTurnGeneration(m, t), e)
  <1>0. e.turn = t /\ e.type = "tokenDelta" /\ e.chunks = m.held[t]
    BY DEF Delta
  <1>1. n \in GoodMirrors
    BY FlushAfter DEF After
  <1>2. /\ n.rows = m.rows /\ n.ignored = m.ignored
        /\ \A u \in Turn : n.stamp[u] # 0 => m.stamp[u] # 0 \/ u = t
        /\ \A u \in Turn : n.held[u] # 0 => m.held[u] # 0
    <2>1. CASE m.held[t] = 0
      BY <2>1 DEF FlushCoalescer
    <2>2. CASE m.held[t] # 0 /\ t \in m.ignored
      <3>1. n = [m EXCEPT !.held[t] = 0]
        BY <1>0, <2>2 DEF FlushCoalescer, ReduceTranscriptEvent
      <3>2. m \in Mirrors
        BY MirrorIs
      <3> QED BY <3>1, <3>2 DEF Mirrors
    <2>3. CASE m.held[t] # 0 /\ t \notin m.ignored
      <3>1. n = [ReduceTranscriptEvent(m, e) EXCEPT !.held[t] = 0]
        BY <2>3 DEF FlushCoalescer
      <3>2. m.stamp[t] \in {0, m.generation}
        BY DEF GoodMirrors
      <3>3. ReduceTranscriptEvent(m, e) = ReduceKnown(m, e)
        BY <1>0, <2>3, <3>2 DEF ReduceTranscriptEvent
      <3>4. ReduceKnown(m, e) = AppendDelta(o, t, m.held[t])
        BY <1>0 DEF ReduceKnown
      <3>5. Readied(m, t, o) /\ HasRow(m, t)
        BY <1>0, <2>3, ReadiedIs DEF HeldRow
      <3> HIDE DEF o, e
      <3>6. o \in Mirrors /\ o.rows = m.rows /\ o.ignored = m.ignored /\ o.held = m.held
        BY <3>5, MirrorIs DEF Readied
      <3>7. n = [AppendDelta(o, t, m.held[t]) EXCEPT !.held[t] = 0]
        BY <3>1, <3>3, <3>4
      <3>8. /\ n.rows = o.rows /\ n.ignored = o.ignored /\ n.stamp = o.stamp
            /\ \A u \in Turn : n.held[u] # 0 => o.held[u] # 0
        BY <3>6, <3>7 DEF AppendDelta, Mirrors
      <3> QED BY <3>5, <3>6, <3>8 DEF Readied
    <2> QED BY <2>1, <2>2, <2>3
  <1> HIDE DEF n
  <1>3. Marks(m, n, {}, {t})
    BY <1>2 DEF Marks
  <1>4. Retains(m, n, {}, {t})
    BY <1>2, <1>3, PlaceFollows
  <1>5. HeldRow(n)
    BY <1>2 DEF HeldRow, HasRow
  <1> QED BY <1>1, <1>2, <1>4, <1>5 DEF n

LEMMA HeldRowKept ==
  ASSUME NEW m \in GoodMirrors, HeldRow(m), NEW n \in GoodMirrors, NEW T, NEW S, Follows(m, n, T, S),
         \A t \in Turn \ n.ignored : HasRow(m, t) => HasRow(n, t)
  PROVE  HeldRow(n)
  BY DEF HeldRow, Follows

LEMMA RowsHeld ==
  ASSUME NEW m \in GoodMirrors, NEW n, NEW T, NEW S, Retains(m, n, T, S)
  PROVE  \A t \in Turn \ n.ignored : HasRow(m, t) => HasRow(n, t)
  <1> SUFFICES ASSUME NEW t \in Turn \ n.ignored, HasRow(m, t) PROVE HasRow(n, t)
    OBVIOUS
  <1>1. PICK i \in DOMAIN m.rows : m.rows[i].turn = t
    BY DEF HasRow
  <1>2. t \notin m.ignored
    BY DEF Retains, Follows
  <1>3. m.rows[i].state \in {"active", "queued"}
    <2>1. m.rows[i] \in Row /\ m.rows[i].state # "settled"
      BY <1>1, <1>2, MirrorIs DEF GoodMirrors
    <2> QED BY <2>1 DEF Row
  <1>4. InState(m, t, m.rows[i].state)
    BY <1>1 DEF InState
  <1>5. InState(n, t, m.rows[i].state)
    BY <1>3, <1>4 DEF Retains, SameStates
  <1> QED BY <1>5 DEF InState, HasRow

\* The end of a turn, or its removal, is heard: it is ignored from then on.
LEMMA EndFollows ==
  ASSUME NEW m \in GoodMirrors, HeldRow(m), NEW e, e.turn \in Turn,
         \/ e.type = "settled" /\ e.result \in Result
         \/ e.type = "removed" /\ (HasRow(m, e.turn) \/ e.turn \in m.ignored)
  PROVE  LET n == TranscriptEvent(m, e)
         IN  Retains(m, n, {e.turn}, {e.turn}) /\ e.turn \in n.ignored
  <1> DEFINE t == e.turn
             o == FlushCoalescer(m, t)
             n == ReduceTranscriptEvent(o, e)
  <1>1. TranscriptEvent(m, e) = n
    BY DEF TranscriptEvent
  <1>2. /\ Retains(m, o, {}, {t}) /\ o.rows = m.rows /\ o.ignored = m.ignored
        /\ o \in GoodMirrors
    BY FlushFollows
  <1> HIDE DEF o
  <1>3. Retains(o, n, {t}, {t}) /\ t \in n.ignored
    <2>1. CASE t \in o.ignored
      <3>1. n = o
        BY <2>1 DEF ReduceTranscriptEvent
      <3> QED BY <2>1, <3>1, RetainsSelf
    <2>2. CASE t \notin o.ignored /\ e.type = "settled"
      <3>1. o.stamp[t] \in {0, o.generation}
        BY <1>2 DEF GoodMirrors
      <3>2. n = ReduceKnown(o, e)
        BY <2>2, <3>1 DEF ReduceTranscriptEvent
      <3> HIDE DEF n
      <3>3. Retains(o, ReduceKnown(o, e), {t}, {t}) /\ ReduceKnown(o, e).ignored = o.ignored \cup {t}
        BY <1>2, <2>2, SettleFollows
      <3> QED BY <3>2, <3>3
    <2>3. CASE t \notin o.ignored /\ e.type = "removed"
      <3>1. HasRow(o, t)
        BY <1>2, <2>3 DEF HasRow
      <3>2. n = [o EXCEPT !.ignored = @ \cup {t}, !.stream[t] = 0, !.rows = Without(@, {t})]
        BY <2>3, <3>1 DEF ReduceTranscriptEvent, RemoveTurn
      <3>3. o \in Mirrors /\ o.rows \in Seq(Row)
        BY <1>2, MirrorIs
      <3> HIDE DEF n
      <3>4. /\ n.rows = Without(o.rows, {t}) /\ n.ignored = o.ignored \cup {t}
            /\ n.stamp = o.stamp /\ n.held = o.held
        BY <3>2, <3>3 DEF Mirrors
      <3>5. Marks(o, n, {t}, {t}) /\ VisibleTurns(o) \cap {t} \subseteq n.ignored
        BY <3>4 DEF Marks
      <3>6. Retains(o, n, {t}, {t})
        BY <3>3, <3>4, <3>5, WithoutFollows
      <3> QED BY <3>4, <3>6
    <2> QED BY <2>1, <2>2, <2>3
  <1> HIDE DEF n
  <1>4. Retains(m, n, {} \cup {t}, {t} \cup {t})
    BY <1>2, <1>3, RetainsMore
  <1>5. {} \cup {t} = {t} /\ {t} \cup {t} = {t}
    OBVIOUS
  <1> QED BY <1>1, <1>3, <1>4, <1>5

\* A turn is queued, or the one row that is active.
LEMMA ActivateFollows ==
  ASSUME NEW m \in GoodMirrors, HeldRow(m), NEW e, e.turn \in Turn,
         HasRow(m, e.turn) \/ e.turn \in m.ignored,
         \/ e.type = "activated"
         \/ e.type = "enqueued" /\ e.state \in {"active", "queued"}
  PROVE  LET n == TranscriptEvent(m, e)
         IN  /\ Follows(m, n, {}, {e.turn}) /\ n.ignored = m.ignored
             /\ \A t \in Turn \ m.ignored : HasRow(m, t) => HasRow(n, t)
             /\ e.turn \in m.ignored => SameStates(m, n)
             /\ e.turn \notin m.ignored =>
                  /\ Activates(e, e.turn) => \A t \in Turn \ m.ignored : HasRow(m, t) =>
                       InState(n, t, IF t = e.turn THEN "active" ELSE "queued")
                  /\ Queues(e, e.turn) =>
                       /\ InState(n, e.turn, "queued")
                       /\ \A t \in Turn \ m.ignored : \A x \in {"active", "queued"} :
                            t # e.turn /\ InState(m, t, x) => InState(n, t, x)
  <1> DEFINE t == e.turn
             o == FlushCoalescer(m, t)
             n == ReduceTranscriptEvent(o, e)
             p == EnsureTurn(StampTurnGeneration(o, t), e)
             q == RowOf(p, t).result
  <1>1. TranscriptEvent(m, e) = n
    BY DEF TranscriptEvent
  <1>2. /\ Retains(m, o, {}, {t}) /\ o.rows = m.rows /\ o.ignored = m.ignored
        /\ o \in GoodMirrors
    BY FlushFollows
  <1> HIDE DEF o
  <1>3. CASE t \in m.ignored
    <2>1. n = o
      BY <1>2, <1>3 DEF ReduceTranscriptEvent
    <2>2. Follows(m, n, {}, {t}) /\ SameStates(m, n) /\ n.rows = m.rows /\ n.ignored = m.ignored
      BY <1>2, <2>1 DEF Retains
    <2>3. \A u \in Turn : HasRow(m, u) => HasRow(n, u)
      BY <2>2 DEF HasRow
    <2> HIDE DEF n
    <2> QED BY <1>1, <1>3, <2>2, <2>3
  <1>4. CASE t \notin m.ignored
    <2>1. o.stamp[t] \in {0, o.generation} /\ HasRow(o, t)
      BY <1>2, <1>4 DEF GoodMirrors, HasRow
    <2>2. n = ReduceKnown(o, e)
      BY <1>2, <1>4, <2>1 DEF ReduceTranscriptEvent
    <2>3. Readied(o, t, p)
      BY <1>2, <1>4, ReadiedIs
    <2>4. n = IF Activates(e, t) THEN ActivateTurn(p, t) ELSE UpdateTurn(p, t, "queued", q)
      BY <2>2 DEF ReduceKnown, SetTurnState, Activates
    <2> HIDE DEF n, p
    <2>5. p \in GoodMirrors /\ p.rows = m.rows /\ p.ignored = m.ignored /\ p.held = o.held /\ HasRow(p, t)
      BY <1>2, <2>1, <2>3 DEF Readied
    <2>6. q \in Result
      <3>1. PICK i \in DOMAIN p.rows : RowOf(p, t) = p.rows[i]
        BY <2>5 DEF HasRow, RowOf
      <3>2. \A r \in Row : r.result \in Result
        BY DEF Row
      <3>3. p.rows[i] \in Row
        BY <2>5, MirrorIs
      <3> QED BY <3>1, <3>2, <3>3
    <2> HIDE DEF q
    <2>7. \A i \in DOMAIN m.rows : m.rows[i].turn \notin m.ignored <=> m.rows[i].state # "settled"
      BY DEF GoodMirrors
    <2>8. CASE Activates(e, t)
      <3> DEFINE R == [i \in DOMAIN m.rows |->
                    IF m.rows[i].state = "settled" THEN m.rows[i]
                    ELSE [m.rows[i] EXCEPT !.state = IF m.rows[i].turn = t THEN "active" ELSE "queued"]]
      <3>1. n = [p EXCEPT !.rows = R]
        BY <2>4, <2>5, <2>8 DEF ActivateTurn
      <3>2. ASSUME NEW i \in DOMAIN m.rows
            PROVE  /\ R[i].turn = m.rows[i].turn /\ R[i].text = m.rows[i].text
                   /\ m.rows[i].state # "settled" =>
                        R[i].state = IF m.rows[i].turn = t THEN "active" ELSE "queued"
        <4>1. m.rows[i] \in Row
          BY MirrorIs
        <4> QED BY <4>1 DEF Row
      <3>3. DOMAIN R = DOMAIN m.rows
        OBVIOUS
      <3> HIDE DEF R
      <3>4. n.rows = R /\ n.ignored = m.ignored /\ n.held = p.held /\ n.stamp = p.stamp
        <4>1. p \in Mirrors
          BY <2>5, MirrorIs
        <4> QED BY <2>5, <3>1, <4>1 DEF Mirrors
      <3>5. Marks(o, n, {}, {t})
        BY <1>2, <2>3, <3>4 DEF Marks, Readied
      <3>6. Follows(o, n, {}, {t})
        BY <1>2, <3>2, <3>3, <3>4, <3>5, PlaceFollows
      <3>7. ASSUME NEW u \in Turn \ m.ignored, HasRow(m, u)
            PROVE  InState(n, u, IF u = t THEN "active" ELSE "queued")
        <4>1. PICK i \in DOMAIN m.rows : m.rows[i].turn = u
          BY <3>7 DEF HasRow
        <4> QED BY <2>7, <3>2, <3>3, <3>4, <4>1 DEF InState
      <3>8. \A u \in Turn \ m.ignored : HasRow(m, u) => HasRow(n, u)
        BY <3>7 DEF InState, HasRow
      <3>9. Follows(m, n, {} \cup {}, {t} \cup {t})
        BY <1>2, <3>6, FollowsMore DEF Retains
      <3>10. {} \cup {} = {} /\ {t} \cup {t} = {t} /\ ~Queues(e, t)
        BY <2>8 DEF Activates, Queues
      <3> QED BY <1>1, <1>4, <3>4, <3>7, <3>8, <3>9, <3>10
    <2>9. CASE ~Activates(e, t)
      <3>1. /\ Updated(p, n, t, "queued") /\ \A i \in DOMAIN p.rows : n.rows[i].text = p.rows[i].text
        BY <2>4, <2>5, <2>6, <2>9, UpdateText, ZenonT(60)
      <3>2. /\ DOMAIN n.rows = DOMAIN m.rows /\ n.ignored = m.ignored /\ n.held = p.held
            /\ n.stamp = p.stamp
            /\ \A i \in DOMAIN m.rows :
                 /\ n.rows[i].turn = m.rows[i].turn /\ n.rows[i].text = m.rows[i].text
                 /\ n.rows[i].state = IF m.rows[i].turn = t THEN "queued" ELSE m.rows[i].state
        BY <2>5, <3>1 DEF Updated
      <3>3. Marks(o, n, {}, {t})
        BY <1>2, <2>3, <3>2 DEF Marks, Readied
      <3>4. Follows(o, n, {}, {t})
        BY <1>2, <3>2, <3>3, PlaceFollows
      <3>5. Follows(m, n, {} \cup {}, {t} \cup {t})
        BY <1>2, <3>4, FollowsMore DEF Retains
      <3>6. {} \cup {} = {} /\ {t} \cup {t} = {t}
        OBVIOUS
      <3>7. \A u \in Turn \ m.ignored : HasRow(m, u) => HasRow(n, u)
        BY <3>2 DEF HasRow
      <3>8. InState(n, t, "queued")
        BY <2>5, <3>2 DEF HasRow, InState
      <3>9. \A u \in Turn \ m.ignored : \A x \in {"active", "queued"} :
              u # t /\ InState(m, u, x) => InState(n, u, x)
        BY <3>2 DEF InState
      <3> QED BY <1>1, <1>4, <2>9, <3>2, <3>5, <3>6, <3>7, <3>8, <3>9
    <2> QED BY <2>8, <2>9
  <1> QED BY <1>3, <1>4

\* Every submitted turn without an end is told to have failed, and is ignored after that.
LEMMA FailuresFollow ==
  ASSUME NEW m \in GoodMirrors, HeldRow(m), NEW s \in Seq(Turn)
  PROVE  LET n == FoldLeft(TransportFailure, m, s)
         IN  /\ Retains(m, n, ToSet(s), ToSet(s)) /\ ToSet(s) \subseteq n.ignored
             /\ n \in GoodMirrors
  <1> DEFINE M == {n \in GoodMirrors : Retains(m, n, ToSet(s), ToSet(s))}
             n == FoldLeft(TransportFailure, m, s)
  <1>1. m \in M
    BY RetainsSelf
  <1>2. ASSUME NEW o \in M, NEW t \in ToSet(s)
        PROVE  /\ TransportFailure(o, t) \in M /\ t \in TransportFailure(o, t).ignored
               /\ o.ignored \subseteq TransportFailure(o, t).ignored
    <2> DEFINE e == Settled(t, "error")
               p == TransportFailure(o, t)
    <2>1. t \in Turn /\ o \in GoodMirrors /\ Retains(m, o, ToSet(s), ToSet(s))
      BY DEF ToSet
    <2>2. HeldRow(o)
      BY <2>1, HeldRowKept, RowsHeld DEF Retains
    <2>3. e.turn = t /\ e.type = "settled" /\ e.result \in Result
      BY DEF Settled, Result
    <2>4. p = TranscriptEvent(o, e)
      BY DEF TransportFailure
    <2> HIDE DEF e, p, M
    <2>5. Retains(o, p, {t}, {t}) /\ t \in p.ignored
      BY <2>1, <2>2, <2>3, <2>4, EndFollows
    <2>6. p \in GoodMirrors
      BY <2>1, <2>3, <2>4, EventAfter DEF After
    <2>7. Retains(m, p, ToSet(s) \cup {t}, ToSet(s) \cup {t})
      BY <2>1, <2>5, RetainsMore
    <2>8. ToSet(s) \cup {t} = ToSet(s)
      OBVIOUS
    <2>9. p \in M
      BY <2>6, <2>7, <2>8 DEF M
    <2>10. o.ignored \subseteq p.ignored
      BY <2>5 DEF Retains, Follows
    <2> QED BY <2>5, <2>9, <2>10 DEF p
  <1>3. s \in Seq(ToSet(s))
    BY DEF ToSet
  <1> HIDE DEF M
  <1>4. n \in M
    BY <1>1, <1>2, <1>3, FoldStays
  <1>5. ASSUME NEW t \in ToSet(s) PROVE t \in n.ignored
    <2> DEFINE G == {o \in M : t \in o.ignored}
    <2>1. \A o \in M, y \in ToSet(s) :
            /\ TransportFailure(o, y) \in M
            /\ o \in G \/ y = t => TransportFailure(o, y) \in G
      BY <1>2
    <2> HIDE DEF G
    <2>2. n \in G
      BY <1>1, <1>3, <2>1, FoldReaches
    <2> QED BY <2>2 DEF G
  <1> QED BY <1>4, <1>5 DEF M

\* Prompts whose submit failed.
LEMMA SettleLocalFollows ==
  ASSUME NEW m \in GoodMirrors, NEW T \in SUBSET Turn
  PROVE  LET n == SettleLocalSubmitFailure(m, T)
         IN  Retains(m, n, T, {}) /\ n.ignored = m.ignored \cup T
  <1> DEFINE n == SettleLocalSubmitFailure(m, T)
             R == [i \in DOMAIN m.rows |->
                    IF m.rows[i].turn \in T THEN [m.rows[i] EXCEPT !.state = "settled"]
                    ELSE m.rows[i]]
  <1>1. m \in Mirrors
    BY MirrorIs
  <1>2. n = [m EXCEPT !.rows = R, !.ignored = m.ignored \cup T, !.notices = m.notices \cup T]
    BY DEF SettleLocalSubmitFailure
  <1>3. ASSUME NEW i \in DOMAIN m.rows
        PROVE  R[i].turn = m.rows[i].turn /\ (m.rows[i].turn \notin T => R[i] = m.rows[i])
    <2>1. m.rows[i] \in Row
      BY MirrorIs
    <2> QED BY <2>1 DEF Row
  <1>4. DOMAIN R = DOMAIN m.rows
    OBVIOUS
  <1> HIDE DEF n, R
  <1>5. n.rows = R /\ n.ignored = m.ignored \cup T /\ n.held = m.held /\ n.stamp = m.stamp
    BY <1>1, <1>2 DEF Mirrors
  <1>6. Marks(m, n, T, {})
    BY <1>5 DEF Marks
  <1>7. Retains(m, n, T, {})
    BY <1>3, <1>4, <1>5, <1>6, PlaceFollows
  <1> QED BY <1>5, <1>7 DEF n

LEMMA DiscardFollows ==
  ASSUME NEW m \in GoodMirrors, NEW T \in SUBSET Turn
  PROVE  LET n == DiscardLocalSubmit(m, T)
         IN  Retains(m, n, T, {}) /\ n.ignored = m.ignored \cup T
  <1> DEFINE n == DiscardLocalSubmit(m, T)
  <1>1. m \in Mirrors /\ m.rows \in Seq(Row)
    BY MirrorIs
  <1>2. /\ n.rows = Without(m.rows, T) /\ n.ignored = m.ignored \cup T
        /\ n.held = m.held /\ n.stamp = m.stamp
    BY <1>1 DEF DiscardLocalSubmit, Mirrors
  <1> HIDE DEF n
  <1>3. Marks(m, n, T, {}) /\ VisibleTurns(m) \cap T \subseteq n.ignored
    BY <1>2 DEF Marks
  <1>4. Retains(m, n, T, {})
    BY <1>1, <1>2, <1>3, WithoutFollows
  <1> QED BY <1>2, <1>4 DEF n

\* The turns a mirror has heard of.
HeardOf(m) == {t \in Turn : m.stamp[t] # 0}

LEMMA ResetFollows ==
  ASSUME NEW m \in GoodMirrors
  PROVE  LET n == ResetTranscriptMirror(m)
         IN  /\ Retains(m, n, HeardOf(m), {}) /\ n \in GoodMirrors
             /\ \A t \in Turn : n.stamp[t] = 0 /\ n.held[t] = 0
  <1> DEFINE n == ResetTranscriptMirror(m)
             K == HeardOf(m)
  <1>1. m \in Mirrors /\ m.rows \in Seq(Row)
    BY MirrorIs
  <1>2. n = [m EXCEPT !.held = Zero, !.generation = @ + 1,
               !.ignored = @ \cup (VisibleTurns(m) \cap K), !.rows = Without(@, K),
               !.stream = Zero, !.stamp = Zero, !.current = None]
    BY DEF ResetTranscriptMirror, HeardOf
  <1> HIDE DEF n, K
  <1>3. /\ n.rows = Without(m.rows, K) /\ n.ignored = m.ignored \cup (VisibleTurns(m) \cap K)
        /\ n.held = Zero /\ n.stamp = Zero
    BY <1>1, <1>2 DEF Mirrors
  <1>4. \A t \in Turn : n.stamp[t] = 0 /\ n.held[t] = 0
    BY <1>3, ZeroIs
  <1>5. Marks(m, n, K, {}) /\ VisibleTurns(m) \cap K \subseteq n.ignored
    BY <1>3, <1>4 DEF Marks
  <1>6. Retains(m, n, K, {})
    BY <1>1, <1>3, <1>5, WithoutFollows
  <1>7. n \in GoodMirrors
    BY ResetIs DEF Wiped, n
  <1> QED BY <1>4, <1>6, <1>7 DEF n, K

LEMMA ClearFollows ==
  ASSUME NEW m \in GoodMirrors
  PROVE  LET n == ClearTranscript(m)
         IN  /\ Retains(m, n, VisibleTurns(m), {}) /\ VisibleTurns(m) \subseteq n.ignored
             /\ n.rows = <<>> /\ \A t \in Turn : n.stamp[t] = 0 /\ n.held[t] = 0
  <1> DEFINE n == ClearTranscript(m)
  <1>1. m \in Mirrors
    BY MirrorIs
  <1>2. /\ n.rows = <<>> /\ n.ignored = m.ignored \cup VisibleTurns(m)
        /\ n.held = Zero /\ n.stamp = Zero
    BY <1>1 DEF ClearTranscript, IgnoredByClear, Mirrors
  <1> HIDE DEF n
  <1>3. \A t \in Turn : n.stamp[t] = 0 /\ n.held[t] = 0
    BY <1>2, ZeroIs
  <1>4. \A t : ~HasRow(n, t)
    BY <1>2 DEF HasRow
  <1>5. \A t : t \notin n.ignored => ~\E i \in DOMAIN m.rows : m.rows[i].turn = t
    BY <1>2 DEF VisibleTurns
  <1>6. Follows(m, n, VisibleTurns(m), {})
    BY <1>2, <1>3, <1>4, <1>5 DEF Follows, Open, Above
  <1>7. SameStates(m, n)
    BY <1>5 DEF SameStates, InState
  <1>8. Retains(m, n, VisibleTurns(m), {})
    BY <1>6, <1>7 DEF Retains
  <1> QED BY <1>2, <1>3, <1>8 DEF n

\* The optimistic row goes below the others.
LEMMA PromptFollows ==
  ASSUME NEW m \in GoodMirrors, NEW t \in Turn \ Known(m)
  PROVE  LET n == AppendPrompt(m, t)
         IN  /\ n.ignored = m.ignored /\ n.held = m.held /\ n.stamp = m.stamp
             /\ Open(n, t) /\ \A u : HasRow(m, u) => Above(n, u, t)
             /\ \A u \in Turn : /\ Open(m, u) => Open(n, u)
                                /\ HasRow(n, u) => HasRow(m, u) \/ u = t
                                /\ \A v \in Turn : Above(m, u, v) => Above(n, u, v)
             /\ SameStates(m, n)
  <1> DEFINE r == [turn |-> t, text |-> TRUE, state |-> "active", result |-> "none"]
             n == AppendPrompt(m, t)
             k == Len(m.rows) + 1
  <1>1. m \in Mirrors /\ m.rows \in Seq(Row) /\ Len(m.rows) \in Nat /\ DOMAIN m.rows = 1..Len(m.rows)
    BY MirrorIs
  <1>2. /\ n.rows = Append(m.rows, r) /\ n.ignored = m.ignored /\ n.held = m.held /\ n.stamp = m.stamp
    BY <1>1 DEF AppendPrompt, Mirrors
  <1>3. r.turn = t /\ r.text
    OBVIOUS
  <1> HIDE DEF n, r
  <1>4. /\ DOMAIN n.rows = 1..k /\ n.rows[k] = r /\ k \in 1..k
        /\ \A i \in DOMAIN m.rows : i \in DOMAIN n.rows /\ n.rows[i] = m.rows[i] /\ i < k
        /\ \A i \in DOMAIN n.rows : i \in DOMAIN m.rows \/ i = k
    BY <1>1, <1>2
  <1> HIDE DEF k
  <1>5. t \notin m.ignored
    BY DEF Known
  <1>6. Open(n, t) /\ \A u : HasRow(m, u) => Above(n, u, t)
    BY <1>2, <1>3, <1>4, <1>5 DEF Open, HasRow, Above
  <1>7. \A u \in Turn : /\ Open(m, u) => Open(n, u)
                        /\ HasRow(n, u) => HasRow(m, u) \/ u = t
    BY <1>2, <1>3, <1>4 DEF Open, HasRow
  <1>8. ASSUME NEW u \in Turn, NEW v \in Turn, Above(m, u, v) PROVE Above(n, u, v)
    BY <1>4, <1>8 DEF Above
  <1>9. SameStates(m, n)
    BY <1>4 DEF SameStates, InState
  <1> QED BY <1>2, <1>6, <1>7, <1>8, <1>9 DEF n

-----------------------------------------------------------------------------
(* What is on its way *)

LEMMA TailIs ==
  ASSUME NEW S, NEW q \in Seq(S), q # <<>>
  PROVE  /\ Tail(q) \in Seq(S) /\ Head(q) = q[1] /\ 1 \in DOMAIN q /\ q[1] \in S
         /\ \A i \in DOMAIN Tail(q) : /\ i + 1 \in DOMAIN q /\ Tail(q)[i] = q[i + 1]
                                      /\ i \in Nat /\ 1 < i + 1
         /\ \A i \in DOMAIN q : i = 1 \/ (i - 1 \in DOMAIN Tail(q) /\ Tail(q)[i - 1] = q[i])
  <1>1. Len(q) \in Nat /\ Len(q) # 0 /\ DOMAIN q = 1..Len(q) /\ \A i \in 1..Len(q) : q[i] \in S
    OBVIOUS
  <1>2. /\ Tail(q) \in Seq(S) /\ Head(q) = q[1] /\ DOMAIN Tail(q) = 1..(Len(q) - 1)
        /\ \A i \in 1..(Len(q) - 1) : Tail(q)[i] = q[i + 1]
    OBVIOUS
  <1> QED BY <1>1, <1>2

LEMMA AppendIs ==
  ASSUME NEW S, NEW q \in Seq(S), NEW r \in S
  PROVE  LET p == Append(q, r)
             k == Len(q) + 1
         IN  /\ p \in Seq(S) /\ k \in DOMAIN p /\ p[k] = r
             /\ \A i \in DOMAIN q : i \in DOMAIN p /\ p[i] = q[i] /\ i < k
             /\ \A i \in DOMAIN p : i \in Nat /\ (i \in DOMAIN q \/ i = k)
  OBVIOUS

LEMMA JoinIs ==
  ASSUME NEW S, NEW q \in Seq(S), NEW e \in Seq(S)
  PROVE  LET p == q \o e
         IN  /\ p \in Seq(S)
             /\ \A i \in DOMAIN q : i \in DOMAIN p /\ p[i] = q[i]
             /\ \A k \in DOMAIN e : Len(q) + k \in DOMAIN p /\ p[Len(q) + k] = e[k]
             /\ \A i \in DOMAIN p : i \in DOMAIN q \/ (i - Len(q) \in DOMAIN e /\ p[i] = e[i - Len(q)])
             /\ \A i \in DOMAIN q, k \in DOMAIN e : i < Len(q) + k
             /\ Len(q) \in Nat /\ \A i \in DOMAIN q : i \in Nat
             /\ \A i \in DOMAIN e : i \in Nat
             /\ \A i \in DOMAIN p : i \in Nat
  OBVIOUS

LEMMA SubmitIs ==
  ASSUME NEW q \in Seq(Requests), NEW i \in DOMAIN q
  PROVE  /\ q[i] \in Requests
         /\ q[i].kind = "submit" => q[i].turn \in Turn /\ q[i] = Request("submit", q[i].turn)
         /\ \A t : q[i] = Request("submit", t) => q[i].kind = "submit" /\ q[i].turn = t
  <1>1. q[i] \in Requests
    OBVIOUS
  <1>2. \A r \in Requests : r.kind = "submit" => r.turn \in Turn /\ r = Request("submit", r.turn)
    BY DEF Requests, Request
  <1>3. \A t : Request("submit", t).kind = "submit" /\ Request("submit", t).turn = t
    BY DEF Request
  <1> QED BY <1>1, <1>2, <1>3

LEMMA RequestsMore ==
  ASSUME NEW q \in Seq(Requests), NEW r \in Requests
  PROVE  LET p == Append(q, r)
         IN  /\ AsksClear(p) => AsksClear(q) \/ r.kind = "clear"
             /\ AsksResume(p) => AsksResume(q) \/ r.kind = "resume"
             /\ ResumeLast(q) /\ (AsksResume(q) => r.kind \notin {"resume", "submit"}) => ResumeLast(p)
             /\ \A C : ClearsOnly(q, C) /\ (r.kind = "clear" => \A t \in Turn : Asks(q, t) => t \in C) =>
                  ClearsOnly(p, C)
             /\ \A t, u : Sooner(p, t, u) => Sooner(q, t, u) \/ (r = Request("submit", u) /\ Asks(q, t))
  <1> DEFINE p == Append(q, r)
             k == Len(q) + 1
  <1>1. /\ p \in Seq(Requests) /\ k \in DOMAIN p /\ p[k] = r
        /\ \A i \in DOMAIN q : i \in DOMAIN p /\ p[i] = q[i] /\ i < k
        /\ \A i \in DOMAIN p : i \in Nat /\ (i \in DOMAIN q \/ i = k)
    BY AppendIs
  <1>2. k \in Nat /\ ~(k < k)
    OBVIOUS
  <1> HIDE DEF p, k
  <1>3. \A i, j \in DOMAIN p : i < j => i \in DOMAIN q
    BY <1>1, <1>2
  <1>4. AsksClear(p) => AsksClear(q) \/ r.kind = "clear"
    BY <1>1 DEF AsksClear
  <1>5. AsksResume(p) => AsksResume(q) \/ r.kind = "resume"
    BY <1>1 DEF AsksResume
  <1>6. ResumeLast(q) /\ (AsksResume(q) => r.kind \notin {"resume", "submit"}) => ResumeLast(p)
    BY <1>1, <1>3 DEF ResumeLast, AsksResume
  <1>7. ASSUME NEW C, ClearsOnly(q, C), r.kind = "clear" => \A t \in Turn : Asks(q, t) => t \in C
        PROVE  ClearsOnly(p, C)
    <2> SUFFICES ASSUME NEW i \in DOMAIN p, NEW j \in DOMAIN p, i < j,
                        p[i].kind = "submit", p[j].kind = "clear"
                 PROVE  p[i].turn \in C
      BY DEF ClearsOnly
    <2>1. i \in DOMAIN q /\ p[i] = q[i]
      BY <1>1, <1>3
    <2>2. CASE j \in DOMAIN q
      BY <1>1, <1>7, <2>1, <2>2 DEF ClearsOnly
    <2>3. CASE j = k
      <3>1. q[i].turn \in Turn /\ Asks(q, q[i].turn)
        BY <2>1, SubmitIs DEF Asks
      <3> QED BY <1>1, <1>7, <2>1, <2>3, <3>1
    <2> QED BY <1>1, <2>2, <2>3
  <1>8. ASSUME NEW t, NEW u, Sooner(p, t, u)
        PROVE  Sooner(q, t, u) \/ (r = Request("submit", u) /\ Asks(q, t))
    BY <1>1, <1>3, <1>8 DEF Sooner, Asks
  <1> QED BY <1>4, <1>5, <1>6, <1>7, <1>8 DEF p

LEMMA RequestsLess ==
  ASSUME NEW q \in Seq(Requests), q # <<>>
  PROVE  LET p == Tail(q)
         IN  /\ AsksClear(p) => AsksClear(q)
             /\ AsksResume(p) => AsksResume(q)
             /\ Head(q).kind = "clear" => AsksClear(q)
             /\ Head(q).kind = "resume" => AsksResume(q)
             /\ ResumeLast(q) => ResumeLast(p)
             /\ ResumeLast(q) /\ Head(q).kind = "resume" => ~AsksResume(p) /\ \A t : ~Asks(p, t)
             /\ \A C : ClearsOnly(q, C) => ClearsOnly(p, C)
             /\ \A C, t : ClearsOnly(q, C) /\ AsksClear(p) /\ Head(q) = Request("submit", t) => t \in C
             /\ \A t, u : /\ Sooner(p, t, u) => Sooner(q, t, u)
                          /\ Head(q) = Request("submit", t) /\ Asks(p, u) => Sooner(q, t, u)
  <1> DEFINE p == Tail(q)
  <1>1. /\ p \in Seq(Requests) /\ Head(q) = q[1] /\ 1 \in DOMAIN q
        /\ \A i \in DOMAIN p : i + 1 \in DOMAIN q /\ p[i] = q[i + 1] /\ i \in Nat /\ 1 < i + 1
    BY TailIs
  <1> HIDE DEF p
  <1>2. \A i, j \in DOMAIN p : i < j => i + 1 < j + 1
    BY <1>1
  <1>3. /\ AsksClear(p) => AsksClear(q)
        /\ AsksResume(p) => AsksResume(q)
        /\ Head(q).kind = "clear" => AsksClear(q)
        /\ Head(q).kind = "resume" => AsksResume(q)
    BY <1>1 DEF AsksClear, AsksResume
  <1>4. ResumeLast(q) => ResumeLast(p)
    BY <1>1, <1>2 DEF ResumeLast
  <1>5. ASSUME ResumeLast(q), Head(q).kind = "resume" PROVE ~AsksResume(p) /\ \A t : ~Asks(p, t)
    <2>1. \A i \in DOMAIN p : p[i].kind \notin {"resume", "submit"}
      BY <1>1, <1>5 DEF ResumeLast
    <2>2. \A t : \A i \in DOMAIN p : p[i] # Request("submit", t)
      BY <1>1, <2>1, SubmitIs
    <2> QED BY <2>1, <2>2 DEF AsksResume, Asks
  <1>6. \A C : ClearsOnly(q, C) => ClearsOnly(p, C)
    BY <1>1, <1>2 DEF ClearsOnly
  <1>7. ASSUME NEW C, NEW t, ClearsOnly(q, C), AsksClear(p), Head(q) = Request("submit", t)
        PROVE  t \in C
    <2>1. q[1].kind = "submit" /\ q[1].turn = t
      BY <1>1, <1>7, SubmitIs
    <2> QED BY <1>1, <1>7, <2>1 DEF AsksClear, ClearsOnly
  <1>8. ASSUME NEW t, NEW u
        PROVE  /\ Sooner(p, t, u) => Sooner(q, t, u)
               /\ Head(q) = Request("submit", t) /\ Asks(p, u) => Sooner(q, t, u)
    BY <1>1, <1>2 DEF Sooner, Asks
  <1> QED BY <1>3, <1>4, <1>5, <1>6, <1>7, <1>8 DEF p

LEMMA EventsMore ==
  ASSUME NEW q \in Seq(Events), NEW e \in Seq(Events), TurnsEnd(q), TurnsEnd(e),
         TellsResumed(q) => ~TellsResumed(e),
         Agreed(q) => \A k \in DOMAIN e : e[k].turn \notin Turn
  PROVE  /\ TurnsEnd(q \o e)
         /\ TellsResumed(q \o e) => TellsResumed(q) \/ TellsResumed(e)
         /\ Agreed(q \o e) => Agreed(q) \/ Agreed(e)
  <1> DEFINE p == q \o e
  <1>1. /\ \A i \in DOMAIN q : i \in DOMAIN p /\ p[i] = q[i]
        /\ \A i \in DOMAIN p : i \in DOMAIN q \/ (i - Len(q) \in DOMAIN e /\ p[i] = e[i - Len(q)])
        /\ \A i \in DOMAIN q, k \in DOMAIN e : i < Len(q) + k
        /\ Len(q) \in Nat /\ \A i \in DOMAIN p : i \in Nat
        /\ \A i \in DOMAIN e : i \in Nat
    BY JoinIs
  <1> HIDE DEF p
  <1>2. ASSUME NEW i \in DOMAIN p, NEW j \in DOMAIN p, i < j, p[i].type = "resumed"
        PROVE  p[j].type # "resumed" /\ (p[i].ok => p[j].turn \notin Turn)
    <2>1. CASE j \in DOMAIN q
      <3>1. i \in DOMAIN q
        <4>1. ASSUME i - Len(q) \in DOMAIN e PROVE FALSE
          <5>1. j < Len(q) + (i - Len(q))
            BY <1>1, <2>1, <4>1
          <5> QED BY <1>1, <1>2, <5>1
        <4> QED BY <1>1, <4>1
      <3> QED BY <1>1, <1>2, <2>1, <3>1 DEF TurnsEnd
    <2>2. CASE i \in DOMAIN q /\ j - Len(q) \in DOMAIN e /\ p[j] = e[j - Len(q)]
      BY <1>1, <1>2, <2>2 DEF TellsResumed, Agreed
    <2>3. CASE /\ i - Len(q) \in DOMAIN e /\ p[i] = e[i - Len(q)]
               /\ j - Len(q) \in DOMAIN e /\ p[j] = e[j - Len(q)]
      <3>1. i - Len(q) < j - Len(q)
        BY <1>1, <1>2
      <3> QED BY <1>2, <2>3, <3>1 DEF TurnsEnd
    <2> QED BY <1>1, <2>1, <2>2, <2>3
  <1>3. TurnsEnd(p)
    BY <1>2 DEF TurnsEnd
  <1>4. TellsResumed(p) => TellsResumed(q) \/ TellsResumed(e)
    BY <1>1 DEF TellsResumed
  <1>5. Agreed(p) => Agreed(q) \/ Agreed(e)
    BY <1>1 DEF Agreed
  <1> QED BY <1>3, <1>4, <1>5 DEF p

LEMMA EventsLess ==
  ASSUME NEW q \in Seq(Events), q # <<>>, TurnsEnd(q)
  PROVE  LET p == Tail(q)
         IN  /\ TurnsEnd(p) /\ (TellsResumed(p) => TellsResumed(q)) /\ (Agreed(p) => Agreed(q))
             /\ Head(q).type = "resumed" =>
                  /\ TellsResumed(q) /\ ~TellsResumed(p) /\ (Head(q).ok => Agreed(q))
                  /\ Head(q).ok => \A i \in DOMAIN p : p[i].turn \notin Turn
             /\ Agreed(p) => Head(q).type # "resumed"
  <1> DEFINE p == Tail(q)
  <1>1. /\ p \in Seq(Events) /\ Head(q) = q[1] /\ 1 \in DOMAIN q
        /\ \A i \in DOMAIN p : i + 1 \in DOMAIN q /\ p[i] = q[i + 1] /\ i \in Nat /\ 1 < i + 1
    BY TailIs
  <1> HIDE DEF p
  <1>2. \A i, j \in DOMAIN p : i < j => i + 1 < j + 1
    BY <1>1
  <1>3. TurnsEnd(p)
    BY <1>1, <1>2 DEF TurnsEnd
  <1>4. (TellsResumed(p) => TellsResumed(q)) /\ (Agreed(p) => Agreed(q))
    BY <1>1 DEF TellsResumed, Agreed
  <1>5. ASSUME Head(q).type = "resumed"
        PROVE  /\ TellsResumed(q) /\ ~TellsResumed(p) /\ (Head(q).ok => Agreed(q)) /\ ~Agreed(p)
               /\ Head(q).ok => \A i \in DOMAIN p : p[i].turn \notin Turn
    BY <1>1, <1>5 DEF TurnsEnd, TellsResumed, Agreed
  <1> QED BY <1>3, <1>4, <1>5 DEF p

-----------------------------------------------------------------------------
(* A resume under way *)

LEMMA PipeIs ==
  ASSUME LinkInv
  PROVE  /\ up \in Seq(Requests) /\ waiting \in Seq(Requests) /\ down \in Seq(Events)
         /\ inFlight \in Seq(Turn) /\ alive \in BOOLEAN
         /\ mirror \in GoodMirrors /\ stage \in Stages /\ Once(up) /\ Once(waiting)
  BY DEF LinkInv, PipeType, ClientType, MirrorInv, QueueInv, Backend!TypeOK, Stages, PipeInv,
         SubmitsInOrder

LEMMA NoRequest ==
  /\ <<>> \in Seq(Requests) /\ ~AsksResume(<<>>) /\ ResumeLast(<<>>) /\ ~AsksClear(<<>>)
  /\ \A t : ~Asks(<<>>, t)
  BY DEF AsksResume, ResumeLast, AsksClear, Asks

LEMMA NoEvent ==
  <<>> \in Seq(Events) /\ ~TellsResumed(<<>>) /\ TurnsEnd(<<>>) /\ ~Agreed(<<>>)
  BY DEF TellsResumed, TurnsEnd, Agreed

\* The backend acts and tells: of turns while one is pending, that it has resumed once it
\* is asked to and has nothing to do.
LEMMA FlowBackend ==
  ASSUME LinkInv, FlowInv, alive, NEW events \in Seq(Events), down' = down \o events,
         up' = up \/ (up # <<>> /\ up' = Tail(up)), UNCHANGED backendOnly, alive' \in BOOLEAN,
         \A t \in Turn : t \in Unended' => t \in Unended \/ Asks(up, t),
         (\E k \in DOMAIN events : events[k].turn \in Turn) => ~NonePending,
         TurnsEnd(events),
         TellsResumed(events) => up # <<>> /\ Head(up).kind = "resume" /\ up' = Tail(up),
         Agreed(events) => Unended' = {}
  PROVE  FlowInv'
  <1>1. /\ UNCHANGED <<state, session, launching, fallback, waiting, flow>>
        /\ session = "live"
    BY DEF backendOnly, clientVars, FlowInv, ConnectionInv
  <1>2. up \in Seq(Requests) /\ down \in Seq(Events) /\ Once(up)
    BY PipeIs
  <1>3. ConnectionInv'
    BY <1>1 DEF FlowInv, ConnectionInv
  <1>4. /\ AsksResume(up') => AsksResume(up)
        /\ ResumeLast(up')
        /\ TellsResumed(events) => AsksResume(up) /\ ~AsksResume(up') /\ \A t : ~Asks(up', t)
    <2>1. up # <<>> =>
            /\ AsksResume(Tail(up)) => AsksResume(up)
            /\ Head(up).kind = "resume" => AsksResume(up)
            /\ ResumeLast(up) => ResumeLast(Tail(up))
            /\ ResumeLast(up) /\ Head(up).kind = "resume" =>
                 ~AsksResume(Tail(up)) /\ \A t : ~Asks(Tail(up), t)
      BY <1>2, RequestsLess
    <2> QED BY <2>1 DEF FlowInv, OneResume
  <1>5. /\ TurnsEnd(down')
        /\ TellsResumed(down') => TellsResumed(down) \/ TellsResumed(events)
        /\ Agreed(down') => Agreed(down) \/ Agreed(events)
    <2>1. TellsResumed(down) => ~TellsResumed(events)
      BY <1>4 DEF FlowInv, OneResume
    <2>2. Agreed(down) => \A k \in DOMAIN events : events[k].turn \notin Turn
      BY DEF FlowInv, ResumedIdle
    <2> QED BY <1>2, <2>1, <2>2, EventsMore DEF FlowInv, OneResume
  <1>6. OneResume'
    BY <1>1, <1>4, <1>5 DEF FlowInv, OneResume
  <1>7. NonePending => NonePending'
    <2>1. \A t : Asks(up', t) => Asks(up, t)
      <3>1. up # <<>> => \A t : Asks(Tail(up), t) => Asks(up, t)
        BY <1>2, AskLess
      <3> QED BY <3>1
    <2> QED BY <1>1, <2>1 DEF NonePending
  <1>8. ASSUME Agreed(events) PROVE NonePending'
    <2>1. TellsResumed(events)
      BY <1>8 DEF Agreed, TellsResumed
    <2>2. flow = "attaching" /\ \A t : ~Asks(up', t)
      BY <1>4, <2>1 DEF FlowInv, OneResume
    <2>3. waiting = <<>>
      BY <2>2 DEF FlowInv, ConnectionInv
    <2>4. \A t : ~Asks(waiting', t)
      BY <1>1, <2>3, NoRequest
    <2> QED BY <1>8, <2>2, <2>4 DEF NonePending
  <1>9. ASSUME flow = "labelling" PROVE \A j \in DOMAIN down' : down'[j].turn \notin Turn
    <2>1. /\ \A j \in DOMAIN down : down[j].turn \notin Turn
          /\ \A k \in DOMAIN events : events[k].turn \notin Turn
      BY <1>9 DEF FlowInv, ResumedIdle
    <2> QED BY <1>2, <2>1, JoinIs
  <1>10. ResumedIdle'
    BY <1>1, <1>5, <1>7, <1>8, <1>9 DEF FlowInv, ResumedIdle
  <1> QED BY <1>3, <1>6, <1>10 DEF FlowInv

\* The phase of the resume that a step of the terminal may change, with no request to resume.
FlowSteps ==
  \/ flow' = flow
  \/ /\ flow \notin {"attaching", "labelling", "relaunching", "rollback"}
     /\ flow' \notin {"attaching", "labelling", "relaunching", "rollback"}

LEMMA FlowDispatch ==
  ASSUME LinkInv, FlowInv, NEW r \in Requests, r.kind # "resume",
         r.kind = "submit" => flow \notin Busy,
         Dispatch(r) \/ RefusedAtOnce, UNCHANGED <<down, alive, stage>>, FlowSteps
  PROVE  FlowInv'
  <1>1. up \in Seq(Requests) /\ waiting \in Seq(Requests)
    BY PipeIs
  <1>2. /\ up' = up \/ up' = Append(up, r)
        /\ waiting' = waiting \/ waiting' = Append(waiting, r)
    BY DEF Dispatch, RefusedAtOnce
  <1>3. ConnectionInv'
    <2>1. CASE Dispatch(r)
      BY <2>1 DEF Dispatch, clientVars, FlowInv, ConnectionInv, FlowSteps
    <2>2. CASE RefusedAtOnce
      BY <2>2 DEF RefusedAtOnce, FlowInv, ConnectionInv, FlowSteps
    <2> QED BY <2>1, <2>2
  <1>4. AsksResume(up) => r.kind \notin {"resume", "submit"}
    BY DEF FlowInv, OneResume, Busy, FlowPhase
  <1>5. /\ AsksResume(up') => AsksResume(up)
        /\ ResumeLast(up')
        /\ AsksResume(waiting') => AsksResume(waiting)
    BY <1>1, <1>2, <1>4, RequestsMore, ZenonT(60) DEF FlowInv, OneResume
  <1>6. OneResume'
    BY <1>5 DEF FlowInv, OneResume, FlowSteps
  <1>7. r.kind # "submit" => \A t : /\ Asks(up', t) => Asks(up, t)
                                    /\ Asks(waiting', t) => Asks(waiting, t)
    BY <1>1, <1>2, AskMore
  <1>8. ResumedIdle'
    <2>1. Unended' = Unended
      BY DEF Unended, Backend!Waiting, Backend!Running
    <2>2. flow' = "labelling" => flow = "labelling"
      BY DEF FlowSteps
    <2>3. Agreed(down) \/ flow = "labelling" => r.kind # "submit"
      <3>1. Agreed(down) => flow = "attaching"
        BY DEF FlowInv, OneResume, Agreed, TellsResumed
      <3> QED BY <3>1 DEF Busy, FlowPhase
    <2>4. NonePending /\ r.kind # "submit" => NonePending'
      BY <1>7, <2>1 DEF NonePending
    <2> QED BY <2>2, <2>3, <2>4 DEF FlowInv, ResumedIdle
  <1> QED BY <1>3, <1>6, <1>8 DEF FlowInv

-----------------------------------------------------------------------------
(* The backend's steps *)

\* The backend may take a request, and is then concerned with turns it has, or has taken.
Takes == up # <<>> /\ up' = Tail(up)
Of(t) == t \in Unended \/ (Takes /\ Head(up) = Request("submit", t))

Answers(events) ==
  /\ events \in Seq(Events) /\ down' = down \o events /\ alive /\ alive' = alive
  /\ UNCHANGED <<backendOnly, submitted, cleared>>
  /\ up' = up \/ Takes
  /\ \A t \in Turn : t \in Unended' => Of(t)
  /\ \A k \in DOMAIN events : events[k].turn \in Turn => Of(events[k].turn)
  /\ \A k \in DOMAIN events : events[k].type = "resumed" =>
       /\ Takes /\ Head(up).kind = "resume" /\ (events[k].ok => Unended' = {})
       /\ \A l \in DOMAIN events : l = k

\* It tells how turns end, unless the user cleared them, and which one runs.
Accounts(events) ==
  /\ \A t \in Turn : Of(t) =>
       \/ t \in Unended' \/ t \in cleared
       \/ Tells(events, "settled", t) \/ Tells(events, "removed", t)
  /\ \A t, u \in Turn : t \in Unended' /\ u \in Unended' /\ t \in ahead'[u] =>
       t \in Unended /\ (u \in Unended => t \in ahead[u])
  /\ RunsFirst'
Announces(events) ==
  /\ \A r \in Turn : r \in Backend!Running' =>
       /\ r \in Backend!Running \/ \E k \in DOMAIN events : Activates(events[k], r)
       /\ \A k \in DOMAIN events :
            (\E u \in Turn \ {r} : Activates(events[k], u)) \/ Queues(events[k], r) =>
              \E l \in DOMAIN events : k < l /\ Activates(events[l], r)
  /\ \A t \in Turn : t \in Backend!Waiting' =>
       /\ \A k \in DOMAIN events : ~Activates(events[k], t)
       /\ \/ t \in Backend!Waiting
          \/ /\ \E k \in DOMAIN events : Queues(events[k], t)
             /\ \A i \in DOMAIN down : ~Activates(down[i], t)

LEMMA AnswersFlow ==
  ASSUME LinkInv, FlowInv, NEW events, Answers(events)
  PROVE  FlowInv'
  <1>1. up \in Seq(Requests) /\ Once(up) /\ alive' \in BOOLEAN
    BY PipeIs DEF Answers
  <1>2. \A t \in Turn : Of(t) => t \in Unended \/ Asks(up, t)
    BY <1>1, AskLess DEF Of, Takes
  <1>3. (\E k \in DOMAIN events : events[k].turn \in Turn) => ~NonePending
    BY <1>2 DEF Answers, NonePending
  <1>4. TurnsEnd(events)
    <2>1. /\ events \in Seq(Events)
          /\ \A k, l \in DOMAIN events : events[k].type = "resumed" => l = k
      BY DEF Answers
    <2>2. \A k \in DOMAIN events : ~(k < k)
      BY <2>1
    <2> QED BY <2>1, <2>2 DEF TurnsEnd
  <1>5. /\ TellsResumed(events) => up # <<>> /\ Head(up).kind = "resume" /\ up' = Tail(up)
        /\ Agreed(events) => Unended' = {}
    BY DEF TellsResumed, Agreed, Answers, Takes
  <1>6. /\ events \in Seq(Events) /\ down' = down \o events /\ alive /\ UNCHANGED backendOnly
        /\ up' = up \/ (up # <<>> /\ up' = Tail(up))
        /\ \A t \in Turn : t \in Unended' => t \in Unended \/ Asks(up, t)
    BY <1>2 DEF Answers, Takes
  <1> QED BY <1>1, <1>3, <1>4, <1>5, <1>6, FlowBackend

LEMMA UnendedIs ==
  /\ Unended \subseteq Turn /\ \A t \in Unended : stage[t] \in {"waiting", "running"}
  /\ Backend!Running \subseteq Unended /\ Backend!Waiting \subseteq Unended
  BY DEF Unended, Backend!Waiting, Backend!Running

LEMMA AnswersRows ==
  ASSUME LinkInv, FlowInv, RowsInv, NEW events, Answers(events), Accounts(events),
         Announces(events)
  PROVE  RowsInv'
  <1>1. /\ up \in Seq(Requests) /\ Once(up) /\ down \in Seq(Events) /\ events \in Seq(Events)
        /\ UNCHANGED <<mirror, inFlight, waiting, cleared, submitted, session, alive>>
        /\ down' = down \o events /\ (up' = up \/ Takes)
    BY PipeIs DEF Answers, backendOnly, clientVars
  <1>2. /\ \A t : Asks(up', t) => Asks(up, t)
        /\ \A t : Takes /\ Head(up) = Request("submit", t) => Asks(up, t) /\ ~Asks(up', t)
        /\ \A t : Asks(up, t) => Asks(up', t) \/ (Takes /\ Head(up) = Request("submit", t))
    <2>1. up # <<>> => /\ \A t : Asks(up, t) <=> Head(up) = Request("submit", t) \/ Asks(Tail(up), t)
                       /\ \A t : ~(Head(up) = Request("submit", t) /\ Asks(Tail(up), t))
      BY <1>1, AskLess
    <2> QED BY <1>1, <2>1 DEF Takes
  <1>3. /\ AsksClear(up') => AsksClear(up)
        /\ \A C : ClearsOnly(up, C) => ClearsOnly(up', C)
        /\ \A C, t : ClearsOnly(up, C) /\ AsksClear(up') /\ Takes /\ Head(up) = Request("submit", t)
             => t \in C
        /\ \A t, u : /\ Sooner(up', t, u) => Sooner(up, t, u)
                     /\ Takes /\ Head(up) = Request("submit", t) /\ Asks(up', u) => Sooner(up, t, u)
    <2>1. up # <<>> =>
            /\ AsksClear(Tail(up)) => AsksClear(up)
            /\ \A C : ClearsOnly(up, C) => ClearsOnly(Tail(up), C)
            /\ \A C, t : ClearsOnly(up, C) /\ AsksClear(Tail(up)) /\ Head(up) = Request("submit", t)
                 => t \in C
            /\ \A t, u : /\ Sooner(Tail(up), t, u) => Sooner(up, t, u)
                         /\ Head(up) = Request("submit", t) /\ Asks(Tail(up), u) => Sooner(up, t, u)
      BY <1>1, RequestsLess
    <2> QED BY <1>1, <2>1 DEF Takes
  <1>4. /\ \A i \in DOMAIN down : i \in DOMAIN down' /\ down'[i] = down[i]
        /\ \A k \in DOMAIN events : Len(down) + k \in DOMAIN down' /\ down'[Len(down) + k] = events[k]
        /\ \A i \in DOMAIN down' :
             i \in DOMAIN down \/ (i - Len(down) \in DOMAIN events /\ down'[i] = events[i - Len(down)])
        /\ \A i \in DOMAIN down, k \in DOMAIN events : i < Len(down) + k
        /\ Len(down) \in Nat /\ (\A k \in DOMAIN events : k \in Nat)
        /\ \A i \in DOMAIN down' : i \in Nat
    BY <1>1, JoinIs
  <1>5. \A t \in Turn : Pending(t)' => Pending(t)
    BY <1>1, <1>2 DEF Pending, Answers, Of
  <1>6. \A t \in Turn : Live(t)' => Live(t)
    <2>1. \A t \in Turn : Of(t) => Live(t)
      BY <1>2 DEF Of, Live, Pending
    <2>2. \A i \in DOMAIN down' : down'[i].turn \in Turn =>
            (\E j \in DOMAIN down : down[j].turn = down'[i].turn) \/ Of(down'[i].turn)
      BY <1>4 DEF Answers
    <2> QED BY <1>1, <1>5, <2>1, <2>2 DEF Live
  <1>7. RowsShown' /\ PendingShown'
    BY <1>1, <1>5, <1>6 DEF RowsInv, RowsShown, PendingShown
  <1>8. RowsInFlight' /\ WaitingApart' /\ ClearedKnown' /\ StampHeard' /\ StampKnown'
    BY <1>1, <1>2 DEF RowsInv, RowsInFlight, WaitingApart, ClearedKnown, StampHeard,
         StampKnown
  <1>9. FlightPending'
    <2> SUFFICES ASSUME alive, session = "live", NEW t \in ToSet(inFlight)
                 PROVE  Pending(t)' \/ t \in cleared \/ Tells(down', "settled", t) \/ Tells(down', "removed", t)
      BY <1>1 DEF FlightPending
    <2>1. t \in Turn
      BY PipeIs DEF ToSet
    <2>2. \A type : Tells(down, type, t) \/ Tells(events, type, t) => Tells(down', type, t)
      BY <1>4 DEF Tells
    <2>3. Pending(t) => Pending(t)' \/ Of(t)
      BY <1>1, <1>2 DEF Pending, Of
    <2>4. Of(t) => Pending(t)' \/ t \in cleared \/ Tells(events, "settled", t) \/ Tells(events, "removed", t)
      BY <2>1 DEF Accounts, Pending
    <2> QED BY <2>2, <2>3, <2>4 DEF RowsInv, FlightPending
  <1>10. ClearCovers'
    <2>1. ASSUME AsksClear(up'), NEW t \in Unended' PROVE t \in cleared
      <3>1. t \in Turn /\ Of(t)
        BY DEF Answers, Unended, Backend!Waiting, Backend!Running
      <3> QED BY <1>3, <2>1, <3>1 DEF Of, RowsInv, ClearCovers
    <2> QED BY <1>1, <1>3, <2>1 DEF RowsInv, ClearCovers
  <1>11. RowsOrdered'
    <2> SUFFICES ASSUME NEW t \in Turn \ cleared, NEW u \in Turn \ cleared, Before(t, u)'
                 PROVE  Before(t, u)
      BY <1>1 DEF RowsInv, RowsOrdered
    <2>1. CASE t \in Unended' /\ u \in Unended' /\ t \in ahead'[u]
      <3>1. t \in Unended /\ (u \in Unended => t \in ahead[u]) /\ Of(u)
        BY <2>1 DEF Accounts, Answers
      <3> QED BY <1>2, <3>1 DEF Before, Of
    <2>2. CASE t \in Unended' /\ (Asks(up', u) \/ Asks(waiting', u))
      <3>1. Of(t)
        BY <2>2 DEF Answers
      <3> QED BY <1>1, <1>2, <1>3, <2>2, <3>1 DEF Before, Of
    <2>3. CASE (Asks(up', t) /\ Asks(waiting', u)) \/ Sooner(up', t, u) \/ Sooner(waiting', t, u)
      BY <1>1, <1>2, <1>3, <2>3 DEF Before
    <2> QED BY <2>1, <2>2, <2>3 DEF Before
  <1>12. ActiveTold'
    <2>1. ASSUME NEW r \in Backend!Running', NEW i \in DOMAIN down',
                 (\E u \in Turn \ {r} : Activates(down'[i], u)) \/ Queues(down'[i], r)
          PROVE  \E j \in DOMAIN down' : i < j /\ Activates(down'[j], r)
      <3>1. r \in Turn
        BY DEF Backend!Running
      <3>2. CASE i \in DOMAIN down /\ r \in Backend!Running
        <4>1. PICK j \in DOMAIN down : i < j /\ Activates(down[j], r)
          BY <1>4, <2>1, <3>2 DEF RowsInv, ActiveTold
        <4> QED BY <1>4, <4>1
      <3>3. CASE i \in DOMAIN down /\ r \notin Backend!Running
        <4>1. PICK k \in DOMAIN events : Activates(events[k], r)
          BY <3>1, <3>3 DEF Announces
        <4> QED BY <1>4, <3>3, <4>1
      <3>4. CASE i \notin DOMAIN down
        <4>1. i - Len(down) \in DOMAIN events /\ down'[i] = events[i - Len(down)]
          BY <1>4, <3>4
        <4>2. PICK l \in DOMAIN events : i - Len(down) < l /\ Activates(events[l], r)
          BY <2>1, <3>1, <4>1 DEF Announces
        <4>3. i < Len(down) + l
          BY <1>4, <4>2
        <4> QED BY <1>4, <4>2, <4>3
      <3> QED BY <3>2, <3>3, <3>4
    <2>2. ASSUME NEW t \in Backend!Waiting', NEW i \in DOMAIN down', Activates(down'[i], t)
          PROVE  FALSE
      <3>1. t \in Turn
        BY DEF Backend!Waiting
      <3>2. CASE i \in DOMAIN down
        BY <1>4, <2>2, <3>1, <3>2 DEF Announces, RowsInv, ActiveTold
      <3>3. CASE i \notin DOMAIN down
        BY <1>4, <2>2, <3>1, <3>3 DEF Announces
      <3> QED BY <3>2, <3>3
    <2> QED BY <2>1, <2>2 DEF ActiveTold
  <1>13. ActiveShown'
    <2>1. ASSUME NEW r \in Backend!Running'
          PROVE  r \in cleared \/ InState(mirror, r, "active") \/ \E i \in DOMAIN down' : Activates(down'[i], r)
      <3>1. r \in Turn
        BY DEF Backend!Running
      <3>2. r \in Backend!Running \/ \E k \in DOMAIN events : Activates(events[k], r)
        BY <3>1 DEF Announces
      <3> QED BY <1>4, <3>2 DEF RowsInv, ActiveShown
    <2>2. ASSUME NEW t \in Backend!Waiting'
          PROVE  t \in cleared \/ InState(mirror, t, "queued") \/ \E i \in DOMAIN down' : Queues(down'[i], t)
      <3>1. t \in Turn
        BY DEF Backend!Waiting
      <3>2. t \in Backend!Waiting \/ \E k \in DOMAIN events : Queues(events[k], t)
        BY <3>1 DEF Announces
      <3> QED BY <1>4, <3>2 DEF RowsInv, ActiveShown
    <2> QED BY <1>1, <2>1, <2>2 DEF ActiveShown
  <1>14. RunsFirst'
    BY DEF Accounts
  <1> QED BY <1>7, <1>8, <1>9, <1>10, <1>11, <1>12, <1>13, <1>14 DEF RowsInv

\* A sequence is not its own tail.
LEMMA TailShorter ==
  ASSUME NEW S, NEW q \in Seq(S), q # <<>>
  PROVE  Tail(q) # q
  <1>1. Len(q) \in Nat /\ Len(Tail(q)) = Len(q) - 1
    OBVIOUS
  <1>2. \A n \in Nat : n - 1 # n
    BY SMTT(30)
  <1>3. Len(Tail(q)) # Len(q)
    BY <1>1, <1>2
  <1> QED BY <1>3, Zenon

QueueSame == stage' = stage /\ ahead' = ahead

LEMMA SameQueue ==
  ASSUME QueueSame
  PROVE  /\ Unended' = Unended /\ Backend!Running' = Backend!Running
         /\ Backend!Waiting' = Backend!Waiting /\ ahead' = ahead /\ (RunsFirst => RunsFirst')
  BY DEF QueueSame, Unended, Backend!Running, Backend!Waiting, RunsFirst

\* A step after which every turn is where it was.
LEMMA SameAccounts ==
  ASSUME RowsInv, QueueSame, NEW events \in Seq(Events), Takes => Head(up).kind # "submit",
         \A k \in DOMAIN events : events[k].type \notin {"enqueued", "activated"}
  PROVE  /\ Accounts(events) /\ Announces(events)
         /\ \A t \in Turn : t \in Unended' => Of(t)
  <1>1. /\ Unended' = Unended /\ Backend!Running' = Backend!Running
        /\ Backend!Waiting' = Backend!Waiting /\ ahead' = ahead /\ (RunsFirst => RunsFirst')
    BY SameQueue
  <1>2. \A t : Of(t) <=> t \in Unended
    BY DEF Of, Request
  <1>3. \A k \in DOMAIN events : \A t : ~Activates(events[k], t) /\ ~Queues(events[k], t)
    BY DEF Activates, Queues
  <1> QED BY <1>1, <1>2, <1>3 DEF Accounts, Announces, RowsInv

LEMMA HandleCancelSays ==
  ASSUME LinkInv, RowsInv, HandleCancel
  PROVE  \E events : Answers(events) /\ Accounts(events) /\ Announces(events)
  <1>1. /\ alive /\ alive' = alive /\ Takes /\ Head(up).kind = "cancel" /\ down' = down
        /\ UNCHANGED <<backendOnly, submitted, cleared>>
    BY DEF HandleCancel, Take, Takes, historyVars
  <1>2. QueueSame
    BY DEF HandleCancel, Backend!Condemn, queueVars, QueueSame
  <1>3. <<>> \in Seq(Events) /\ DOMAIN <<>> = {} /\ down' = down \o <<>>
    BY <1>1, PipeIs
  <1>4. Accounts(<<>>) /\ Announces(<<>>) /\ \A t \in Turn : t \in Unended' => Of(t)
    BY <1>1, <1>2, <1>3, SameAccounts
  <1> QED BY <1>1, <1>3, <1>4 DEF Answers

\* The backend tells one thing, and its queue stays as it is.
LEMMA TellsOne ==
  ASSUME LinkInv, RowsInv, NEW e \in Events, down' = down \o <<e>>, alive, alive' = alive,
         UNCHANGED <<backendOnly, submitted, cleared>>, QueueSame,
         up' = up \/ Takes, Takes => Head(up).kind # "submit",
         e.type \notin {"enqueued", "activated"}, e.turn \in Turn => e.turn \in Unended,
         e.type = "resumed" => Takes /\ Head(up).kind = "resume" /\ (e.ok => Unended' = {})
  PROVE  \E events : Answers(events) /\ Accounts(events) /\ Announces(events)
  <1> DEFINE events == <<e>>
  <1>1. events \in Seq(Events) /\ \A k \in DOMAIN events : k = 1 /\ events[k] = e
    BY OneEvent
  <1>2. down' = down \o events
    OBVIOUS
  <1> HIDE DEF events
  <1>3. Accounts(events) /\ Announces(events) /\ \A t \in Turn : t \in Unended' => Of(t)
    BY <1>1, SameAccounts
  <1>4. Answers(events)
    BY <1>1, <1>2, <1>3 DEF Answers, Of
  <1> QED BY <1>3, <1>4

LEMMA HandleListSays ==
  ASSUME LinkInv, RowsInv, HandleList
  PROVE  \E events : Answers(events) /\ Accounts(events) /\ Announces(events)
  <1> DEFINE e == Listed(attached, Head(up).turn)
  <1>1. /\ alive /\ alive' = alive /\ Takes /\ Head(up).kind = "list" /\ down' = down \o <<e>>
        /\ UNCHANGED <<backendOnly, submitted, cleared, queueVars>>
    BY DEF HandleList, Take, Takes, Tell, historyVars
  <1>2. QueueSame
    BY <1>1 DEF queueVars, QueueSame
  <1>3. Head(up).turn \in {FlowUse, CaptureUse}
    BY <1>1, HeadIs DEF Requests, Takes
  <1>4. e \in Events /\ e.type = "listed" /\ e.turn \notin Turn
    BY <1>3, LinkAssumption DEF Listed, Events, LinkInv, HistoryType
  <1> QED BY <1>1, <1>2, <1>4, TellsOne

LEMMA HandleResumeSays ==
  ASSUME LinkInv, RowsInv, HandleResume
  PROVE  \E events : Answers(events) /\ Accounts(events) /\ Announces(events)
  <1>1. PICK ok \in BOOLEAN : down' = down \o <<Resumed(ok)>> /\ (ok => Unfinished = {})
    BY DEF HandleResume, Tell
  <1> DEFINE e == Resumed(ok)
  <1>2. /\ alive /\ alive' = alive /\ Takes /\ Head(up).kind = "resume" /\ down' = down \o <<e>>
        /\ UNCHANGED <<backendOnly, submitted, cleared, queueVars>>
    BY <1>1 DEF HandleResume, Take, Takes
  <1>3. QueueSame
    BY <1>2 DEF queueVars, QueueSame
  <1>4. e \in Events /\ e.type = "resumed" /\ e.turn \notin Turn /\ e.ok = ok
    BY LinkAssumption DEF Resumed, Events
  <1>5. ok => Unended' = {}
    BY <1>1, <1>3, SameQueue DEF Unended, Unfinished
  <1> QED BY <1>2, <1>3, <1>4, <1>5, TellsOne

LEMMA StreamChunkSays ==
  ASSUME LinkInv, RowsInv, NEW t \in Turn, StreamChunk(t)
  PROVE  \E events : Answers(events) /\ Accounts(events) /\ Announces(events)
  <1> DEFINE e == Delta(t, 1)
  <1>1. /\ alive /\ alive' = alive /\ up' = up /\ t \in Backend!Running /\ down' = down \o <<e>>
        /\ UNCHANGED <<backendOnly, submitted, cleared, queueVars>>
    BY DEF StreamChunk, Tell
  <1>2. QueueSame
    BY <1>1 DEF queueVars, QueueSame
  <1>3. e \in Events /\ e.type = "tokenDelta" /\ e.turn = t
    BY DEF Delta, Events
  <1>4. ~Takes
    BY <1>1, PipeIs, TailShorter DEF Takes
  <1>5. t \in Unended
    BY <1>1 DEF Unended
  <1> QED BY <1>1, <1>2, <1>3, <1>4, <1>5, TellsOne

LEMMA FoldSays ==
  ASSUME LinkInv, RowsInv, NEW t \in Turn, Fold(t)
  PROVE  \E events : Answers(events) /\ Accounts(events) /\ Announces(events)
  <1>1. PICK on \in BOOLEAN : down' = down \o <<Compaction(t, on)>>
    BY DEF Fold, Tell
  <1> DEFINE e == Compaction(t, on)
  <1>2. /\ alive /\ alive' = alive /\ up' = up /\ t \in Backend!Running /\ down' = down \o <<e>>
        /\ UNCHANGED <<backendOnly, submitted, cleared, queueVars>>
    BY <1>1 DEF Fold
  <1>3. QueueSame
    BY <1>2 DEF queueVars, QueueSame
  <1>4. e \in Events /\ e.type = "compactionStatus" /\ e.turn = t
    BY DEF Compaction, Events
  <1>5. ~Takes
    BY <1>2, PipeIs, TailShorter DEF Takes
  <1>6. t \in Unended
    BY <1>2 DEF Unended
  <1> QED BY <1>2, <1>3, <1>4, <1>5, <1>6, TellsOne

LEMMA AcceptSubmitSays ==
  ASSUME LinkInv, RowsInv, AcceptSubmit
  PROVE  \E events : Answers(events) /\ Accounts(events) /\ Announces(events)
  <1> DEFINE t == Head(up).turn
             e == Enqueued(t, IF stage'[t] = "running" THEN "active" ELSE "queued")
             events == <<Ack(t), e>>
  <1>1. /\ alive /\ alive' = alive /\ Takes /\ Head(up).kind = "submit"
        /\ Backend!Accept(t) /\ down' = down \o events
        /\ UNCHANGED <<backendOnly, submitted, cleared>>
    BY DEF AcceptSubmit, Take, Takes, Tell
  <1>2. t \in Turn /\ Head(up) = Request("submit", t)
    BY <1>1, HeadIs DEF Takes
  <1>3. Ack(t) \in Events /\ e \in Events
    BY <1>2 DEF Ack, Enqueued, Events
  <1>4. /\ events \in Seq(Events) /\ 2 \in DOMAIN events /\ events[2] = e
        /\ \A k \in DOMAIN events : (k = 1 /\ events[k] = Ack(t)) \/ (k = 2 /\ events[k] = e)
    BY <1>3
  <1>5. /\ Ack(t).turn = t /\ Ack(t).type = "ack" /\ e.turn = t /\ e.type = "enqueued"
        /\ e.state = IF stage'[t] = "running" THEN "active" ELSE "queued"
    BY DEF Ack, Enqueued
  <1>6. /\ stage[t] = "new" /\ stage'[t] = IF Unended = {} THEN "running" ELSE "waiting"
        /\ ahead'[t] = Unended
        /\ \A u \in Turn : u # t => stage'[u] = stage[u] /\ ahead'[u] = ahead[u]
    BY <1>1, <1>2 DEF Backend!Accept, LinkInv, QueueInv, Backend!TypeOK, Unended
  <1>7. /\ t \notin Unended /\ Unended' = Unended \cup {t}
        /\ Unended = {} => Backend!Running' = {t} /\ Backend!Waiting' = {}
        /\ Unended # {} =>
             Backend!Running' = Backend!Running /\ Backend!Waiting' = Backend!Waiting \cup {t}
    BY <1>2, <1>6 DEF Unended, Backend!Running, Backend!Waiting
  <1>8. \A i \in DOMAIN down : down[i].turn # t
    BY <1>2, <1>6 DEF LinkInv, PipeInv, Piped, Heard
  <1>9. /\ \A u \in Backend!Waiting : ahead[u] \subseteq Unended
        /\ \A r \in Backend!Running : ahead[r] = {} /\ \A u \in Backend!Waiting : r \in ahead[u]
        /\ \A r, u \in Backend!Running : u = r
        /\ Unended = Backend!Waiting \cup Backend!Running /\ Unended \subseteq Turn
    BY UnendedIs DEF LinkInv, QueueInv, QueueOrdered, RowsInv, RunsFirst, Unended
  <1> HIDE DEF events, e, t
  <1>10. \A u \in Turn : Of(u) <=> u \in Unended \/ u = t
    BY <1>1, <1>2 DEF Of, Request
  <1>11. Answers(events)
    BY <1>1, <1>2, <1>4, <1>5, <1>7, <1>10 DEF Answers
  <1>12. RunsFirst'
    <2>1. ASSUME NEW r \in Backend!Running'
          PROVE  /\ ahead'[r] = {} /\ \A u \in Backend!Waiting' : r \in ahead'[u]
                 /\ \A u \in Backend!Running' : u = r
      <3>1. CASE Unended = {}
        BY <1>6, <1>7, <2>1, <3>1
      <3>2. CASE Unended # {}
        BY <1>6, <1>7, <1>9, <2>1, <3>2
      <3> QED BY <3>1, <3>2
    <2> QED BY <2>1 DEF RunsFirst
  <1>13. Accounts(events)
    <2>1. ASSUME NEW v \in Turn, NEW u \in Turn, v \in Unended', u \in Unended', v \in ahead'[u]
          PROVE  v \in Unended /\ (u \in Unended => v \in ahead[u])
      BY <1>6, <1>7, <1>9, <2>1
    <2> QED BY <1>7, <1>10, <1>12, <2>1 DEF Accounts
  <1>14. Announces(events)
    <2>1. ASSUME NEW u PROVE /\ Activates(Ack(t), u) <=> FALSE
                             /\ Queues(Ack(t), u) <=> FALSE
                             /\ Activates(e, u) <=> u = t /\ Unended = {}
                             /\ Queues(e, u) <=> u = t /\ Unended # {}
      BY <1>5, <1>6 DEF Activates, Queues
    <2>2. ASSUME NEW r \in Turn, r \in Backend!Running'
          PROVE  /\ r \in Backend!Running \/ \E k \in DOMAIN events : Activates(events[k], r)
                 /\ \A k \in DOMAIN events :
                      ~(\E u \in Turn \ {r} : Activates(events[k], u)) /\ ~Queues(events[k], r)
      <3>1. CASE Unended = {}
        BY <1>4, <1>7, <2>1, <2>2, <3>1
      <3>2. CASE Unended # {}
        BY <1>4, <1>7, <1>9, <2>1, <2>2, <3>2
      <3> QED BY <3>1, <3>2
    <2>3. ASSUME NEW u \in Turn, u \in Backend!Waiting'
          PROVE  /\ \A k \in DOMAIN events : ~Activates(events[k], u)
                 /\ \/ u \in Backend!Waiting
                    \/ /\ \E k \in DOMAIN events : Queues(events[k], u)
                       /\ \A i \in DOMAIN down : ~Activates(down[i], u)
      <3>1. Unended # {} /\ (u \in Backend!Waiting \/ u = t)
        BY <1>7, <2>3
      <3>2. \A i \in DOMAIN down : ~Activates(down[i], t)
        BY <1>8 DEF Activates
      <3> QED BY <1>4, <2>1, <3>1, <3>2
    <2> QED BY <2>2, <2>3 DEF Announces
  <1> QED BY <1>11, <1>13, <1>14

LEMMA RefuseSubmitSays ==
  ASSUME LinkInv, RowsInv, RefuseSubmit
  PROVE  \E events : Answers(events) /\ Accounts(events) /\ Announces(events)
  <1> DEFINE t == Head(up).turn
             e == Settled(t, "error")
             events == <<Ack(t), e>>
  <1>1. /\ alive /\ alive' = alive /\ Takes /\ Head(up).kind = "submit"
        /\ Backend!Refuse(t) /\ down' = down \o events
        /\ UNCHANGED <<backendOnly, submitted, cleared>>
    BY DEF RefuseSubmit, Take, Takes, Tell
  <1>2. t \in Turn /\ Head(up) = Request("submit", t)
    BY <1>1, HeadIs DEF Takes
  <1>3. Ack(t) \in Events /\ e \in Events
    BY <1>2 DEF Ack, Settled, Events, Result
  <1>4. /\ events \in Seq(Events) /\ 2 \in DOMAIN events /\ events[2] = e
        /\ \A k \in DOMAIN events : (k = 1 /\ events[k] = Ack(t)) \/ (k = 2 /\ events[k] = e)
    BY <1>3
  <1>5. Ack(t).turn = t /\ Ack(t).type = "ack" /\ e.turn = t /\ e.type = "settled"
    BY DEF Ack, Settled
  <1>6. /\ stage[t] = "new" /\ stage'[t] = "over" /\ ahead' = ahead
        /\ \A u \in Turn : u # t => stage'[u] = stage[u]
    BY <1>1, <1>2 DEF Backend!Refuse, LinkInv, QueueInv, Backend!TypeOK
  <1>7. /\ Unended' = Unended /\ Backend!Running' = Backend!Running
        /\ Backend!Waiting' = Backend!Waiting
    BY <1>2, <1>6 DEF Unended, Backend!Running, Backend!Waiting
  <1> HIDE DEF events, e, t
  <1>8. \A u \in Turn : Of(u) <=> u \in Unended \/ u = t
    BY <1>1, <1>2 DEF Of, Request
  <1>9. Answers(events)
    BY <1>1, <1>2, <1>4, <1>5, <1>7, <1>8 DEF Answers
  <1>10. \A k \in DOMAIN events : \A u : ~Activates(events[k], u) /\ ~Queues(events[k], u)
    BY <1>4, <1>5 DEF Activates, Queues
  <1>11. Tells(events, "settled", t)
    BY <1>4, <1>5 DEF Tells
  <1>12. RunsFirst'
    BY <1>6, <1>7 DEF RunsFirst, RowsInv
  <1>13. Accounts(events)
    BY <1>6, <1>7, <1>8, <1>11, <1>12 DEF Accounts
  <1>14. Announces(events)
    BY <1>7, <1>10 DEF Announces
  <1> QED BY <1>9, <1>13, <1>14

\* The turns that wait are dropped: the running one stays, and nothing is behind it.
LEMMA DropLeaves ==
  ASSUME LinkInv, RowsInv, Backend!Drop
  PROVE  /\ Unended' = Backend!Running /\ Backend!Running' = Backend!Running
         /\ Backend!Waiting' = {} /\ RunsFirst' /\ \A r \in Backend!Running : ahead'[r] = {}
  <1>1. \A t \in Turn : /\ stage'[t] = IF t \in Backend!Waiting THEN "over" ELSE stage[t]
                        /\ ahead'[t] = IF t \in Backend!Waiting THEN {} ELSE ahead[t]
    BY DEF Backend!Drop
  <1>2. Backend!Running' = Backend!Running /\ Backend!Waiting' = {}
        /\ Backend!Running \cap Backend!Waiting = {} /\ Backend!Running \subseteq Turn
    BY <1>1 DEF Backend!Running, Backend!Waiting
  <1>3. \A r \in Backend!Running : ahead'[r] = {} /\ \A u \in Backend!Running : u = r
    BY <1>1, <1>2 DEF RowsInv, RunsFirst
  <1> QED BY <1>2, <1>3 DEF Unended, RunsFirst

LEMMA HandleClearSays ==
  ASSUME LinkInv, RowsInv, HandleClear
  PROVE  \E events : Answers(events) /\ Accounts(events) /\ Announces(events)
  <1>1. /\ alive /\ alive' = alive /\ Takes /\ Head(up).kind = "clear" /\ down' = down
        /\ Backend!Drop /\ UNCHANGED <<backendOnly, submitted, cleared>>
    BY DEF HandleClear, Take, Takes, historyVars
  <1>2. /\ Unended' = Backend!Running /\ Backend!Running' = Backend!Running
        /\ Backend!Waiting' = {} /\ RunsFirst' /\ \A r \in Backend!Running : ahead'[r] = {}
    BY <1>1, DropLeaves
  <1>3. <<>> \in Seq(Events) /\ DOMAIN <<>> = {} /\ down' = down \o <<>>
    BY <1>1, PipeIs
  <1>4. \A t : Of(t) <=> t \in Unended
    BY <1>1 DEF Of, Request
  <1>5. Unended \subseteq cleared
    <2>1. AsksClear(up)
      BY <1>1, PipeIs, RequestsLess DEF Takes
    <2> QED BY <2>1 DEF RowsInv, ClearCovers
  <1>6. Answers(<<>>)
    BY <1>1, <1>2, <1>3, <1>4, UnendedIs DEF Answers
  <1>7. Accounts(<<>>)
    BY <1>2, <1>4, <1>5 DEF Accounts
  <1>8. Announces(<<>>)
    BY <1>2, <1>3 DEF Announces
  <1> QED BY <1>6, <1>7, <1>8

\* Turns totally ordered by those ahead of them, in that order.
LEMMA OrderIs ==
  ASSUME NEW W \in SUBSET Turn, \A t \in W : t \notin ahead[t],
         \A t, u \in W : t # u => t \in ahead[u] \/ u \in ahead[t],
         \A t, u \in W : t \in ahead[u] => ahead[t] \cap W \subseteq ahead[u]
  PROVE  LET q == AcceptedOrder(W)
         IN  /\ q \in Seq(W) /\ \A t \in W : \E i \in DOMAIN q : q[i] = t
             /\ \A i, j \in DOMAIN q : i < j => q[i] \in ahead[q[j]]
  <1> DEFINE rank == [t \in W |-> Cardinality(ahead[t] \cap W)]
             q    == AcceptedOrder(W)
  <1>1. IsFiniteSet(W) /\ Cardinality(W) \in Nat
    BY LinkAssumption, FS_Subset, FS_CardinalityType
  <1>2. ASSUME NEW A \in SUBSET W, NEW t \in W, t \notin A
        PROVE  Cardinality(A) \in 0..(Cardinality(W) - 1)
    <2>1. IsFiniteSet(A) /\ Cardinality(A) <= Cardinality(W) /\ Cardinality(A) # Cardinality(W)
      BY <1>1, <1>2, FS_Subset
    <2>2. Cardinality(A) \in Nat
      BY <2>1, FS_CardinalityType
    <2> QED BY <1>1, <2>1, <2>2
  <1>3. rank \in [W -> 0..(Cardinality(W) - 1)]
    BY <1>2
  <1>4. ASSUME NEW t \in W, NEW u \in W, t \in ahead[u] PROVE rank[t] < rank[u]
    <2>1. ahead[t] \cap W \in SUBSET (ahead[u] \cap W) /\ t \in ahead[u] \cap W
          /\ t \notin ahead[t] \cap W
      BY <1>4
    <2>2. IsFiniteSet(ahead[u] \cap W)
      BY <1>1, FS_Intersection
    <2>3. /\ Cardinality(ahead[t] \cap W) # Cardinality(ahead[u] \cap W)
          /\ Cardinality(ahead[t] \cap W) <= Cardinality(ahead[u] \cap W)
      BY <2>1, <2>2, FS_Subset
    <2>4. rank[t] # rank[u] /\ rank[t] <= rank[u]
      BY <2>3
    <2>5. rank[t] \in Int /\ rank[u] \in Int
      BY <1>1, <1>3
    <2> HIDE DEF rank
    <2> QED BY <2>4, <2>5
  <1>5. ASSUME NEW t \in W, NEW u \in W PROVE rank[t] = rank[u] => t = u
    <2>1. rank[t] \in Int
      BY <1>1, <1>3
    <2> HIDE DEF rank
    <2> QED BY <1>4, <2>1
  <1>6. \A k \in 0..(Cardinality(W) - 1) : \E t \in W : rank[t] = k
    <2> HIDE DEF rank
    <2> QED BY <1>1, <1>3, <1>5, Ranks
  <1>7. \A i \in 1..Cardinality(W) : i - 1 \in 0..(Cardinality(W) - 1)
    BY <1>1
  <1>8. /\ DOMAIN q = 1..Cardinality(W)
        /\ \A i \in DOMAIN q : q[i] = CHOOSE t \in W : Cardinality(ahead[t] \cap W) = i - 1
    BY DEF AcceptedOrder
  <1>9. \A i \in DOMAIN q : q[i] \in W /\ rank[q[i]] = i - 1
    BY <1>6, <1>7, <1>8, ZenonT(60)
  <1>10. q \in Seq(W)
    <2>1. q = [i \in 1..Cardinality(W) |-> CHOOSE t \in W : Cardinality(ahead[t] \cap W) = i - 1]
      BY DEF AcceptedOrder
    <2> HIDE DEF q
    <2>2. q \in [1..Cardinality(W) -> W]
      BY <1>8, <1>9, <2>1
    <2> QED BY <1>1, <2>2
  <1> HIDE DEF q, rank
  <1>11. ASSUME NEW t \in W PROVE \E i \in DOMAIN q : q[i] = t
    <2>1. PICK i \in DOMAIN q : i - 1 = rank[t]
      <3>1. /\ rank[t] + 1 \in DOMAIN q
            /\ \A n \in Int : n + 1 - 1 = n
            /\ rank[t] \in Int
        BY <1>1, <1>3, <1>8
      <3> QED BY <3>1
    <2>2. rank[q[i]] = rank[t] /\ q[i] \in W
      BY <1>9, <2>1
    <2> QED BY <1>5, <2>2
  <1>12. ASSUME NEW i \in DOMAIN q, NEW j \in DOMAIN q, i < j PROVE q[i] \in ahead[q[j]]
    <2>1. /\ q[i] \in W /\ q[j] \in W /\ rank[q[i]] = i - 1 /\ rank[q[j]] = j - 1
          /\ i \in Int /\ j \in Int
      BY <1>1, <1>8, <1>9
    <2>2. rank[q[i]] < rank[q[j]] /\ ~(rank[q[j]] < rank[q[i]])
      BY <1>12, <2>1
    <2>3. q[i] # q[j]
      BY <2>2
    <2> QED BY <1>4, <2>1, <2>2, <2>3
  <1> QED BY <1>10, <1>11, <1>12 DEF q

\* The turns that wait are all told when they are dropped.
LEMMA WaitingListed ==
  ASSUME QueueInv
  PROVE  LET dropped == AcceptedOrder(Backend!Waiting)
         IN  /\ dropped \in Seq(Backend!Waiting)
             /\ \A t \in Backend!Waiting : \E i \in DOMAIN dropped : dropped[i] = t
  <1>1. Backend!Waiting \in SUBSET Turn
    BY DEF Backend!Waiting
  <1>2. /\ \A t \in Backend!Waiting : t \notin ahead[t]
        /\ \A t, u \in Backend!Waiting : t # u => t \in ahead[u] \/ u \in ahead[t]
        /\ \A t, u \in Backend!Waiting : t \in ahead[u] => ahead[t] \cap Backend!Waiting \subseteq ahead[u]
    BY DEF QueueInv, QueueOrdered
  <1> QED BY <1>1, <1>2, OrderIs

LEMMA HandleStopSays ==
  ASSUME LinkInv, RowsInv, HandleStop
  PROVE  \E events : Answers(events) /\ Accounts(events) /\ Announces(events)
  <1> DEFINE dropped == AcceptedOrder(Backend!Waiting)
             removals == [i \in DOMAIN dropped |-> Removed(dropped[i])]
             events == removals \o <<Stopped>>
  <1>1. /\ alive /\ alive' = alive /\ Takes /\ Head(up).kind = "stop" /\ Backend!Drop
        /\ down' = down \o events /\ UNCHANGED <<backendOnly, submitted, cleared>>
    BY DEF HandleStop, Take, Takes, Tell, historyVars
  <1>2. /\ dropped \in Seq(Backend!Waiting)
        /\ \A t \in Backend!Waiting : \E i \in DOMAIN dropped : dropped[i] = t
    BY WaitingListed DEF LinkInv
  <1>3. /\ Unended' = Backend!Running /\ Backend!Running' = Backend!Running
        /\ Backend!Waiting' = {} /\ RunsFirst' /\ \A r \in Backend!Running : ahead'[r] = {}
    BY <1>1, DropLeaves
  <1> HIDE DEF dropped
  <1>4. /\ Len(dropped) \in Nat /\ DOMAIN dropped = 1..Len(dropped)
        /\ \A i \in DOMAIN dropped : dropped[i] \in Backend!Waiting
    BY <1>2
  <1>5. \A i \in DOMAIN dropped : Removed(dropped[i]) \in Events
    BY <1>4, UnendedIs DEF Removed, Events
  <1>6. removals \in Seq(Events) /\ DOMAIN removals = 1..Len(dropped) /\ Len(removals) = Len(dropped)
    BY <1>4, <1>5
  <1>7. Stopped \in Events
    BY DEF Stopped, Events
  <1>8. \A i \in 1..Len(dropped) : removals[i] = Removed(dropped[i])
    BY <1>4
  <1> HIDE DEF removals
  <1>9. /\ events \in Seq(Events) /\ DOMAIN events = 1..(Len(dropped) + 1)
        /\ events[Len(dropped) + 1] = Stopped
        /\ \A i \in 1..Len(dropped) : i \in DOMAIN events /\ events[i] = Removed(dropped[i])
    BY <1>4, <1>6, <1>7, <1>8
  <1> HIDE DEF events
  <1>10. \A k \in DOMAIN events :
           \/ events[k] = Stopped
           \/ \E t \in Backend!Waiting : events[k] = Removed(t)
    BY <1>4, <1>9
  <1>11. \A t \in Backend!Waiting : \E k \in DOMAIN events : events[k] = Removed(t)
    BY <1>2, <1>4, <1>9
  <1>12. /\ Stopped.turn \notin Turn /\ Stopped.type = "stopped"
         /\ \A t : Removed(t).turn = t /\ Removed(t).type = "removed"
    BY LinkAssumption DEF Stopped, Removed
  <1>13. \A t : Of(t) <=> t \in Unended
    BY <1>1 DEF Of, Request
  <1>14. Answers(events)
    <2>1. \A k \in DOMAIN events :
            /\ events[k].turn \in Turn => Of(events[k].turn)
            /\ events[k].type # "resumed"
      BY <1>10, <1>12, <1>13 DEF Unended
    <2>2. \A t \in Turn : t \in Unended' => Of(t)
      BY <1>3, <1>13 DEF Unended
    <2> QED BY <1>1, <1>9, <2>1, <2>2 DEF Answers
  <1>15. \A t \in Backend!Waiting : Tells(events, "removed", t)
    BY <1>11, <1>12 DEF Tells
  <1>16. Accounts(events)
    BY <1>3, <1>13, <1>15 DEF Accounts, Unended
  <1>17. \A k \in DOMAIN events : \A u : ~Activates(events[k], u) /\ ~Queues(events[k], u)
    BY <1>10, <1>12 DEF Activates, Queues
  <1>18. Announces(events)
    BY <1>3, <1>17 DEF Announces
  <1> QED BY <1>14, <1>16, <1>18

\* The turn that runs ends: the one right behind it may be the next.
LEMMA FinishLeaves ==
  ASSUME LinkInv, RowsInv, NEW t \in Turn, Backend!Finish(t)
  PROVE  LET next == {u \in Turn : stage[u] = "waiting" /\ stage'[u] = "running"}
         IN  /\ t \in Unended /\ Unended' = Unended \ {t} /\ Backend!Running' = next
             /\ Backend!Waiting' = Backend!Waiting \ next /\ next \subseteq Backend!Waiting
             /\ \A u \in Turn : ahead'[u] \subseteq ahead[u]
             /\ \A u, v \in next : u = v
             /\ RunsFirst'
  <1> DEFINE W == Backend!Waiting
             next == {u \in Turn : stage[u] = "waiting" /\ stage'[u] = "running"}
  <1>1. PICK goesOn \in BOOLEAN :
          stage' = [u \in Turn |-> IF u = t THEN "over"
                                   ELSE IF u \in {v \in W : goesOn /\ ahead[v] = {t}}
                                        THEN "running" ELSE stage[u]]
    BY DEF Backend!Finish
  <1>2. stage[t] = "running" /\ ahead' = [u \in Turn |-> IF u = t THEN {} ELSE ahead[u] \ {t}]
    BY DEF Backend!Finish
  <1>3. next = {v \in W : goesOn /\ ahead[v] = {t}} /\ t \notin W /\ t \in Backend!Running
    BY <1>1, <1>2 DEF Backend!Waiting, Backend!Running
  <1>4. /\ Backend!Running = {t}
        /\ \A u \in W : /\ t \in ahead[u] /\ u \notin ahead[u]
                        /\ \A v \in W : u # v => u \in ahead[v] \/ v \in ahead[u]
    BY <1>3 DEF RowsInv, RunsFirst, LinkInv, QueueInv, QueueOrdered
  <1>5. /\ Unended' = Unended \ {t} /\ Backend!Running' = next /\ Backend!Waiting' = W \ next
    <2>1. \A u \in Turn : u # t => stage[u] # "running"
      BY <1>4 DEF Backend!Running
    <2>2. \A u \in Turn : stage'[u] = IF u = t THEN "over" ELSE IF u \in next THEN "running" ELSE stage[u]
      BY <1>1, <1>3
    <2>3. next \subseteq Turn /\ W = {u \in Turn : stage[u] = "waiting"} /\ next \subseteq W
      BY <1>3 DEF Backend!Waiting
    <2> HIDE DEF next, W
    <2> QED BY <1>2, <1>3, <2>1, <2>2, <2>3 DEF Unended, Backend!Waiting, Backend!Running
  <1>6. \A u \in Turn : ahead'[u] \subseteq ahead[u]
    BY <1>2 DEF LinkInv, QueueInv, Backend!TypeOK
  <1>7. \A u, v \in next : u = v
    BY <1>3, <1>4
  <1>8. RunsFirst'
    <2>1. ASSUME NEW r \in next PROVE ahead'[r] = {} /\ \A u \in W \ next : r \in ahead'[u]
      <3>1. r \in Turn /\ ahead'[r] = {}
        BY <1>2, <1>3, <2>1
      <3>2. \A u \in W \ next : u \in Turn /\ u # t /\ u # r /\ r \in ahead[u]
        BY <1>3, <1>4, <2>1 DEF Backend!Waiting
      <3> QED BY <1>2, <1>3, <2>1, <3>1, <3>2
    <2> QED BY <1>5, <1>7, <2>1 DEF RunsFirst
  <1>9. t \in Unended /\ next \subseteq W
    BY <1>3 DEF Unended
  <1> QED BY <1>5, <1>6, <1>7, <1>8, <1>9

\* A set of at most one element, as a sequence.
LEMMA SingleAsSeq ==
  ASSUME NEW S, \A u, v \in S : u = v
  PROVE  SetToSeq(S) \in Seq(S) /\ \A u \in S : \E i \in DOMAIN SetToSeq(S) : SetToSeq(S)[i] = u
  <1>1. CASE S = {}
    BY <1>1, FS_EmptySet, SetAsSeq
  <1>2. ASSUME NEW u \in S PROVE S = {u} /\ SetToSeq(S) \in Seq(S) /\ SetToSeq(S)[1] = u
                                 /\ 1 \in DOMAIN SetToSeq(S)
    <2>1. S = {u}
      BY <1>2
    <2>2. IsFiniteSet(S) /\ Cardinality(S) = 1
      BY <2>1, FS_Singleton
    <2>3. SetToSeq(S) \in Seq(S)
      BY <2>2, SetAsSeq
    <2>4. SetToSeq(S) \in [1..1 -> S]
      <3> DEFINE f == [i \in 1..1 |-> u]
      <3>1. f \in [1..1 -> S] /\ IsInjective(f)
        BY DEF IsInjective
      <3> HIDE DEF f
      <3> QED BY <2>2, <3>1 DEF SetToSeq
    <2> QED BY <2>1, <2>3, <2>4
  <1> QED BY <1>1, <1>2

LEMMA FinishTurnSays ==
  ASSUME LinkInv, RowsInv, NEW t \in Turn, FinishTurn(t)
  PROVE  \E events : Answers(events) /\ Accounts(events) /\ Announces(events)
  <1> DEFINE next == {u \in Turn : stage[u] = "waiting" /\ stage'[u] = "running"}
             started == SetToSeq(next)
             starts == [i \in DOMAIN started |-> Activated(started[i])]
             e == Settled(t, outcome'[t])
             events == <<e>> \o starts
  <1>1. /\ alive /\ alive' = alive /\ up' = up /\ Backend!Finish(t)
        /\ down' = down \o events /\ UNCHANGED <<backendOnly, submitted, cleared>>
    BY DEF FinishTurn, Tell, historyVars
  <1>2. /\ t \in Unended /\ Unended' = Unended \ {t} /\ Backend!Running' = next
        /\ Backend!Waiting' = Backend!Waiting \ next /\ next \subseteq Backend!Waiting
        /\ \A u \in Turn : ahead'[u] \subseteq ahead[u]
        /\ \A u, v \in next : u = v
        /\ RunsFirst'
    BY <1>1, FinishLeaves
  <1>3. e \in Events
    <2>1. QueueInv'
      BY <1>1, QueueKeeps DEF LinkInv, Backend!Next
    <2>2. outcome'[t] \in Result
      BY <2>1 DEF QueueInv, Backend!TypeOK, Backend!Outcome, Result
    <2> QED BY <2>2 DEF Settled, Events
  <1> HIDE DEF next
  <1>4. started \in Seq(next) /\ \A u \in next : \E i \in DOMAIN started : started[i] = u
    BY <1>2, SingleAsSeq
  <1> HIDE DEF started
  <1>5. /\ Len(started) \in Nat /\ DOMAIN started = 1..Len(started)
        /\ \A i \in DOMAIN started : started[i] \in next
    BY <1>4
  <1>6. \A i \in DOMAIN started : Activated(started[i]) \in Events
    BY <1>2, <1>5, UnendedIs DEF Activated, Events
  <1>7. /\ starts \in Seq(Events) /\ Len(starts) = Len(started) /\ DOMAIN starts = DOMAIN started
        /\ \A i \in DOMAIN started : starts[i] = Activated(started[i])
    BY <1>5, <1>6
  <1>8. e.turn = t /\ e.type = "settled"
    BY DEF Settled
  <1> HIDE DEF starts, e
  <1>9. /\ events \in Seq(Events) /\ 1 \in DOMAIN events /\ events[1] = e
        /\ \A i \in DOMAIN started : 1 + i \in DOMAIN events /\ events[1 + i] = starts[i] /\ 1 < 1 + i
        /\ \A k \in DOMAIN events : k = 1 \/ (k - 1 \in DOMAIN started /\ events[k] = starts[k - 1])
    BY <1>3, <1>5, <1>7
  <1> HIDE DEF events
  <1>10. \A k \in DOMAIN events : events[k] = e \/ \E u \in next : events[k] = Activated(u)
    BY <1>5, <1>7, <1>9
  <1>11. \A u \in next : \E k \in DOMAIN events : events[k] = Activated(u)
    BY <1>4, <1>7, <1>9
  <1>12. ~Takes /\ \A u : Of(u) <=> u \in Unended
    <2>1. ~Takes
      BY <1>1, PipeIs, TailShorter DEF Takes
    <2> QED BY <2>1 DEF Of
  <1>13. \A u : Activated(u).turn = u /\ Activated(u).type = "activated"
    BY DEF Activated
  <1>14. Answers(events)
    <2>1. \A k \in DOMAIN events :
            /\ events[k].turn \in Turn => Of(events[k].turn)
            /\ events[k].type # "resumed"
      BY <1>2, <1>8, <1>10, <1>12, <1>13 DEF Unended
    <2> QED BY <1>1, <1>2, <1>9, <1>12, <2>1 DEF Answers
  <1>15. Accounts(events)
    <2>1. Tells(events, "settled", t)
      BY <1>8, <1>9 DEF Tells
    <2>2. \A u, v \in Turn : u \in Unended' /\ v \in Unended' /\ u \in ahead'[v] =>
            u \in Unended /\ u \in ahead[v]
      BY <1>2
    <2> QED BY <1>2, <1>12, <2>1, <2>2 DEF Accounts
  <1>16. Announces(events)
    <2>2. \A k \in DOMAIN events : \A u : Activates(events[k], u) => u \in next
      BY <1>8, <1>10, <1>13 DEF Activates
    <2>3. \A k \in DOMAIN events : \A u : ~Queues(events[k], u)
      BY <1>8, <1>10, <1>13 DEF Queues
    <2>4. \A u \in next : \E k \in DOMAIN events : Activates(events[k], u)
      BY <1>11, <1>13 DEF Activates
    <2>5. ASSUME NEW r \in Turn, r \in Backend!Running'
          PROVE  /\ r \in Backend!Running \/ \E k \in DOMAIN events : Activates(events[k], r)
                 /\ \A k \in DOMAIN events :
                      ~(\E u \in Turn \ {r} : Activates(events[k], u)) /\ ~Queues(events[k], r)
      BY <1>2, <2>2, <2>3, <2>4, <2>5
    <2>6. ASSUME NEW u \in Turn, u \in Backend!Waiting'
          PROVE  u \in Backend!Waiting /\ \A k \in DOMAIN events : ~Activates(events[k], u)
      BY <1>2, <2>2, <2>6
    <2> QED BY <2>5, <2>6 DEF Announces
  <1> QED BY <1>14, <1>15, <1>16

LEMMA BackendSays ==
  ASSUME LinkInv, RowsInv, BackendActs
  PROVE  \E events : Answers(events) /\ Accounts(events) /\ Announces(events)
  BY AcceptSubmitSays, RefuseSubmitSays, HandleCancelSays, HandleStopSays, HandleClearSays,
     HandleListSays, HandleResumeSays, StreamChunkSays, FoldSays, FinishTurnSays DEF BackendActs

LEMMA BackendAgrees ==
  ASSUME LinkInv, QuietInv, BackendActs
  PROVE  QuietInv'
  <1>1. PICK events : Answers(events) /\ Accounts(events) /\ Announces(events)
    BY BackendSays DEF QuietInv
  <1> QED BY <1>1, AnswersFlow, AnswersRows DEF QuietInv

-----------------------------------------------------------------------------
(* The rows through a step *)

\* As Follows, whatever the coalescers hold back.
Upholds(m, n, T, S) ==
  /\ m.ignored \subseteq n.ignored /\ n.ignored \subseteq m.ignored \cup T
  /\ \A t \in Turn \ n.ignored :
       /\ Open(m, t) => Open(n, t)
       /\ HasRow(n, t) => HasRow(m, t)
       /\ \A u \in Turn \ n.ignored : Above(m, t, u) => Above(n, t, u)
  /\ \A t \in Turn : n.stamp[t] # 0 => m.stamp[t] # 0 \/ t \in S

LEMMA FollowsUpholds ==
  ASSUME NEW m, NEW n, NEW T, NEW S, Follows(m, n, T, S)
  PROVE  Upholds(m, n, T, S) /\ \A t \in Turn : n.held[t] # 0 => m.held[t] # 0
  BY DEF Follows, Upholds

\* The mirror comes to n as fewer turns are pending, none of those that end in n and were
\* not cleared.
LEMMA RowsMove ==
  ASSUME LinkInv, RowsInv, NEW T, NEW S, Upholds(mirror, mirror', T, S),
         \A t \in Turn : Pending(t)' => Pending(t) /\ (t \in T => t \in cleared'),
         \A t \in Turn : Live(t)' => Live(t),
         \A t \in Turn : Asks(up', t) \/ Asks(waiting', t) =>
           (Asks(up, t) \/ Asks(waiting, t)) /\ (t \in S => t \in cleared'),
         \A t, u \in Turn : Before(t, u)' => Before(t, u),
         cleared \subseteq cleared'
  PROVE  RowsShown' /\ PendingShown' /\ StampHeard' /\ RowsOrdered'
  <1>1. RowsShown'
    BY DEF RowsInv, RowsShown, Upholds
  <1>2. PendingShown'
    BY DEF RowsInv, PendingShown, Upholds
  <1>3. StampHeard'
    BY DEF RowsInv, StampHeard, Upholds
  <1>4. RowsOrdered'
    <2> SUFFICES ASSUME NEW t \in Turn \ cleared', NEW u \in Turn \ cleared', Before(t, u)'
                 PROVE  Above(mirror', t, u)
      BY DEF RowsOrdered
    <2>1. Before(t, u) /\ Above(mirror, t, u)
      BY DEF RowsInv, RowsOrdered
    <2>2. Pending(t)' /\ Pending(u)'
      <3>1. \/ t \in Unended' /\ u \in Unended'
            \/ t \in Unended' /\ (Asks(up', u) \/ Asks(waiting', u))
            \/ Asks(up', t) /\ Asks(waiting', u)
            \/ Sooner(up', t, u) \/ Sooner(waiting', t, u)
        BY DEF Before
      <3>2. \A q : Sooner(q, t, u) => Asks(q, t) /\ Asks(q, u)
        BY DEF Sooner, Asks
      <3> QED BY <3>1, <3>2 DEF Pending
    <2>3. t \notin mirror'.ignored /\ u \notin mirror'.ignored
      BY <1>2, <2>2 DEF PendingShown
    <2> QED BY <2>1, <2>3 DEF Upholds
  <1> QED BY <1>1, <1>2, <1>3, <1>4

\* A request that is neither a submit nor a clear may come last.
Adds(q, p) == p = q \/ \E r \in Requests : r.kind \notin {"submit", "clear"} /\ p = Append(q, r)

LEMMA AddsIs ==
  ASSUME NEW q \in Seq(Requests), NEW p, Adds(q, p)
  PROVE  /\ p \in Seq(Requests) /\ \A t : Asks(p, t) <=> Asks(q, t)
         /\ AsksClear(p) => AsksClear(q)
         /\ \A C : ClearsOnly(q, C) => ClearsOnly(p, C)
         /\ \A t, u : Sooner(p, t, u) => Sooner(q, t, u)
  <1>1. CASE p = q
    BY <1>1
  <1>2. ASSUME NEW r \in Requests, r.kind \notin {"submit", "clear"}, p = Append(q, r)
        PROVE  /\ p \in Seq(Requests) /\ \A t : Asks(p, t) <=> Asks(q, t)
               /\ AsksClear(p) => AsksClear(q)
               /\ \A C : ClearsOnly(q, C) => ClearsOnly(p, C)
               /\ \A t, u : Sooner(p, t, u) => Sooner(q, t, u)
    <2>1. p \in Seq(Requests) /\ \A t : Asks(p, t) <=> Asks(q, t)
      BY <1>2, AskMore
    <2>2. /\ AsksClear(p) => AsksClear(q) \/ r.kind = "clear"
          /\ \A C : ClearsOnly(q, C) /\ (r.kind = "clear" => \A t \in Turn : Asks(q, t) => t \in C) =>
               ClearsOnly(p, C)
          /\ \A t, u : Sooner(p, t, u) => Sooner(q, t, u) \/ (r = Request("submit", u) /\ Asks(q, t))
      BY <1>2, RequestsMore
    <2>3. \A u : r # Request("submit", u)
      BY <1>2 DEF Request
    <2> QED BY <1>2, <2>1, <2>2, <2>3
  <1> QED BY <1>1, <1>2 DEF Adds

\* The order of turns that the backend keeps, and of requests that only become fewer.
LEMMA BeforeSame ==
  ASSUME QueueSame, \A t \in Turn : Asks(up', t) => Asks(up, t),
         \A t \in Turn : Asks(waiting', t) => Asks(waiting, t),
         \A t, u \in Turn : Sooner(up', t, u) => Sooner(up, t, u),
         \A t, u \in Turn : Sooner(waiting', t, u) => Sooner(waiting, t, u)
  PROVE  \A t, u \in Turn : Before(t, u)' => Before(t, u)
  BY SameQueue DEF Before

\* The mirror stays, the session to offer apart.
MirrorSteady ==
  /\ mirror'.rows = mirror.rows /\ mirror'.ignored = mirror.ignored
  /\ mirror'.stamp = mirror.stamp /\ mirror'.held = mirror.held

LEMMA SteadyIs ==
  ASSUME MirrorSteady
  PROVE  Upholds(mirror, mirror', {}, {}) /\ SameStates(mirror, mirror')
  BY DEF MirrorSteady, Upholds, SameStates, Open, HasRow, Above, InState

\* What the terminal does or hears that leaves the rows and the backend's queue as they are.
IdleWords == {"tokenDelta", "ack", "compactionStatus", "stopped", "listed", "resumed"}

LEMMA OwnRows ==
  ASSUME LinkInv, RowsInv, Adds(up, up'), Adds(waiting, waiting'),
         NEW T, NEW S, Upholds(mirror, mirror', T, S), SameStates(mirror, mirror'),
         \A t \in T : ~Pending(t),
         \A t \in Turn : mirror'.held[t] # 0 =>
           mirror.held[t] # 0 \/ (down # <<>> /\ down' = Tail(down) /\ Head(down).turn = t),
         \A t \in S : ~Asks(up, t) /\ ~Asks(waiting, t), S \subseteq submitted,
         QueueSame, UNCHANGED <<inFlight, cleared>>, submitted \subseteq submitted', alive' = alive,
         alive /\ session' = "live" => session = "live",
         down' = down \/ (down # <<>> /\ down' = Tail(down) /\ Head(down).type \in IdleWords)
  PROVE  RowsInv'
  <1>1. /\ up \in Seq(Requests) /\ waiting \in Seq(Requests) /\ down \in Seq(Events)
        /\ inFlight \in Seq(Turn)
    BY PipeIs
  <1>2. /\ \A t : /\ Asks(up', t) <=> Asks(up, t)
                  /\ Asks(waiting', t) <=> Asks(waiting, t)
        /\ AsksClear(up') => AsksClear(up)
        /\ \A C : /\ ClearsOnly(up, C) => ClearsOnly(up', C)
                  /\ ClearsOnly(waiting, C) => ClearsOnly(waiting', C)
        /\ \A t, u : /\ Sooner(up', t, u) => Sooner(up, t, u)
                     /\ Sooner(waiting', t, u) => Sooner(waiting, t, u)
    BY <1>1, AddsIs
  <1>3. /\ Unended' = Unended /\ Backend!Running' = Backend!Running
        /\ Backend!Waiting' = Backend!Waiting /\ ahead' = ahead /\ (RunsFirst => RunsFirst')
    BY SameQueue
  <1>4. \A t : Pending(t)' <=> Pending(t)
    BY <1>2, <1>3 DEF Pending
  <1>5. /\ \A i \in DOMAIN down' : \E j \in DOMAIN down : down[j] = down'[i]
        /\ \A j \in DOMAIN down : down[j].type \notin IdleWords => \E i \in DOMAIN down' : down'[i] = down[j]
        /\ \A i \in DOMAIN down' : \E j \in DOMAIN down : down[j] = down'[i] /\
             \A k \in DOMAIN down : j < k => \E l \in DOMAIN down' : i < l /\ down'[l] = down[k]
    <2>1. CASE down' = down
      BY <2>1
    <2>2. CASE down # <<>> /\ down' = Tail(down) /\ Head(down).type \in IdleWords
      <3>1. /\ Head(down) = down[1] /\ 1 \in DOMAIN down
            /\ \A i \in DOMAIN Tail(down) : /\ i + 1 \in DOMAIN down /\ Tail(down)[i] = down[i + 1]
                                            /\ i \in Nat /\ 1 < i + 1
            /\ \A i \in DOMAIN down : i = 1 \/ (i - 1 \in DOMAIN Tail(down) /\ Tail(down)[i - 1] = down[i])
        BY <1>1, <2>2, TailIs
      <3>2. ASSUME NEW i \in DOMAIN down'
            PROVE  \E j \in DOMAIN down : down[j] = down'[i] /\
                     \A k \in DOMAIN down : j < k => \E l \in DOMAIN down' : i < l /\ down'[l] = down[k]
        <4>1. i + 1 \in DOMAIN down /\ down'[i] = down[i + 1] /\ i \in Nat /\ 1 < i + 1
          BY <2>2, <3>1
        <4>2. ASSUME NEW k \in DOMAIN down, i + 1 < k
              PROVE  k - 1 \in DOMAIN down' /\ i < k - 1 /\ down'[k - 1] = down[k]
          <5>1. k \in Nat /\ k # 1
            BY <1>1, <4>1, <4>2
          <5> QED BY <2>2, <3>1, <4>1, <4>2, <5>1
        <4> QED BY <4>1, <4>2
      <3> QED BY <2>2, <3>1, <3>2
    <2> QED BY <2>1, <2>2
  <1>6. \A t \in Turn : Live(t)' => Live(t)
    <2>1. down # <<>> => 1 \in DOMAIN down /\ Head(down) = down[1]
      BY <1>1
    <2> QED BY <1>4, <1>5, <2>1 DEF Live
  <1>7. RowsShown' /\ PendingShown' /\ StampHeard' /\ RowsOrdered'
    <2>2. \A t, u \in Turn : Before(t, u)' => Before(t, u)
      BY <1>2, BeforeSame
    <2> QED BY <1>2, <1>4, <1>6, <2>2, RowsMove
  <1>8. RowsInFlight'
    BY <1>2 DEF RowsInv, RowsInFlight, Upholds
  <1>9. WaitingApart' /\ ClearedKnown' /\ StampKnown'
    BY <1>2 DEF RowsInv, WaitingApart, ClearedKnown, StampKnown, Upholds
  <1>10. FlightPending'
    <2>1. \A type \in {"settled", "removed"} : \A t : Tells(down, type, t) => Tells(down', type, t)
      BY <1>5 DEF Tells, IdleWords
    <2> QED BY <1>4, <2>1 DEF RowsInv, FlightPending
  <1>11. ClearCovers'
    BY <1>2, <1>3 DEF RowsInv, ClearCovers
  <1>12. RunsFirst'
    BY <1>3 DEF RowsInv
  <1>13. ActiveTold'
    <2>1. ASSUME NEW r \in Backend!Running, NEW i \in DOMAIN down',
                 (\E u \in Turn \ {r} : Activates(down'[i], u)) \/ Queues(down'[i], r)
          PROVE  \E l \in DOMAIN down' : i < l /\ Activates(down'[l], r)
      <3>1. PICK j \in DOMAIN down : down[j] = down'[i] /\
              \A k \in DOMAIN down : j < k => \E l \in DOMAIN down' : i < l /\ down'[l] = down[k]
        BY <1>5
      <3>2. PICK k \in DOMAIN down : j < k /\ Activates(down[k], r)
        BY <2>1, <3>1 DEF RowsInv, ActiveTold
      <3> QED BY <3>1, <3>2
    <2>2. \A t \in Backend!Waiting : \A i \in DOMAIN down' : ~Activates(down'[i], t)
      BY <1>5 DEF RowsInv, ActiveTold
    <2> QED BY <1>3, <2>1, <2>2 DEF ActiveTold
  <1>14. ActiveShown'
    <2>1. \A t \in Turn : Pending(t) => t \in cleared \/ t \notin mirror'.ignored
      BY DEF RowsInv, PendingShown, Upholds
    <2>2. \A t \in Turn : t \in Unended => Pending(t)
      BY DEF Pending
    <2>3. \A t \in Backend!Running \cup Backend!Waiting : t \in Turn /\ t \in Unended
      BY UnendedIs
    <2>4. \A t : /\ \A i \in DOMAIN down : Activates(down[i], t) => \E j \in DOMAIN down' : Activates(down'[j], t)
                 /\ \A i \in DOMAIN down : Queues(down[i], t) => \E j \in DOMAIN down' : Queues(down'[j], t)
      <3>1. \A i \in DOMAIN down : \A t : Activates(down[i], t) \/ Queues(down[i], t) =>
              down[i].type \notin IdleWords
        BY DEF Activates, Queues, IdleWords
      <3> QED BY <1>5, <3>1
    <2>5. \A r \in Backend!Running : r \in cleared \/ InState(mirror', r, "active")
                                     \/ \E i \in DOMAIN down' : Activates(down'[i], r)
      BY <2>1, <2>2, <2>3, <2>4 DEF RowsInv, ActiveShown, SameStates, Upholds
    <2>6. \A t \in Backend!Waiting : t \in cleared \/ InState(mirror', t, "queued")
                                     \/ \E i \in DOMAIN down' : Queues(down'[i], t)
      BY <2>1, <2>2, <2>3, <2>4 DEF RowsInv, ActiveShown, SameStates, Upholds
    <2> QED BY <1>3, <2>5, <2>6 DEF ActiveShown
  <1> QED BY <1>7, <1>8, <1>9, <1>10, <1>11, <1>12, <1>13, <1>14 DEF RowsInv
\* No row changes either.
LEMMA SteadyRows ==
  ASSUME LinkInv, RowsInv, Adds(up, up'), Adds(waiting, waiting'), MirrorSteady,
         UNCHANGED <<queueVars, inFlight, cleared, submitted>>, alive' = alive,
         alive /\ session' = "live" => session = "live",
         down' = down \/ (down # <<>> /\ down' = Tail(down) /\ Head(down).type \in IdleWords)
  PROVE  RowsInv'
  <1>1. QueueSame
    BY DEF queueVars, QueueSame
  <1>2. Upholds(mirror, mirror', {}, {}) /\ SameStates(mirror, mirror')
    BY SteadyIs
  <1> QED BY <1>1, <1>2, OwnRows DEF MirrorSteady

-----------------------------------------------------------------------------
(* The terminal's steps *)

LEMMA StageOf ==
  ASSUME UNCHANGED queueVars
  PROVE  stage' = stage /\ Unended' = Unended
  BY DEF queueVars, Unended, Backend!Waiting, Backend!Running

LEMMA FlowSame ==
  ASSUME LinkInv, FlowInv, UNCHANGED <<clientVars, up, waiting, down, alive, stage>>, FlowSteps
  PROVE  FlowInv'
  <1>1. ConnectionInv'
    BY DEF clientVars, FlowInv, ConnectionInv, FlowSteps
  <1>2. OneResume'
    BY DEF FlowInv, OneResume, FlowSteps
  <1>3. ResumedIdle'
    <2>1. Unended' = Unended
      BY DEF Unended, Backend!Waiting, Backend!Running
    <2> QED BY <2>1 DEF FlowInv, ResumedIdle, NonePending, FlowSteps
  <1> QED BY <1>1, <1>2, <1>3 DEF FlowInv

LEMMA DispatchAdds ==
  ASSUME NEW r \in Requests, r.kind \notin {"submit", "clear"}, Dispatch(r) \/ RefusedAtOnce
  PROVE  /\ Adds(up, up') /\ Adds(waiting, waiting') /\ inFlight' = inFlight
         /\ session' = "live" => session = "live"
  BY DEF Dispatch, RefusedAtOnce, Adds, clientVars

\* A request of the terminal that changes nothing else.
LEMMA RequestAgrees ==
  ASSUME LinkInv, QuietInv, NEW r \in Requests, r.kind \notin {"submit", "clear", "resume"},
         Dispatch(r) \/ RefusedAtOnce, FlowSteps,
         UNCHANGED <<mirror, down, alive, queueVars, cleared, submitted>>
  PROVE  QuietInv'
  <1>1. stage' = stage
    BY StageOf
  <1>2. FlowInv'
    BY <1>1, FlowDispatch DEF QuietInv
  <1>3. RowsInv'
    BY DispatchAdds, SteadyRows DEF QuietInv, MirrorSteady
  <1> QED BY <1>2, <1>3 DEF QuietInv

\* A step of the resume that changes nothing else.
LEMMA PhaseAgrees ==
  ASSUME LinkInv, QuietInv, FlowSteps,
         UNCHANGED <<mirror, clientVars, up, waiting, inFlight, down, alive, queueVars, cleared, submitted>>
  PROVE  QuietInv'
  <1>1. stage' = stage
    BY StageOf
  <1>2. FlowInv'
    BY <1>1, FlowSame DEF QuietInv
  <1>3. RowsInv'
    BY SteadyRows DEF QuietInv, MirrorSteady, Adds, clientVars
  <1> QED BY <1>2, <1>3 DEF QuietInv

LEMMA CancelAgrees ==
  ASSUME LinkInv, QuietInv, Cancel
  PROVE  QuietInv'
  <1> DEFINE Active == {j \in DOMAIN mirror.rows : mirror.rows[j].state = "active"}
             First(j) == /\ mirror.rows[j].state = "active"
                         /\ \A k \in 1..(j - 1) : mirror.rows[k].state # "active"
             i == CHOOSE j \in DOMAIN mirror.rows : First(j)
             r == Request("cancel", mirror.rows[i].turn)
  <1>1. mirror.rows \in Seq(Row) /\ DOMAIN mirror.rows = 1..Len(mirror.rows) /\ Len(mirror.rows) \in Nat
    BY LinkTypes DEF GoodMirrors, Mirrors
  <1>2. \E j \in DOMAIN mirror.rows : First(j)
    <2>1. Active # {} /\ Active \in SUBSET Nat
      BY <1>1 DEF Cancel, HasActiveRow
    <2>2. PICK j \in Active : \A k \in Active : j <= k
      BY <2>1, LeastElement
    <2>3. \A k \in 1..(j - 1) : k \in DOMAIN mirror.rows /\ ~(j <= k)
      BY <1>1
    <2> QED BY <2>2, <2>3
  <1>3. i \in DOMAIN mirror.rows
    BY <1>2
  <1> HIDE DEF i
  <1>4. r \in Requests /\ r.kind = "cancel"
    <2>1. mirror.rows[i] \in Row
      BY <1>1, <1>3
    <2> QED BY <2>1 DEF Request, Requests, Row
  <1>5. Dispatch(r) \/ RefusedAtOnce
    BY DEF Cancel, i
  <1> HIDE DEF r
  <1>6. FlowSteps /\ UNCHANGED <<mirror, down, alive, queueVars, cleared, submitted>>
    BY DEF Cancel, FlowSteps
  <1> QED BY <1>4, <1>5, <1>6, RequestAgrees

LEMMA ResumeSelectedAgrees ==
  ASSUME LinkInv, QuietInv, ResumeSelected
  PROVE  QuietInv'
  <1> DEFINE r == Request("stop", None)
  <1>1. r \in Requests /\ r.kind = "stop"
    BY DEF Request, Requests
  <1>2. FlowSteps /\ UNCHANGED <<mirror, down, alive, queueVars, cleared, submitted>>
    BY DEF ResumeSelected, FlowSteps, flowOnly
  <1>3. (Dispatch(r) \/ RefusedAtOnce) \/ UNCHANGED <<clientVars, up, inFlight, waiting>>
    BY DEF ResumeSelected
  <1> HIDE DEF r
  <1> QED BY <1>1, <1>2, <1>3, RequestAgrees, PhaseAgrees

LEMMA ConfirmAgrees ==
  ASSUME LinkInv, QuietInv, ConfirmWorkspaceOrResume
  PROVE  QuietInv'
  <1> DEFINE r == Request("list", FlowUse)
  <1>1. r \in Requests /\ r.kind = "list"
    BY DEF Request, Requests
  <1>2. FlowSteps /\ UNCHANGED <<mirror, down, alive, queueVars, cleared, submitted>>
    BY DEF ConfirmWorkspaceOrResume, FlowSteps, flowOnly
  <1>3. (Dispatch(r) \/ RefusedAtOnce) \/ UNCHANGED <<clientVars, up, inFlight, waiting>>
    BY DEF ConfirmWorkspaceOrResume
  <1> HIDE DEF r
  <1> QED BY <1>1, <1>2, <1>3, RequestAgrees, PhaseAgrees

LEMMA TurnIdleAgrees ==
  ASSUME LinkInv, QuietInv, TurnIdle
  PROVE  QuietInv'
  BY PhaseAgrees DEF TurnIdle, FlowSteps, flowOnly

LEMMA BeginRollbackAgrees ==
  ASSUME LinkInv, QuietInv, BeginRollback
  PROVE  QuietInv'
  <1>1. /\ UNCHANGED <<mirror, hint, down, alive, queueVars, submitted, cleared, inFlight, up, waiting, flow>>
        /\ BeginRelaunch /\ flow = "rollback"
    BY DEF BeginRollback, flowOnly
  <1>2. session' = session
    BY <1>1 DEF BeginRelaunch
  <1>3. ConnectionInv'
    BY <1>1 DEF BeginRelaunch, QuietInv, FlowInv, ConnectionInv
  <1>4. OneResume' /\ ResumedIdle'
    <2>1. Unended' = Unended
      BY <1>1, StageOf
    <2> QED BY <1>1, <2>1 DEF QuietInv, FlowInv, OneResume, ResumedIdle, NonePending
  <1>5. RowsInv'
    BY <1>1, <1>2, SteadyRows DEF QuietInv, MirrorSteady, Adds
  <1> QED BY <1>3, <1>4, <1>5 DEF QuietInv, FlowInv

LEMMA FlushTimerAgrees ==
  ASSUME LinkInv, QuietInv, NEW t \in Turn, FlushTimer(t)
  PROVE  QuietInv'
  <1>1. /\ UNCHANGED <<clientVars, waiting, alive, queueVars, submitted, cleared, inFlight, up, down, flow>>
        /\ mirror' = FlushCoalescer(mirror, t) /\ mirror.held[t] > 0
    BY DEF FlushTimer, linkOnly
  <1>2. stage' = stage /\ QueueSame
    BY <1>1 DEF queueVars, QueueSame
  <1>3. FlowInv'
    BY <1>1, <1>2, FlowSame DEF QuietInv, FlowSteps
  <1>4. stage[t] # "new"
    <2>1. mirror.stream[t] \in Nat /\ mirror.held[t] \in Nat
      BY LinkTypes DEF GoodMirrors, Mirrors
    <2>2. Text(mirror, t) # 0
      BY <1>1, <2>1 DEF Text
    <2> QED BY <2>2 DEF LinkInv, PipeInv, TextHeard
  <1>5. ~Asks(up, t) /\ ~Asks(waiting, t)
    BY <1>4 DEF LinkInv, PipeInv, SubmitsInOrder
  <1>11. {t} \subseteq submitted
    BY <1>4 DEF LinkInv, PipeInv, OnlySubmitted
  <1>6. mirror \in GoodMirrors /\ HeldRow(mirror)
    <2>1. \A u \in Turn : mirror.held[u] # 0 => Live(u)
      BY DEF Live
    <2>2. \A u \in Turn : Open(mirror, u) => HasRow(mirror, u)
      BY DEF Open, HasRow
    <2> QED BY <2>1, <2>2, LinkTypes DEF HeldRow, QuietInv, RowsInv, RowsShown
  <1>7. Retains(mirror, mirror', {}, {t})
    BY <1>1, <1>6, FlushFollows
  <1>8. /\ Upholds(mirror, mirror', {}, {t}) /\ SameStates(mirror, mirror')
        /\ \A u \in Turn : mirror'.held[u] # 0 => mirror.held[u] # 0
    BY <1>7, FollowsUpholds DEF Retains
  <1>9. Adds(up, up') /\ Adds(waiting, waiting') /\ session' = session
    BY <1>1 DEF Adds, clientVars
  <1>10. RowsInv'
    BY <1>1, <1>2, <1>5, <1>8, <1>9, <1>11, OwnRows DEF QuietInv
  <1> QED BY <1>3, <1>10 DEF QuietInv

-----------------------------------------------------------------------------
(* What the terminal hears *)

\* A list may be asked for, on the way out or with the requests that wait.
AsksList(r) ==
  \/ UNCHANGED <<up, waiting>>
  \/ state = "Ready" /\ up' = Append(up, r) /\ waiting' = waiting
  \/ state # "Ready" /\ up' = up /\ waiting' = Append(waiting, r)

LEMMA FlowHears ==
  ASSUME LinkInv, FlowInv, session = "live", down # <<>>, down' = Tail(down),
         Head(down).type # "resumed",
         NEW r \in Requests, r.kind = "list", AsksList(r),
         UNCHANGED <<clientVars, alive, stage, flow>>
  PROVE  FlowInv'
  <1>1. up \in Seq(Requests) /\ waiting \in Seq(Requests) /\ down \in Seq(Events)
    BY PipeIs
  <1>2. UNCHANGED <<state, session, launching, fallback>>
    BY DEF clientVars
  <1>3. ConnectionInv'
    BY <1>2 DEF AsksList, FlowInv, ConnectionInv
  <1>4. /\ AsksResume(up') => AsksResume(up)
        /\ ResumeLast(up')
        /\ ~AsksResume(waiting')
        /\ \A t : (Asks(up', t) <=> Asks(up, t)) /\ (Asks(waiting', t) <=> Asks(waiting, t))
    <2>1. /\ AsksResume(Append(up, r)) => AsksResume(up)
          /\ AsksResume(Append(waiting, r)) => AsksResume(waiting)
          /\ ResumeLast(up) => ResumeLast(Append(up, r))
      BY <1>1, RequestsMore
    <2>2. \A t : /\ Asks(Append(up, r), t) <=> Asks(up, t)
                 /\ Asks(Append(waiting, r), t) <=> Asks(waiting, t)
      BY <1>1, AskMore
    <2> QED BY <2>1, <2>2 DEF AsksList, FlowInv, OneResume
  <1>5. TurnsEnd(down') /\ (TellsResumed(down') => TellsResumed(down)) /\ (Agreed(down') => Agreed(down))
    BY <1>1, EventsLess DEF FlowInv, OneResume
  <1>6. OneResume'
    BY <1>4, <1>5 DEF FlowInv, OneResume
  <1>7. NonePending => NonePending'
    <2>1. Unended' = Unended
      BY DEF Unended, Backend!Waiting, Backend!Running
    <2> QED BY <1>4, <2>1 DEF NonePending
  <1>8. (\A j \in DOMAIN down : down[j].turn \notin Turn) => \A j \in DOMAIN down' : down'[j].turn \notin Turn
    BY <1>1, TailIs
  <1>9. ResumedIdle'
    BY <1>5, <1>7, <1>8 DEF FlowInv, ResumedIdle
  <1> QED BY <1>3, <1>6, <1>9 DEF FlowInv

LEMMA ListIs ==
  Request("list", CaptureUse) \in Requests /\ Request("list", CaptureUse).kind = "list"
  BY DEF Request, Requests

\* A word that leaves the rows alone arrives.
LEMMA WordAgrees ==
  ASSUME LinkInv, QuietInv, NEW type \in IdleWords \ {"resumed"}, Arrives(type),
         UNCHANGED <<linkOnly, inFlight, up, flow>>, MirrorSteady
  PROVE  QuietInv'
  <1>1. /\ session = "live" /\ down # <<>> /\ down' = Tail(down) /\ Head(down).type = type
        /\ UNCHANGED <<clientVars, waiting, alive, queueVars, submitted, cleared>>
        /\ session' = session
    BY DEF Arrives, linkOnly, clientVars
  <1>2. stage' = stage
    BY <1>1, StageOf
  <1>3. FlowInv'
    BY <1>1, <1>2, ListIs, FlowHears DEF QuietInv, AsksList
  <1>4. RowsInv'
    BY <1>1, SteadyRows DEF QuietInv, Adds
  <1> QED BY <1>3, <1>4 DEF QuietInv

LEMMA QuietWordsAgree ==
  ASSUME LinkInv, QuietInv, ReceiveCompaction \/ ReceiveAck \/ ReceiveStopped \/ ReceiveCapture
  PROVE  QuietInv'
  <1>1. PICK type \in IdleWords \ {"resumed"} : Arrives(type)
    BY DEF ReceiveCompaction, ReceiveAck, ReceiveStopped, ReceiveCapture, IdleWords
  <1>2. UNCHANGED <<linkOnly, inFlight, up, flow>>
    BY DEF ReceiveCompaction, ReceiveAck, ReceiveStopped, ReceiveCapture
  <1>3. mirror' = mirror \/ \E s : mirror' = [mirror EXCEPT !.current = s]
    BY DEF ReceiveCompaction, ReceiveAck, ReceiveStopped, ReceiveCapture
  <1>4. mirror \in Mirrors
    BY LinkTypes DEF GoodMirrors
  <1>5. MirrorSteady
    BY <1>3, <1>4 DEF MirrorSteady, Mirrors
  <1> QED BY <1>1, <1>2, <1>5, WordAgrees

\* A chunk is held back.
LEMMA ChunkAgrees ==
  ASSUME LinkInv, QuietInv, ReceiveEvent, Head(down).type = "tokenDelta"
  PROVE  QuietInv'
  <1> DEFINE e == Head(down)
             t == e.turn
  <1>1. /\ session = "live" /\ down # <<>> /\ down' = Tail(down)
        /\ mirror' = TranscriptEvent(mirror, e) /\ inFlight' = inFlight
        /\ UNCHANGED <<clientVars, waiting, alive, queueVars, submitted, cleared, up, flow>>
        /\ session' = session
    BY DEF ReceiveEvent, Arrives, linkOnly, clientVars
  <1>2. e \in Events /\ t \in Turn
    BY <1>1, FirstIs, TurnsOfEvents
  <1>3. mirror \in Mirrors /\ mirror.held \in [Turn -> Nat]
    BY LinkTypes DEF GoodMirrors, Mirrors
  <1>4. mirror' = [mirror EXCEPT !.held[t] = @ + e.chunks]
    BY <1>1 DEF TranscriptEvent
  <1>5. /\ mirror'.rows = mirror.rows /\ mirror'.ignored = mirror.ignored
        /\ mirror'.stamp = mirror.stamp
        /\ \A u \in Turn : u # t => mirror'.held[u] = mirror.held[u]
    BY <1>3, <1>4 DEF Mirrors
  <1>6. Upholds(mirror, mirror', {}, {}) /\ SameStates(mirror, mirror')
    BY <1>5 DEF Upholds, SameStates, Open, HasRow, Above, InState
  <1>7. stage' = stage /\ QueueSame
    BY <1>1 DEF queueVars, QueueSame
  <1>8. FlowInv'
    BY <1>1, <1>7, ListIs, FlowHears DEF QuietInv, AsksList
  <1>9. e.type \in IdleWords
    BY DEF IdleWords
  <1>10. RowsInv'
    BY <1>1, <1>5, <1>6, <1>7, <1>9, OwnRows DEF QuietInv, Adds
  <1> QED BY <1>8, <1>10 DEF QuietInv

LEMMA ReceiveResumedAgrees ==
  ASSUME LinkInv, QuietInv, ReceiveResumed
  PROVE  QuietInv'
  <1>1. /\ session = "live" /\ down # <<>> /\ down' = Tail(down) /\ Head(down).type = "resumed"
        /\ flow = "attaching"
        /\ flow' = IF Head(down).ok THEN "labelling" ELSE IF Elsewhere THEN "rollback" ELSE "failed"
        /\ UNCHANGED <<mirror, inFlight, up, clientVars, waiting, alive, queueVars, submitted, cleared>>
        /\ UNCHANGED <<state, session, launching, fallback>>
    BY DEF ReceiveResumed, Arrives, linkOnly, clientVars
  <1>2. down \in Seq(Events)
    BY PipeIs
  <1>3. ConnectionInv'
    BY <1>1 DEF QuietInv, FlowInv, ConnectionInv
  <1>4. /\ TurnsEnd(down') /\ TellsResumed(down) /\ ~TellsResumed(down')
        /\ (Head(down).ok => Agreed(down) /\ \A i \in DOMAIN down' : down'[i].turn \notin Turn)
        /\ ~Agreed(down')
    <2>1. TurnsEnd(down)
      BY DEF QuietInv, FlowInv, OneResume
    <2> QED BY <1>1, <1>2, <2>1, EventsLess DEF Agreed, TellsResumed
  <1>5. OneResume'
    BY <1>1, <1>4 DEF QuietInv, FlowInv, OneResume
  <1>6. NonePending => NonePending'
    BY <1>1, StageOf DEF NonePending
  <1>7. ResumedIdle'
    BY <1>1, <1>4, <1>6 DEF QuietInv, FlowInv, ResumedIdle
  <1>8. RowsInv'
    BY <1>1, SteadyRows DEF QuietInv, Adds, MirrorSteady, IdleWords
  <1> QED BY <1>3, <1>5, <1>7, <1>8 DEF QuietInv, FlowInv

\* The list arrives: the resume goes on in this process or in one that replaces it.
LEMMA ResumeSessionAgrees ==
  ASSUME LinkInv, QuietInv, ResumeSessionById
  PROVE  QuietInv'
  <1> DEFINE r == Request("resume", None)
  <1>1. /\ session = "live" /\ down # <<>> /\ down' = Tail(down) /\ Head(down).type = "listed"
        /\ flow = "listing"
        /\ UNCHANGED <<mirror, alive, queueVars, submitted, cleared>>
    BY DEF ResumeSessionById, Arrives, historyVars
  <1>2. /\ up \in Seq(Requests) /\ waiting \in Seq(Requests) /\ down \in Seq(Events)
        /\ r \in Requests /\ r.kind = "resume"
    BY PipeIs DEF Request, Requests
  <1>3. launching = "no" /\ state = "Ready" /\ waiting = <<>>
    BY <1>1 DEF QuietInv, FlowInv, ConnectionInv
  <1>4. /\ TurnsEnd(down') /\ ~TellsResumed(down') /\ ~Agreed(down')
        /\ ~AsksResume(up) /\ ~AsksResume(waiting)
    <2>1. ~TellsResumed(down) /\ ~AsksResume(up) /\ ~AsksResume(waiting) /\ TurnsEnd(down)
      BY <1>1 DEF QuietInv, FlowInv, OneResume
    <2>2. TurnsEnd(Tail(down)) /\ (TellsResumed(Tail(down)) => TellsResumed(down))
      BY <1>1, <1>2, <2>1, EventsLess
    <2> QED BY <1>1, <2>1, <2>2 DEF Agreed, TellsResumed
  <1> HIDE DEF r
  <1>5. CASE flow' = "relaunching" /\ BeginRelaunch /\ UNCHANGED <<up, inFlight, waiting>>
    <2>1. ConnectionInv'
      BY <1>1, <1>3, <1>5 DEF BeginRelaunch, QuietInv, FlowInv, ConnectionInv
    <2>2. OneResume' /\ ResumedIdle'
      BY <1>4, <1>5 DEF QuietInv, FlowInv, OneResume, ResumedIdle
    <2>3. session' = session
      BY <1>5 DEF BeginRelaunch
    <2>4. RowsInv'
      BY <1>1, <1>5, <2>3, SteadyRows DEF QuietInv, Adds, MirrorSteady, IdleWords
    <2> QED BY <2>1, <2>2, <2>4 DEF QuietInv, FlowInv
  <1>6. CASE flow' = "attaching" /\ Dispatch(r)
    <2>1. /\ up' = Append(up, r) /\ waiting' = waiting /\ inFlight' = inFlight
          /\ UNCHANGED <<state, session, launching, fallback>>
      BY <1>2, <1>3, <1>6 DEF Dispatch, clientVars
    <2>2. ConnectionInv'
      BY <1>1, <1>3, <1>6, <2>1 DEF QuietInv, FlowInv, ConnectionInv
    <2>3. OneResume' /\ ResumedIdle'
      <3>1. ResumeLast(up) => ResumeLast(Append(up, r))
        BY <1>2, <1>4, RequestsMore
      <3> QED BY <1>4, <1>6, <2>1, <3>1 DEF QuietInv, FlowInv, OneResume, ResumedIdle
    <2>4. RowsInv'
      BY <1>1, <1>2, <2>1, SteadyRows DEF QuietInv, Adds, MirrorSteady, IdleWords
    <2> QED BY <2>2, <2>3, <2>4 DEF QuietInv, FlowInv
  <1> QED BY <1>5, <1>6 DEF ResumeSessionById, r

-----------------------------------------------------------------------------
(* What the terminal hears of a turn *)

LEMMA HeldRowIs ==
  ASSUME LinkInv, RowsInv
  PROVE  mirror \in GoodMirrors /\ HeldRow(mirror)
  <1>1. \A u \in Turn : mirror.held[u] # 0 => Live(u)
    BY DEF Live
  <1>2. \A u \in Turn : Open(mirror, u) => HasRow(mirror, u)
    BY DEF Open, HasRow
  <1> QED BY <1>1, <1>2, LinkTypes DEF HeldRow, RowsInv, RowsShown

\* The first word that was told is of a turn the backend has heard of.
LEMMA FirstHeard ==
  ASSUME LinkInv, RowsInv, down # <<>>, Head(down).turn \in Turn
  PROVE  LET t == Head(down).turn
         IN  /\ down[1] = Head(down) /\ 1 \in DOMAIN down
             /\ ~Asks(up, t) /\ ~Asks(waiting, t) /\ Live(t)
             /\ Head(down).type \in {"settled", "removed"} => ~Pending(t)
  <1> DEFINE t == Head(down).turn
  <1>1. down[1] = Head(down) /\ 1 \in DOMAIN down /\ down \in Seq(Events)
    BY PipeIs, TailIs
  <1>2. stage[t] # "new"
    BY <1>1 DEF LinkInv, PipeInv, Piped, Heard
  <1>3. ~Asks(up, t) /\ ~Asks(waiting, t)
    BY <1>2 DEF LinkInv, PipeInv, SubmitsInOrder
  <1>4. Live(t)
    BY <1>1 DEF Live
  <1>5. ASSUME Head(down).type \in {"settled", "removed"} PROVE ~Pending(t)
    <2>1. Tells(down, "settled", t) \/ Tells(down, "removed", t)
      BY <1>1, <1>5 DEF Tells
    <2>2. stage[t] \notin {"waiting", "running"}
      BY <2>1 DEF LinkInv, PipeInv, Piped, Sent
    <2> QED BY <1>3, <2>2, UnendedIs DEF Pending
  <1> QED BY <1>1, <1>3, <1>4, <1>5

LEMMA ActiveToldLess ==
  ASSUME ActiveTold, QueueSame, down \in Seq(Events), down # <<>>, down' = Tail(down)
  PROVE  ActiveTold'
  <1>1. /\ \A i \in DOMAIN down' : /\ i + 1 \in DOMAIN down /\ down'[i] = down[i + 1] /\ i \in Nat
        /\ \A i \in DOMAIN down : i \in Nat /\ (i = 1 \/ (i - 1 \in DOMAIN down' /\ down'[i - 1] = down[i]))
    BY TailIs
  <1>2. Backend!Running' = Backend!Running /\ Backend!Waiting' = Backend!Waiting
    BY SameQueue
  <1>3. ASSUME NEW r \in Backend!Running, NEW i \in DOMAIN down',
               (\E u \in Turn \ {r} : Activates(down'[i], u)) \/ Queues(down'[i], r)
        PROVE  \E l \in DOMAIN down' : i < l /\ Activates(down'[l], r)
    <2>1. i + 1 \in DOMAIN down /\ down'[i] = down[i + 1] /\ i \in Nat
      BY <1>1
    <2>2. PICK j \in DOMAIN down : i + 1 < j /\ Activates(down[j], r)
      BY <1>3, <2>1 DEF ActiveTold
    <2>3. j \in Nat /\ j # 1 /\ j - 1 \in DOMAIN down' /\ down'[j - 1] = down[j] /\ i < j - 1
      BY <1>1, <2>1, <2>2
    <2> QED BY <2>2, <2>3
  <1>4. \A t \in Backend!Waiting : \A i \in DOMAIN down' : ~Activates(down'[i], t)
    BY <1>1 DEF ActiveTold
  <1> QED BY <1>2, <1>3, <1>4 DEF ActiveTold

\* The rows when a word of the turn t is heard, which may end it.
LEMMA HearsRows ==
  ASSUME LinkInv, RowsInv, Adds(up, up'), Adds(waiting, waiting'), down # <<>>,
         down' = Tail(down), NEW t \in Turn, t = Head(down).turn,
         NEW T \in SUBSET {t}, Upholds(mirror, mirror', T, {t}),
         T # {} => Head(down).type \in {"settled", "removed"},
         \A u \in Turn : mirror'.held[u] # 0 => mirror.held[u] # 0,
         QueueSame, UNCHANGED <<cleared, submitted>>, alive' = alive, session' = session,
         ToSet(inFlight') \subseteq ToSet(inFlight),
         \A u \in ToSet(inFlight) : u \in ToSet(inFlight') \/ (u = t /\ t \in mirror'.ignored),
         Head(down).type \in {"settled", "removed"} => t \notin ToSet(inFlight'),
         ActiveShown'
  PROVE  RowsInv'
  <1>1. /\ up \in Seq(Requests) /\ waiting \in Seq(Requests) /\ down \in Seq(Events)
        /\ inFlight \in Seq(Turn)
    BY PipeIs
  <1>2. /\ \A u : /\ Asks(up', u) <=> Asks(up, u)
                  /\ Asks(waiting', u) <=> Asks(waiting, u)
        /\ AsksClear(up') => AsksClear(up)
        /\ \A C : /\ ClearsOnly(up, C) => ClearsOnly(up', C)
                  /\ ClearsOnly(waiting, C) => ClearsOnly(waiting', C)
        /\ \A u, v : /\ Sooner(up', u, v) => Sooner(up, u, v)
                     /\ Sooner(waiting', u, v) => Sooner(waiting, u, v)
    BY <1>1, AddsIs
  <1>3. /\ Unended' = Unended /\ (RunsFirst => RunsFirst')
    BY SameQueue
  <1>4. \A u : Pending(u)' <=> Pending(u)
    BY <1>2, <1>3 DEF Pending
  <1>5. /\ down[1] = Head(down) /\ ~Asks(up, t) /\ ~Asks(waiting, t)
        /\ T # {} => ~Pending(t)
    BY FirstHeard
  <1>6. /\ \A i \in DOMAIN down' : /\ i + 1 \in DOMAIN down /\ down'[i] = down[i + 1]
        /\ \A i \in DOMAIN down : i = 1 \/ (i - 1 \in DOMAIN down' /\ down'[i - 1] = down[i])
    BY <1>1, TailIs
  <1>7. \A u \in Turn : Live(u)' => Live(u)
    BY <1>4, <1>6 DEF Live
  <1>8. RowsShown' /\ PendingShown' /\ StampHeard' /\ RowsOrdered'
    <2>1. \A u, v \in Turn : Before(u, v)' => Before(u, v)
      BY <1>2, BeforeSame
    <2>2. \A u \in Turn : Pending(u)' => Pending(u) /\ (u \in T => u \in cleared')
      BY <1>4, <1>5
    <2>3. \A u \in Turn : Asks(up', u) \/ Asks(waiting', u) =>
            (Asks(up, u) \/ Asks(waiting, u)) /\ (u \in {t} => u \in cleared')
      BY <1>2, <1>5
    <2> QED BY <1>7, <2>1, <2>2, <2>3, RowsMove
  <1>9. RowsInFlight'
    BY <1>2 DEF RowsInv, RowsInFlight, Upholds
  <1>10. WaitingApart' /\ ClearedKnown' /\ StampKnown'
    <2>1. t \in submitted
      BY FirstIs
    <2> QED BY <1>2, <2>1 DEF RowsInv, WaitingApart, ClearedKnown, StampKnown, Upholds
  <1>11. FlightPending'
    <2> SUFFICES ASSUME alive', session' = "live", NEW u \in ToSet(inFlight')
                 PROVE  Pending(u)' \/ u \in cleared' \/ Tells(down', "settled", u)
                        \/ Tells(down', "removed", u)
      BY DEF FlightPending
    <2>1. Pending(u) \/ u \in cleared \/ Tells(down, "settled", u) \/ Tells(down, "removed", u)
      BY DEF RowsInv, FlightPending
    <2>2. ASSUME NEW type \in {"settled", "removed"}, Tells(down, type, u)
          PROVE  Tells(down', type, u)
      <3>1. PICK i \in DOMAIN down : down[i].type = type /\ down[i].turn = u
        BY <2>2 DEF Tells
      <3>2. i # 1
        BY <1>5, <3>1
      <3> QED BY <1>6, <3>1, <3>2 DEF Tells
    <2> QED BY <1>4, <2>1, <2>2
  <1>12. ClearCovers'
    BY <1>2, <1>3 DEF RowsInv, ClearCovers
  <1>13. RunsFirst' /\ ActiveTold'
    BY <1>1, <1>3, ActiveToldLess DEF RowsInv
  <1> QED BY <1>8, <1>9, <1>10, <1>11, <1>12, <1>13 DEF RowsInv

\* A turn that has not ended, and was not cleared, has its row.
LEMMA UnendedShown ==
  ASSUME LinkInv, RowsInv, NEW t \in Unended, t \notin cleared
  PROVE  t \in Turn /\ t \notin mirror.ignored /\ HasRow(mirror, t)
  <1>1. t \in Turn /\ Pending(t) /\ Live(t)
    BY UnendedIs DEF Pending, Live
  <1> QED BY <1>1 DEF RowsInv, PendingShown, RowsShown, Open, HasRow

LEMMA ReceiveEndAgrees ==
  ASSUME LinkInv, QuietInv, ReceiveEvent, Head(down).type \in {"settled", "removed"}
  PROVE  QuietInv'
  <1> DEFINE e == Head(down)
             t == e.turn
  <1>1. /\ session = "live" /\ down # <<>> /\ down' = Tail(down)
        /\ mirror' = TranscriptEvent(mirror, e)
        /\ inFlight' = Only(inFlight, Turn \ {t})
        /\ UNCHANGED <<clientVars, waiting, alive, queueVars, submitted, cleared, up, flow>>
        /\ session' = session
    BY DEF ReceiveEvent, Arrives, linkOnly, clientVars
  <1>2. e \in Events /\ t \in Turn
    BY <1>1, FirstIs, TurnsOfEvents
  <1>3. e.type = "settled" => e.result \in Result
    BY <1>2 DEF Events
  <1>4. mirror \in GoodMirrors /\ HeldRow(mirror) /\ Live(t)
    BY <1>1, <1>2, HeldRowIs, FirstHeard DEF QuietInv
  <1>5. HasRow(mirror, t) \/ t \in mirror.ignored
    BY <1>2, <1>4 DEF QuietInv, RowsInv, RowsShown, Open, HasRow
  <1>6. stage' = stage /\ QueueSame
    BY <1>1 DEF queueVars, QueueSame
  <1>7. FlowInv'
    BY <1>1, <1>6, ListIs, FlowHears DEF QuietInv, AsksList
  <1>8. StillInFlight(e)
    BY <1>1, FlightEnds
  <1>9. t \notin ToSet(inFlight')
    <2> DEFINE K == Turn \ {t}
    <2>1. inFlight \in Seq(Turn)
      BY LinkTypes
    <2>2. \A i \in DOMAIN Only(inFlight, K) : Only(inFlight, K)[i] \in K
      <3> HIDE DEF K
      <3> QED BY <2>1, OnlyIs
    <2> QED BY <1>1, <2>2 DEF ToSet
  <1> HIDE DEF e
  <1>10. Retains(mirror, mirror', {t}, {t}) /\ t \in mirror'.ignored
    <2>1. LET n == TranscriptEvent(mirror, e)
          IN  Retains(mirror, n, {e.turn}, {e.turn}) /\ e.turn \in n.ignored
      BY <1>2, <1>3, <1>4, <1>5, EndFollows DEF e
    <2> QED BY <1>1, <2>1
  <1>11. /\ Upholds(mirror, mirror', {t}, {t}) /\ SameStates(mirror, mirror')
         /\ \A u \in Turn : mirror'.held[u] # 0 => mirror.held[u] # 0
    BY <1>10, FollowsUpholds DEF Retains
  <1>12. ActiveShown'
    <2>1. Backend!Running' = Backend!Running /\ Backend!Waiting' = Backend!Waiting
      BY <1>6, SameQueue
    <2>2. \A i \in DOMAIN down : i = 1 \/ (i - 1 \in DOMAIN down' /\ down'[i - 1] = down[i])
      BY <1>1, PipeIs, TailIs
    <2>3. down[1] = e /\ ~Pending(t)
      BY <1>1, <1>2, FirstHeard DEF QuietInv, e
    <2>4. \A u : ~Activates(e, u) /\ ~Queues(e, u)
      BY DEF Activates, Queues, e
    <2>5. \A u \in Unended : u \in cleared \/ (u \in Turn /\ u \notin mirror'.ignored)
      <3> SUFFICES ASSUME NEW u \in Unended, u \notin cleared PROVE u \in Turn /\ u \notin mirror'.ignored
        OBVIOUS
      <3>1. u \in Turn /\ u \notin mirror.ignored
        BY UnendedShown DEF QuietInv
      <3>2. u # t
        BY <2>3 DEF Pending
      <3> QED BY <1>11, <3>1, <3>2 DEF Upholds
    <2>6. \A u \in Backend!Running \cup Backend!Waiting : u \in Unended
      BY UnendedIs
    <2>7. \A u \in Unended \ cleared : \A x \in {"active", "queued"} :
            InState(mirror, u, x) => InState(mirror', u, x)
      BY <1>11, <2>5 DEF SameStates
    <2>8. ASSUME NEW r \in Backend!Running
          PROVE  r \in cleared' \/ InState(mirror', r, "active")
                 \/ \E i \in DOMAIN down' : Activates(down'[i], r)
      <3>1. r \in cleared \/ InState(mirror, r, "active")
            \/ \E i \in DOMAIN down : Activates(down[i], r)
        BY DEF QuietInv, RowsInv, ActiveShown
      <3> QED BY <1>1, <2>2, <2>3, <2>4, <2>6, <2>7, <3>1
    <2>9. ASSUME NEW r \in Backend!Waiting
          PROVE  r \in cleared' \/ InState(mirror', r, "queued")
                 \/ \E i \in DOMAIN down' : Queues(down'[i], r)
      <3>1. r \in cleared \/ InState(mirror, r, "queued")
            \/ \E i \in DOMAIN down : Queues(down[i], r)
        BY DEF QuietInv, RowsInv, ActiveShown
      <3> QED BY <1>1, <2>2, <2>3, <2>4, <2>6, <2>7, <3>1
    <2> QED BY <2>1, <2>8, <2>9 DEF ActiveShown
  <1>13. Adds(up, up') /\ Adds(waiting, waiting')
    BY <1>1 DEF Adds
  <1>14. RowsInv'
    <2>1. /\ ToSet(inFlight') \subseteq ToSet(inFlight)
          /\ \A u \in ToSet(inFlight) : u \in ToSet(inFlight') \/ (u = t /\ t \in mirror'.ignored)
      BY <1>8, <1>10 DEF StillInFlight
    <2>2. t = Head(down).turn /\ Head(down).type \in {"settled", "removed"}
      BY DEF e
    <2> HIDE DEF t
    <2> QED BY <1>1, <1>2, <1>6, <1>9, <1>11, <1>12, <1>13, <2>1, <2>2, HearsRows DEF QuietInv
  <1> QED BY <1>7, <1>14 DEF QuietInv

\* What is heard of the row that becomes active, or of a row that waits.
LEMMA ActiveHeard ==
  ASSUME LinkInv, RowsInv, down # <<>>, down' = Tail(down), QueueSame, cleared' = cleared,
         Head(down).turn \in Turn,
         Activates(Head(down), Head(down).turn) \/ Queues(Head(down), Head(down).turn),
         mirror' = TranscriptEvent(mirror, Head(down))
  PROVE  /\ ActiveShown'
         /\ Upholds(mirror, mirror', {}, {Head(down).turn})
         /\ \A u \in Turn : mirror'.held[u] # 0 => mirror.held[u] # 0
  <1> DEFINE e == Head(down)
             t == e.turn
  <1>1. mirror \in GoodMirrors /\ HeldRow(mirror) /\ Live(t) /\ down[1] = e /\ 1 \in DOMAIN down
    BY HeldRowIs, FirstHeard
  <1>2. HasRow(mirror, t) \/ t \in mirror.ignored
    BY <1>1 DEF RowsInv, RowsShown, Open, HasRow
  <1>3. \/ e.type = "activated"
        \/ e.type = "enqueued" /\ e.state \in {"active", "queued"}
    BY DEF Activates, Queues
  <1>4. t \in Turn /\ (Activates(e, t) \/ Queues(e, t)) /\ mirror' = TranscriptEvent(mirror, e)
    OBVIOUS
  <1> HIDE DEF e
  <1>5. /\ Follows(mirror, mirror', {}, {t}) /\ mirror'.ignored = mirror.ignored
        /\ t \in mirror.ignored => SameStates(mirror, mirror')
        /\ t \notin mirror.ignored =>
             /\ Activates(e, t) => \A u \in Turn \ mirror.ignored : HasRow(mirror, u) =>
                  InState(mirror', u, IF u = t THEN "active" ELSE "queued")
             /\ Queues(e, t) =>
                  /\ InState(mirror', t, "queued")
                  /\ \A u \in Turn \ mirror.ignored : \A x \in {"active", "queued"} :
                       u # t /\ InState(mirror, u, x) => InState(mirror', u, x)
    <2>1. LET n == TranscriptEvent(mirror, e)
             IN  /\ Follows(mirror, n, {}, {e.turn}) /\ n.ignored = mirror.ignored
                 /\ e.turn \in mirror.ignored => SameStates(mirror, n)
                 /\ e.turn \notin mirror.ignored =>
                      /\ Activates(e, e.turn) => \A u \in Turn \ mirror.ignored : HasRow(mirror, u) =>
                           InState(n, u, IF u = e.turn THEN "active" ELSE "queued")
                      /\ Queues(e, e.turn) =>
                           /\ InState(n, e.turn, "queued")
                           /\ \A u \in Turn \ mirror.ignored : \A x \in {"active", "queued"} :
                                u # e.turn /\ InState(mirror, u, x) => InState(n, u, x)
      BY <1>1, <1>2, <1>3, <1>4, ActivateFollows
    <2> QED BY <1>4, <2>1
  <1>6. \A i \in DOMAIN down : /\ i \in Nat /\ (1 < i => i # 1)
                               /\ i = 1 \/ (i - 1 \in DOMAIN down' /\ down'[i - 1] = down[i])
    BY PipeIs, TailIs
  <1>7. \A u \in Unended \ cleared : u \in Turn \ mirror.ignored /\ HasRow(mirror, u)
    BY UnendedShown
  <1>8. Backend!Running \subseteq Unended /\ Backend!Waiting \subseteq Unended
    BY UnendedIs
  <1>9. \A u : Activates(e, u) \/ Queues(e, u) => u = t
    BY DEF Activates, Queues
  <1>10. ~(Activates(e, t) /\ Queues(e, t))
    BY DEF Activates, Queues
  <1>11. ASSUME NEW r \in Backend!Running, r \notin cleared
         PROVE  InState(mirror', r, "active") \/ \E i \in DOMAIN down' : Activates(down'[i], r)
    <2>1. r \in Turn \ mirror.ignored /\ HasRow(mirror, r)
      BY <1>7, <1>8, <1>11
    <2>2. InState(mirror, r, "active") \/ \E i \in DOMAIN down : Activates(down[i], r)
      BY <1>11 DEF RowsInv, ActiveShown
    <2>3. CASE (t # r /\ Activates(e, t)) \/ Queues(e, r)
      <3>1. PICK j \in DOMAIN down : 1 < j /\ Activates(down[j], r)
        BY <1>1, <1>4, <2>3 DEF RowsInv, ActiveTold
      <3> QED BY <1>6, <3>1
    <2>4. CASE t = r /\ Activates(e, t)
      <3>1. InState(mirror', r, "active")
        BY <1>5, <2>1, <2>4
      <3> QED BY <3>1
    <2>5. CASE t # r /\ Queues(e, t)
      <3>1. ~Activates(e, r)
        BY <1>9, <2>5
      <3>2. InState(mirror, r, "active") => InState(mirror', r, "active")
        BY <1>5, <2>1, <2>5 DEF SameStates
      <3> QED BY <1>1, <1>6, <2>2, <3>1, <3>2
    <2> QED BY <1>4, <2>3, <2>4, <2>5
  <1>12. ASSUME NEW w \in Backend!Waiting, w \notin cleared
         PROVE  InState(mirror', w, "queued") \/ \E i \in DOMAIN down' : Queues(down'[i], w)
    <2>1. w \in Turn \ mirror.ignored /\ HasRow(mirror, w)
      BY <1>7, <1>8, <1>12
    <2>2. InState(mirror, w, "queued") \/ \E i \in DOMAIN down : Queues(down[i], w)
      BY <1>12 DEF RowsInv, ActiveShown
    <2>3. ~Activates(e, w)
      BY <1>1 DEF RowsInv, ActiveTold
    <2>4. CASE Activates(e, t)
      <3>1. t # w /\ ~Queues(e, w)
        BY <1>9, <1>10, <2>3, <2>4
      <3>2. InState(mirror, w, "queued") => InState(mirror', w, "queued")
        BY <1>5, <2>1, <2>4, <3>1 DEF SameStates
      <3> QED BY <1>1, <1>6, <2>2, <3>1, <3>2
    <2>5. CASE t = w /\ Queues(e, t)
      <3>1. InState(mirror', w, "queued")
        BY <1>5, <2>1, <2>5
      <3> QED BY <3>1
    <2>6. CASE t # w /\ Queues(e, t)
      <3>1. ~Queues(e, w)
        BY <1>9, <2>6
      <3>2. InState(mirror, w, "queued") => InState(mirror', w, "queued")
        BY <1>5, <2>1, <2>6 DEF SameStates
      <3> QED BY <1>1, <1>6, <2>2, <3>1, <3>2
    <2> QED BY <1>4, <2>4, <2>5, <2>6
  <1>13. ActiveShown'
    <2>1. Backend!Running' = Backend!Running /\ Backend!Waiting' = Backend!Waiting
      BY SameQueue
    <2> QED BY <1>11, <1>12, <2>1 DEF ActiveShown
  <1>14. Upholds(mirror, mirror', {}, {t}) /\ \A u \in Turn : mirror'.held[u] # 0 => mirror.held[u] # 0
    BY <1>5, FollowsUpholds
  <1> QED BY <1>13, <1>14 DEF e

LEMMA ReceiveActivatedAgrees ==
  ASSUME LinkInv, QuietInv, ReceiveEvent, Head(down).type = "activated"
  PROVE  QuietInv'
  <1> DEFINE e == Head(down)
             t == e.turn
  <1>1. /\ session = "live" /\ down # <<>> /\ down' = Tail(down)
        /\ mirror' = TranscriptEvent(mirror, e) /\ inFlight' = inFlight
        /\ UNCHANGED <<clientVars, waiting, alive, queueVars, submitted, cleared, up, flow>>
        /\ session' = session
    BY DEF ReceiveEvent, Arrives, linkOnly, clientVars
  <1>2. t \in Turn /\ Activates(e, t)
    BY <1>1, FirstIs, TurnsOfEvents DEF Activates
  <1>3. stage' = stage /\ QueueSame
    BY <1>1 DEF queueVars, QueueSame
  <1>4. FlowInv'
    BY <1>1, <1>3, ListIs, FlowHears DEF QuietInv, AsksList
  <1>5. /\ ActiveShown' /\ Upholds(mirror, mirror', {}, {t})
        /\ \A u \in Turn : mirror'.held[u] # 0 => mirror.held[u] # 0
    BY <1>1, <1>2, <1>3, ActiveHeard DEF QuietInv
  <1>6. RowsInv'
    <2>1. Adds(up, up') /\ Adds(waiting, waiting')
      BY <1>1 DEF Adds
    <2>2. t = Head(down).turn /\ Head(down).type = "activated" /\ {} \in SUBSET {t}
      OBVIOUS
    <2> HIDE DEF t, e
    <2> QED BY <1>1, <1>2, <1>3, <1>5, <2>1, <2>2, HearsRows DEF QuietInv
  <1> QED BY <1>4, <1>6 DEF QuietInv

LEMMA ReceiveEnqueuedAgrees ==
  ASSUME LinkInv, QuietInv, ReceiveEnqueued
  PROVE  QuietInv'
  <1> DEFINE e == Head(down)
             t == e.turn
             r == Request("list", CaptureUse)
             asks == IF mirror.current = None THEN <<r>> ELSE <<>>
  <1>1. /\ session = "live" /\ down # <<>> /\ down' = Tail(down) /\ e.type = "enqueued"
        /\ mirror' = TranscriptEvent(mirror, e) /\ inFlight' = inFlight
        /\ UNCHANGED <<clientVars, alive, queueVars, submitted, cleared, flow>>
        /\ session' = session
    BY DEF ReceiveEnqueued, Arrives, historyVars, clientVars
  <1>2. e \in Events /\ t \in Turn
    BY <1>1, FirstIs, TurnsOfEvents
  <1>3. e.state \in {"active", "queued"}
    BY <1>1, <1>2 DEF Events
  <1>4. Activates(e, t) \/ Queues(e, t)
    BY <1>1, <1>3 DEF Activates, Queues
  <1>5. r \in Requests /\ r.kind = "list"
    BY ListIs
  <1>6. IF state = "Ready" THEN up' = up \o asks /\ waiting' = waiting
        ELSE up' = up /\ waiting' = waiting \o asks
    BY DEF ReceiveEnqueued
  <1> HIDE DEF r
  <1>7. AsksList(r)
    <2>1. /\ up \o <<r>> = Append(up, r) /\ waiting \o <<r>> = Append(waiting, r)
          /\ up \o <<>> = up /\ waiting \o <<>> = waiting
      BY <1>5, PipeIs
    <2> QED BY <1>6, <2>1 DEF AsksList
  <1>8. stage' = stage /\ QueueSame
    BY <1>1 DEF queueVars, QueueSame
  <1>9. FlowInv'
    BY <1>1, <1>5, <1>7, <1>8, FlowHears DEF QuietInv
  <1>10. /\ ActiveShown' /\ Upholds(mirror, mirror', {}, {t})
         /\ \A u \in Turn : mirror'.held[u] # 0 => mirror.held[u] # 0
    BY <1>1, <1>2, <1>4, <1>8, ActiveHeard DEF QuietInv
  <1>11. RowsInv'
    <2>1. Adds(up, up') /\ Adds(waiting, waiting')
      BY <1>5, <1>7 DEF Adds, AsksList
    <2>2. t = Head(down).turn /\ Head(down).type = "enqueued" /\ {} \in SUBSET {t}
      BY <1>1
    <2> HIDE DEF t, e
    <2> QED BY <1>1, <1>2, <1>8, <1>10, <2>1, <2>2, HearsRows DEF QuietInv
  <1> QED BY <1>9, <1>11 DEF QuietInv

LEMMA ReceiveAgrees ==
  ASSUME LinkInv, QuietInv, Receive
  PROVE  QuietInv'
  <1>1. ReceiveEvent => Head(down).type \in {"activated", "tokenDelta", "settled", "removed"}
    BY DEF ReceiveEvent, Arrives
  <1> QED BY <1>1, QuietWordsAgree, ReceiveEnqueuedAgrees, ReceiveActivatedAgrees, ChunkAgrees,
             ReceiveEndAgrees, ResumeSessionAgrees, ReceiveResumedAgrees DEF Receive

-----------------------------------------------------------------------------
(* The rows are replaced, or cleared *)

LEMMA ApplyResumeAgrees ==
  ASSUME LinkInv, QuietInv, ApplyResolvedResume
  PROVE  QuietInv'
  <1> DEFINE n == HydrateResumedTranscript(mirror, Stored, Past)
  <1>1. /\ mirror' = n /\ flow = "labelling" /\ flow' = "closed"
        /\ UNCHANGED <<clientVars, inFlight, waiting, up, down, alive, queueVars, submitted, cleared>>
        /\ UNCHANGED <<state, session, launching, fallback>>
    BY DEF ApplyResolvedResume, clientVars
  <1>2. /\ n.ignored = ToSet(Past) /\ \A i \in DOMAIN n.rows : n.rows[i].turn \in ToSet(Past)
        /\ \A t \in Turn : n.held[t] = 0 /\ (n.stamp[t] # 0 => t \in ToSet(Past))
    <2>1. /\ n.ignored = ToSet(Past) /\ n.held = Zero
          /\ n.stamp = [t \in Turn |-> IF t \in ToSet(Past) THEN mirror.generation + 1 ELSE 0]
          /\ n.rows = [i \in DOMAIN Past |-> [turn |-> Past[i], text |-> TRUE, state |-> "settled",
                                              result |-> "completed"]]
      BY LinkTypes DEF GoodMirrors, Mirrors, HydrateResumedTranscript
    <2>2. \A i \in DOMAIN n.rows : i \in DOMAIN Past /\ n.rows[i].turn = Past[i]
      BY <2>1
    <2>3. \A t \in Turn : n.stamp[t] # 0 => t \in ToSet(Past)
      BY <2>1
    <2> QED BY <2>1, <2>2, <2>3, ZeroIs DEF ToSet
  <1>3. stage' = stage /\ Unended' = Unended /\ QueueSame
    BY <1>1, StageOf DEF queueVars, QueueSame
  <1>4. NonePending /\ \A j \in DOMAIN down : down[j].turn \notin Turn
    BY <1>1 DEF QuietInv, FlowInv, ResumedIdle
  <1>5. ConnectionInv'
    BY <1>1 DEF QuietInv, FlowInv, ConnectionInv
  <1>6. OneResume'
    BY <1>1 DEF QuietInv, FlowInv, OneResume
  <1>7. ResumedIdle'
    BY <1>1 DEF QuietInv, FlowInv, OneResume, ResumedIdle, Agreed, TellsResumed
  <1> HIDE DEF n
  <1>8. \A t \in Turn : ~Live(t)' /\ ~Pending(t)' /\ ~Asks(up', t) /\ ~Asks(waiting', t)
    BY <1>1, <1>2, <1>3, <1>4 DEF NonePending, Pending, Live
  <1>9. RowsShown' /\ PendingShown' /\ StampHeard'
    BY <1>8 DEF RowsShown, PendingShown, StampHeard
  <1>10. RowsInFlight'
    BY <1>1, <1>2 DEF RowsInFlight, HasRow
  <1>11. FlightPending'
    BY <1>1, <1>3 DEF QuietInv, RowsInv, FlightPending, Pending
  <1>12. StampKnown' /\ WaitingApart' /\ ClearedKnown' /\ ClearCovers'
    BY <1>1, <1>2, <1>3 DEF QuietInv, RowsInv, StampKnown, WaitingApart, ClearedKnown, ClearCovers
  <1>13. RowsOrdered'
    <2>1. Unended' = {}
      BY <1>3, <1>4, UnendedIs DEF NonePending
    <2>2. \A q : \A t, u : Sooner(q, t, u) => Asks(q, t)
      BY DEF Sooner, Asks
    <2> QED BY <1>8, <2>1, <2>2 DEF RowsOrdered, Before
  <1>14. RunsFirst' /\ ActiveTold' /\ ActiveShown'
    <2>1. Backend!Running' = {} /\ Backend!Waiting' = {}
      BY <1>3, <1>4, UnendedIs, SameQueue DEF NonePending
    <2> QED BY <2>1 DEF RunsFirst, ActiveTold, ActiveShown
  <1> QED BY <1>5, <1>6, <1>7, <1>9, <1>10, <1>11, <1>12, <1>13, <1>14 DEF QuietInv, FlowInv, RowsInv

\* The request goes to one of two queues, or nowhere.
LEMMA DispatchIs ==
  ASSUME NEW r, Dispatch(r) \/ RefusedAtOnce
  PROVE  /\ up' = up \/ up' = Append(up, r)
         /\ waiting' = waiting \/ waiting' = Append(waiting, r)
         /\ session' = "live" => session = "live"
         /\ r.kind # "submit" => inFlight' = inFlight
  BY DEF Dispatch, RefusedAtOnce, clientVars

LEMMA ClearAgrees ==
  ASSUME LinkInv, QuietInv, Clear
  PROVE  QuietInv'
  <1> DEFINE r == Request("clear", None)
             T == VisibleTurns(mirror)
  <1>1. /\ mirror' = ClearTranscript(mirror) /\ cleared' = cleared \cup T
        /\ Dispatch(r) \/ RefusedAtOnce
        /\ UNCHANGED <<down, alive, queueVars, flow, submitted>>
    BY DEF Clear
  <1>2. r \in Requests /\ r.kind = "clear"
    BY DEF Request, Requests
  <1> HIDE DEF r
  <1>3. stage' = stage /\ Unended' = Unended /\ QueueSame
    BY <1>1, StageOf DEF queueVars, QueueSame
  <1>4. FlowInv'
    BY <1>1, <1>2, <1>3, FlowDispatch DEF QuietInv, FlowSteps
  <1>5. /\ up' = up \/ up' = Append(up, r)
        /\ waiting' = waiting \/ waiting' = Append(waiting, r)
        /\ session' = "live" => session = "live"
        /\ inFlight' = inFlight
    BY <1>1, <1>2, DispatchIs
  <1>6. /\ Upholds(mirror, mirror', T, {}) /\ T \subseteq mirror'.ignored /\ mirror'.rows = <<>>
        /\ \A t \in Turn : mirror'.stamp[t] = 0 /\ mirror'.held[t] = 0
    <2>1. mirror \in GoodMirrors
      BY LinkTypes
    <2>2. LET n == ClearTranscript(mirror)
          IN  /\ Retains(mirror, n, T, {}) /\ T \subseteq n.ignored
              /\ n.rows = <<>> /\ \A t \in Turn : n.stamp[t] = 0 /\ n.held[t] = 0
      BY <2>1, ClearFollows
    <2> QED BY <1>1, <2>2, FollowsUpholds DEF Retains
  <1>7. /\ \A t : (Asks(up', t) <=> Asks(up, t)) /\ (Asks(waiting', t) <=> Asks(waiting, t))
        /\ \A t, u : /\ Sooner(up', t, u) => Sooner(up, t, u)
                     /\ Sooner(waiting', t, u) => Sooner(waiting, t, u)
        /\ \A C : /\ ClearsOnly(up, C) /\ (\A t \in Turn : Asks(up, t) => t \in C) => ClearsOnly(up', C)
                  /\ ClearsOnly(waiting, C) /\ (\A t \in Turn : Asks(waiting, t) => t \in C) =>
                       ClearsOnly(waiting', C)
    <2>1. \A u : r # Request("submit", u)
      BY <1>2 DEF Request
    <2>2. ASSUME NEW q \in Seq(Requests)
          PROVE  LET p == Append(q, r)
                 IN  /\ \A t : Asks(p, t) <=> Asks(q, t)
                     /\ \A t, u : Sooner(p, t, u) => Sooner(q, t, u)
                     /\ \A C : ClearsOnly(q, C) /\ (\A t \in Turn : Asks(q, t) => t \in C) => ClearsOnly(p, C)
      BY <1>2, <2>1, AskMore, RequestsMore
    <2>3. up \in Seq(Requests) /\ waiting \in Seq(Requests)
      BY PipeIs
    <2> QED BY <1>5, <2>2, <2>3
  <1>8. \A t \in Turn : Pending(t)' <=> Pending(t)
    BY <1>3, <1>7 DEF Pending
  <1>9. \A t \in Turn : Pending(t) => t \in cleared'
    <2> SUFFICES ASSUME NEW t \in Turn, Pending(t), t \notin cleared PROVE t \in T
      BY <1>1
    <2>1. t \notin mirror.ignored /\ Live(t)
      BY DEF QuietInv, RowsInv, PendingShown, Live
    <2> QED BY <2>1 DEF QuietInv, RowsInv, RowsShown, Open, VisibleTurns
  <1>10. RowsShown' /\ PendingShown' /\ StampHeard' /\ RowsOrdered'
    <2>1. \A t \in Turn : Live(t)' => Live(t)
      BY <1>1, <1>6, <1>8 DEF Live
    <2>2. \A t, u \in Turn : Before(t, u)' => Before(t, u)
      BY <1>3, <1>7, BeforeSame
    <2>3. cleared \subseteq cleared'
      BY <1>1
    <2>4. \A t \in Turn : Asks(up', t) \/ Asks(waiting', t) =>
            (Asks(up, t) \/ Asks(waiting, t)) /\ (t \in {} => t \in cleared')
      BY <1>7
    <2> HIDE DEF T
    <2> QED BY <1>6, <1>8, <1>9, <2>1, <2>2, <2>3, <2>4, RowsMove DEF QuietInv
  <1>11. RowsInFlight'
    BY <1>6 DEF RowsInFlight, HasRow
  <1>12. FlightPending'
    <2>1. \A t \in ToSet(inFlight) : t \in Turn
      BY PipeIs DEF ToSet
    <2> QED BY <1>1, <1>5, <1>8, <2>1 DEF QuietInv, RowsInv, FlightPending
  <1>13. ClearedKnown'
    BY <1>1 DEF QuietInv, RowsInv, ClearedKnown, LinkInv, MirrorInv, KnownTurns, Known
  <1>14. WaitingApart' /\ StampKnown'
    BY <1>5, <1>6, <1>7 DEF QuietInv, RowsInv, WaitingApart, StampKnown
  <1>15. ClearCovers'
    <2>1. \A q : ClearsOnly(q, cleared) => ClearsOnly(q, cleared')
      BY <1>1 DEF ClearsOnly
    <2>2. Unended' \subseteq cleared'
      BY <1>3, <1>9, UnendedIs DEF Pending
    <2>3. ClearsOnly(up', cleared') /\ ClearsOnly(waiting', cleared')
      BY <1>7, <1>9, <2>1 DEF QuietInv, RowsInv, ClearCovers, Pending
    <2> QED BY <2>2, <2>3 DEF ClearCovers
  <1>16. RunsFirst' /\ ActiveTold'
    BY <1>1, <1>3, SameQueue DEF QuietInv, RowsInv, ActiveTold
  <1>17. ActiveShown'
    <2>1. \A t \in Backend!Running' \cup Backend!Waiting' : t \in cleared'
      BY <1>3, <1>9, UnendedIs, SameQueue DEF Pending
    <2> QED BY <2>1 DEF ActiveShown
  <1> QED BY <1>4, <1>10, <1>11, <1>12, <1>13, <1>14, <1>15, <1>16, <1>17 DEF QuietInv, RowsInv

-----------------------------------------------------------------------------
(* A prompt *)

LEMMA FreshIs ==
  ASSUME LinkInv, RowsInv, NEW t, Fresh(t), t \notin ToSet(Past)
  PROVE  /\ t \in Turn \ Known(mirror) /\ t \notin mirror.ignored /\ ~HasRow(mirror, t)
         /\ ~Pending(t) /\ ~Live(t) /\ t \notin cleared /\ mirror.stamp[t] = 0
         /\ t \notin ToSet(inFlight)
  <1>1. t \in Turn \ Known(mirror) /\ t \notin mirror.ignored /\ ~HasRow(mirror, t)
    BY DEF Fresh, Known, VisibleTurns, HasRow
  <1>2. ~Pending(t)
    BY UnendedIs DEF Pending, Fresh
  <1>3. mirror.held[t] = 0
    <2>1. mirror.stream[t] \in Nat /\ mirror.held[t] \in Nat
      BY <1>1, LinkTypes DEF GoodMirrors, Mirrors
    <2> QED BY <2>1 DEF Fresh, Text
  <1>4. \A i \in DOMAIN down : down[i].turn # t
    BY <1>1 DEF Fresh, LinkInv, PipeInv, Piped, Heard
  <1>5. t \notin cleared /\ mirror.stamp[t] = 0
    BY DEF RowsInv, ClearedKnown, StampKnown, Fresh
  <1>6. t \notin ToSet(inFlight)
    BY LinkTypes DEF Fresh
  <1> QED BY <1>1, <1>2, <1>3, <1>4, <1>5, <1>6 DEF Live

\* It is sent, or waits for the process, behind every other one.
LEMMA SentLast ==
  ASSUME LinkInv, ConnectionInv, NEW t, Fresh(t), Dispatch(Request("submit", t))
  PROVE  /\ \A u : (Asks(up', u) \/ Asks(waiting', u)) <=> (Asks(up, u) \/ Asks(waiting, u) \/ u = t)
         /\ \A u : /\ Asks(up', u) => Asks(up, u) \/ u = t
                   /\ Asks(waiting', u) => Asks(waiting, u) \/ u = t
         /\ AsksClear(up') => AsksClear(up)
         /\ \A C : ClearsOnly(up, C) => ClearsOnly(up', C)
         /\ \A C : ClearsOnly(waiting, C) => ClearsOnly(waiting', C)
         /\ \A u, v : Sooner(up', u, v) => Sooner(up, u, v) \/ (v = t /\ Asks(up, u))
         /\ \A u, v : Sooner(waiting', u, v) => Sooner(waiting, u, v) \/ (v = t /\ Asks(waiting, u))
         /\ \A u, v : Asks(up', u) /\ Asks(waiting', v) =>
              Asks(up, u) /\ (Asks(waiting, v) \/ v = t)
         /\ \A u : u \in ToSet(inFlight') => u \in ToSet(inFlight) \/ (u = t /\ Asks(up', t))
         /\ \A u : u \in ToSet(inFlight) => u \in ToSet(inFlight')
         /\ t \in ToSet(inFlight') \/ Asks(waiting', t)
         /\ t \notin ToSet(inFlight) => \A u : u \in ToSet(inFlight') /\ Asks(waiting', u) =>
              u \in ToSet(inFlight) /\ Asks(waiting, u)
         /\ session' = session
  <1> DEFINE r == Request("submit", t)
  <1>1. /\ up \in Seq(Requests) /\ waiting \in Seq(Requests) /\ inFlight \in Seq(Turn)
        /\ t \in Turn /\ ~Asks(up, t) /\ ~Asks(waiting, t)
    BY PipeIs DEF Fresh
  <1>2. r \in Requests /\ r.kind = "submit" /\ r.turn = t /\ \A u : r = Request("submit", u) => u = t
    BY <1>1 DEF Request, Requests
  <1>3. \A q : q \in Seq(Requests) /\ ~Asks(q, t) =>
          LET p == Append(q, r)
          IN  /\ \A u : Asks(p, u) <=> Asks(q, u) \/ u = t
              /\ AsksClear(p) => AsksClear(q)
              /\ \A C : ClearsOnly(q, C) => ClearsOnly(p, C)
              /\ \A u, v : Sooner(p, u, v) => Sooner(q, u, v) \/ (v = t /\ Asks(q, u))
    <2> SUFFICES ASSUME NEW q \in Seq(Requests), ~Asks(q, t)
                 PROVE  LET p == Append(q, r)
                        IN  /\ \A u : Asks(p, u) <=> Asks(q, u) \/ u = t
                            /\ AsksClear(p) => AsksClear(q)
                            /\ \A C : ClearsOnly(q, C) => ClearsOnly(p, C)
                            /\ \A u, v : Sooner(p, u, v) => Sooner(q, u, v) \/ (v = t /\ Asks(q, u))
      OBVIOUS
    <2>1. LET p == Append(q, r) IN \A u : Asks(p, u) <=> Asks(q, u) \/ u = t
      BY <1>1, AskSubmit
    <2>2. LET p == Append(q, r)
          IN  /\ AsksClear(p) => AsksClear(q) \/ r.kind = "clear"
              /\ \A C : ClearsOnly(q, C) /\ (r.kind = "clear" => \A u \in Turn : Asks(q, u) => u \in C) =>
                   ClearsOnly(p, C)
              /\ \A u, v : Sooner(p, u, v) => Sooner(q, u, v) \/ (r = Request("submit", v) /\ Asks(q, u))
      BY <1>2, RequestsMore
    <2> QED BY <1>2, <2>1, <2>2
  <1>4. ToSet(Append(inFlight, t)) = ToSet(inFlight) \cup {t}
    <2>1. /\ DOMAIN inFlight = 1..Len(inFlight) /\ Len(inFlight) \in Nat
          /\ DOMAIN Append(inFlight, t) = 1..(Len(inFlight) + 1)
          /\ Append(inFlight, t)[Len(inFlight) + 1] = t
          /\ \A i \in DOMAIN inFlight : Append(inFlight, t)[i] = inFlight[i]
      BY <1>1
    <2>2. \A i \in 1..(Len(inFlight) + 1) : i \in 1..Len(inFlight) \/ i = Len(inFlight) + 1
      BY <2>1
    <2>3. 1..Len(inFlight) \subseteq 1..(Len(inFlight) + 1) /\ Len(inFlight) + 1 \in 1..(Len(inFlight) + 1)
      BY <2>1
    <2> QED BY <2>1, <2>2, <2>3 DEF ToSet
  <1> HIDE DEF r
  <1>5. Dispatch(r)
    BY DEF r
  <1>6. CASE state = "Ready" /\ up' = Append(up, r) /\ inFlight' = Append(inFlight, t)
             /\ waiting' = waiting /\ session' = session
    <2>1. \A u : ~Asks(waiting, u)
      BY <1>6, NoRequest DEF ConnectionInv
    <2> QED BY <1>1, <1>3, <1>4, <1>6, <2>1
  <1>7. CASE waiting' = Append(waiting, r) /\ up' = up /\ inFlight' = inFlight /\ session' = session
    BY <1>1, <1>3, <1>7
  <1> QED BY <1>2, <1>5, <1>6, <1>7 DEF Dispatch, clientVars

LEMMA PromptSentAgrees ==
  ASSUME LinkInv, RowsInv, ConnectionInv, NEW t, Fresh(t), t \notin ToSet(Past),
         Dispatch(Request("submit", t)), mirror' = AppendPrompt(mirror, t),
         submitted' = submitted \cup {t}, UNCHANGED <<down, alive, queueVars, cleared>>
  PROVE  RowsInv'
  <1>1. /\ t \in Turn \ Known(mirror) /\ t \notin mirror.ignored /\ ~HasRow(mirror, t)
        /\ ~Pending(t) /\ ~Live(t) /\ t \notin cleared /\ mirror.stamp[t] = 0
        /\ t \notin ToSet(inFlight)
    BY FreshIs
  <1>2. /\ mirror'.ignored = mirror.ignored /\ mirror'.held = mirror.held
        /\ mirror'.stamp = mirror.stamp
        /\ Open(mirror', t) /\ \A u : HasRow(mirror, u) => Above(mirror', u, t)
        /\ \A u \in Turn : /\ Open(mirror, u) => Open(mirror', u)
                           /\ HasRow(mirror', u) => HasRow(mirror, u) \/ u = t
                           /\ \A v \in Turn : Above(mirror, u, v) => Above(mirror', u, v)
        /\ SameStates(mirror, mirror')
    BY <1>1, LinkTypes, PromptFollows
  <1>3. /\ stage' = stage /\ Unended' = Unended /\ QueueSame /\ ahead' = ahead
        /\ Backend!Running' = Backend!Running /\ Backend!Waiting' = Backend!Waiting
    BY StageOf, SameQueue DEF queueVars, QueueSame
  <1>4. /\ \A u : (Asks(up', u) \/ Asks(waiting', u)) <=> (Asks(up, u) \/ Asks(waiting, u) \/ u = t)
        /\ \A u : /\ Asks(up', u) => Asks(up, u) \/ u = t
                  /\ Asks(waiting', u) => Asks(waiting, u) \/ u = t
        /\ AsksClear(up') => AsksClear(up)
        /\ \A C : ClearsOnly(up, C) => ClearsOnly(up', C)
        /\ \A C : ClearsOnly(waiting, C) => ClearsOnly(waiting', C)
        /\ \A u, v : Sooner(up', u, v) => Sooner(up, u, v) \/ (v = t /\ Asks(up, u))
        /\ \A u, v : Sooner(waiting', u, v) => Sooner(waiting, u, v) \/ (v = t /\ Asks(waiting, u))
        /\ \A u, v : Asks(up', u) /\ Asks(waiting', v) =>
             Asks(up, u) /\ (Asks(waiting, v) \/ v = t)
        /\ \A u : u \in ToSet(inFlight') => u \in ToSet(inFlight) \/ (u = t /\ Asks(up', t))
        /\ \A u : u \in ToSet(inFlight) => u \in ToSet(inFlight')
        /\ t \in ToSet(inFlight') \/ Asks(waiting', t)
        /\ t \notin ToSet(inFlight) => \A u : u \in ToSet(inFlight') /\ Asks(waiting', u) =>
             u \in ToSet(inFlight) /\ Asks(waiting, u)
        /\ session' = session
    BY SentLast
  <1>5. \A u : Pending(u)' <=> Pending(u) \/ u = t
    BY <1>3, <1>4 DEF Pending
  <1>6. RowsShown' /\ PendingShown'
    <2>1. \A u \in Turn : Live(u)' => Live(u) \/ u = t
      BY <1>2, <1>5 DEF Live
    <2> QED BY <1>1, <1>2, <1>5, <2>1 DEF RowsInv, RowsShown, PendingShown
  <1>7. StampHeard' /\ StampKnown'
    BY <1>1, <1>2, <1>4 DEF RowsInv, StampHeard, StampKnown
  <1>8. RowsOrdered'
    <2> SUFFICES ASSUME NEW u \in Turn \ cleared, NEW v \in Turn \ cleared, Before(u, v)'
                 PROVE  Above(mirror', u, v)
      BY DEF RowsOrdered
    <2>1. Before(u, v) \/ (Pending(u) /\ v = t)
      BY <1>3, <1>4 DEF Before, Pending
    <2>2. CASE Before(u, v)
      BY <1>2, <2>2 DEF RowsInv, RowsOrdered
    <2>3. CASE Pending(u) /\ v = t
      <3>1. u \notin mirror.ignored /\ Live(u)
        BY <2>3 DEF RowsInv, PendingShown, Live
      <3>2. HasRow(mirror, u)
        BY <3>1 DEF RowsInv, RowsShown, Open, HasRow
      <3> QED BY <1>2, <2>3, <3>2
    <2> QED BY <2>1, <2>2, <2>3
  <1>9. RowsInFlight'
    <2> SUFFICES ASSUME NEW u \in Turn, HasRow(mirror', u), u \notin mirror'.ignored
                 PROVE  u \notin cleared /\ (u \in ToSet(inFlight') \/ Asks(waiting', u))
      BY DEF RowsInFlight
    <2>1. CASE u = t
      BY <1>1, <1>4, <2>1
    <2>2. CASE u # t
      <3>1. u \notin cleared /\ (u \in ToSet(inFlight) \/ Asks(waiting, u))
        BY <1>2, <2>2 DEF RowsInv, RowsInFlight
      <3>2. Asks(waiting, u) => Asks(waiting', u)
        <4>1. waiting' = waiting \/ waiting' = Append(waiting, Request("submit", t))
          BY DispatchIs
        <4>2. \A w : Asks(Append(waiting, Request("submit", t)), w) <=> Asks(waiting, w) \/ w = t
          <5>1. waiting \in Seq(Requests) /\ t \in Turn /\ ~Asks(waiting, t)
            BY PipeIs DEF Fresh
          <5> QED BY <5>1, AskSubmit
        <4> QED BY <4>1, <4>2
      <3> QED BY <1>4, <3>1, <3>2
    <2> QED BY <2>1, <2>2
  <1>10. WaitingApart'
    <2>1. \A u \in Turn : u \in ToSet(inFlight') /\ Asks(waiting', u) =>
            u \in ToSet(inFlight) /\ Asks(waiting, u)
      BY <1>1, <1>4
    <2> QED BY <2>1 DEF RowsInv, WaitingApart
  <1>11. FlightPending'
    <2>1. \A u \in ToSet(inFlight) : u \in Turn
      BY PipeIs DEF ToSet
    <2> QED BY <1>4, <1>5, <2>1 DEF RowsInv, FlightPending
  <1>12. ClearedKnown' /\ ClearCovers'
    BY <1>3, <1>4 DEF RowsInv, ClearedKnown, ClearCovers
  <1>13. RunsFirst' /\ ActiveTold'
    BY <1>3, SameQueue DEF RowsInv, ActiveTold
  <1>14. ActiveShown'
    <2>1. \A u \in Unended \ cleared : u \in Turn \ mirror'.ignored
      BY <1>2, UnendedShown
    <2> QED BY <1>2, <1>3, <2>1, UnendedIs DEF RowsInv, ActiveShown, SameStates
  <1> QED BY <1>6, <1>7, <1>8, <1>9, <1>10, <1>11, <1>12, <1>13, <1>14 DEF RowsInv

\* It is refused: its row settles at once.
LEMMA PromptRefusedAgrees ==
  ASSUME LinkInv, RowsInv, NEW t, Fresh(t), t \notin ToSet(Past), RefusedAtOnce,
         mirror' = SettleLocalSubmitFailure(AppendPrompt(mirror, t), {t}),
         submitted' = submitted \cup {t}, UNCHANGED <<down, alive, queueVars, cleared>>
  PROVE  RowsInv'
  <1> DEFINE n == AppendPrompt(mirror, t)
  <1>1. t \in Turn \ Known(mirror) /\ ~Pending(t) /\ {t} \in SUBSET Turn
    BY FreshIs
  <1>2. /\ n.ignored = mirror.ignored /\ n.held = mirror.held /\ n.stamp = mirror.stamp
        /\ \A u \in Turn : /\ Open(mirror, u) => Open(n, u)
                           /\ HasRow(n, u) => HasRow(mirror, u) \/ u = t
                           /\ \A v \in Turn : Above(mirror, u, v) => Above(n, u, v)
        /\ SameStates(mirror, n)
    BY <1>1, LinkTypes, PromptFollows
  <1>3. n \in GoodMirrors
    BY PromptHeard DEF After
  <1> HIDE DEF n
  <1>4. Retains(n, mirror', {t}, {}) /\ mirror'.ignored = n.ignored \cup {t}
    <2>1. LET o == SettleLocalSubmitFailure(n, {t})
          IN  Retains(n, o, {t}, {}) /\ o.ignored = n.ignored \cup {t}
      BY <1>1, <1>3, SettleLocalFollows
    <2> QED BY <2>1 DEF n
  <1>5. Follows(n, mirror', {t}, {}) /\ SameStates(n, mirror')
    BY <1>4 DEF Retains
  <1>6. Upholds(mirror, mirror', {t}, {})
    BY <1>2, <1>4, <1>5 DEF Follows, Upholds
  <1>7. SameStates(mirror, mirror')
    BY <1>2, <1>4, <1>5 DEF SameStates
  <1>8. \A u \in Turn : mirror'.held[u] # 0 => mirror.held[u] # 0
    BY <1>2, <1>5 DEF Follows
  <1>9. /\ Adds(up, up') /\ Adds(waiting, waiting') /\ inFlight' = inFlight
        /\ session' = "live" => session = "live"
    BY DEF RefusedAtOnce, Adds
  <1>10. QueueSame
    BY DEF queueVars, QueueSame
  <1>11. /\ \A u \in {t} : ~Pending(u)
         /\ \A u \in {} : ~Asks(up, u) /\ ~Asks(waiting, u)
         /\ {} \subseteq submitted /\ submitted \subseteq submitted'
    BY <1>1
  <1> DEFINE T == {t}
             S == {}
  <1>12. /\ Upholds(mirror, mirror', T, S) /\ \A u \in T : ~Pending(u)
         /\ \A u \in S : ~Asks(up, u) /\ ~Asks(waiting, u)
         /\ S \subseteq submitted /\ submitted \subseteq submitted'
         /\ inFlight' = inFlight /\ cleared' = cleared
    BY <1>6, <1>9, <1>11
  <1> HIDE DEF T, S
  <1> QED BY <1>7, <1>8, <1>9, <1>10, <1>12, OwnRows

LEMMA EnqueuePromptAgrees ==
  ASSUME Patient, LinkInv, QuietInv, EnqueuePrompt
  PROVE  QuietInv'
  <1> DEFINE t == NewTurnId
             r == Request("submit", t)
  <1>1. /\ flow \notin Busy /\ submitted' = submitted \cup {t}
        /\ \/ Dispatch(r) /\ mirror' = AppendPrompt(mirror, t)
           \/ RefusedAtOnce /\ mirror' = SettleLocalSubmitFailure(AppendPrompt(mirror, t), {t})
        /\ UNCHANGED <<down, alive, queueVars, flow, cleared>>
    BY DEF EnqueuePrompt, MayAct
  <1>2. Fresh(t)
    BY NewIsFresh DEF EnqueuePrompt
  <1>3. t \notin ToSet(Past)
    <2>1. submitted \subseteq Turn /\ ToSet(Past) \subseteq Turn
      BY LinkTypes DEF ToSet
    <2> QED BY <2>1 DEF EnqueuePrompt, NewTurnId
  <1> HIDE DEF t
  <1>4. r \in Requests /\ r.kind = "submit"
    BY <1>2 DEF Request, Requests, Fresh
  <1>5. stage' = stage
    BY <1>1, StageOf
  <1>6. FlowInv'
    <2> HIDE DEF r
    <2> QED BY <1>1, <1>4, <1>5, FlowDispatch DEF QuietInv, FlowSteps
  <1>7. ConnectionInv
    BY DEF QuietInv, FlowInv
  <1>8. RowsInv'
    BY <1>1, <1>2, <1>3, <1>7, PromptSentAgrees, PromptRefusedAgrees DEF QuietInv
  <1> QED BY <1>6, <1>8 DEF QuietInv

LEMMA UserAgrees ==
  ASSUME Patient, LinkInv, QuietInv, UserActs
  PROVE  QuietInv'
  BY EnqueuePromptAgrees, CancelAgrees, ClearAgrees, ResumeSelectedAgrees DEF UserActs

LEMMA ResumeAgrees ==
  ASSUME LinkInv, QuietInv, ResumeActs
  PROVE  QuietInv'
  BY TurnIdleAgrees, ConfirmAgrees, BeginRollbackAgrees, ApplyResumeAgrees DEF ResumeActs

-----------------------------------------------------------------------------
(* The process is gone *)

\* The rows when no turn is left to the backend.
LEMMA IdleRows ==
  ASSUME LinkInv, RowsInv, NEW T, NEW S, Upholds(mirror, mirror', T, S), S \subseteq submitted,
         \A t \in Turn : mirror'.held[t] # 0 => mirror.held[t] # 0,
         Unended' = {}, down' \in {down, <<>>}, UNCHANGED <<cleared, submitted>>,
         \A t \in Turn : Asks(up', t) \/ Asks(waiting', t) =>
           (Asks(up, t) \/ Asks(waiting, t)) /\ (t \in T \cup S => t \in cleared),
         \A t, u \in Turn :
           (Asks(up', t) /\ Asks(waiting', u)) \/ Sooner(up', t, u) \/ Sooner(waiting', t, u) =>
             Before(t, u),
         ClearsOnly(up', cleared), ClearsOnly(waiting', cleared),
         RowsInFlight', WaitingApart', FlightPending'
  PROVE  RowsInv'
  <1>1. \A t \in Turn : Pending(t)' => Pending(t) /\ (t \in T => t \in cleared')
    BY DEF Pending
  <1>2. \A i \in DOMAIN down' : i \in DOMAIN down /\ down'[i] = down[i]
    OBVIOUS
  <1>3. \A t \in Turn : Live(t)' => Live(t)
    BY <1>1, <1>2 DEF Live
  <1>4. \A t, u \in Turn : Before(t, u)' => Before(t, u)
    <2> SUFFICES ASSUME NEW t \in Turn, NEW u \in Turn, Before(t, u)' PROVE Before(t, u)
      OBVIOUS
    <2>1. (Asks(up', t) /\ Asks(waiting', u)) \/ Sooner(up', t, u) \/ Sooner(waiting', t, u)
      BY DEF Before
    <2> QED BY <2>1
  <1>5. RowsShown' /\ PendingShown' /\ StampHeard' /\ RowsOrdered'
    <2>1. \A t \in Turn : Asks(up', t) \/ Asks(waiting', t) =>
            (Asks(up, t) \/ Asks(waiting, t)) /\ (t \in S => t \in cleared')
      OBVIOUS
    <2>2. cleared \subseteq cleared'
      OBVIOUS
    <2> QED BY <1>1, <1>3, <1>4, <2>1, <2>2, RowsMove
  <1>6. StampKnown' /\ ClearedKnown' /\ ClearCovers'
    BY DEF RowsInv, StampKnown, ClearedKnown, ClearCovers, Upholds
  <1>7. RunsFirst' /\ ActiveTold' /\ ActiveShown'
    <2>1. Backend!Running' = {} /\ Backend!Waiting' = {}
      BY DEF Unended
    <2> QED BY <2>1 DEF RunsFirst, ActiveTold, ActiveShown
  <1> QED BY <1>5, <1>6, <1>7 DEF RowsInv

LEMMA DeadUnended ==
  /\ (\A t \in Turn : stage[t] \notin {"waiting", "running"}) => Unended = {}
  /\ Backend!Die => Unended' = {}
  BY DEF Unended, Backend!Waiting, Backend!Running, Backend!Die

LEMMA CrashAgrees ==
  ASSUME LinkInv, QuietInv, Crash
  PROVE  QuietInv'
  <1>1. /\ alive' = FALSE /\ Backend!Die
        /\ UNCHANGED <<mirror, clientVars, inFlight, waiting, flow, up, down, submitted, cleared>>
        /\ UNCHANGED <<state, session, launching, fallback>>
    BY DEF Crash, backendOnly, clientVars
  <1>2. Unended' = {}
    BY <1>1, DeadUnended
  <1>3. ConnectionInv'
    BY <1>1 DEF QuietInv, FlowInv, ConnectionInv
  <1>4. OneResume'
    BY <1>1 DEF QuietInv, FlowInv, OneResume
  <1>5. ResumedIdle'
    BY <1>1, <1>2 DEF QuietInv, FlowInv, ResumedIdle, NonePending
  <1>6. RowsInv'
    <2>1. Upholds(mirror, mirror', {}, {}) /\ {} \subseteq submitted
      BY <1>1, SteadyIs DEF MirrorSteady
    <2>2. RowsInFlight' /\ WaitingApart' /\ FlightPending'
      BY <1>1 DEF QuietInv, RowsInv, RowsInFlight, WaitingApart, FlightPending
    <2>3. ClearsOnly(up', cleared) /\ ClearsOnly(waiting', cleared)
      BY <1>1 DEF QuietInv, RowsInv, ClearCovers
    <2>4. \A t, u \in Turn :
            (Asks(up', t) /\ Asks(waiting', u)) \/ Sooner(up', t, u) \/ Sooner(waiting', t, u) =>
              Before(t, u)
      BY <1>1 DEF Before
    <2>5. \A t \in Turn : Asks(up', t) \/ Asks(waiting', t) =>
            (Asks(up, t) \/ Asks(waiting, t)) /\ (t \in {} \cup {} => t \in cleared)
      BY <1>1
    <2>6. /\ \A t \in Turn : mirror'.held[t] # 0 => mirror.held[t] # 0
          /\ down' \in {down, <<>>} /\ UNCHANGED <<cleared, submitted>>
      BY <1>1
    <2> QED BY <1>2, <2>1, <2>2, <2>3, <2>4, <2>5, <2>6, IdleRows DEF QuietInv
  <1> QED BY <1>3, <1>4, <1>5, <1>6 DEF QuietInv, FlowInv

\* The turns of s, and then the submits of T, fail.
LEMMA FailedFollow ==
  ASSUME LinkInv, RowsInv, NEW s \in Seq(Turn), NEW T \in SUBSET Turn
  PROVE  LET n == SettleLocalSubmitFailure(FoldLeft(TransportFailure, mirror, s), T)
         IN  /\ Retains(mirror, n, ToSet(s) \cup T, ToSet(s))
             /\ ToSet(s) \cup T \subseteq n.ignored
  <1> DEFINE m == FoldLeft(TransportFailure, mirror, s)
             n == SettleLocalSubmitFailure(m, T)
  <1>1. /\ Retains(mirror, m, ToSet(s), ToSet(s)) /\ ToSet(s) \subseteq m.ignored
        /\ m \in GoodMirrors
    BY HeldRowIs, FailuresFollow
  <1> HIDE DEF m
  <1>2. Retains(m, n, T, {}) /\ n.ignored = m.ignored \cup T
    BY <1>1, SettleLocalFollows
  <1> HIDE DEF n
  <1>3. Retains(mirror, n, ToSet(s) \cup T, ToSet(s) \cup {})
    BY <1>1, <1>2, RetainsMore
  <1>4. Retains(mirror, n, ToSet(s) \cup T, ToSet(s))
    BY <1>3
  <1>5. ToSet(s) \cup T \subseteq n.ignored
    BY <1>1, <1>2
  <1> QED BY <1>4, <1>5 DEF n, m

\* The turns whose submit is unanswered, or waits, and those that fail with a submit.
LEMMA SubmitsFail ==
  ASSUME LinkInv
  PROVE  /\ SubmitTurns(Unanswered) \in SUBSET Turn
         /\ SubmitTurns(waiting) \in SUBSET Turn
         /\ SubmitTurns(Unanswered \o waiting) = SubmitTurns(Unanswered) \cup SubmitTurns(waiting)
         /\ \A t \in SubmitTurns(Unanswered) : ~Asks(waiting, t) /\ t \in submitted
         /\ \A t \in SubmitTurns(waiting) : Asks(waiting, t)
         /\ \A t : Asks(waiting, t) => t \in SubmitTurns(waiting)
         /\ \A t : Unanswered # <<>> /\ Unanswered[1] = Request("submit", t) => t \in SubmitTurns(Unanswered)
         /\ ToSet(inFlight) \in SUBSET Turn /\ ToSet(inFlight) \subseteq submitted
  <1> DEFINE U == Unanswered
             R == Requests \cup Answered
  <1>1. /\ U \in Seq(R) /\ waiting \in Seq(Requests)
        /\ \A i \in DOMAIN U : U[i].kind = "submit" =>
             \/ Tells(down, "ack", U[i].turn)
             \/ \E t \in Turn : U[i] = Request("submit", t) /\ Asks(up, t)
    BY UnansweredAre, PipeIs DEF LinkInv
  <1>2. waiting \in Seq(R)
    BY <1>1
  <1>3. \A t \in SubmitTurns(U) : t \in Turn /\ Silent(t)
    BY UnansweredSilent DEF Silent
  <1>4. \A t \in SubmitTurns(waiting) : t \in Turn /\ Asks(waiting, t)
    BY <1>1, SubmitTurnsAre
  <1>5. \A t : Asks(waiting, t) => t \in SubmitTurns(waiting)
    BY DEF Asks, SubmitTurns, ToSet, Request
  <1> HIDE DEF U, R
  <1>6. \A t \in SubmitTurns(U) : ~Asks(waiting, t)
    <2> SUFFICES ASSUME NEW i \in DOMAIN U, U[i].kind = "submit", Asks(waiting, U[i].turn) PROVE FALSE
      BY DEF SubmitTurns, ToSet
    <2>1. U[i].turn \in Turn
      BY <1>3 DEF SubmitTurns, ToSet
    <2>2. stage[U[i].turn] = "new" /\ ~Asks(up, U[i].turn)
      BY <2>1 DEF LinkInv, PipeInv, SubmitsInOrder
    <2>3. ~Tells(down, "ack", U[i].turn)
      BY <2>1, <2>2 DEF LinkInv, PipeInv, Piped, Heard, Tells
    <2> QED BY <1>1, <2>2, <2>3 DEF Request
  <1>7. \A t \in SubmitTurns(U) : t \in submitted
    BY <1>3, SilentHasNone
  <1>8. SubmitTurns(U \o waiting) = SubmitTurns(U) \cup SubmitTurns(waiting)
    <2>1. ToSet(U \o waiting) = ToSet(U) \cup ToSet(waiting)
      <3>1. LET p == U \o waiting
            IN  /\ \A i \in DOMAIN U : i \in DOMAIN p /\ p[i] = U[i]
                /\ \A k \in DOMAIN waiting : Len(U) + k \in DOMAIN p /\ p[Len(U) + k] = waiting[k]
                /\ \A i \in DOMAIN p : i \in DOMAIN U \/ (i - Len(U) \in DOMAIN waiting /\ p[i] = waiting[i - Len(U)])
        BY <1>1, <1>2, JoinIs
      <3> QED BY <3>1 DEF ToSet
    <2> QED BY <2>1 DEF SubmitTurns
  <1>9. \A t : U # <<>> /\ U[1] = Request("submit", t) => t \in SubmitTurns(U)
    <2>1. U # <<>> => 1 \in DOMAIN U
      BY <1>1
    <2> QED BY <2>1 DEF SubmitTurns, ToSet, Request
  <1>10. ToSet(inFlight) \in SUBSET Turn /\ ToSet(inFlight) \subseteq submitted
    BY LinkTypes DEF ToSet
  <1> QED BY <1>3, <1>4, <1>5, <1>6, <1>7, <1>8, <1>9, <1>10 DEF U

\* The connection is torn down: whatever is in flight fails, or its submit does.
LEMMA TornRows ==
  ASSUME LinkInv, RowsInv, NEW s \in Seq(Turn), ToSet(s) \subseteq ToSet(inFlight),
         NEW T \in SUBSET Turn,
         mirror' = SettleLocalSubmitFailure(FoldLeft(TransportFailure, mirror, s), T),
         ToSet(inFlight) \subseteq ToSet(s) \cup T,
         \/ waiting' = waiting /\ \A t \in T : ~Asks(waiting, t)
         \/ waiting' = <<>> /\ \A t : Asks(waiting, t) => t \in T,
         up' = <<>>, down' = <<>>, inFlight' = <<>>, Unended' = {},
         UNCHANGED <<cleared, submitted>>
  PROVE  RowsInv'
  <1> DEFINE S == ToSet(s)
             U == S \cup T
  <1>1. Retains(mirror, mirror', U, S) /\ U \subseteq mirror'.ignored
    BY FailedFollow
  <1>2. S \subseteq ToSet(inFlight) /\ ToSet(inFlight) \subseteq U /\ T \subseteq U /\ U \subseteq S \cup T
    OBVIOUS
  <1> HIDE DEF S, U
  <1>3. Upholds(mirror, mirror', U, S) /\ \A t \in Turn : mirror'.held[t] # 0 => mirror.held[t] # 0
    BY <1>1, FollowsUpholds DEF Retains
  <1>4. S \subseteq submitted
    BY <1>2, SubmitsFail
  <1>5. \A t \in Turn : Asks(waiting, t) => t \notin S
    BY <1>2 DEF RowsInv, WaitingApart
  <1>6. \A t : ~Asks(up', t)
    BY NoRequest
  <1>7. \A t : Asks(waiting', t) => Asks(waiting, t) /\ t \notin T
    BY NoRequest
  <1>8. \A t \in Turn : Asks(up', t) \/ Asks(waiting', t) =>
          (Asks(up, t) \/ Asks(waiting, t)) /\ (t \in U \cup S => t \in cleared)
    BY <1>2, <1>5, <1>6, <1>7
  <1>9. DOMAIN <<>> = {}
    OBVIOUS
  <1>10. \A t, u \in Turn :
           (Asks(up', t) /\ Asks(waiting', u)) \/ Sooner(up', t, u) \/ Sooner(waiting', t, u) =>
             Before(t, u)
    BY <1>6, <1>9 DEF Sooner, Before
  <1>11. ClearsOnly(up', cleared) /\ ClearsOnly(waiting', cleared)
    BY <1>9 DEF RowsInv, ClearCovers, ClearsOnly
  <1>12. ToSet(inFlight') = {}
    BY <1>9 DEF ToSet
  <1>13. RowsInFlight'
    <2> SUFFICES ASSUME NEW t \in Turn, HasRow(mirror', t), t \notin mirror'.ignored
                 PROVE  t \notin cleared' /\ Asks(waiting', t)
      BY DEF RowsInFlight
    <2>1. HasRow(mirror, t) /\ t \notin mirror.ignored /\ t \notin U
      BY <1>1, <1>3 DEF Upholds
    <2>2. t \notin cleared /\ (t \in ToSet(inFlight) \/ Asks(waiting, t))
      BY <2>1 DEF RowsInv, RowsInFlight
    <2> QED BY <1>2, <2>1, <2>2
  <1>14. WaitingApart' /\ FlightPending'
    BY <1>12 DEF WaitingApart, FlightPending
  <1>15. down' \in {down, <<>>}
    OBVIOUS
  <1> QED BY <1>3, <1>4, <1>8, <1>10, <1>11, <1>13, <1>14, <1>15, IdleRows

\* The resume under way when the connection goes: nothing more is asked, or told.
LEMMA TornFlow ==
  ASSUME FlowInv, up' = <<>>, down' = <<>>, waiting' = waiting \/ waiting' = <<>>, Unended' = {},
         flow' # "attaching", flow' = "labelling" => flow = "labelling"
  PROVE  OneResume' /\ ResumedIdle'
  <1>1. OneResume'
    BY NoRequest, NoEvent DEF FlowInv, OneResume
  <1>2. ResumedIdle'
    <2>1. NonePending => NonePending'
      BY NoRequest DEF NonePending
    <2>2. \A j \in DOMAIN down' : FALSE
      OBVIOUS
    <2> QED BY <2>1, <2>2, NoEvent DEF FlowInv, ResumedIdle
  <1> QED BY <1>1, <1>2

LEMMA AfterFailure ==
  /\ FlowAfterFailure # "attaching"
  /\ FlowAfterFailure = "labelling" => flow = "labelling"
  /\ flow \in {"relaunching", "rollback"} => FlowAfterFailure = flow
  BY DEF FlowAfterFailure

LEMMA NoticeExitAgrees ==
  ASSUME LinkInv, QuietInv, NoticeExit
  PROVE  QuietInv'
  <1> DEFINE T == SubmitTurns(Unanswered)
  <1>1. /\ ~alive /\ alive' = FALSE /\ session = "live" /\ fallback # "gone" /\ up' = <<>> /\ down' = <<>>
        /\ inFlight' = <<>> /\ flow' = FlowAfterFailure
        /\ mirror' = SettleLocalSubmitFailure(FoldLeft(TransportFailure, mirror, inFlight), T)
        /\ UNCHANGED <<launching, waiting, queueVars, cleared, submitted>> /\ MarkDead
    BY PipeIs DEF NoticeExit, CloseConnection, FailInFlight, FailSubmits, historyVars
  <1>2. T \in SUBSET Turn /\ \A t \in T : ~Asks(waiting, t)
    BY SubmitsFail
  <1> HIDE DEF T
  <1>3. Unended' = {}
    <2>1. Unended = {}
      BY <1>1, DeadUnended DEF LinkInv, PipeInv, DeadIsIdle
    <2> QED BY <1>1, <2>1, StageOf
  <1>4. inFlight \in Seq(Turn)
    BY PipeIs
  <1>5. RowsInv'
    BY <1>1, <1>2, <1>3, <1>4, TornRows DEF QuietInv
  <1>6. OneResume' /\ ResumedIdle'
    BY <1>1, <1>3, AfterFailure, TornFlow DEF QuietInv
  <1>7. ConnectionInv'
    BY <1>1, AfterFailure DEF MarkDead, QuietInv, FlowInv, ConnectionInv
  <1> QED BY <1>5, <1>6, <1>7 DEF QuietInv, FlowInv

LEMMA RequestTimeoutAgrees ==
  ASSUME LinkInv, QuietInv, RequestTimeout
  PROVE  QuietInv'
  <1> DEFINE T == SubmitTurns(Unanswered)
             K == {t \in Turn : Unanswered[1] # Request("submit", t)}
             s == Only(inFlight, K)
  <1>1. /\ alive' = FALSE /\ session = "live" /\ fallback # "gone" /\ up' = <<>> /\ down' = <<>>
        /\ inFlight' = <<>> /\ flow' = FlowAfterFailure /\ Unanswered # <<>>
        /\ mirror' = SettleLocalSubmitFailure(FoldLeft(TransportFailure, mirror, s), T)
        /\ UNCHANGED <<launching, waiting, cleared, submitted>> /\ Backend!Die
        /\ session' = "none" /\ state' = "Dead"
        /\ fallback' = IF launching = "relaunch" THEN "gone" ELSE fallback
    BY DEF RequestTimeout, FailSubmits
  <1>2. T \in SUBSET Turn /\ \A t \in T : ~Asks(waiting, t)
    BY SubmitsFail
  <1>3. inFlight \in Seq(Turn)
    BY PipeIs
  <1>4. s \in Seq(Turn) /\ ToSet(s) \subseteq ToSet(inFlight) /\ ToSet(inFlight) \subseteq ToSet(s) \cup T
    <2>1. \A t : Unanswered[1] = Request("submit", t) => t \in T
      BY <1>1, SubmitsFail
    <2>2. ToSet(inFlight) \subseteq Turn
      BY SubmitsFail
    <2>3. \A t \in Turn : t \in K \/ Unanswered[1] = Request("submit", t)
      OBVIOUS
    <2> HIDE DEF T, K
    <2>4. /\ Only(inFlight, K) \in Seq(Turn)
          /\ \A i \in DOMAIN Only(inFlight, K) : \E j \in DOMAIN inFlight : inFlight[j] = Only(inFlight, K)[i]
          /\ \A j \in DOMAIN inFlight : inFlight[j] \in K =>
               \E i \in DOMAIN Only(inFlight, K) : Only(inFlight, K)[i] = inFlight[j]
      BY <1>3, OnlyIs
    <2> QED BY <2>1, <2>2, <2>3, <2>4 DEF ToSet
  <1> HIDE DEF T, K, s
  <1>5. Unended' = {}
    BY <1>1, DeadUnended
  <1>6. RowsInv'
    BY <1>1, <1>2, <1>4, <1>5, TornRows DEF QuietInv
  <1>7. OneResume' /\ ResumedIdle'
    BY <1>1, <1>5, AfterFailure, TornFlow DEF QuietInv
  <1>8. ConnectionInv'
    BY <1>1, AfterFailure DEF QuietInv, FlowInv, ConnectionInv
  <1> QED BY <1>6, <1>7, <1>8 DEF QuietInv, FlowInv

-----------------------------------------------------------------------------
(* A launch ends *)

LEMMA LaunchFailsConnection ==
  ASSUME ConnectionInv, NEW exits \in BOOLEAN, LaunchFails(exits)
  PROVE  /\ ConnectionInv' /\ flow # "attaching" /\ flow' # "attaching"
         /\ flow' = "labelling" => flow = "labelling"
         /\ session' = "live" => session = "live"
  <1>1. /\ launching # "no" /\ flow # "attaching"
        /\ launching' = "no" /\ fallback' = "none" /\ waiting' = <<>>
        /\ flow' # "attaching" /\ (flow' = "labelling" => flow = "labelling")
    BY DEF LaunchFails, ConnectionInv
  <1>2. CASE fallback # "none" /\ exits /\ fallback = "live"
    <2>1. session' = "gone" /\ state' = "Ready" /\ alive' = FALSE /\ up' = <<>> /\ down' = <<>>
      BY <1>2 DEF LaunchFails
    <2> QED BY <1>1, <2>1 DEF ConnectionInv
  <1>3. CASE fallback # "none" /\ ~(exits /\ fallback = "live")
    <2>1. session' = fallback /\ state' = "Ready" /\ UNCHANGED <<alive, up, down>>
      BY <1>3 DEF LaunchFails
    <2>2. launching = "relaunch" /\ IF fallback = "live" THEN session = "live" ELSE ~alive /\ up = <<>> /\ down = <<>>
      BY <1>3 DEF ConnectionInv
    <2> QED BY <1>1, <2>1, <2>2 DEF ConnectionInv
  <1>4. CASE fallback = "none"
    <2>1. session' = "none" /\ state' = "Dead" /\ UNCHANGED <<alive, up, down>>
      BY <1>4 DEF LaunchFails
    <2>2. ~alive /\ up = <<>> /\ down = <<>>
      BY <1>1, <1>4 DEF ConnectionInv
    <2> QED BY <1>1, <2>1, <2>2 DEF ConnectionInv
  <1> QED BY <1>1, <1>2, <1>3, <1>4

\* What waited fails, and the rest goes on.
LEMMA WaitingFails ==
  ASSUME LinkInv, RowsInv, mirror' = SettleLocalSubmitFailure(mirror, SubmitTurns(waiting)),
         waiting' = <<>>, session' = "live" => session = "live",
         UNCHANGED <<inFlight, up, down, alive, queueVars, cleared, submitted>>
  PROVE  RowsInv'
  <1> DEFINE T == SubmitTurns(waiting)
             S == {}
  <1>1. T \in SUBSET Turn /\ (\A t \in T : Asks(waiting, t)) /\ \A t : Asks(waiting, t) => t \in T
    BY SubmitsFail
  <1>2. mirror' = SettleLocalSubmitFailure(mirror, T) /\ S = {}
    OBVIOUS
  <1> HIDE DEF T, S
  <1>3. Retains(mirror, mirror', T, S) /\ mirror'.ignored = mirror.ignored \cup T
    BY <1>1, <1>2, PipeIs, SettleLocalFollows
  <1>4. Upholds(mirror, mirror', T, S) /\ \A t \in Turn : mirror'.held[t] # 0 => mirror.held[t] # 0
    BY <1>3, FollowsUpholds DEF Retains
  <1>5. stage' = stage /\ QueueSame
    BY DEF queueVars, QueueSame
  <1>6. /\ Unended' = Unended /\ Backend!Running' = Backend!Running
        /\ Backend!Waiting' = Backend!Waiting /\ ahead' = ahead /\ RunsFirst'
    BY <1>5, SameQueue DEF RowsInv
  <1>7. (\A t : ~Asks(waiting', t)) /\ DOMAIN <<>> = {}
    BY NoRequest
  <1>8. \A t \in T : t \in Turn /\ ~Asks(up, t) /\ t \notin Unended
    BY <1>1, UnendedIs DEF LinkInv, PipeInv, SubmitsInOrder
  <1>9. \A t \in Turn : Pending(t)' => Pending(t) /\ t \notin T
    BY <1>6, <1>7, <1>8 DEF Pending
  <1>10. \A t \in Turn : Live(t)' => Live(t)
    BY <1>4, <1>9 DEF Live
  <1>11. \A t, u \in Turn : Before(t, u)' => Before(t, u)
    <2>1. \A t, u \in Turn : Sooner(waiting', t, u) => Sooner(waiting, t, u)
      BY <1>7 DEF Sooner
    <2> QED BY <1>5, <1>7, <2>1, BeforeSame
  <1>12. RowsShown' /\ PendingShown' /\ StampHeard' /\ RowsOrdered'
    <2>1. \A t \in Turn : Asks(up', t) \/ Asks(waiting', t) =>
            (Asks(up, t) \/ Asks(waiting, t)) /\ (t \in S => t \in cleared')
      BY <1>2, <1>7
    <2>2. \A t \in Turn : Pending(t)' => Pending(t) /\ (t \in T => t \in cleared')
      BY <1>9
    <2> QED BY <1>4, <1>10, <1>11, <2>1, <2>2, RowsMove
  <1>13. StampKnown' /\ ClearedKnown'
    BY <1>2, <1>4 DEF RowsInv, StampKnown, ClearedKnown, Upholds
  <1>14. ClearCovers'
    BY <1>6, <1>7 DEF RowsInv, ClearCovers, ClearsOnly
  <1>15. RowsInFlight'
    BY <1>1, <1>3, <1>4 DEF RowsInv, RowsInFlight, Upholds
  <1>16. WaitingApart'
    BY <1>7 DEF WaitingApart
  <1>17. FlightPending'
    <2> SUFFICES ASSUME alive', session' = "live", NEW t \in ToSet(inFlight)
                 PROVE  \/ Pending(t)' \/ t \in cleared
                        \/ Tells(down, "settled", t) \/ Tells(down, "removed", t)
      BY DEF FlightPending
    <2>1. Pending(t) \/ t \in cleared \/ Tells(down, "settled", t) \/ Tells(down, "removed", t)
      BY DEF RowsInv, FlightPending
    <2>2. t \in Turn
      BY SubmitsFail
    <2>3. ~Asks(waiting, t)
      BY <2>2 DEF RowsInv, WaitingApart
    <2>4. Pending(t) => Pending(t)'
      BY <1>6, <2>3 DEF Pending
    <2> QED BY <2>1, <2>4
  <1>18. ActiveTold'
    BY <1>6 DEF RowsInv, ActiveTold
  <1>19. ActiveShown'
    <2>1. \A t \in Unended : t \in Turn /\ (t \in cleared \/ t \notin mirror'.ignored)
      BY <1>3, <1>8, UnendedIs DEF RowsInv, PendingShown, Pending
    <2>2. \A t \in Turn \ mirror'.ignored : \A x \in {"active", "queued"} :
            InState(mirror, t, x) => InState(mirror', t, x)
      BY <1>3 DEF Retains, SameStates
    <2> QED BY <1>6, <2>1, <2>2, UnendedIs DEF RowsInv, ActiveShown
  <1> QED BY <1>6, <1>12, <1>13, <1>14, <1>15, <1>16, <1>17, <1>18, <1>19 DEF RowsInv

LEMMA LaunchFailsAgrees ==
  ASSUME LinkInv, QuietInv, NEW exits \in BOOLEAN, LaunchFails(exits)
  PROVE  QuietInv'
  <1>1. /\ ConnectionInv' /\ flow # "attaching" /\ flow' # "attaching"
        /\ flow' = "labelling" => flow = "labelling"
        /\ session' = "live" => session = "live"
    BY LaunchFailsConnection DEF QuietInv, FlowInv
  <1>2. waiting' = <<>> /\ UNCHANGED <<submitted, cleared>>
    BY DEF LaunchFails
  <1>3. CASE fallback # "none" /\ exits /\ fallback = "live"
    <2> DEFINE T == SubmitTurns(Unanswered \o waiting)
    <2>1. /\ mirror' = SettleLocalSubmitFailure(FoldLeft(TransportFailure, mirror, inFlight), T)
          /\ inFlight' = <<>> /\ up' = <<>> /\ down' = <<>> /\ Backend!Die
      BY <1>3 DEF LaunchFails, FailInFlight, FailSubmits
    <2>2. T \in SUBSET Turn /\ \A t : Asks(waiting, t) => t \in T
      BY SubmitsFail
    <2> HIDE DEF T
    <2>3. Unended' = {}
      BY <2>1, DeadUnended
    <2>4. RowsInv'
      <3>1. inFlight \in Seq(Turn)
        BY PipeIs
      <3> QED BY <1>2, <2>1, <2>2, <2>3, <3>1, TornRows DEF QuietInv
    <2>5. OneResume' /\ ResumedIdle'
      BY <1>1, <1>2, <2>1, <2>3, TornFlow DEF QuietInv
    <2> QED BY <1>1, <2>4, <2>5 DEF QuietInv, FlowInv
  <1>4. CASE ~(fallback # "none" /\ exits /\ fallback = "live")
    <2>1. /\ mirror' = SettleLocalSubmitFailure(mirror, SubmitTurns(waiting))
          /\ UNCHANGED <<inFlight, up, down, alive, queueVars>>
      BY <1>4 DEF LaunchFails, FailSubmits
    <2>2. RowsInv'
      BY <1>1, <1>2, <2>1, WaitingFails DEF QuietInv
    <2>3. ~AsksResume(up) /\ ~TellsResumed(down) /\ ~Agreed(down)
      BY <1>1 DEF QuietInv, FlowInv, OneResume, TellsResumed, Agreed
    <2>4. OneResume'
      BY <1>2, <2>1, <2>3, NoRequest DEF QuietInv, FlowInv, OneResume
    <2>5. ResumedIdle'
      <3>1. Unended' = Unended
        BY <2>1, StageOf
      <3> QED BY <1>1, <1>2, <2>1, <2>3, <3>1, NoRequest DEF QuietInv, FlowInv, ResumedIdle, NonePending
    <2> QED BY <1>1, <2>2, <2>4, <2>5 DEF QuietInv, FlowInv
  <1> QED BY <1>3, <1>4

\* What waited is sent, before the request to resume.
LEMMA ResentShape ==
  ASSUME LinkInv, QuietInv
  PROVE  /\ Resent \in Seq(Requests) /\ ~AsksResume(Resent)
         /\ \A t : Asks(Resent, t) <=> Asks(waiting, t) /\ launching # "relaunch"
         /\ \A t, u : Sooner(Resent, t, u) => Sooner(waiting, t, u)
         /\ ClearsOnly(Resent, cleared)
  <1>1. waiting \in Seq(Requests) /\ ClearsOnly(waiting, cleared) /\ ~AsksResume(waiting)
    BY PipeIs DEF QuietInv, FlowInv, OneResume, RowsInv, ClearCovers
  <1>2. CASE launching # "relaunch"
    BY <1>1, <1>2 DEF Resent
  <1>3. CASE launching = "relaunch"
    <2> DEFINE K == {r \in ToSet(waiting) : r.kind # "submit"}
    <2>1. Resent = Only(waiting, K) /\ \A r \in K : r.kind # "submit"
      BY <1>3 DEF Resent
    <2> HIDE DEF K
    <2>2. /\ Only(waiting, K) \in Seq(Requests)
          /\ \A i \in DOMAIN Only(waiting, K) :
               Only(waiting, K)[i] \in K /\ \E j \in DOMAIN waiting : waiting[j] = Only(waiting, K)[i]
      BY <1>1, OnlyIs
    <2>3. \A i \in DOMAIN Resent : Resent[i].kind # "submit" /\ \E j \in DOMAIN waiting : waiting[j] = Resent[i]
      BY <2>1, <2>2
    <2>4. \A t : Request("submit", t).kind = "submit"
      BY DEF Request
    <2>5. \A t : ~Asks(Resent, t)
      BY <2>3, <2>4 DEF Asks
    <2>6. \A t, u : ~Sooner(Resent, t, u)
      BY <2>3, <2>4 DEF Sooner
    <2>7. ClearsOnly(Resent, cleared)
      BY <2>3 DEF ClearsOnly
    <2>8. ~AsksResume(Resent)
      BY <1>1, <2>3 DEF AsksResume
    <2> QED BY <1>3, <2>1, <2>2, <2>5, <2>6, <2>7, <2>8
  <1> QED BY <1>2, <1>3

LEMMA AdoptedMirror ==
  ASSUME LinkInv, RowsInv, Adopt
  PROVE  \E T : /\ Upholds(mirror, mirror', T, {}) /\ \A t \in Turn : mirror'.held[t] = 0
                /\ ToSet(inFlight) \subseteq mirror'.ignored
                /\ launching = "relaunch" => \A t : Asks(waiting, t) => t \in mirror'.ignored
                /\ \A t \in T : Asks(waiting, t) => t \in cleared \/ launching = "relaunch"
  <1> DEFINE V == SubmitTurns(Unanswered)
             W == SubmitTurns(waiting)
             F == ToSet(inFlight)
             a == SettleLocalSubmitFailure(FoldLeft(TransportFailure, mirror, inFlight), V)
             b == ResetTranscriptMirror(a)
             c == DiscardLocalSubmit(b, W)
  <1>1. mirror' = IF launching = "relaunch" THEN c ELSE b
    BY DEF Adopt, FailInFlight, FailSubmits, DiscardSubmits
  <1>2. /\ V \in SUBSET Turn /\ W \in SUBSET Turn /\ \A t : Asks(waiting, t) => t \in W
        /\ \A t \in V : ~Asks(waiting, t)
        /\ F \in SUBSET Turn
    BY SubmitsFail
  <1>3. inFlight \in Seq(Turn)
    BY PipeIs
  <1>4. a \in GoodMirrors
    <2>1. \A t \in V : Silent(t)
      BY UnansweredSilent
    <2> HIDE DEF V
    <2>2. a \in After(mirror, submitted)
      BY <1>3, <2>1, FailedAfter
    <2> QED BY <2>2 DEF After
  <1>5. Retains(mirror, a, F \cup V, F) /\ F \cup V \subseteq a.ignored
    BY <1>2, <1>3, FailedFollow
  <1> HIDE DEF V, W, a
  <1>6. /\ Retains(a, b, HeardOf(a), {}) /\ b \in GoodMirrors
        /\ \A t \in Turn : b.stamp[t] = 0 /\ b.held[t] = 0
    BY <1>4, ResetFollows
  <1> HIDE DEF b
  <1>7. /\ Retains(b, c, W, {}) /\ c.ignored = b.ignored \cup W
        /\ c.stamp = b.stamp /\ c.held = b.held
    <2>1. c.stamp = b.stamp /\ c.held = b.held
      <3>1. b \in Mirrors
        BY <1>6 DEF GoodMirrors
      <3> QED BY <3>1 DEF DiscardLocalSubmit, Mirrors
    <2> QED BY <1>2, <1>6, <2>1, DiscardFollows
  <1> HIDE DEF c, F
  <1> DEFINE T == ((F \cup V) \cup HeardOf(a)) \cup (IF launching = "relaunch" THEN W ELSE {})
  <1>8. Retains(mirror, b, (F \cup V) \cup HeardOf(a), F \cup {})
    BY <1>5, <1>6, RetainsMore
  <1>9. Retains(mirror, mirror', T, F) /\ b.ignored \subseteq mirror'.ignored
    <2>1. CASE launching = "relaunch"
      <3>1. Retains(mirror, c, ((F \cup V) \cup HeardOf(a)) \cup W, (F \cup {}) \cup {})
        BY <1>7, <1>8, RetainsMore
      <3>2. (F \cup {}) \cup {} = F /\ T = ((F \cup V) \cup HeardOf(a)) \cup W
        BY <2>1
      <3> QED BY <1>1, <1>7, <2>1, <3>1, <3>2
    <2>2. CASE launching # "relaunch"
      <3>1. F \cup {} = F /\ T = (F \cup V) \cup HeardOf(a)
        BY <2>2
      <3> QED BY <1>1, <1>8, <2>2, <3>1
    <2> QED BY <2>1, <2>2
  <1>10. \A t \in Turn : mirror'.stamp[t] = 0 /\ mirror'.held[t] = 0
    BY <1>1, <1>6, <1>7
  <1>11. F \subseteq mirror'.ignored
    BY <1>5, <1>6, <1>9 DEF Retains, Follows
  <1>12. launching = "relaunch" => \A t : Asks(waiting, t) => t \in mirror'.ignored
    BY <1>1, <1>2, <1>7
  <1>13. ASSUME NEW t \in T, Asks(waiting, t), launching # "relaunch" PROVE t \in cleared
    <2>1. t \in Turn
      BY <1>2, <1>13
    <2>2. t \notin F
      BY <1>13, <2>1 DEF RowsInv, WaitingApart, F
    <2>3. t \notin V
      BY <1>2, <1>13
    <2>4. t \in HeardOf(a)
      BY <1>13, <2>2, <2>3
    <2>5. mirror.stamp[t] # 0
      BY <1>5, <2>1, <2>2, <2>4 DEF HeardOf, Retains, Follows
    <2> QED BY <1>13, <2>1, <2>5 DEF RowsInv, StampHeard
  <1>14. Upholds(mirror, mirror', T, {})
    BY <1>9, <1>10 DEF Retains, Follows, Upholds
  <1> HIDE DEF T
  <1> QED BY <1>10, <1>11, <1>12, <1>13, <1>14 DEF F

LEMMA AdoptAgrees ==
  ASSUME LinkInv, QuietInv, Adopt
  PROVE  QuietInv'
  <1> DEFINE submits == Submits(Resent)
             turns == [i \in DOMAIN submits |-> submits[i].turn]
             r == Request("resume", None)
  <1>1. /\ session' = "live" /\ state' = "Ready" /\ launching' = "no" /\ fallback' = "none"
        /\ waiting' = <<>> /\ down' = <<>> /\ Backend!Die /\ UNCHANGED <<submitted, cleared>>
    BY DEF Adopt
  <1>2. /\ up' = Resent \o (IF flow = "relaunching" THEN <<r>> ELSE <<>>)
        /\ inFlight' = turns
    BY DEF Adopt, Resent
  <1>3. /\ Resent \in Seq(Requests) /\ ~AsksResume(Resent)
        /\ \A t : Asks(Resent, t) <=> Asks(waiting, t) /\ launching # "relaunch"
        /\ \A t, u : Sooner(Resent, t, u) => Sooner(waiting, t, u)
        /\ ClearsOnly(Resent, cleared)
    BY ResentShape
  <1>4. \A t : t \in ToSet(inFlight') <=> Asks(Resent, t)
    BY <1>2, <1>3, SubmitsAre
  <1> HIDE DEF turns
  <1>5. r \in Requests /\ r.kind = "resume" /\ \A t : r # Request("submit", t)
    BY DEF Request, Requests
  <1> HIDE DEF r
  <1>6. /\ ResumeLast(up') /\ (AsksResume(up') => flow = "relaunching")
        /\ ClearsOnly(up', cleared)
        /\ \A t, u : Sooner(up', t, u) => Sooner(Resent, t, u)
        /\ \A t : Asks(up', t) <=> Asks(Resent, t)
    <2>1. ResumeLast(Resent)
      BY <1>3 DEF AsksResume, ResumeLast
    <2>2. CASE flow = "relaunching"
      <3>1. up' = Append(Resent, r)
        BY <1>2, <1>3, <2>2
      <3>2. LET p == Append(Resent, r)
            IN  /\ ResumeLast(p) /\ ClearsOnly(p, cleared)
                /\ \A t, u : Sooner(p, t, u) => Sooner(Resent, t, u)
        BY <1>3, <1>5, <2>1, RequestsMore
      <3>3. LET p == Append(Resent, r) IN \A t : Asks(p, t) <=> Asks(Resent, t)
        BY <1>3, <1>5, AppendIs DEF Asks
      <3> QED BY <2>2, <3>1, <3>2, <3>3
    <2>3. CASE flow # "relaunching"
      <3>1. up' = Resent
        BY <1>2, <1>3, <2>3
      <3> QED BY <1>3, <2>1, <3>1
    <2> QED BY <2>2, <2>3
  <1>7. Unended' = {}
    BY <1>1, DeadUnended
  <1>8. ConnectionInv'
    BY <1>1 DEF ConnectionInv
  <1>9. OneResume'
    BY <1>1, <1>6, NoRequest, NoEvent DEF OneResume, Adopt
  <1>10. ResumedIdle'
    <2>1. flow' # "labelling"
      BY DEF Adopt
    <2> QED BY <1>1, <2>1, NoEvent DEF ResumedIdle
  <1>11. RowsInv'
    <2> DEFINE S == {}
    <2>1. PICK T : /\ Upholds(mirror, mirror', T, S) /\ \A t \in Turn : mirror'.held[t] = 0
                   /\ ToSet(inFlight) \subseteq mirror'.ignored
                   /\ launching = "relaunch" => \A t : Asks(waiting, t) => t \in mirror'.ignored
                   /\ \A t \in T : Asks(waiting, t) => t \in cleared \/ launching = "relaunch"
      BY AdoptedMirror DEF QuietInv
    <2>2. S \subseteq submitted /\ \A t : t \notin S
      OBVIOUS
    <2> HIDE DEF S
    <2>3. \A t : ~Asks(waiting', t)
      BY <1>1, NoRequest
    <2>4. \A t \in Turn : Asks(up', t) \/ Asks(waiting', t) =>
            (Asks(up, t) \/ Asks(waiting, t)) /\ (t \in T \cup S => t \in cleared)
      BY <1>3, <1>6, <2>1, <2>2, <2>3
    <2>5. \A t, u \in Turn :
            (Asks(up', t) /\ Asks(waiting', u)) \/ Sooner(up', t, u) \/ Sooner(waiting', t, u) =>
              Before(t, u)
      <3>1. \A t, u : ~Sooner(waiting', t, u)
        BY <1>1 DEF Sooner
      <3> QED BY <1>3, <1>6, <2>3, <3>1 DEF Before
    <2>6. ClearsOnly(up', cleared) /\ ClearsOnly(waiting', cleared)
      BY <1>1, <1>6 DEF ClearsOnly
    <2>7. RowsInFlight'
      <3> SUFFICES ASSUME NEW t \in Turn, HasRow(mirror', t), t \notin mirror'.ignored
                   PROVE  t \notin cleared' /\ t \in ToSet(inFlight')
        BY DEF RowsInFlight
      <3>1. HasRow(mirror, t) /\ t \notin mirror.ignored
        BY <2>1 DEF Upholds
      <3>2. t \notin cleared /\ (t \in ToSet(inFlight) \/ Asks(waiting, t))
        BY <3>1 DEF QuietInv, RowsInv, RowsInFlight
      <3> QED BY <1>1, <1>3, <1>4, <2>1, <3>2
    <2>8. WaitingApart'
      BY <2>3 DEF WaitingApart
    <2>9. FlightPending'
      BY <1>4, <1>6 DEF FlightPending, Pending
    <2>10. /\ \A t \in Turn : mirror'.held[t] # 0 => mirror.held[t] # 0
           /\ down' \in {down, <<>>} /\ UNCHANGED <<cleared, submitted>>
      BY <1>1, <2>1
    <2> QED BY <1>7, <2>1, <2>2, <2>4, <2>5, <2>6, <2>7, <2>8, <2>9, <2>10, IdleRows DEF QuietInv
  <1> QED BY <1>8, <1>9, <1>10, <1>11 DEF QuietInv, FlowInv

-----------------------------------------------------------------------------
(* The mirror of a quiet pipe, in every state *)

LEMMA QuietInit ==
  ASSUME Init
  PROVE  QuietInv
  <1>1. DOMAIN <<>> = {} /\ ToSet(<<>>) = {} /\ \A t \in Turn : Zero[t] = 0
    BY ZeroIs DEF ToSet
  <1>2. /\ mirror.rows = <<>> /\ mirror.stamp = Zero /\ mirror.held = Zero
        /\ up = <<>> /\ down = <<>> /\ waiting = <<>> /\ inFlight = <<>> /\ cleared = {}
        /\ state = "Starting" /\ session = "none" /\ launching = "start" /\ fallback = "none"
        /\ alive = FALSE /\ flow = "closed"
    BY DEF Init, EmptyMirror
  <1>3. Unended = {} /\ Backend!Running = {} /\ Backend!Waiting = {}
    BY DEF Init, Backend!Init, Unended, Backend!Waiting, Backend!Running
  <1>4. ConnectionInv
    BY <1>2 DEF ConnectionInv
  <1>5. OneResume /\ ResumedIdle
    BY <1>2, NoRequest, NoEvent DEF OneResume, ResumedIdle
  <1>6. \A t \in Turn : ~Pending(t) /\ ~Live(t)
    BY <1>1, <1>2, <1>3, NoRequest DEF Pending, Live
  <1>7. \A t, u \in Turn : ~Before(t, u)
    BY <1>1, <1>2, <1>3, NoRequest DEF Before, Sooner
  <1>8. RowsShown /\ PendingShown /\ RowsOrdered
    BY <1>6, <1>7 DEF RowsShown, PendingShown, RowsOrdered
  <1>9. RowsInFlight /\ WaitingApart /\ FlightPending
    BY <1>1, <1>2 DEF RowsInFlight, WaitingApart, FlightPending, HasRow
  <1>10. StampHeard /\ StampKnown /\ ClearedKnown
    BY <1>1, <1>2 DEF StampHeard, StampKnown, ClearedKnown
  <1>11. ClearCovers
    BY <1>1, <1>2, NoRequest DEF ClearCovers, ClearsOnly
  <1>12. RunsFirst /\ ActiveTold /\ ActiveShown
    BY <1>3 DEF RunsFirst, ActiveTold, ActiveShown
  <1> QED BY <1>4, <1>5, <1>8, <1>9, <1>10, <1>11, <1>12 DEF QuietInv, FlowInv, RowsInv

LEMMA QuietStays ==
  ASSUME LinkInv, QuietInv, UNCHANGED vars
  PROVE  QuietInv'
  <1>1. /\ FlowSteps
        /\ UNCHANGED <<mirror, clientVars, up, waiting, inFlight, down, alive, queueVars, cleared, submitted>>
    BY DEF vars, historyVars, FlowSteps
  <1> QED BY <1>1, PhaseAgrees

LEMMA QuietKeeps ==
  ASSUME Patient, LinkInv, QuietInv, [Next]_vars
  PROVE  QuietInv'
  <1>1. CASE UNCHANGED vars
    BY <1>1, QuietStays
  <1>2. CASE UserActs
    BY <1>2, UserAgrees
  <1>3. CASE BackendActs
    BY <1>3, BackendAgrees
  <1>4. CASE Receive
    BY <1>4, ReceiveAgrees
  <1>5. CASE ResumeActs
    BY <1>5, ResumeAgrees
  <1>6. CASE LaunchEnds
    BY <1>6, AdoptAgrees, LaunchFailsAgrees DEF LaunchEnds
  <1>7. CASE Crash
    BY <1>7, CrashAgrees
  <1>8. CASE NoticeExit
    BY <1>8, NoticeExitAgrees
  <1>9. CASE RequestTimeout
    BY <1>9, RequestTimeoutAgrees
  <1>10. CASE \E t \in Turn : FlushTimer(t)
    BY <1>10, FlushTimerAgrees
  <1> QED BY <1>1, <1>2, <1>3, <1>4, <1>5, <1>6, <1>7, <1>8, <1>9, <1>10 DEF Next

\* All the elements of W, in the order of what is ahead of each: there is one such list.
Lists(s, W) ==
  /\ s \in Seq(W) /\ \A t \in W : \E i \in DOMAIN s : s[i] = t
  /\ \A i, j \in DOMAIN s : i < j => s[i] \in ahead[s[j]]

LEMMA OneOrder ==
  ASSUME NEW W, NEW s, NEW q, Lists(s, W), Lists(q, W),
         \A t, u \in W : t \in ahead[u] => u \notin ahead[t]
  PROVE  Len(s) = Len(q) /\ \A i \in DOMAIN s : s[i] = q[i]
  <1>0. /\ s \in Seq(W) /\ \A t \in W : \E i \in DOMAIN s : s[i] = t
        /\ \A i, j \in DOMAIN s : i < j => s[i] \in ahead[s[j]]
        /\ q \in Seq(W) /\ \A t \in W : \E i \in DOMAIN q : q[i] = t
        /\ \A i, j \in DOMAIN q : i < j => q[i] \in ahead[q[j]]
    BY DEF Lists
  <1> DEFINE m == Len(s)
             n == Len(q)
             D == {i \in DOMAIN s \cap DOMAIN q : s[i] # q[i]}
  <1>1. /\ DOMAIN s = 1..m /\ m \in Nat /\ \A i \in DOMAIN s : s[i] \in W
        /\ DOMAIN q = 1..n /\ n \in Nat /\ \A i \in DOMAIN q : q[i] \in W
    BY <1>0
  <1> HIDE DEF m, n
  <1>2. /\ \A i \in DOMAIN s : i \in Nat /\ 1 <= i /\ i <= m
        /\ \A i \in DOMAIN q : i \in Nat /\ 1 <= i /\ i <= n
        /\ \A i \in Nat : 1 <= i /\ i <= m => i \in DOMAIN s
        /\ \A i \in Nat : 1 <= i /\ i <= n => i \in DOMAIN q
    BY <1>1
  <1>3. /\ \A i, j \in DOMAIN s : i < j => s[i] # s[j]
        /\ \A i, j \in DOMAIN q : i < j => q[i] # q[j]
    BY <1>0, <1>1
  <1>4. D = {}
    <2> SUFFICES ASSUME D # {} PROVE FALSE
      OBVIOUS
    <2>1. D \in SUBSET Nat
      BY <1>2
    <2>2. PICK i \in D : \A j \in D : i <= j
      <3> HIDE DEF D
      <3> QED BY <2>1, LeastElement
    <2>3. i \in DOMAIN s /\ i \in DOMAIN q /\ i \in Nat /\ s[i] # q[i]
      BY <1>2, <2>2
    <2>4. \A j \in DOMAIN s \cup DOMAIN q : j < i => j \in DOMAIN s /\ j \in DOMAIN q /\ s[j] = q[j]
      <3> SUFFICES ASSUME NEW j \in DOMAIN s \cup DOMAIN q, j < i
                   PROVE  j \in DOMAIN s /\ j \in DOMAIN q /\ s[j] = q[j]
        OBVIOUS
      <3>0. j \in Nat /\ 1 <= j
        <4> HIDE DEF D
        <4> QED BY <1>2
      <3>1. j \in Nat /\ 1 <= j /\ j <= i /\ ~(i <= j)
        <4> HIDE DEF D
        <4> QED BY <2>3, <3>0
      <3>2. i <= m /\ i <= n
        BY <1>2, <2>3
      <3>3. j <= m /\ j <= n
        BY <1>1, <2>3, <3>1, <3>2
      <3>4. j \in DOMAIN s /\ j \in DOMAIN q
        BY <1>2, <3>1, <3>3
      <3>5. j \notin D
        <4> HIDE DEF D
        <4> QED BY <2>2, <3>1
      <3> QED BY <3>4, <3>5
    <2>5. PICK k \in DOMAIN q : q[k] = s[i]
      BY <1>0, <1>1, <2>3
    <2>6. PICK l \in DOMAIN s : s[l] = q[i]
      BY <1>0, <1>1, <2>3
    <2> HIDE DEF D
    <2>7. i < k
      <3>1. ~(k < i)
        BY <1>3, <2>3, <2>4, <2>5
      <3>2. k # i /\ k \in Nat
        BY <1>2, <2>3, <2>5
      <3> QED BY <2>3, <3>1, <3>2
    <2>8. i < l
      <3>1. ~(l < i)
        BY <1>3, <2>3, <2>4, <2>6
      <3>2. l # i /\ l \in Nat
        BY <1>2, <2>3, <2>6
      <3> QED BY <2>3, <3>1, <3>2
    <2>9. q[i] \in ahead[s[i]]
      BY <1>0, <2>3, <2>5, <2>7
    <2>10. s[i] \in ahead[q[i]]
      BY <1>0, <2>3, <2>6, <2>8
    <2> QED BY <1>1, <2>3, <2>9, <2>10
  <1>5. \A i \in DOMAIN s : i \in DOMAIN q => s[i] = q[i]
    BY <1>4
  <1> HIDE DEF D
  <1>6. ~(m < n)
    <2> SUFFICES ASSUME m < n PROVE FALSE
      OBVIOUS
    <2>1. m + 1 \in Nat /\ m + 1 <= n /\ 1 <= m + 1
      BY <1>1
    <2>2. m + 1 \in DOMAIN q
      BY <1>2, <2>1
    <2>3. PICK l \in DOMAIN s : s[l] = q[m + 1]
      BY <1>0, <1>1, <2>2
    <2>4. l \in Nat /\ 1 <= l /\ l <= m
      BY <1>2
    <2>5. l <= n /\ l < m + 1
      BY <1>1, <2>1, <2>4
    <2>6. l \in DOMAIN q
      BY <1>2, <2>4, <2>5
    <2> QED BY <1>3, <1>5, <2>2, <2>3, <2>5, <2>6
  <1>7. ~(n < m)
    <2> SUFFICES ASSUME n < m PROVE FALSE
      OBVIOUS
    <2>1. n + 1 \in Nat /\ n + 1 <= m /\ 1 <= n + 1
      BY <1>1
    <2>2. n + 1 \in DOMAIN s
      BY <1>2, <2>1
    <2>3. PICK l \in DOMAIN q : q[l] = s[n + 1]
      BY <1>0, <1>1, <2>2
    <2>4. l \in Nat /\ 1 <= l /\ l <= n
      BY <1>2
    <2>5. l <= m /\ l < n + 1
      BY <1>1, <2>1, <2>4
    <2>6. l \in DOMAIN s
      BY <1>2, <2>4, <2>5
    <2> QED BY <1>3, <1>5, <2>2, <2>3, <2>5, <2>6
  <1>8. m \in Nat /\ n \in Nat
    BY <1>1
  <1>9. m = n
    BY <1>6, <1>7, <1>8
  <1>10. DOMAIN s = DOMAIN q
    BY <1>1, <1>9
  <1> QED BY <1>5, <1>9, <1>10 DEF m, n

\* The unfinished turns are totally ordered.
LEMMA UnendedOrder ==
  ASSUME LinkInv, RunsFirst, NEW W \in SUBSET Unended
  PROVE  /\ \A t \in W : t \notin ahead[t]
         /\ \A t, u \in W : t # u => t \in ahead[u] \/ u \in ahead[t]
         /\ \A t, u \in W : t \in ahead[u] => ahead[t] \cap W \subseteq ahead[u]
         /\ \A t, u \in W : t \in ahead[u] => u \notin ahead[t]
  <1>1. \A t \in W : t \in Backend!Waiting \/ t \in Backend!Running
    BY DEF Unended
  <1>2. \A t \in W : t \notin ahead[t]
    BY <1>1 DEF LinkInv, QueueInv, QueueOrdered, RunsFirst
  <1>3. \A t, u \in W : t # u => t \in ahead[u] \/ u \in ahead[t]
    BY <1>1 DEF LinkInv, QueueInv, QueueOrdered, RunsFirst
  <1>4. \A t, u \in W : t \in ahead[u] => ahead[t] \subseteq ahead[u]
    BY <1>1 DEF LinkInv, QueueInv, QueueOrdered, RunsFirst
  <1> QED BY <1>2, <1>3, <1>4

\* The rows of a quiet pipe that have not settled.
LEMMA QuietRows ==
  ASSUME LinkInv, QuietInv, Quiet
  PROVE  LET W == Unended \ cleared
         IN  /\ \A i \in DOMAIN mirror.rows : mirror.rows[i].state # "settled" =>
                  mirror.rows[i].turn \in W /\ mirror.rows[i].text
             /\ \A t \in W : \E i \in DOMAIN mirror.rows :
                  mirror.rows[i].turn = t /\ mirror.rows[i].state # "settled"
             /\ \A i, j \in DOMAIN mirror.rows :
                  i < j /\ mirror.rows[i].turn \in W /\ mirror.rows[j].turn \in W =>
                    mirror.rows[i].turn \in ahead[mirror.rows[j].turn]
             /\ \A i \in DOMAIN mirror.rows : mirror.rows[i].turn \in W =>
                  (mirror.rows[i].state = "active" <=> mirror.rows[i].turn \in Backend!Running)
  <1> DEFINE W == Unended \ cleared
  <1>1. /\ \A i \in DOMAIN mirror.rows : mirror.rows[i].turn \in Turn
        /\ \A i, j \in DOMAIN mirror.rows : mirror.rows[i].turn = mirror.rows[j].turn => i = j
        /\ \A i \in DOMAIN mirror.rows : mirror.rows[i].state = "settled" <=> mirror.rows[i].turn \in mirror.ignored
        /\ \A i \in DOMAIN mirror.rows : i \in Nat
    BY PipeIs, MirrorIs DEF GoodMirrors
  <1>2. /\ alive /\ session = "live" /\ DOMAIN down = {}
        /\ \A t : ~Asks(up, t) /\ ~Asks(waiting, t)
    BY NoRequest DEF Quiet
  <1>3. \A t \in Unended : t \in Turn /\ Pending(t) /\ Live(t)
    BY UnendedIs DEF Pending, Live
  <1>4. ASSUME NEW i \in DOMAIN mirror.rows, mirror.rows[i].state # "settled"
        PROVE  mirror.rows[i].turn \in W /\ mirror.rows[i].text
    <2> DEFINE t == mirror.rows[i].turn
    <2>1. t \in Turn /\ HasRow(mirror, t) /\ t \notin mirror.ignored
      BY <1>1, <1>4 DEF HasRow
    <2>2. t \notin cleared /\ t \in ToSet(inFlight)
      BY <1>2, <2>1 DEF QuietInv, RowsInv, RowsInFlight
    <2>3. t \in Unended
      BY <1>2, <2>2 DEF QuietInv, RowsInv, FlightPending, Pending, Tells
    <2>4. Open(mirror, t)
      BY <1>3, <2>1, <2>3 DEF QuietInv, RowsInv, RowsShown
    <2>5. mirror.rows[i].text
      BY <1>1, <2>4 DEF Open
    <2> QED BY <2>2, <2>3, <2>5
  <1>5. \A t \in W : t \in Turn /\ t \notin mirror.ignored /\ Open(mirror, t)
    BY <1>3 DEF QuietInv, RowsInv, PendingShown, RowsShown
  <1>6. \A t \in W : \E i \in DOMAIN mirror.rows :
          mirror.rows[i].turn = t /\ mirror.rows[i].state # "settled"
    BY <1>1, <1>5 DEF Open
  <1>7. ASSUME NEW i \in DOMAIN mirror.rows, NEW j \in DOMAIN mirror.rows, i < j,
               mirror.rows[i].turn \in W, mirror.rows[j].turn \in W
        PROVE  mirror.rows[i].turn \in ahead[mirror.rows[j].turn]
    <2> DEFINE t == mirror.rows[i].turn
               u == mirror.rows[j].turn
    <2>1. t # u /\ ~(j < i)
      BY <1>1, <1>7
    <2>2. t \in ahead[u] \/ u \in ahead[t]
      <3>1. W \in SUBSET Unended /\ RunsFirst
        BY DEF QuietInv, RowsInv
      <3> HIDE DEF W, t, u
      <3> QED BY <1>7, <2>1, <3>1, UnendedOrder DEF t, u
    <2>3. u \in ahead[t] => Above(mirror, u, t)
      BY <1>3, <1>7 DEF Before, QuietInv, RowsInv, RowsOrdered
    <2>4. ~Above(mirror, u, t)
      BY <1>1, <2>1 DEF Above
    <2> QED BY <2>2, <2>3, <2>4
  <1>8. ASSUME NEW i \in DOMAIN mirror.rows, mirror.rows[i].turn \in W
        PROVE  mirror.rows[i].state = "active" <=> mirror.rows[i].turn \in Backend!Running
    <2> DEFINE t == mirror.rows[i].turn
    <2>1. \A x : InState(mirror, t, x) => mirror.rows[i].state = x
      BY <1>1 DEF InState
    <2>2. t \in Backend!Running => InState(mirror, t, "active")
      BY <1>2, <1>8 DEF QuietInv, RowsInv, ActiveShown
    <2>3. t \in Backend!Waiting => InState(mirror, t, "queued")
      BY <1>2, <1>8 DEF QuietInv, RowsInv, ActiveShown
    <2>4. t \in Backend!Running \/ t \in Backend!Waiting
      BY <1>8 DEF Unended
    <2>5. t \in Backend!Running => t \notin Backend!Waiting
      BY DEF Backend!Running, Backend!Waiting
    <2> HIDE DEF t
    <2> QED BY <2>1, <2>2, <2>3, <2>4, <2>5 DEF t
  <1> QED BY <1>4, <1>6, <1>7, <1>8

LEMMA QuietAgrees ==
  ASSUME LinkInv, QuietInv
  PROVE  QuietMirrorAgrees
  <1> SUFFICES ASSUME Quiet
               PROVE  LET shown == Unsettled(mirror)
                          queue == AcceptedOrder(Unfinished \ cleared)
                      IN  /\ Len(shown) = Len(queue)
                          /\ \A i \in DOMAIN shown :
                               /\ shown[i].turn = queue[i] /\ shown[i].text
                               /\ shown[i].state = "active" <=> queue[i] \in Backend!Running
    BY DEF QuietMirrorAgrees
  <1> DEFINE W == Unended \ cleared
             rows == mirror.rows
             K == {r \in ToSet(rows) : r.state # "settled"}
             shown == Unsettled(mirror)
             queue == AcceptedOrder(W)
             turns == [i \in DOMAIN shown |-> shown[i].turn]
  <1>1. Unfinished \ cleared = W
    BY DEF Unfinished, Unended
  <1>2. /\ \A i \in DOMAIN rows : rows[i].state # "settled" => rows[i].turn \in W /\ rows[i].text
        /\ \A t \in W : \E i \in DOMAIN rows : rows[i].turn = t /\ rows[i].state # "settled"
        /\ \A i, j \in DOMAIN rows :
             i < j /\ rows[i].turn \in W /\ rows[j].turn \in W => rows[i].turn \in ahead[rows[j].turn]
        /\ \A i \in DOMAIN rows : rows[i].turn \in W =>
             (rows[i].state = "active" <=> rows[i].turn \in Backend!Running)
    BY QuietRows
  <1>3. W \in SUBSET Unended /\ W \in SUBSET Turn /\ RunsFirst
    BY UnendedIs DEF QuietInv, RowsInv
  <1>4. rows \in Seq(Row) /\ DOMAIN rows = 1..Len(rows) /\ Len(rows) \in Nat
    BY PipeIs, MirrorIs
  <1>5. shown = Only(rows, K) /\ (\A r \in K : r.state # "settled")
        /\ \A i \in DOMAIN rows : rows[i].state # "settled" => rows[i] \in K
    BY DEF Unsettled, ToSet
  <1> HIDE DEF W, rows, K, shown
  <1>6. /\ \A t \in W : t \notin ahead[t]
        /\ \A t, u \in W : t # u => t \in ahead[u] \/ u \in ahead[t]
        /\ \A t, u \in W : t \in ahead[u] => ahead[t] \cap W \subseteq ahead[u]
        /\ \A t, u \in W : t \in ahead[u] => u \notin ahead[t]
    BY <1>3, UnendedOrder
  <1>7. /\ queue \in Seq(W) /\ \A t \in W : \E i \in DOMAIN queue : queue[i] = t
        /\ \A i, j \in DOMAIN queue : i < j => queue[i] \in ahead[queue[j]]
    BY <1>3, <1>6, OrderIs
  <1> HIDE DEF queue
  <1>8. PICK at : shown \in Seq(Row) /\ Picks(shown, at, rows, Len(rows), K)
    BY <1>4, <1>5, OnlyPicks
  <1>9. /\ DOMAIN shown = 1..Len(shown) /\ Len(shown) \in Nat
        /\ \A i \in DOMAIN shown : at[i] \in DOMAIN rows /\ shown[i] = rows[at[i]] /\ shown[i].state # "settled"
        /\ \A i, j \in DOMAIN shown : i < j => at[i] < at[j]
        /\ \A l \in DOMAIN rows : rows[l].state # "settled" => \E i \in DOMAIN shown : shown[i] = rows[l]
    BY <1>4, <1>5, <1>8 DEF Picks
  <1>10. \A i \in DOMAIN shown : shown[i].turn \in W /\ shown[i].text
    BY <1>2, <1>9
  <1>11. turns \in Seq(W) /\ DOMAIN turns = DOMAIN shown /\ Len(turns) = Len(shown)
         /\ \A i \in DOMAIN shown : turns[i] = shown[i].turn
    BY <1>9, <1>10
  <1> HIDE DEF turns
  <1>12. \A t \in W : \E i \in DOMAIN turns : turns[i] = t
    BY <1>2, <1>9, <1>11
  <1>13. \A i, j \in DOMAIN turns : i < j => turns[i] \in ahead[turns[j]]
    BY <1>2, <1>9, <1>10, <1>11
  <1>14. Len(turns) = Len(queue) /\ \A i \in DOMAIN turns : turns[i] = queue[i]
    <2>1. Lists(turns, W)
      BY <1>11, <1>12, <1>13 DEF Lists
    <2>2. Lists(queue, W)
      BY <1>7 DEF Lists
    <2>3. \A t, u \in W : t \in ahead[u] => u \notin ahead[t]
      BY <1>6
    <2> QED BY <2>1, <2>2, <2>3, OneOrder
  <1>15. \A i \in DOMAIN shown : shown[i].state = "active" <=> shown[i].turn \in Backend!Running
    BY <1>2, <1>9, <1>10
  <1>16. /\ Len(shown) = Len(queue)
         /\ \A i \in DOMAIN shown :
              /\ shown[i].turn = queue[i] /\ shown[i].text
              /\ shown[i].state = "active" <=> queue[i] \in Backend!Running
    BY <1>10, <1>11, <1>14, <1>15
  <1> QED BY <1>1, <1>16 DEF shown, queue

\* Once nothing is on its way, the rows that have not settled are the turns the backend has
\* not finished and the user has not cleared, with their prompts and in the order they run,
\* and the active one is the one that runs: if the user does not act while a resume is
\* under way.
THEOREM QuietMirrorCorrect == Patient => (Spec => []QuietMirrorAgrees)
  <1> SUFFICES ASSUME Patient PROVE Spec => []QuietMirrorAgrees
    OBVIOUS
  <1>1. Init => LinkInv /\ QuietInv
    BY LinkInit, QuietInit
  <1>2. (LinkInv /\ QuietInv) /\ [Next]_vars => (LinkInv /\ QuietInv)'
    BY LinkStep, QuietKeeps
  <1>3. LinkInv /\ QuietInv => QuietMirrorAgrees
    BY QuietAgrees
  <1> QED BY <1>1, <1>2, <1>3, PTL DEF Spec
=============================================================================
