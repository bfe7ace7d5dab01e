----------------------------- MODULE LinkProofs -----------------------------
(***************************************************************************)
(* What the terminal keeps to across the pipe, for any number of turns and *)
(* any bounds, whether or not the user waits for a resume: rows are told   *)
(* apart, a cleared turn stays gone, the text shown is what arrived, an    *)
(* answer is final, and the compaction hint has an owner.  Processes die,  *)
(* requests time out, launches fail and resumes replace process and rows   *)
(* at any moment.                                                          *)
(***************************************************************************)
EXTENDS LinkProperties, NaturalOrder, FiniteSetTheorems

-----------------------------------------------------------------------------
(* The mirror *)

Row == [turn : Turn, text : BOOLEAN, state : {"queued", "active", "settled"}, result : Result]
Session == Nat \cup {Stored, None}

Mirrors ==
  [rows : Seq(Row), stream : [Turn -> Nat], held : [Turn -> Nat], stamp : [Turn -> Nat],
   generation : Nat, ignored : SUBSET Turn, notices : SUBSET Turn, current : Session]

\* Rows are of different turns; those of the ignored turns have settled, and only those;
\* what was seen of a turn was seen in this generation; text is of a row not settled.
GoodMirrors ==
  {m \in Mirrors :
     /\ \A i, j \in DOMAIN m.rows : m.rows[i].turn = m.rows[j].turn => i = j
     /\ \A i \in DOMAIN m.rows : m.rows[i].state = "settled" <=> m.rows[i].turn \in m.ignored
     /\ m.generation # 0 /\ \A t \in Turn : m.stamp[t] \in {0, m.generation}
     /\ \A t \in Turn : m.stream[t] # 0 => HasRow(m, t) /\ t \notin m.ignored}

\* The chunks the mirror has of a turn, and the turns it knows.
Text(m, t) == m.stream[t] + m.held[t]
Known(m) == VisibleTurns(m) \cup m.ignored

\* From m to n no ignored turn comes back, and the rows of those there are stay as they are.
Keeps(m, n) ==
  /\ m.ignored \subseteq n.ignored
  /\ \A i \in DOMAIN n.rows : n.rows[i].turn \in m.ignored =>
       \E j \in DOMAIN m.rows : m.rows[j] = n.rows[i]

\* The mirrors that m may come to when it hears of the turns T.
After(m, T) ==
  {n \in GoodMirrors :
     /\ Keeps(m, n)
     /\ Known(n) \subseteq Known(m) \cup T
     /\ \A t \in Turn : /\ Text(n, t) <= Text(m, t)
                        /\ t \notin n.ignored => Text(n, t) = Text(m, t)}

-----------------------------------------------------------------------------
(* The pipe *)

Requests ==
  [kind : {"submit", "cancel"}, turn : Turn]
    \cup [kind : {"stop", "clear", "resume"}, turn : {None}]
    \cup [kind : {"list"}, turn : {FlowUse, CaptureUse}]

Events ==
  [type : {"enqueued"}, turn : Turn, state : {"active", "queued"}]
    \cup [type : {"activated", "removed", "ack"}, turn : Turn]
    \cup [type : {"tokenDelta"}, turn : Turn, chunks : {1}]
    \cup [type : {"settled"}, turn : Turn, result : Result]
    \cup [type : {"compactionStatus"}, turn : Turn, on : BOOLEAN]
    \cup [type : {"stopped"}, turn : {None}]
    \cup [type : {"listed"}, turn : {None}, session : Session, use : {FlowUse, CaptureUse}]
    \cup [type : {"resumed"}, turn : {None}, ok : BOOLEAN]

ClientType ==
  /\ hint \in BOOLEAN /\ alive \in BOOLEAN
  /\ state \in {"Starting", "Ready", "Dead"} /\ flow \in FlowPhase
  /\ session \in {"none", "live", "gone"} /\ fallback \in {"none", "live", "gone"}
  /\ launching \in {"no", "start", "relaunch"}

PipeType ==
  /\ inFlight \in Seq(Turn) /\ waiting \in Seq(Requests)
  /\ up \in Seq(Requests) /\ down \in Seq(Events)

HistoryType ==
  /\ newest \in Nat /\ attached \in Session /\ hydrated \in BOOLEAN
  /\ submitted \in SUBSET Turn /\ cleared \in SUBSET Turn /\ received \in [Turn -> Nat]

\* Only submitted turns are accepted, and in flight.
OnlySubmitted ==
  /\ \A t \in Turn : stage[t] # "new" => t \in submitted
  /\ ToSet(inFlight) \subseteq submitted

\* The submit of a turn is sent once, to a backend that has not heard of it.
Asks(q, t) == \E i \in DOMAIN q : q[i] = Request("submit", t)
Once(q) == \A i, j \in DOMAIN q : q[i].kind = "submit" /\ q[i] = q[j] => i = j
SubmitsInOrder ==
  /\ Once(up) /\ Once(waiting)
  /\ \A t \in Turn : ~(Asks(up, t) /\ Asks(waiting, t))
  /\ \A t \in Turn : Asks(up, t) \/ Asks(waiting, t) => t \in submitted /\ stage[t] = "new"

\* What the queue q tells, when the backend's turns are in the stages s, the turns of f are
\* in flight and the requests u on their way.  What is told of a turn is told after its
\* submit was heard, the acknowledgement first.
Tells(q, type, t) == \E i \in DOMAIN q : q[i].type = type /\ q[i].turn = t
Heard(q, s) ==
  /\ \A i \in DOMAIN q : q[i].turn \in Turn => s[q[i].turn] # "new"
  /\ \A i, j \in DOMAIN q : i < j /\ q[j].type = "ack" => q[i].turn # q[j].turn

\* A turn that was sent is in flight until its end arrives.
Sent(q, u, s, f) ==
  \A t \in Turn : Asks(u, t) \/ s[t] \in {"waiting", "running"} =>
    t \in ToSet(f) /\ ~Tells(q, "settled", t) /\ ~Tells(q, "removed", t)

\* A compaction is of a turn in flight that started, and is told before that turn's end.
Begun(q, s, f, t) ==
  t \in ToSet(f) /\ s[t] \in {"running", "over"} /\ ~Tells(q, "removed", t)
Folds(q, s, f) ==
  \A i \in DOMAIN q : q[i].type = "compactionStatus" =>
    /\ Begun(q, s, f, q[i].turn)
    /\ \A j \in 1..(i - 1) : ~(q[j].type = "settled" /\ q[j].turn = q[i].turn)

Piped(q, u, s, f) == Heard(q, s) /\ Sent(q, u, s, f) /\ Folds(q, s, f)

\* The mirror has no text of a turn before its acknowledgement, and the hint is on for a
\* turn that was acknowledged and has not ended.
TextHeard == \A t \in Turn : Text(mirror, t) # 0 => stage[t] # "new" /\ ~Tells(down, "ack", t)
HintOwned ==
  hint => \E t \in Turn : Begun(down, stage, inFlight, t) /\ ~Tells(down, "ack", t)
DeadIsIdle == ~alive => \A t \in Turn : stage[t] \notin {"waiting", "running"}

\* The turns that wait are totally ordered, by those ahead of them.
Unended == Backend!Waiting \cup Backend!Running
QueueOrdered ==
  \A t \in Backend!Waiting :
    /\ t \notin ahead[t] /\ ahead[t] \subseteq Unended
    /\ \A u \in Backend!Waiting : t # u => t \in ahead[u] \/ u \in ahead[t]
    /\ \A u \in Backend!Waiting : t \in ahead[u] => ahead[t] \subseteq ahead[u]

\* Turns are known once they are submitted, or of the stored session.
KnownTurns == Known(mirror) \subseteq submitted \cup ToSet(Past)

\* The promises: cleared turns are ignored and have no row, the text is what arrived.
ClearedIgnored == hydrated \/ cleared \subseteq mirror.ignored \ VisibleTurns(mirror)
TextArrived == \A t \in Turn : t \notin mirror.ignored => Text(mirror, t) = received[t]

MirrorInv == mirror \in GoodMirrors /\ KnownTurns /\ ClearedIgnored /\ TextArrived
QueueInv == Backend!TypeOK /\ QueueOrdered
PipeInv ==
  /\ OnlySubmitted /\ SubmitsInOrder /\ Piped(down, up, stage, inFlight)
  /\ TextHeard /\ HintOwned /\ DeadIsIdle

LinkInv == ClientType /\ PipeType /\ HistoryType /\ MirrorInv /\ QueueInv /\ PipeInv

-----------------------------------------------------------------------------
(* Folds *)

LEMMA MaxOfPrefix ==
  ASSUME NEW k \in Nat \ {0}, NEW q \in SUBSET (1..k), k \in q
  PROVE  Max(q) = k
  <1>1. \A x \in q : (\A y \in q : x >= y) <=> x = k
    OBVIOUS
  <1> QED BY <1>1 DEF Max

LEMMA PrefixInduction ==
  ASSUME NEW n \in Nat, NEW M, NEW f, f[1..0] \in M,
         \A k \in 1..n : f[1..(k - 1)] \in M => f[1..k] \in M
  PROVE  f[1..n] \in M
  <1> DEFINE T == {k \in 0..n : f[1..k] \in M}
  <1>1. 0 \in T
    OBVIOUS
  <1>2. ASSUME NEW k \in 1..n, k - 1 \in T PROVE k \in T
    BY <1>2
  <1>3. n \in T
    <2> HIDE DEF T
    <2> QED BY <1>1, <1>2, InductionUpTo
  <1> QED BY <1>3

\* The function f on prefixes that a fold computes, with the step g.
Computes(f, n, b, g) ==
  \A q \in SUBSET (1..n) : f[q] = IF q = {} THEN b ELSE g[<<Max(q), f[q \ {Max(q)}]>>]

LEMMA FoldExists ==
  ASSUME NEW n \in Nat, NEW M, NEW b \in M, NEW g \in [(1..n) \X M -> M]
  PROVE  \E f \in [SUBSET (1..n) -> M] : Computes(f, n, b, g)
  <1> DEFINE Good(k, f) == Computes(f, k, b, g)
             T == {k \in 0..n : \E f \in [SUBSET (1..k) -> M] : Good(k, f)}
  <1>1. 0 \in T
    <2> DEFINE f == [q \in SUBSET (1..0) |-> b]
    <2>1. f \in [SUBSET (1..0) -> M] /\ \A q \in SUBSET (1..0) : q = {} /\ f[q] = b
      OBVIOUS
    <2>2. Good(0, f)
      BY <2>1 DEF Computes
    <2> HIDE DEF Good, f
    <2> QED BY <2>1, <2>2
  <1>2. ASSUME NEW k \in 1..n, k - 1 \in T PROVE k \in T
    <2>1. PICK f \in [SUBSET (1..(k - 1)) -> M] : Good(k - 1, f)
      BY <1>2
    <2> DEFINE h == [q \in SUBSET (1..k) |-> IF k \in q THEN g[<<k, f[q \ {k}]>>] ELSE f[q]]
    <2>2. ASSUME NEW q \in SUBSET (1..k), k \in q
          PROVE  /\ h[q] = g[<<Max(q), h[q \ {Max(q)}]>>] /\ h[q] \in M
      <3>1. Max(q) = k
        BY <2>2, MaxOfPrefix
      <3>2. q \ {k} \in SUBSET (1..(k - 1)) /\ q \ {k} \in SUBSET (1..k)
        OBVIOUS
      <3>3. h[q \ {k}] = f[q \ {k}] /\ f[q \ {k}] \in M
        BY <3>2
      <3>4. h[q] = g[<<k, f[q \ {k}]>>]
        BY <2>2
      <3>5. g[<<k, f[q \ {k}]>>] \in M
        BY <3>3
      <3> HIDE DEF h
      <3> QED BY <3>1, <3>3, <3>4, <3>5
    <2>3. ASSUME NEW q \in SUBSET (1..k), k \notin q
          PROVE  /\ h[q] = IF q = {} THEN b ELSE g[<<Max(q), h[q \ {Max(q)}]>>]
                 /\ h[q] \in M
      <3>1. q \in SUBSET (1..(k - 1)) /\ q \ {Max(q)} \in SUBSET (1..(k - 1))
        <4>1. \A x \in q : x \in 1..(k - 1)
          BY <2>3
        <4> QED BY <4>1
      <3>2. q \ {Max(q)} \in SUBSET (1..k) /\ k \notin q \ {Max(q)}
        BY <2>3
      <3>3. h[q] = f[q] /\ h[q \ {Max(q)}] = f[q \ {Max(q)}]
        BY <2>3, <3>1, <3>2
      <3>4. f[q] = IF q = {} THEN b ELSE g[<<Max(q), f[q \ {Max(q)}]>>]
        BY <2>1, <3>1 DEF Computes
      <3> HIDE DEF h
      <3> QED BY <3>1, <3>3, <3>4
    <2>4. Good(k, h)
      <3> HIDE DEF h
      <3> QED BY <2>2, <2>3 DEF Computes
    <2>5. h \in [SUBSET (1..k) -> M]
      BY <2>2, <2>3
    <2> HIDE DEF Good, h
    <2> QED BY <2>4, <2>5
  <1>3. n \in T
    <2> HIDE DEF T
    <2> QED BY <1>1, <1>2, InductionUpTo
  <1> QED BY <1>3

\* The prefixes a fold passes through, each a step after the one before.
Passes(fold, m, s) ==
  /\ FoldLeft(TransportFailure, m, s) = fold[1..Len(s)] /\ fold[1..0] = m
  /\ \A k \in 1..Len(s) : fold[1..k] = TransportFailure(fold[1..(k - 1)], s[k])

LEMMA FoldSteps ==
  ASSUME NEW M, NEW X, NEW m \in M, NEW s \in Seq(X),
         \A n \in M, x \in X : TransportFailure(n, x) \in M
  PROVE  \E fold : Passes(fold, m, s)
  <1> DEFINE E(f) == f = [q \in SUBSET (DOMAIN s) |->
                            IF q = {} THEN m ELSE TransportFailure(f[q \ {Max(q)}], s[Max(q)])]
             fold == CHOOSE f : E(f)
             g    == [p \in (1..Len(s)) \X M |-> TransportFailure(p[2], s[p[1]])]
  <1>1. DOMAIN s = 1..Len(s) /\ Len(s) \in Nat /\ \A i \in 1..Len(s) : s[i] \in X
    OBVIOUS
  <1>2. g \in [(1..Len(s)) \X M -> M]
    BY <1>1
  <1>3. PICK f \in [SUBSET (1..Len(s)) -> M] : Computes(f, Len(s), m, g)
    <2> HIDE DEF g, E, fold
    <2>1. Len(s) \in Nat
      OBVIOUS
    <2> QED BY <1>2, <2>1, FoldExists
  <1>4. E(f)
    <2>1. ASSUME NEW q \in SUBSET (1..Len(s)), q # {}
          PROVE  f[q] = TransportFailure(f[q \ {Max(q)}], s[Max(q)])
      <3>1. Max(q) \in 1..Len(s) /\ f[q \ {Max(q)}] \in M
        BY <1>1, <2>1, MaxOfSome
      <3>2. f[q] = g[<<Max(q), f[q \ {Max(q)}]>>]
        BY <1>3, <2>1 DEF Computes
      <3> QED BY <3>1, <3>2
    <2>2. \A q \in SUBSET (1..Len(s)) :
            f[q] = IF q = {} THEN m ELSE TransportFailure(f[q \ {Max(q)}], s[Max(q)])
      BY <1>3, <2>1 DEF Computes
    <2> QED BY <1>1, <2>2
  <1>5. E(fold)
    <2> HIDE DEF E
    <2> QED BY <1>4
  <1>6. FoldLeft(TransportFailure, m, s) = fold[DOMAIN s]
    BY Zenon DEF FoldLeft, MapThenFoldSet
  <1>7. \A q \in SUBSET (1..Len(s)) :
          fold[q] = IF q = {} THEN m ELSE TransportFailure(fold[q \ {Max(q)}], s[Max(q)])
    <2> HIDE DEF fold
    <2> QED BY <1>1, <1>5
  <1> HIDE DEF fold, E, g
  <1>8. fold[1..0] = m
    <2>1. 1..0 = {} /\ {} \in SUBSET (1..Len(s))
      OBVIOUS
    <2> QED BY <1>7, <2>1
  <1>9. ASSUME NEW k \in 1..Len(s) PROVE fold[1..k] = TransportFailure(fold[1..(k - 1)], s[k])
    <2>1. Max(1..k) = k
      BY MaxOfPrefix
    <2>2. (1..k) \ {k} = 1..(k - 1)
      OBVIOUS
    <2>3. k \in 1..k /\ (1..k) \in SUBSET (1..Len(s))
      OBVIOUS
    <2> QED BY <1>7, <2>1, <2>2, <2>3
  <1>10. Passes(fold, m, s)
    BY <1>1, <1>6, <1>8, <1>9 DEF Passes
  <1> QED BY <1>10

\* A fold stays in a set that each of its steps stays in.
LEMMA FoldStays ==
  ASSUME NEW M, NEW X, NEW m \in M, NEW s \in Seq(X),
         \A n \in M, x \in X : TransportFailure(n, x) \in M
  PROVE  FoldLeft(TransportFailure, m, s) \in M
  <1>0. PICK fold : Passes(fold, m, s)
    BY FoldSteps
  <1>1. /\ FoldLeft(TransportFailure, m, s) = fold[1..Len(s)] /\ fold[1..0] = m
        /\ \A k \in 1..Len(s) : fold[1..k] = TransportFailure(fold[1..(k - 1)], s[k])
    BY <1>0 DEF Passes
  <1>2. Len(s) \in Nat /\ \A k \in 1..Len(s) : s[k] \in X
    OBVIOUS
  <1>3. \A k \in 1..Len(s) : fold[1..(k - 1)] \in M => fold[1..k] \in M
    BY <1>1, <1>2
  <1>4. fold[1..0] \in M
    BY <1>1
  <1>5. fold[1..Len(s)] \in M
    BY <1>2, <1>3, <1>4, PrefixInduction
  <1> QED BY <1>1, <1>5

\* What a step with x brings about, and no step undoes, holds after a fold over a
\* sequence with x in it.
LEMMA FoldReaches ==
  ASSUME NEW M, NEW X, NEW m \in M, NEW s \in Seq(X), NEW x \in ToSet(s), NEW G,
         \A n \in M, y \in X : /\ TransportFailure(n, y) \in M
                               /\ n \in G \/ y = x => TransportFailure(n, y) \in G
  PROVE  FoldLeft(TransportFailure, m, s) \in G
  <1>0. PICK fold : Passes(fold, m, s)
    <2>1. \A n \in M, y \in X : TransportFailure(n, y) \in M
      OBVIOUS
    <2> QED BY <2>1, FoldSteps
  <1>1. /\ FoldLeft(TransportFailure, m, s) = fold[1..Len(s)] /\ fold[1..0] = m
        /\ \A k \in 1..Len(s) : fold[1..k] = TransportFailure(fold[1..(k - 1)], s[k])
    BY <1>0 DEF Passes
  <1>2. Len(s) \in Nat /\ \A k \in 1..Len(s) : s[k] \in X
    OBVIOUS
  <1>3. PICK i \in 1..Len(s) : s[i] = x
    BY DEF ToSet
  <1> DEFINE T == {k \in 0..Len(s) : fold[1..k] \in M /\ (i \in 1..k => fold[1..k] \in G)}
  <1>4. 0 \in T
    <2>1. 0 \in 0..Len(s) /\ i \notin 1..0
      BY <1>2
    <2> QED BY <1>1, <2>1
  <1>5. ASSUME NEW k \in 1..Len(s), k - 1 \in T PROVE k \in T
    <2>1. fold[1..(k - 1)] \in M /\ (i \in 1..(k - 1) => fold[1..(k - 1)] \in G)
      BY <1>5
    <2>2. i \in 1..k => i \in 1..(k - 1) \/ s[k] = x
      BY <1>3
    <2>3. fold[1..k] \in M /\ (i \in 1..k => fold[1..k] \in G)
      BY <1>1, <1>2, <2>1, <2>2
    <2> QED BY <2>3
  <1>6. Len(s) \in T
    <2> HIDE DEF T
    <2>1. \A k \in 1..Len(s) : k - 1 \in T => k \in T
      BY <1>5
    <2>2. Len(s) \in Nat
      BY <1>2
    <2>3. 0..Len(s) \subseteq T
      BY <1>4, <2>1, <2>2, InductionUpTo
    <2> QED BY <2>2, <2>3
  <1>7. i \in 1..Len(s)
    OBVIOUS
  <1> QED BY <1>1, <1>6, <1>7

-----------------------------------------------------------------------------
(* The mirror's operations *)

LEMMA TextIsNat ==
  ASSUME NEW m \in GoodMirrors
  PROVE  \A t \in Turn : Text(m, t) \in Nat
  BY DEF GoodMirrors, Mirrors, Text

LEMMA AfterSelf ==
  ASSUME NEW m \in GoodMirrors, NEW T
  PROVE  m \in After(m, T)
  BY TextIsNat DEF After, Keeps

LEMMA AfterMore ==
  ASSUME NEW m \in GoodMirrors, NEW T, NEW n \in After(m, T), NEW U, NEW o \in After(n, U)
  PROVE  o \in After(m, T \cup U)
  <1>1. n \in GoodMirrors /\ o \in GoodMirrors
    BY DEF After
  <1>2. \A t \in Turn : Text(m, t) \in Nat /\ Text(n, t) \in Nat /\ Text(o, t) \in Nat
    BY <1>1, TextIsNat
  <1>3. Keeps(m, o)
    BY DEF After, Keeps
  <1>4. Known(o) \subseteq Known(m) \cup (T \cup U)
    BY DEF After
  <1>5. ASSUME NEW t \in Turn
        PROVE  Text(o, t) <= Text(m, t) /\ (t \notin o.ignored => Text(o, t) = Text(m, t))
    <2>1. Text(n, t) <= Text(m, t) /\ (t \notin n.ignored => Text(n, t) = Text(m, t))
      BY DEF After
    <2>2. Text(o, t) <= Text(n, t) /\ (t \notin o.ignored => Text(o, t) = Text(n, t))
      BY DEF After
    <2>3. n.ignored \subseteq o.ignored
      BY DEF After, Keeps
    <2> QED BY <1>2, <2>1, <2>2, <2>3
  <1> QED BY <1>1, <1>3, <1>4, <1>5 DEF After

LEMMA AfterWider ==
  ASSUME NEW m, NEW T, NEW n \in After(m, T), NEW U, T \subseteq U
  PROVE  n \in After(m, U)
  BY DEF After

\* An operation that changes rows where they are, those of turns not ignored.
LEMMA InPlace ==
  ASSUME NEW m \in GoodMirrors, NEW n \in Mirrors, NEW T,
         DOMAIN n.rows = DOMAIN m.rows,
         \A i \in DOMAIN m.rows :
           /\ n.rows[i].turn = m.rows[i].turn
           /\ m.rows[i].turn \in m.ignored => n.rows[i] = m.rows[i]
           /\ n.rows[i].state = "settled" <=> m.rows[i].turn \in n.ignored,
         m.ignored \subseteq n.ignored, n.ignored \subseteq m.ignored \cup T,
         n.generation = m.generation, \A t \in Turn : n.stamp[t] \in {0, m.generation},
         \A t \in Turn : n.stream[t] # 0 => HasRow(m, t) /\ t \notin n.ignored,
         \A t \in Turn : /\ Text(n, t) <= Text(m, t)
                         /\ t \notin n.ignored => Text(n, t) = Text(m, t)
  PROVE  n \in After(m, T) /\ VisibleTurns(n) = VisibleTurns(m)
  <1>1. VisibleTurns(n) = VisibleTurns(m) /\ \A t \in Turn : HasRow(n, t) <=> HasRow(m, t)
    BY DEF VisibleTurns, HasRow
  <1>2. n \in GoodMirrors
    BY <1>1 DEF GoodMirrors
  <1>3. Keeps(m, n)
    BY DEF Keeps
  <1> QED BY <1>1, <1>2, <1>3 DEF After, Known

LEMMA StampAfter ==
  ASSUME NEW m \in GoodMirrors, NEW t \in Turn
  PROVE  LET n == StampTurnGeneration(m, t)
         IN  /\ n \in After(m, {})
             /\ n.rows = m.rows /\ n.ignored = m.ignored
             /\ n.stream = m.stream /\ n.held = m.held
  <1> DEFINE n == StampTurnGeneration(m, t)
  <1>1. /\ n \in Mirrors /\ n.rows = m.rows /\ n.ignored = m.ignored
        /\ n.stream = m.stream /\ n.held = m.held /\ n.generation = m.generation
        /\ \A u \in Turn : n.stamp[u] \in {0, m.generation}
    BY DEF GoodMirrors, Mirrors, StampTurnGeneration
  <1>2. \A u \in Turn : Text(n, u) = Text(m, u) /\ Text(m, u) \in Nat
    BY <1>1 DEF Text, GoodMirrors, Mirrors
  <1> HIDE DEF n
  <1>3. n \in After(m, {})
    BY <1>1, <1>2, InPlace DEF GoodMirrors
  <1> QED BY <1>1, <1>3 DEF n

LEMMA WithRows ==
  ASSUME NEW m \in Mirrors, NEW rows \in Seq(Row)
  PROVE  LET n == [m EXCEPT !.rows = rows]
         IN  /\ n \in Mirrors /\ n.rows = rows
             /\ n.ignored = m.ignored /\ n.stream = m.stream /\ n.held = m.held
             /\ n.generation = m.generation /\ n.stamp = m.stamp
  BY DEF Mirrors

LEMMA RowSet ==
  ASSUME NEW r \in Row, NEW x \in {"queued", "active", "settled"}
  PROVE  LET s == [r EXCEPT !.state = x]
         IN  s \in Row /\ s.turn = r.turn /\ s.state = x /\ (r.state = x => s = r)
  BY DEF Row

LEMMA RowsMapped ==
  ASSUME NEW rows \in Seq(Row), NEW R, DOMAIN R = DOMAIN rows,
         R = [i \in DOMAIN rows |-> R[i]], \A i \in DOMAIN rows : R[i] \in Row
  PROVE  R \in Seq(Row)
  <1>1. DOMAIN rows = 1..Len(rows) /\ Len(rows) \in Nat
    OBVIOUS
  <1>2. R \in [1..Len(rows) -> Row]
    BY <1>1
  <1> QED BY <1>1, <1>2

\* A row more, of a turn that has none and is not ignored.
LEMMA RowMore ==
  ASSUME NEW m \in GoodMirrors, NEW r \in Row, r.turn \notin Known(m), r.state # "settled"
  PROVE  LET n == [m EXCEPT !.rows = Append(@, r)]
         IN  /\ n \in After(m, {r.turn})
             /\ n.ignored = m.ignored /\ n.stream = m.stream /\ n.held = m.held
             /\ n.rows = Append(m.rows, r) /\ HasRow(n, r.turn)
  <1> DEFINE n == [m EXCEPT !.rows = Append(@, r)]
             k == Len(m.rows) + 1
  <1>1. m \in Mirrors /\ m.rows \in Seq(Row)
    BY DEF GoodMirrors, Mirrors
  <1>2. /\ n \in Mirrors /\ n.rows = Append(m.rows, r) /\ n.ignored = m.ignored
        /\ n.stream = m.stream /\ n.held = m.held
        /\ n.generation = m.generation /\ n.stamp = m.stamp
    <2>1. Append(m.rows, r) \in Seq(Row) /\ n = [m EXCEPT !.rows = Append(m.rows, r)]
      BY <1>1
    <2> HIDE DEF n
    <2> QED BY <1>1, <2>1, WithRows
  <1> HIDE DEF n
  <1>3. /\ DOMAIN m.rows = 1..Len(m.rows) /\ DOMAIN n.rows = 1..k /\ Len(m.rows) \in Nat
        /\ n.rows[k] = r /\ \A i \in DOMAIN m.rows : i \in 1..k /\ n.rows[i] = m.rows[i]
        /\ \A i \in 1..k : i = k \/ i \in DOMAIN m.rows
    BY <1>1, <1>2
  <1> HIDE DEF k
  <1>4. k \in 1..k
    BY <1>3 DEF k
  <1>5. r.turn \notin m.ignored /\ \A i \in DOMAIN m.rows : m.rows[i].turn # r.turn
    BY DEF Known, VisibleTurns
  <1>6. \A t : HasRow(m, t) => HasRow(n, t)
    BY <1>3 DEF HasRow
  <1>7. HasRow(n, r.turn)
    BY <1>3, <1>4 DEF HasRow
  <1>8. n \in GoodMirrors
    <2>1. \A i, j \in DOMAIN n.rows : n.rows[i].turn = n.rows[j].turn => i = j
      BY <1>3, <1>5 DEF GoodMirrors
    <2>2. \A i \in DOMAIN n.rows : n.rows[i].state = "settled" <=> n.rows[i].turn \in n.ignored
      BY <1>2, <1>3, <1>5 DEF GoodMirrors
    <2> QED BY <1>2, <1>6, <2>1, <2>2 DEF GoodMirrors
  <1>9. Keeps(m, n)
    BY <1>2, <1>3, <1>5 DEF Keeps
  <1>10. Known(n) \subseteq Known(m) \cup {r.turn}
    BY <1>2, <1>3 DEF Known, VisibleTurns
  <1>11. \A t \in Turn : Text(n, t) = Text(m, t) /\ Text(m, t) \in Nat
    BY <1>1, <1>2 DEF Text, Mirrors
  <1>12. n \in After(m, {r.turn})
    BY <1>8, <1>9, <1>10, <1>11 DEF After
  <1> QED BY <1>2, <1>7, <1>12 DEF n

LEMMA EnsureAfter ==
  ASSUME NEW m \in GoodMirrors, NEW e, e.turn \in Turn \ m.ignored,
         e.type = "enqueued" => e.state \in {"active", "queued"}
  PROVE  LET n == EnsureTurn(m, e)
         IN  /\ n \in After(m, {e.turn})
             /\ n.ignored = m.ignored /\ n.stream = m.stream /\ n.held = m.held
             /\ HasRow(n, e.turn)
  <1>1. CASE HasRow(m, e.turn)
    BY <1>1, AfterSelf DEF EnsureTurn
  <1>2. CASE ~HasRow(m, e.turn)
    <2> DEFINE r == [turn |-> e.turn, text |-> FALSE, result |-> "none",
                     state |-> IF e.type = "enqueued" THEN e.state ELSE "active"]
    <2>1. r \in Row /\ r.turn = e.turn /\ r.state # "settled"
      BY DEF Row, Result
    <2>2. e.turn \notin Known(m)
      BY <1>2 DEF Known, VisibleTurns, HasRow
    <2>3. EnsureTurn(m, e) = [m EXCEPT !.rows = Append(@, r)]
      BY <1>2 DEF EnsureTurn
    <2> HIDE DEF r
    <2> QED BY <2>1, <2>2, <2>3, RowMore
  <1> QED BY <1>1, <1>2

LEMMA ActivateAfter ==
  ASSUME NEW m \in GoodMirrors, NEW t
  PROVE  LET n == ActivateTurn(m, t)
         IN  /\ n \in After(m, {})
             /\ n.ignored = m.ignored /\ n.stream = m.stream /\ n.held = m.held
  <1> DEFINE n == ActivateTurn(m, t)
             R == [i \in DOMAIN m.rows |->
                    IF m.rows[i].state = "settled" THEN m.rows[i]
                    ELSE [m.rows[i] EXCEPT !.state = IF m.rows[i].turn = t THEN "active" ELSE "queued"]]
  <1>1. m \in Mirrors /\ m.rows \in Seq(Row)
    BY DEF GoodMirrors, Mirrors
  <1>2. n = [m EXCEPT !.rows = R]
    BY DEF ActivateTurn
  <1>3. \A i \in DOMAIN m.rows :
          /\ R[i] \in Row /\ R[i].turn = m.rows[i].turn
          /\ R[i].state = "settled" <=> m.rows[i].state = "settled"
          /\ m.rows[i].state = "settled" => R[i] = m.rows[i]
    <2> SUFFICES ASSUME NEW i \in DOMAIN m.rows
                 PROVE  /\ R[i] \in Row /\ R[i].turn = m.rows[i].turn
                        /\ R[i].state = "settled" <=> m.rows[i].state = "settled"
                        /\ m.rows[i].state = "settled" => R[i] = m.rows[i]
      OBVIOUS
    <2> DEFINE x == IF m.rows[i].turn = t THEN "active" ELSE "queued"
    <2>1. R[i] = IF m.rows[i].state = "settled" THEN m.rows[i] ELSE [m.rows[i] EXCEPT !.state = x]
      OBVIOUS
    <2>2. m.rows[i] \in Row /\ x \in {"queued", "active", "settled"} /\ x # "settled"
      BY <1>1
    <2> HIDE DEF R, x
    <2>3. LET s == [m.rows[i] EXCEPT !.state = x]
          IN  s \in Row /\ s.turn = m.rows[i].turn /\ s.state = x
      BY <2>2, RowSet
    <2> QED BY <2>1, <2>2, <2>3
  <1>4. R \in Seq(Row) /\ DOMAIN R = DOMAIN m.rows
    BY <1>1, <1>3, RowsMapped
  <1> HIDE DEF n, R
  <1>5. /\ n \in Mirrors /\ n.rows = R
        /\ n.ignored = m.ignored /\ n.stream = m.stream /\ n.held = m.held
        /\ n.generation = m.generation /\ n.stamp = m.stamp
    BY <1>1, <1>2, <1>4, WithRows
  <1>6. \A u \in Turn : Text(n, u) = Text(m, u) /\ Text(m, u) \in Nat
    BY <1>1, <1>5 DEF Text, Mirrors
  <1>7. n \in After(m, {})
    BY <1>3, <1>4, <1>5, <1>6, InPlace DEF GoodMirrors
  <1> QED BY <1>5, <1>7 DEF n

\* n is m with the row of t, if it has one, in state x.
Updated(m, n, t, x) ==
  /\ n \in Mirrors /\ DOMAIN n.rows = DOMAIN m.rows
  /\ n.ignored = m.ignored /\ n.stream = m.stream /\ n.held = m.held
  /\ n.generation = m.generation /\ n.stamp = m.stamp
  /\ \A i \in DOMAIN m.rows :
       /\ n.rows[i].turn = m.rows[i].turn
       /\ n.rows[i].state = IF m.rows[i].turn = t THEN x ELSE m.rows[i].state
       /\ m.rows[i].turn # t => n.rows[i] = m.rows[i]

LEMMA UpdateIs ==
  ASSUME NEW m \in Mirrors, NEW t, NEW x \in {"queued", "active", "settled"}, NEW z \in Result
  PROVE  Updated(m, UpdateTurn(m, t, x, z), t, x)
  <1> DEFINE n == UpdateTurn(m, t, x, z)
             R == [i \in DOMAIN m.rows |->
                    IF m.rows[i].turn = t THEN [m.rows[i] EXCEPT !.state = x, !.result = z]
                    ELSE m.rows[i]]
  <1>1. m.rows \in Seq(Row)
    BY DEF Mirrors
  <1>2. n = [m EXCEPT !.rows = R]
    BY DEF UpdateTurn
  <1>3. ASSUME NEW i \in DOMAIN m.rows
        PROVE  /\ R[i] \in Row /\ R[i].turn = m.rows[i].turn
               /\ R[i].state = IF m.rows[i].turn = t THEN x ELSE m.rows[i].state
               /\ m.rows[i].turn # t => R[i] = m.rows[i]
    <2>1. m.rows[i] \in Row
      BY <1>1
    <2>2. LET s == [m.rows[i] EXCEPT !.state = x, !.result = z]
          IN  s \in Row /\ s.turn = m.rows[i].turn /\ s.state = x
      BY <2>1 DEF Row
    <2> QED BY <2>1, <2>2
  <1>4. R \in Seq(Row) /\ DOMAIN R = DOMAIN m.rows
    BY <1>1, <1>3, RowsMapped
  <1> HIDE DEF n, R
  <1>5. /\ n \in Mirrors /\ n.rows = R
        /\ n.ignored = m.ignored /\ n.stream = m.stream /\ n.held = m.held
        /\ n.generation = m.generation /\ n.stamp = m.stamp
    BY <1>1, <1>2, <1>4, WithRows
  <1>6. Updated(m, n, t, x)
    BY <1>3, <1>4, <1>5 DEF Updated
  <1> QED BY <1>6 DEF n

LEMMA QueuedAfter ==
  ASSUME NEW m \in GoodMirrors, NEW t \in Turn \ m.ignored, HasRow(m, t)
  PROVE  UpdateTurn(m, t, "queued", RowOf(m, t).result) \in After(m, {})
  <1> DEFINE z == RowOf(m, t).result
             n == UpdateTurn(m, t, "queued", z)
  <1>1. m \in Mirrors /\ m.rows \in Seq(Row)
    BY DEF GoodMirrors, Mirrors
  <1>2. z \in Result
    <2>1. PICK i \in DOMAIN m.rows : RowOf(m, t) = m.rows[i]
      BY DEF HasRow, RowOf
    <2>2. \A r \in Row : r.result \in Result
      BY DEF Row
    <2>3. m.rows[i] \in Row
      BY <1>1
    <2> QED BY <2>1, <2>2, <2>3
  <1> HIDE DEF z, n
  <1>9. Updated(m, n, t, "queued")
    BY <1>1, <1>2, UpdateIs DEF n
  <1>3. /\ n \in Mirrors /\ DOMAIN n.rows = DOMAIN m.rows
        /\ n.ignored = m.ignored /\ n.stream = m.stream /\ n.held = m.held
        /\ n.generation = m.generation /\ n.stamp = m.stamp
    BY <1>9 DEF Updated
  <1>4. \A u \in Turn : Text(n, u) = Text(m, u) /\ Text(m, u) \in Nat
    BY <1>1, <1>3 DEF Text, Mirrors
  <1>5. \A i \in DOMAIN m.rows :
           /\ n.rows[i].turn = m.rows[i].turn
           /\ m.rows[i].turn \in m.ignored => n.rows[i] = m.rows[i]
           /\ n.rows[i].state = "settled" <=> m.rows[i].turn \in n.ignored
    BY <1>9 DEF GoodMirrors, Updated
  <1>6. n \in After(m, {})
    BY <1>3, <1>4, <1>5, InPlace DEF GoodMirrors
  <1> QED BY <1>6 DEF n, z

LEMMA SettleAfter ==
  ASSUME NEW m \in GoodMirrors, NEW t \in Turn \ m.ignored, NEW z \in Result
  PROVE  SettleTurn(m, t, z) \in After(m, {t})
  <1> DEFINE o == [m EXCEPT !.ignored = @ \cup {t}, !.stream[t] = 0]
             n == SettleTurn(m, t, z)
  <1>1. m \in Mirrors
    BY DEF GoodMirrors
  <1>2. /\ o \in Mirrors /\ o.rows = m.rows /\ o.ignored = m.ignored \cup {t} /\ o.held = m.held
        /\ o.generation = m.generation /\ o.stamp = m.stamp
        /\ \A u \in Turn : o.stream[u] = IF u = t THEN 0 ELSE m.stream[u]
    BY <1>1 DEF Mirrors
  <1>3. n = UpdateTurn(o, t, "settled", z)
    BY DEF SettleTurn
  <1> HIDE DEF o, n
  <1>9. Updated(o, n, t, "settled")
    BY <1>2, <1>3, UpdateIs
  <1>4. /\ n \in Mirrors /\ DOMAIN n.rows = DOMAIN m.rows
        /\ n.ignored = o.ignored /\ n.stream = o.stream /\ n.held = m.held
        /\ n.generation = m.generation /\ n.stamp = m.stamp
    BY <1>2, <1>9 DEF Updated
  <1>5. \A u \in Turn : /\ Text(n, u) <= Text(m, u)
                        /\ u \notin n.ignored => Text(n, u) = Text(m, u)
    <2>1. \A u \in Turn : m.stream[u] \in Nat /\ m.held[u] \in Nat
      BY <1>1 DEF Mirrors
    <2> QED BY <1>2, <1>4, <2>1 DEF Text
  <1>6. \A i \in DOMAIN m.rows :
           /\ n.rows[i].turn = m.rows[i].turn
           /\ m.rows[i].turn \in m.ignored => n.rows[i] = m.rows[i]
           /\ n.rows[i].state = "settled" <=> m.rows[i].turn \in n.ignored
    BY <1>2, <1>9 DEF GoodMirrors, Updated
  <1>7. \A u \in Turn : n.stream[u] # 0 => HasRow(m, u) /\ u \notin n.ignored
    BY <1>2, <1>4 DEF GoodMirrors
  <1>8. n \in After(m, {t})
    BY <1>2, <1>4, <1>5, <1>6, <1>7, InPlace DEF GoodMirrors
  <1> QED BY <1>8 DEF n

\* What the coalescer holds of a turn with a row is shown.
LEMMA ShowAfter ==
  ASSUME NEW m \in GoodMirrors, NEW t \in Turn \ m.ignored, HasRow(m, t)
  PROVE  [AppendDelta(m, t, m.held[t]) EXCEPT !.held[t] = 0] \in After(m, {})
  <1> DEFINE n == [AppendDelta(m, t, m.held[t]) EXCEPT !.held[t] = 0]
  <1>1. m \in Mirrors
    BY DEF GoodMirrors
  <1> DEFINE str == [m.stream EXCEPT ![t] = m.stream[t] + m.held[t]]
             hel == [m.held EXCEPT ![t] = 0]
  <1>9. \A u \in Turn : m.stream[u] \in Nat /\ m.held[u] \in Nat
    BY <1>1 DEF Mirrors
  <1>8. str \in [Turn -> Nat] /\ hel \in [Turn -> Nat]
    BY <1>1, <1>9 DEF Mirrors
  <1>7. /\ str[t] = m.stream[t] + m.held[t] /\ hel[t] = 0
        /\ \A u \in Turn \ {t} : str[u] = m.stream[u] /\ hel[u] = m.held[u]
    BY <1>1 DEF Mirrors
  <1>6. n = [m EXCEPT !.stream = str, !.held = hel]
    BY <1>1 DEF Mirrors, AppendDelta
  <1> HIDE DEF n, str, hel
  <1>2. /\ n \in Mirrors /\ n.rows = m.rows /\ n.ignored = m.ignored
        /\ n.generation = m.generation /\ n.stamp = m.stamp /\ n.stream = str /\ n.held = hel
    BY <1>1, <1>6, <1>8 DEF Mirrors
  <1>3. \A u \in Turn : Text(n, u) = Text(m, u) /\ Text(m, u) \in Nat
    <2>1. Text(n, t) = Text(m, t)
      BY <1>2, <1>7, <1>9 DEF Text
    <2>2. \A u \in Turn \ {t} : Text(n, u) = Text(m, u)
      BY <1>2, <1>7 DEF Text
    <2> QED BY <1>9, <2>1, <2>2 DEF Text
  <1>4. \A u \in Turn : n.stream[u] # 0 => HasRow(m, u) /\ u \notin n.ignored
    BY <1>2, <1>7 DEF GoodMirrors
  <1>5. n \in After(m, {})
    BY <1>2, <1>3, <1>4, InPlace DEF GoodMirrors
  <1> QED BY <1>5 DEF n

LEMMA DropHeldAfter ==
  ASSUME NEW m \in GoodMirrors, NEW t \in m.ignored
  PROVE  [m EXCEPT !.held[t] = 0] \in After(m, {})
  <1> DEFINE n == [m EXCEPT !.held[t] = 0]
  <1>1. m \in Mirrors
    BY DEF GoodMirrors
  <1>2. /\ n \in Mirrors /\ n.rows = m.rows /\ n.ignored = m.ignored
        /\ n.generation = m.generation /\ n.stamp = m.stamp /\ n.stream = m.stream
        /\ \A u \in Turn : n.held[u] = IF u = t THEN 0 ELSE m.held[u]
    BY <1>1 DEF Mirrors
  <1> HIDE DEF n
  <1>3. \A u \in Turn : /\ Text(n, u) <= Text(m, u)
                        /\ u \notin n.ignored => Text(n, u) = Text(m, u)
    <2>1. \A u \in Turn : m.stream[u] \in Nat /\ m.held[u] \in Nat
      BY <1>1 DEF Mirrors
    <2> QED BY <1>2, <2>1 DEF Text
  <1>4. n \in After(m, {})
    BY <1>2, <1>3, InPlace DEF GoodMirrors
  <1> QED BY <1>4 DEF n

\* w has rows of turns outside T, each once.
RowsWithout(rows, T, w) ==
  /\ w \in Seq(Row)
  /\ \A i \in DOMAIN w : w[i].turn \notin T /\ \E j \in DOMAIN rows : rows[j] = w[i]
  /\ \A j \in DOMAIN rows : rows[j].turn \notin T => \E i \in DOMAIN w : w[i] = rows[j]
  /\ \A i, j \in DOMAIN w : i # j =>
       \E k, l \in DOMAIN rows : k # l /\ rows[k] = w[i] /\ rows[l] = w[j]

LEMMA WithoutIs ==
  ASSUME NEW rows \in Seq(Row), NEW T
  PROVE  RowsWithout(rows, T, Without(rows, T))
  <1> DEFINE K == {r \in ToSet(rows) : r.turn \notin T}
             w == Only(rows, K)
  <1>1. Without(rows, T) = w
    BY DEF Without
  <1>2. /\ w \in Seq(Row)
        /\ \A i \in DOMAIN w : w[i] \in K /\ \E j \in DOMAIN rows : rows[j] = w[i]
        /\ \A j \in DOMAIN rows : rows[j] \in K => \E i \in DOMAIN w : w[i] = rows[j]
        /\ \A i, j \in DOMAIN w : i # j =>
             \E k, l \in DOMAIN rows : k # l /\ rows[k] = w[i] /\ rows[l] = w[j]
    <2> HIDE DEF K
    <2> QED BY OnlyIs
  <1>3. \A j \in DOMAIN rows : rows[j] \in K <=> rows[j].turn \notin T
    BY DEF ToSet
  <1>4. \A r \in K : r.turn \notin T
    OBVIOUS
  <1> HIDE DEF K, w
  <1> QED BY <1>1, <1>2, <1>3, <1>4 DEF RowsWithout

\* An operation that drops the rows of some turns, and ignores at most these from then on.
LEMMA RowsLess ==
  ASSUME NEW m \in GoodMirrors, NEW n \in Mirrors, NEW T,
         RowsWithout(m.rows, T, n.rows),
         m.ignored \subseteq n.ignored, n.ignored \subseteq m.ignored \cup T,
         n.generation # 0, \A t \in Turn : n.stamp[t] \in {0, n.generation},
         \A t \in Turn : n.stream[t] # 0 => HasRow(m, t) /\ t \notin T \cup n.ignored
  PROVE  n \in GoodMirrors /\ Keeps(m, n) /\ VisibleTurns(n) \subseteq VisibleTurns(m) \ T
  <1>1. VisibleTurns(n) \subseteq VisibleTurns(m) \ T
    BY DEF VisibleTurns, RowsWithout
  <1>2. Keeps(m, n)
    BY DEF Keeps, RowsWithout
  <1>3. \A i, j \in DOMAIN n.rows : n.rows[i].turn = n.rows[j].turn => i = j
    <2> SUFFICES ASSUME NEW i \in DOMAIN n.rows, NEW j \in DOMAIN n.rows, i # j
                 PROVE  n.rows[i].turn # n.rows[j].turn
      OBVIOUS
    <2>1. PICK k \in DOMAIN m.rows, l \in DOMAIN m.rows :
            k # l /\ m.rows[k] = n.rows[i] /\ m.rows[l] = n.rows[j]
      BY DEF RowsWithout
    <2> QED BY <2>1 DEF GoodMirrors
  <1>4. \A i \in DOMAIN n.rows : n.rows[i].state = "settled" <=> n.rows[i].turn \in n.ignored
    <2> SUFFICES ASSUME NEW i \in DOMAIN n.rows
                 PROVE  n.rows[i].state = "settled" <=> n.rows[i].turn \in n.ignored
      OBVIOUS
    <2>1. PICK j \in DOMAIN m.rows : m.rows[j] = n.rows[i]
      BY DEF RowsWithout
    <2>2. n.rows[i].turn \notin T
      BY DEF RowsWithout
    <2> QED BY <2>1, <2>2 DEF GoodMirrors
  <1>5. \A t \in Turn : n.stream[t] # 0 => HasRow(n, t) /\ t \notin n.ignored
    BY DEF HasRow, RowsWithout
  <1> QED BY <1>1, <1>2, <1>3, <1>4, <1>5 DEF GoodMirrors

LEMMA RemoveAfter ==
  ASSUME NEW m \in GoodMirrors, NEW t \in Turn
  PROVE  RemoveTurn(m, t) \in After(m, {t})
  <1>1. CASE ~HasRow(m, t)
    BY <1>1, AfterSelf DEF RemoveTurn
  <1>2. CASE HasRow(m, t)
    <2> DEFINE w == Without(m.rows, {t})
               str == [m.stream EXCEPT ![t] = 0]
               n == [m EXCEPT !.ignored = @ \cup {t}, !.stream = str, !.rows = w]
    <2>1. RemoveTurn(m, t) = n
      BY <1>2 DEF RemoveTurn
    <2>2. m \in Mirrors /\ m.rows \in Seq(Row)
      BY DEF GoodMirrors, Mirrors
    <2>3. RowsWithout(m.rows, {t}, w)
      BY <2>2, WithoutIs
    <2>4. str \in [Turn -> Nat] /\ str[t] = 0 /\ \A u \in Turn \ {t} : str[u] = m.stream[u]
      BY <2>2 DEF Mirrors
    <2>5. w \in Seq(Row)
      BY <2>3 DEF RowsWithout
    <2> HIDE DEF w, str
    <2>6. /\ n \in Mirrors /\ n.rows = w /\ n.ignored = m.ignored \cup {t} /\ n.held = m.held
          /\ n.generation = m.generation /\ n.stamp = m.stamp /\ n.stream = str
      BY <2>2, <2>4, <2>5 DEF Mirrors
    <2> HIDE DEF n
    <2>7. \A u \in Turn : n.stream[u] # 0 => HasRow(m, u) /\ u \notin {t} \cup n.ignored
      BY <2>4, <2>6 DEF GoodMirrors
    <2>8. n.generation # 0 /\ \A u \in Turn : n.stamp[u] \in {0, n.generation}
      BY <2>6 DEF GoodMirrors
    <2>9. /\ n \in GoodMirrors /\ Keeps(m, n)
          /\ VisibleTurns(n) \subseteq VisibleTurns(m) \ {t}
      BY <2>3, <2>6, <2>7, <2>8, RowsLess
    <2>10. \A u \in Turn : /\ Text(n, u) <= Text(m, u)
                           /\ u \notin n.ignored => Text(n, u) = Text(m, u)
      <3>1. \A u \in Turn : m.stream[u] \in Nat /\ m.held[u] \in Nat
        BY <2>2 DEF Mirrors
      <3> QED BY <2>4, <2>6, <3>1 DEF Text
    <2>11. Known(n) \subseteq Known(m) \cup {t}
      BY <2>6, <2>9 DEF Known
    <2> QED BY <2>1, <2>9, <2>10, <2>11 DEF After
  <1> QED BY <1>1, <1>2

\* An event other than text, of a turn not ignored.
LEMMA ReduceAfter ==
  ASSUME NEW m \in GoodMirrors, NEW e, e.turn \in Turn \ m.ignored,
         e.type \in {"enqueued", "activated", "settled"},
         e.type = "enqueued" => e.state \in {"active", "queued"},
         e.type = "settled" => e.result \in Result
  PROVE  ReduceKnown(m, e) \in After(m, {e.turn})
  <1> DEFINE t == e.turn
             o == StampTurnGeneration(m, t)
             n == EnsureTurn(o, e)
             q == RowOf(n, t).result
  <1>1. o \in After(m, {}) /\ o \in GoodMirrors /\ o.ignored = m.ignored
    BY StampAfter DEF After
  <1> HIDE DEF o
  <1>2. n \in After(o, {t}) /\ n.ignored = o.ignored /\ HasRow(n, t)
    BY <1>1, EnsureAfter
  <1> HIDE DEF n
  <1>3. n \in After(m, {t}) /\ n \in GoodMirrors /\ t \in Turn \ n.ignored
    <2>1. n \in After(m, {} \cup {t})
      BY <1>1, <1>2, AfterMore
    <2> QED BY <1>1, <1>2, <2>1 DEF After
  <1>4. ReduceKnown(m, e) = CASE e.type = "enqueued"   -> SetTurnState(n, t, e.state)
        [] e.type = "activated"  -> ActivateTurn(n, t)
        [] e.type = "tokenDelta" -> AppendDelta(n, t, e.chunks)
        [] e.type = "settled"    -> SettleTurn(n, t, e.result)
    BY DEF ReduceKnown, n, o
  <1>5. ActivateTurn(n, t) \in After(n, {})
    BY <1>3, ActivateAfter
  <1>6. UpdateTurn(n, t, "queued", q) \in After(n, {})
    BY <1>2, <1>3, QueuedAfter
  <1>7. e.type = "settled" => SettleTurn(n, t, e.result) \in After(n, {t})
    BY <1>3, SettleAfter
  <1>8. ReduceKnown(m, e) \in After(n, {}) \cup After(n, {t})
    <2>1. CASE e.type = "enqueued"
      <3>1. ReduceKnown(m, e) = SetTurnState(n, t, e.state)
        BY <1>4, <2>1
      <3> QED BY <1>5, <1>6, <2>1, <3>1 DEF SetTurnState
    <2>2. CASE e.type = "activated"
      BY <1>4, <1>5, <2>2
    <2>3. CASE e.type = "settled"
      BY <1>4, <1>7, <2>3
    <2> QED BY <2>1, <2>2, <2>3
  <1>9. ReduceKnown(m, e) \in After(n, {t})
    BY <1>8 DEF After
  <1>10. ReduceKnown(m, e) \in After(m, {t} \cup {t})
    BY <1>3, <1>9, AfterMore
  <1> QED BY <1>10

\* The text of a turn is flushed.
LEMMA FlushAfter ==
  ASSUME NEW m \in GoodMirrors, NEW t \in Turn
  PROVE  FlushCoalescer(m, t) \in After(m, {t})
  <1> DEFINE e == Delta(t, m.held[t])
             o == StampTurnGeneration(m, t)
             n == EnsureTurn(o, e)
  <1>0. e.turn = t /\ e.type = "tokenDelta" /\ e.chunks = m.held[t]
    BY DEF Delta
  <1>1. CASE m.held[t] = 0
    BY <1>1, AfterSelf DEF FlushCoalescer
  <1>2. CASE m.held[t] # 0 /\ t \in m.ignored
    <2>1. FlushCoalescer(m, t) = [m EXCEPT !.held[t] = 0]
      BY <1>0, <1>2 DEF FlushCoalescer, ReduceTranscriptEvent
    <2> QED BY <1>2, <2>1, DropHeldAfter, AfterWider
  <1>3. CASE m.held[t] # 0 /\ t \notin m.ignored
    <2>1. FlushCoalescer(m, t) = [ReduceTranscriptEvent(m, e) EXCEPT !.held[t] = 0]
      BY <1>3 DEF FlushCoalescer
    <2>2. m.stamp[t] \in {0, m.generation}
      BY DEF GoodMirrors
    <2>3. ReduceTranscriptEvent(m, e) = ReduceKnown(m, e)
      BY <1>0, <1>3, <2>2 DEF ReduceTranscriptEvent
    <2>4. ReduceKnown(m, e) = AppendDelta(n, t, m.held[t])
      BY <1>0 DEF ReduceKnown
    <2>5. o \in After(m, {}) /\ o \in GoodMirrors /\ o.ignored = m.ignored /\ o.held = m.held
      BY StampAfter DEF After
    <2> HIDE DEF o, e
    <2>6. n \in After(o, {t}) /\ n.ignored = o.ignored /\ HasRow(n, t) /\ n.held = o.held
      BY <1>0, <1>3, <2>5, EnsureAfter
    <2> HIDE DEF n
    <2>7. n \in After(m, {t}) /\ n \in GoodMirrors
      <3>1. n \in After(m, {} \cup {t})
        BY <2>5, <2>6, AfterMore
      <3> QED BY <2>6, <3>1 DEF After
    <2>8. [AppendDelta(n, t, n.held[t]) EXCEPT !.held[t] = 0] \in After(n, {})
      BY <1>3, <2>5, <2>6, <2>7, ShowAfter
    <2>9. FlushCoalescer(m, t) \in After(n, {})
      BY <2>1, <2>3, <2>4, <2>5, <2>6, <2>8
    <2>10. FlushCoalescer(m, t) \in After(m, {t} \cup {})
      BY <2>7, <2>9, AfterMore
    <2> QED BY <2>10
  <1> QED BY <1>1, <1>2, <1>3

LEMMA EventAfter ==
  ASSUME NEW m \in GoodMirrors, NEW e, e.turn \in Turn,
         e.type \in {"enqueued", "activated", "settled", "removed"},
         e.type = "enqueued" => e.state \in {"active", "queued"},
         e.type = "settled" => e.result \in Result
  PROVE  TranscriptEvent(m, e) \in After(m, {e.turn})
  <1> DEFINE t == e.turn
             n == FlushCoalescer(m, t)
  <1>1. TranscriptEvent(m, e) = ReduceTranscriptEvent(n, e)
    BY DEF TranscriptEvent
  <1>2. n \in After(m, {t}) /\ n \in GoodMirrors
    BY FlushAfter DEF After
  <1> HIDE DEF n
  <1>3. n.stamp[t] \in {0, n.generation}
    BY <1>2 DEF GoodMirrors
  <1>4. ReduceTranscriptEvent(n, e) \in After(n, {t})
    <2>1. CASE t \in n.ignored
      BY <1>2, <2>1, AfterSelf DEF ReduceTranscriptEvent
    <2>2. CASE t \notin n.ignored /\ e.type = "removed"
      BY <1>2, <2>2, RemoveAfter DEF ReduceTranscriptEvent
    <2>3. CASE t \notin n.ignored /\ e.type # "removed"
      <3>1. ReduceKnown(n, e) \in After(n, {t})
        BY <1>2, <2>3, ReduceAfter
      <3> QED BY <1>3, <2>3, <3>1 DEF ReduceTranscriptEvent
    <2> QED BY <2>1, <2>2, <2>3
  <1>5. TranscriptEvent(m, e) \in After(m, {t} \cup {t})
    BY <1>1, <1>2, <1>4, AfterMore
  <1> QED BY <1>5

\* The turns of a sequence end with a transport error.
LEMMA FailuresAfter ==
  ASSUME NEW m \in GoodMirrors, NEW s \in Seq(Turn)
  PROVE  FoldLeft(TransportFailure, m, s) \in After(m, ToSet(s))
  <1> DEFINE M == After(m, ToSet(s))
  <1>1. m \in M
    BY AfterSelf
  <1>2. ASSUME NEW n \in M, NEW t \in ToSet(s) PROVE TransportFailure(n, t) \in M
    <2>1. t \in Turn /\ n \in GoodMirrors
      BY DEF ToSet, After
    <2>2. TransportFailure(n, t) \in After(n, {t})
      <3> DEFINE e == Settled(t, "error")
      <3>1. e.turn = t /\ e.type = "settled" /\ e.result \in Result
        BY DEF Settled, Result
      <3> HIDE DEF e
      <3>2. TranscriptEvent(n, e) \in After(n, {t})
        BY <2>1, <3>1, EventAfter
      <3> QED BY <3>2 DEF TransportFailure, e
    <2>3. TransportFailure(n, t) \in After(m, ToSet(s) \cup {t})
      BY <2>2, AfterMore
    <2>4. ToSet(s) \cup {t} = ToSet(s)
      OBVIOUS
    <2> QED BY <2>3, <2>4
  <1>3. s \in Seq(ToSet(s))
    BY DEF ToSet
  <1> HIDE DEF M
  <1>4. FoldLeft(TransportFailure, m, s) \in M
    BY <1>1, <1>2, <1>3, FoldStays
  <1> QED BY <1>4 DEF M

LEMMA SettleLocalAfter ==
  ASSUME NEW m \in GoodMirrors, NEW T \in SUBSET Turn, \A t \in T : Text(m, t) = 0
  PROVE  SettleLocalSubmitFailure(m, T) \in After(m, T)
  <1> DEFINE n == SettleLocalSubmitFailure(m, T)
             R == [i \in DOMAIN m.rows |->
                    IF m.rows[i].turn \in T THEN [m.rows[i] EXCEPT !.state = "settled"]
                    ELSE m.rows[i]]
  <1>1. m \in Mirrors /\ m.rows \in Seq(Row)
    BY DEF GoodMirrors, Mirrors
  <1>2. n = [m EXCEPT !.rows = R, !.ignored = m.ignored \cup T, !.notices = m.notices \cup T]
    BY DEF SettleLocalSubmitFailure
  <1>3. ASSUME NEW i \in DOMAIN m.rows
        PROVE  /\ R[i] \in Row /\ R[i].turn = m.rows[i].turn
               /\ m.rows[i].state = "settled" => R[i] = m.rows[i]
               /\ R[i].state = IF m.rows[i].turn \in T THEN "settled" ELSE m.rows[i].state
    <2>1. m.rows[i] \in Row
      BY <1>1
    <2>2. LET s == [m.rows[i] EXCEPT !.state = "settled"]
          IN  s \in Row /\ s.turn = m.rows[i].turn /\ s.state = "settled"
      BY <2>1, RowSet
    <2>3. m.rows[i].state = "settled" => [m.rows[i] EXCEPT !.state = "settled"] = m.rows[i]
      BY <2>1 DEF Row
    <2> QED BY <2>1, <2>2, <2>3
  <1>4. R \in Seq(Row) /\ DOMAIN R = DOMAIN m.rows
    BY <1>1, <1>3, RowsMapped
  <1> HIDE DEF n, R
  <1>5. /\ n \in Mirrors /\ n.rows = R /\ n.ignored = m.ignored \cup T
        /\ n.stream = m.stream /\ n.held = m.held
        /\ n.generation = m.generation /\ n.stamp = m.stamp
    BY <1>1, <1>2, <1>4 DEF Mirrors
  <1>6. \A u \in Turn : Text(n, u) = Text(m, u) /\ Text(m, u) \in Nat
    BY <1>1, <1>5 DEF Text, Mirrors
  <1>7. \A u \in Turn : n.stream[u] # 0 => HasRow(m, u) /\ u \notin n.ignored
    <2>1. \A t \in T : m.stream[t] = 0
      BY <1>1 DEF Text, Mirrors
    <2> QED BY <1>5, <2>1 DEF GoodMirrors
  <1>8. \A i \in DOMAIN m.rows :
           /\ n.rows[i].turn = m.rows[i].turn
           /\ m.rows[i].turn \in m.ignored => n.rows[i] = m.rows[i]
           /\ n.rows[i].state = "settled" <=> m.rows[i].turn \in n.ignored
    BY <1>3, <1>5 DEF GoodMirrors
  <1>9. n \in After(m, T)
    BY <1>4, <1>5, <1>6, <1>7, <1>8, InPlace DEF GoodMirrors
  <1> QED BY <1>9 DEF n

LEMMA DiscardAfter ==
  ASSUME NEW m \in GoodMirrors, NEW T \in SUBSET Turn, \A t \in T : Text(m, t) = 0
  PROVE  DiscardLocalSubmit(m, T) \in After(m, T)
  <1> DEFINE w == Without(m.rows, T)
             n == [m EXCEPT !.rows = w, !.ignored = m.ignored \cup T]
  <1>1. DiscardLocalSubmit(m, T) = n
    BY DEF DiscardLocalSubmit
  <1>2. m \in Mirrors /\ m.rows \in Seq(Row)
    BY DEF GoodMirrors, Mirrors
  <1>3. RowsWithout(m.rows, T, w)
    BY <1>2, WithoutIs
  <1>4. w \in Seq(Row)
    BY <1>3 DEF RowsWithout
  <1> HIDE DEF w
  <1>5. /\ n \in Mirrors /\ n.rows = w /\ n.ignored = m.ignored \cup T /\ n.held = m.held
        /\ n.generation = m.generation /\ n.stamp = m.stamp /\ n.stream = m.stream
    BY <1>2, <1>4 DEF Mirrors
  <1> HIDE DEF n
  <1>6. \A u \in Turn : n.stream[u] # 0 => HasRow(m, u) /\ u \notin T \cup n.ignored
    <2>1. \A t \in T : m.stream[t] = 0
      BY <1>2 DEF Text, Mirrors
    <2> QED BY <1>5, <2>1 DEF GoodMirrors
  <1>7. n.generation # 0 /\ \A u \in Turn : n.stamp[u] \in {0, n.generation}
    BY <1>5 DEF GoodMirrors
  <1>8. n \in GoodMirrors /\ Keeps(m, n) /\ VisibleTurns(n) \subseteq VisibleTurns(m) \ T
    BY <1>3, <1>5, <1>6, <1>7, RowsLess
  <1>9. \A u \in Turn : Text(n, u) = Text(m, u) /\ Text(m, u) \in Nat
    BY <1>2, <1>5 DEF Text, Mirrors
  <1>10. Known(n) \subseteq Known(m) \cup T
    BY <1>5, <1>8 DEF Known
  <1> QED BY <1>1, <1>8, <1>9, <1>10 DEF After

\* The optimistic row of a turn the mirror has not heard of.
LEMMA PromptAfter ==
  ASSUME NEW m \in GoodMirrors, NEW t \in Turn \ Known(m)
  PROVE  AppendPrompt(m, t) \in After(m, {t}) /\ Text(AppendPrompt(m, t), t) = Text(m, t)
  <1> DEFINE r == [turn |-> t, text |-> TRUE, state |-> "active", result |-> "none"]
             n == [m EXCEPT !.rows = Append(@, r)]
  <1>1. AppendPrompt(m, t) = n
    BY DEF AppendPrompt
  <1>2. r \in Row /\ r.turn = t /\ r.state # "settled"
    BY DEF Row, Result
  <1> HIDE DEF r
  <1>3. n \in After(m, {t}) /\ n.stream = m.stream /\ n.held = m.held
    BY <1>2, RowMore
  <1> QED BY <1>1, <1>3 DEF Text

LEMMA CaptureAfter ==
  ASSUME NEW m \in GoodMirrors, NEW s \in Session
  PROVE  [m EXCEPT !.current = s] \in After(m, {})
  <1> DEFINE n == [m EXCEPT !.current = s]
  <1>1. m \in Mirrors
    BY DEF GoodMirrors
  <1>2. /\ n \in Mirrors /\ n.rows = m.rows /\ n.ignored = m.ignored /\ n.held = m.held
        /\ n.generation = m.generation /\ n.stamp = m.stamp /\ n.stream = m.stream
    BY <1>1 DEF Mirrors
  <1> HIDE DEF n
  <1>3. \A u \in Turn : Text(n, u) = Text(m, u) /\ Text(m, u) \in Nat
    BY <1>1, <1>2 DEF Text, Mirrors
  <1>4. n \in After(m, {})
    BY <1>2, <1>3, InPlace DEF GoodMirrors
  <1> QED BY <1>4 DEF n

\* n is m in its next generation, without text, with these rows, stamps and turns to ignore.
Replaced(m, n, rows, stamp, ignored) ==
  /\ n \in Mirrors /\ n.rows = rows /\ n.ignored = ignored /\ n.stamp = stamp
  /\ n.generation = m.generation + 1 /\ n.generation # 0
  /\ \A t \in Turn : Text(n, t) = 0 /\ n.stream[t] = 0

LEMMA MirrorsAre ==
  ASSUME NEW m \in Mirrors, NEW rows \in Seq(Row), NEW stamp \in [Turn -> Nat],
         NEW ignored \in SUBSET Turn, NEW notices \in SUBSET Turn, NEW current \in Session,
         NEW n, n = [m EXCEPT !.held = Zero, !.generation = m.generation + 1,
                              !.ignored = ignored, !.rows = rows, !.notices = notices,
                              !.stream = Zero, !.stamp = stamp, !.current = current]
  PROVE  Replaced(m, n, rows, stamp, ignored)
  <1> DEFINE a == [m EXCEPT !.held = Zero, !.generation = m.generation + 1, !.ignored = ignored]
             b == [a EXCEPT !.rows = rows, !.notices = notices, !.stream = Zero]
  <1>1. Zero \in [Turn -> Nat] /\ \A t \in Turn : Zero[t] = 0
    BY DEF Zero
  <1>2. m.generation + 1 \in Nat /\ m.generation + 1 # 0
    BY DEF Mirrors
  <1>3. a \in Mirrors
    BY <1>1, <1>2 DEF Mirrors
  <1>4. b \in Mirrors
    <2> HIDE DEF a
    <2> QED BY <1>1, <1>3 DEF Mirrors
  <1>5. n = [b EXCEPT !.stamp = stamp, !.current = current]
    OBVIOUS
  <1>6. /\ n.rows = rows /\ n.ignored = ignored /\ n.stamp = stamp /\ n.held = Zero
        /\ n.stream = Zero /\ n.generation = m.generation + 1
    BY DEF Mirrors
  <1> HIDE DEF a, b
  <1>7. n \in Mirrors
    BY <1>4, <1>5 DEF Mirrors
  <1> QED BY <1>1, <1>2, <1>6, <1>7 DEF Text, Replaced

\* What the mirror comes to when its text is thrown away.
Wiped(m, n) ==
  /\ n \in GoodMirrors /\ Keeps(m, n) /\ Known(n) \subseteq Known(m)
  /\ \A t \in Turn : Text(n, t) = 0

LEMMA ClearIs ==
  ASSUME NEW m \in GoodMirrors
  PROVE  LET n == ClearTranscript(m)
         IN  /\ Wiped(m, n) /\ VisibleTurns(n) = {} /\ VisibleTurns(m) \subseteq n.ignored
  <1> DEFINE n == ClearTranscript(m)
  <1>1. m \in Mirrors /\ m.generation \in Nat /\ m.generation # 0 /\ m.ignored \subseteq Turn
    BY DEF GoodMirrors, Mirrors
  <1>2. VisibleTurns(m) \in SUBSET Turn
    <2>1. m.rows \in Seq(Row) /\ \A r \in Row : r.turn \in Turn
      BY <1>1 DEF Mirrors, Row
    <2> QED BY <2>1 DEF VisibleTurns
  <1>3. Zero \in [Turn -> Nat] /\ \A t \in Turn : Zero[t] = 0
    BY DEF Zero
  <1>4. n = [m EXCEPT !.held = Zero, !.generation = m.generation + 1,
               !.ignored = m.ignored \cup VisibleTurns(m), !.rows = <<>>, !.notices = {},
               !.stream = Zero, !.stamp = Zero, !.current = None]
    BY DEF ClearTranscript, IgnoredByClear
  <1> HIDE DEF n
  <1>5. /\ n \in Mirrors /\ n.rows = <<>> /\ n.ignored = m.ignored \cup VisibleTurns(m)
        /\ n.stamp = Zero /\ n.generation = m.generation + 1 /\ n.generation # 0
        /\ \A t \in Turn : Text(n, t) = 0 /\ n.stream[t] = 0
    <2> DEFINE ignored == m.ignored \cup VisibleTurns(m)
    <2>1. /\ ignored \in SUBSET Turn /\ {} \in SUBSET Turn
          /\ <<>> \in Seq(Row) /\ None \in Session
      BY <1>1, <1>2 DEF Session
    <2>2. n = [m EXCEPT !.held = Zero, !.generation = m.generation + 1,
                 !.ignored = ignored, !.rows = <<>>, !.notices = {},
                 !.stream = Zero, !.stamp = Zero, !.current = None]
      BY <1>4
    <2> HIDE DEF ignored
    <2>3. Replaced(m, n, <<>>, Zero, ignored)
      BY <1>1, <1>3, <2>1, <2>2, MirrorsAre
    <2> QED BY <2>3 DEF Replaced, ignored
  <1>6. VisibleTurns(n) = {} /\ DOMAIN n.rows = {}
    BY <1>5 DEF VisibleTurns
  <1>7. n \in GoodMirrors
    BY <1>1, <1>3, <1>5, <1>6 DEF GoodMirrors
  <1>8. Keeps(m, n)
    BY <1>5, <1>6 DEF Keeps
  <1>10. Wiped(m, n)
    BY <1>5, <1>6, <1>7, <1>8 DEF Known, Wiped
  <1> QED BY <1>5, <1>6, <1>10 DEF n

LEMMA ResetIs ==
  ASSUME NEW m \in GoodMirrors
  PROVE  Wiped(m, ResetTranscriptMirror(m))
  <1> DEFINE K == {t \in Turn : m.stamp[t] # 0}
             w == Without(m.rows, K)
             n == ResetTranscriptMirror(m)
  <1>1. m \in Mirrors /\ m.generation \in Nat /\ m.generation # 0 /\ m.ignored \subseteq Turn
    BY DEF GoodMirrors, Mirrors
  <1>2. m.rows \in Seq(Row) /\ RowsWithout(m.rows, K, w)
    <2>1. m.rows \in Seq(Row)
      BY <1>1 DEF Mirrors
    <2> QED BY <2>1, WithoutIs
  <1>3. Zero \in [Turn -> Nat] /\ \A t \in Turn : Zero[t] = 0
    BY DEF Zero
  <1> DEFINE ignored == m.ignored \cup (VisibleTurns(m) \cap K)
             a == [m EXCEPT !.held = Zero, !.generation = m.generation + 1, !.ignored = ignored]
             b == [a EXCEPT !.rows = w, !.stream = Zero]
  <1>4. n = [m EXCEPT !.held = Zero, !.generation = m.generation + 1, !.ignored = ignored,
               !.rows = w, !.stream = Zero, !.stamp = Zero, !.current = None]
    BY DEF ResetTranscriptMirror
  <1>5. w \in Seq(Row) /\ ignored \in SUBSET Turn
    BY <1>1, <1>2 DEF RowsWithout
  <1> HIDE DEF n, K, w, ignored
  <1>6. /\ n \in Mirrors /\ n.rows = w /\ n.ignored = ignored
        /\ n.stamp = Zero /\ n.generation = m.generation + 1 /\ n.generation # 0
        /\ \A t \in Turn : Text(n, t) = 0 /\ n.stream[t] = 0
    <2>1. None \in Session
      BY DEF Session
    <2>2. a \in Mirrors
      <3>1. m.generation + 1 \in Nat
        BY <1>1
      <3> QED BY <1>1, <1>3, <1>5, <3>1 DEF Mirrors
    <2>3. b \in Mirrors
      <3> HIDE DEF a
      <3> QED BY <1>3, <1>5, <2>2 DEF Mirrors
    <2>4. n = [b EXCEPT !.stamp = Zero, !.current = None]
      BY <1>4
    <2>5. /\ n.rows = w /\ n.ignored = ignored /\ n.stamp = Zero /\ n.held = Zero
          /\ n.stream = Zero /\ n.generation = m.generation + 1
      BY <1>1, <1>4 DEF Mirrors
    <2> HIDE DEF a, b
    <2>6. n \in Mirrors
      BY <1>3, <2>1, <2>3, <2>4 DEF Mirrors
    <2> QED BY <1>1, <1>3, <2>5, <2>6 DEF Text
  <1>7. \A t \in Turn : n.stamp[t] = 0
    BY <1>3, <1>6
  <1>8. n \in GoodMirrors /\ Keeps(m, n) /\ VisibleTurns(n) \subseteq VisibleTurns(m) \ K
    <2>1. m.ignored \subseteq n.ignored /\ n.ignored \subseteq m.ignored \cup K
      BY <1>6 DEF ignored
    <2>2. \A t \in Turn : n.stamp[t] \in {0, n.generation}
      BY <1>7
    <2>3. \A t \in Turn : n.stream[t] # 0 => HasRow(m, t) /\ t \notin K \cup n.ignored
      BY <1>6
    <2> QED BY <1>2, <1>6, <2>1, <2>2, <2>3, RowsLess
  <1>10. Wiped(m, n)
    BY <1>6, <1>8 DEF Known, Wiped, ignored
  <1> QED BY <1>10 DEF n

\* The stored session's rows replace everything.
LEMMA HydrateIs ==
  ASSUME NEW m \in GoodMirrors
  PROVE  LET n == HydrateResumedTranscript(m, Stored, Past)
         IN  /\ n \in GoodMirrors /\ Known(n) = ToSet(Past)
             /\ \A t \in Turn : Text(n, t) = 0
  <1> DEFINE n == HydrateResumedTranscript(m, Stored, Past)
             R == [i \in DOMAIN Past |->
                    [turn |-> Past[i], text |-> TRUE, state |-> "settled", result |-> "completed"]]
             S == [t \in Turn |-> IF t \in ToSet(Past) THEN m.generation + 1 ELSE 0]
  <1>1. m \in Mirrors /\ m.generation \in Nat
    BY DEF GoodMirrors, Mirrors
  <1>2. /\ Past \in Seq(Turn) /\ ToSet(Past) \in SUBSET Turn
        /\ \A i, j \in DOMAIN Past : Past[i] = Past[j] => i = j
    BY LinkAssumption DEF ToSet, IsInjective
  <1>3. Zero \in [Turn -> Nat] /\ \A t \in Turn : Zero[t] = 0
    BY DEF Zero
  <1>4. n = [m EXCEPT !.held = Zero, !.generation = m.generation + 1, !.ignored = ToSet(Past),
               !.rows = R, !.notices = {}, !.stream = Zero, !.stamp = S, !.current = Stored]
    BY DEF HydrateResumedTranscript
  <1>5. /\ R \in Seq(Row) /\ DOMAIN R = DOMAIN Past
        /\ \A i \in DOMAIN Past : R[i].turn = Past[i] /\ R[i].state = "settled"
    <2>1. DOMAIN Past = 1..Len(Past) /\ Len(Past) \in Nat /\ \A i \in 1..Len(Past) : Past[i] \in Turn
      BY <1>2
    <2>2. R \in [1..Len(Past) -> Row]
      BY <2>1 DEF Row, Result
    <2>3. R \in Seq(Row)
      BY <2>1, <2>2
    <2> QED BY <2>1, <2>3
  <1>6. S \in [Turn -> Nat] /\ \A t \in Turn : S[t] \in {0, m.generation + 1}
    BY <1>1
  <1> HIDE DEF n, R, S
  <1>7. /\ n \in Mirrors /\ n.rows = R /\ n.ignored = ToSet(Past)
        /\ n.stamp = S /\ n.generation = m.generation + 1 /\ n.generation # 0
        /\ \A t \in Turn : Text(n, t) = 0 /\ n.stream[t] = 0
    <2>1. Stored \in Session
      BY DEF Session
    <2>2. S \in [Turn -> Nat] /\ R \in Seq(Row) /\ {} \in SUBSET Turn
      BY <1>5, <1>6
    <2>3. Replaced(m, n, R, S, ToSet(Past))
      BY <1>1, <1>2, <1>4, <2>1, <2>2, MirrorsAre
    <2> QED BY <2>3 DEF Replaced
  <1>8. n \in GoodMirrors
    <2>1. \A i \in DOMAIN Past : Past[i] \in ToSet(Past)
      BY DEF ToSet
    <2> QED BY <1>2, <1>5, <1>6, <1>7, <2>1 DEF GoodMirrors
  <1>9. Known(n) = ToSet(Past)
    BY <1>5, <1>7 DEF Known, VisibleTurns, ToSet
  <1> QED BY <1>7, <1>8, <1>9 DEF n

-----------------------------------------------------------------------------
(* The backend's queue *)

LEMMA QueueKeeps ==
  ASSUME QueueInv, Backend!Next \/ UNCHANGED queueVars
  PROVE  QueueInv'
  <1> USE DEF QueueInv, Backend!TypeOK, Backend!Waiting, Backend!Running, Unended
  <1>1. CASE UNCHANGED queueVars
    BY <1>1 DEF queueVars, QueueOrdered
  <1>2. ASSUME NEW t \in Turn, Backend!Accept(t) PROVE QueueInv'
    BY <1>2 DEF Backend!Accept, QueueOrdered
  <1>3. ASSUME NEW t \in Turn, Backend!Refuse(t) PROVE QueueInv'
    <2>1. Backend!TypeOK'
      BY <1>3 DEF Backend!Refuse, Backend!Outcome
    <2>2. Backend!Waiting' = Backend!Waiting /\ Unended' = Unended
      BY <1>3 DEF Backend!Refuse
    <2>3. QueueOrdered'
      BY <1>3, <2>2 DEF Backend!Refuse, QueueOrdered
    <2> QED BY <2>1, <2>3
  <1>4. ASSUME NEW t \in Turn, Backend!Finish(t) PROVE QueueInv'
    <2>1. PICK o \in Backend!Outcome, goesOn \in BOOLEAN :
            LET next == {u \in Backend!Waiting : goesOn /\ ahead[u] = {t}}
            IN  /\ outcome' = [outcome EXCEPT ![t] = o]
                /\ stage' = [u \in Turn |-> IF u = t THEN "over"
                                            ELSE IF u \in next THEN "running" ELSE stage[u]]
      BY <1>4 DEF Backend!Finish
    <2>2. /\ stage[t] = "running" /\ condemned' = condemned \ {t}
          /\ ahead' = [u \in Turn |-> IF u = t THEN {} ELSE ahead[u] \ {t}]
      BY <1>4 DEF Backend!Finish
    <2>3. Backend!TypeOK'
      BY <2>1, <2>2
    <2>4. Backend!Waiting' \subseteq Backend!Waiting /\ Unended' = Unended \ {t}
      BY <2>1, <2>2
    <2>5. \A u \in Backend!Waiting : u # t /\ ahead'[u] = ahead[u] \ {t}
      BY <2>2
    <2>6. QueueOrdered'
      <3> HIDE DEF Unended, Backend!Waiting, Backend!Running
      <3> QED BY <2>4, <2>5 DEF QueueOrdered
    <2> QED BY <2>3, <2>6
  <1>5. CASE Backend!Drop
    <2>1. Backend!TypeOK'
      BY <1>5 DEF Backend!Drop
    <2>2. Backend!Waiting' = {}
      BY <1>5 DEF Backend!Drop
    <2> QED BY <2>1, <2>2 DEF QueueOrdered
  <1>6. CASE Backend!Condemn
    BY <1>6 DEF Backend!Condemn, QueueOrdered
  <1>7. CASE Backend!Die
    <2>1. Backend!TypeOK'
      BY <1>7 DEF Backend!Die
    <2>2. Backend!Waiting' = {}
      BY <1>7 DEF Backend!Die
    <2> QED BY <2>1, <2>2 DEF QueueOrdered
  <1> QED BY <1>1, <1>2, <1>3, <1>4, <1>5, <1>6, <1>7 DEF Backend!Next

\* The turns that wait have an order.
LEMMA WaitingOrdered ==
  ASSUME QueueInv
  PROVE  LET dropped == AcceptedOrder(Backend!Waiting)
         IN  dropped \in Seq(Backend!Waiting)
  <1> DEFINE W == Backend!Waiting
             rank == [t \in W |-> Cardinality(ahead[t] \cap W)]
  <1>1. IsFiniteSet(W) /\ W \in SUBSET Turn
    <2>1. W \in SUBSET Turn
      BY DEF Backend!Waiting
    <2> QED BY <2>1, LinkAssumption, FS_Subset
  <1>2. /\ \A t \in W : t \notin ahead[t]
        /\ \A t, u \in W : t # u => t \in ahead[u] \/ u \in ahead[t]
        /\ \A t, u \in W : t \in ahead[u] => ahead[t] \subseteq ahead[u]
    BY DEF QueueInv, QueueOrdered
  <1> HIDE DEF W
  <1>3. ASSUME NEW A \in SUBSET W, NEW t \in W, t \notin A
        PROVE  Cardinality(A) \in 0..(Cardinality(W) - 1)
    <2>1. IsFiniteSet(A) /\ Cardinality(A) <= Cardinality(W) /\ Cardinality(A) # Cardinality(W)
      BY <1>1, <1>3, FS_Subset
    <2>2. Cardinality(A) \in Nat /\ Cardinality(W) \in Nat
      BY <1>1, <2>1, FS_CardinalityType
    <2> QED BY <2>1, <2>2
  <1>4. rank \in [W -> 0..(Cardinality(W) - 1)]
    BY <1>2, <1>3
  <1>5. ASSUME NEW t \in W, NEW u \in W, t \in ahead[u] PROVE rank[t] # rank[u]
    <2>1. ahead[t] \cap W \in SUBSET (ahead[u] \cap W) /\ t \in ahead[u] \cap W
          /\ t \notin ahead[t] \cap W
      BY <1>2, <1>5
    <2>2. IsFiniteSet(ahead[u] \cap W)
      BY <1>1, FS_Intersection
    <2>3. Cardinality(ahead[t] \cap W) # Cardinality(ahead[u] \cap W)
      BY <2>1, <2>2, FS_Subset
    <2> QED BY <2>3
  <1>6. \A t, u \in W : rank[t] = rank[u] => t = u
    BY <1>2, <1>5
  <1>7. \A k \in 0..(Cardinality(W) - 1) : \E t \in W : rank[t] = k
    <2> HIDE DEF rank
    <2> QED BY <1>1, <1>4, <1>6, Ranks
  <1>8. Cardinality(W) \in Nat
    BY <1>1, FS_CardinalityType
  <1>9. \A i \in 1..Cardinality(W) :
          (CHOOSE t \in W : Cardinality(ahead[t] \cap W) = i - 1) \in W
    BY <1>7, <1>8
  <1>10. AcceptedOrder(W) \in Seq(W)
    <2>1. AcceptedOrder(W) \in [1..Cardinality(W) -> W]
      BY <1>9 DEF AcceptedOrder
    <2> QED BY <1>8, <2>1
  <1> QED BY <1>10 DEF W

LEMMA SetAsSeq ==
  ASSUME NEW S, IsFiniteSet(S)
  PROVE  SetToSeq(S) \in Seq(S)
  <1>1. Cardinality(S) \in Nat /\ ExistsBijection(1..Cardinality(S), S)
    BY FS_CardinalityType
  <1>2. PICK f \in [1..Cardinality(S) -> S] : IsInjective(f)
    BY <1>1 DEF ExistsBijection, Bijection, Injection, IsInjective
  <1>3. SetToSeq(S) \in [1..Cardinality(S) -> S]
    BY <1>2 DEF SetToSeq
  <1> QED BY <1>1, <1>3

-----------------------------------------------------------------------------
(* The pipe *)

\* The mirror came to hear of turns of T.
LEMMA MirrorHears ==
  ASSUME MirrorInv, NEW T, mirror' \in After(mirror, T), T \subseteq submitted' \cup ToSet(Past),
         submitted \subseteq submitted', UNCHANGED <<received, cleared, hydrated>>
  PROVE  /\ MirrorInv' /\ Keeps(mirror, mirror')
         /\ \A t \in Turn : Text(mirror', t) # 0 => Text(mirror, t) # 0
  <1>1. mirror' \in GoodMirrors /\ Keeps(mirror, mirror')
    BY DEF After
  <1>2. \A t \in Turn : Text(mirror', t) \in Nat /\ Text(mirror, t) \in Nat
    BY <1>1 DEF MirrorInv, GoodMirrors, Mirrors, Text
  <1>3. \A t \in Turn : Text(mirror', t) # 0 => Text(mirror, t) # 0
    BY <1>2 DEF After
  <1>4. KnownTurns'
    BY DEF MirrorInv, KnownTurns, After
  <1>5. mirror.ignored \subseteq mirror'.ignored
    BY <1>1 DEF Keeps
  <1>6. ClearedIgnored'
    <2>1. \A t \in mirror.ignored : t \in VisibleTurns(mirror') => t \in VisibleTurns(mirror)
      BY <1>1 DEF Keeps, VisibleTurns
    <2> QED BY <1>5, <2>1 DEF MirrorInv, ClearedIgnored
  <1>7. TextArrived'
    BY <1>5 DEF MirrorInv, TextArrived, After
  <1> QED BY <1>1, <1>3, <1>4, <1>6, <1>7 DEF MirrorInv

LEMMA MirrorStays ==
  ASSUME MirrorInv, mirror' = mirror, submitted \subseteq submitted',
         UNCHANGED <<received, cleared, hydrated>>
  PROVE  MirrorInv' /\ Keeps(mirror, mirror')
  <1>1. mirror' \in After(mirror, {})
    BY AfterSelf DEF MirrorInv
  <1> QED BY <1>1, MirrorHears

\* A request that is not a submit is sent or waits.
LEMMA AskMore ==
  ASSUME NEW q \in Seq(Requests), NEW r \in Requests, r.kind # "submit"
  PROVE  /\ Append(q, r) \in Seq(Requests) /\ (Once(q) => Once(Append(q, r)))
         /\ \A t : Asks(Append(q, r), t) <=> Asks(q, t)
  <1> DEFINE p == Append(q, r)
  <1>1. p \in Seq(Requests) /\ Len(p) = Len(q) + 1 /\ DOMAIN p = 1..Len(p)
        /\ DOMAIN q = 1..Len(q) /\ Len(q) \in Nat
    OBVIOUS
  <1>2. p[Len(p)] = r /\ \A i \in DOMAIN q : p[i] = q[i]
    OBVIOUS
  <1> HIDE DEF p
  <1>3. \A i \in DOMAIN p : i = Len(p) \/ i \in DOMAIN q
    BY <1>1
  <1>4. DOMAIN q \subseteq DOMAIN p
    BY <1>1
  <1>5. \A t : r # Request("submit", t)
    BY DEF Request
  <1>6. Once(q) => Once(p)
    BY <1>2, <1>3 DEF Once
  <1>7. \A t : Asks(p, t) <=> Asks(q, t)
    BY <1>2, <1>3, <1>4, <1>5 DEF Asks
  <1> QED BY <1>1, <1>6, <1>7 DEF p

\* The submit of a turn is sent or waits.
LEMMA AskSubmit ==
  ASSUME NEW q \in Seq(Requests), NEW t \in Turn, ~Asks(q, t)
  PROVE  LET p == Append(q, Request("submit", t))
         IN  /\ p \in Seq(Requests) /\ (Once(q) => Once(p))
             /\ \A u : Asks(p, u) <=> Asks(q, u) \/ u = t
  <1> DEFINE r == Request("submit", t)
             p == Append(q, r)
  <1>0. r \in Requests /\ r.kind = "submit" /\ \A u : r = Request("submit", u) <=> u = t
    BY DEF Request, Requests
  <1>1. p \in Seq(Requests) /\ Len(p) = Len(q) + 1 /\ DOMAIN p = 1..Len(p)
        /\ DOMAIN q = 1..Len(q) /\ Len(q) \in Nat
    BY <1>0
  <1>2. p[Len(p)] = r /\ \A i \in DOMAIN q : p[i] = q[i]
    BY <1>0
  <1>3. \A i \in DOMAIN q : q[i] # r
    BY DEF Asks
  <1> HIDE DEF p, r
  <1>4. (\A i \in DOMAIN p : i = Len(p) \/ i \in DOMAIN q) /\ Len(p) \in DOMAIN p
    BY <1>1
  <1>5. DOMAIN q \subseteq DOMAIN p
    BY <1>1
  <1>6. Once(q) => Once(p)
    BY <1>2, <1>3, <1>4 DEF Once
  <1>7. \A u : Asks(p, u) <=> Asks(q, u) \/ u = t
    BY <1>0, <1>2, <1>4, <1>5 DEF Asks
  <1> QED BY <1>1, <1>6, <1>7 DEF p, r

\* The first request is taken.
LEMMA AskLess ==
  ASSUME NEW q \in Seq(Requests), q # <<>>, Once(q)
  PROVE  /\ Head(q) \in Requests /\ Tail(q) \in Seq(Requests) /\ Once(Tail(q))
         /\ \A t : Asks(q, t) <=> Head(q) = Request("submit", t) \/ Asks(Tail(q), t)
         /\ \A t : ~(Head(q) = Request("submit", t) /\ Asks(Tail(q), t))
  <1> DEFINE p == Tail(q)
  <1>1. p \in Seq(Requests) /\ Len(p) = Len(q) - 1 /\ DOMAIN p = 1..Len(p)
        /\ DOMAIN q = 1..Len(q) /\ Len(q) \in Nat /\ Len(q) # 0 /\ Head(q) = q[1]
    OBVIOUS
  <1>2. \A i \in DOMAIN p : i + 1 \in DOMAIN q /\ p[i] = q[i + 1] /\ i + 1 # 1
    OBVIOUS
  <1> HIDE DEF p
  <1>3. 1 \in DOMAIN q /\ \A i \in DOMAIN q : i = 1 \/ i - 1 \in DOMAIN p
    BY <1>1
  <1>4. \A i \in DOMAIN q : i - 1 \in DOMAIN p => q[i] = p[i - 1]
    BY <1>1, <1>2
  <1>5. \A i, j \in DOMAIN p : i + 1 = j + 1 => i = j
    BY <1>1
  <1>6. Once(p)
    BY <1>2, <1>5 DEF Once
  <1>7. \A t : Asks(q, t) <=> Head(q) = Request("submit", t) \/ Asks(p, t)
    BY <1>1, <1>2, <1>3, <1>4, ZenonT(60) DEF Asks
  <1>8. \A t : Request("submit", t).kind = "submit"
    BY DEF Request
  <1>9. \A t : ~(Head(q) = Request("submit", t) /\ Asks(p, t))
    <2> SUFFICES ASSUME NEW t, Head(q) = Request("submit", t),
                        NEW i \in DOMAIN p, p[i] = Request("submit", t)
                 PROVE  FALSE
      BY DEF Asks
    <2>1. q[1].kind = "submit" /\ q[1] = q[i + 1] /\ i + 1 \in DOMAIN q /\ i + 1 # 1
      BY <1>1, <1>2, <1>8
    <2> QED BY <1>3, <2>1 DEF Once
  <1>10. Head(q) \in Requests
    BY <1>1, <1>3
  <1> QED BY <1>1, <1>6, <1>7, <1>9, <1>10 DEF p

Stages == [Turn -> {"new", "waiting", "running", "over"}]

\* What the backend may tell when its turns go from the stages s to z: of turns it heard of,
\* the acknowledgement when it hears of them, an end when they end, a compaction of the
\* turn that runs.
Tellable(events, s, z) ==
  \A k \in DOMAIN events :
    /\ events[k].turn \in Turn => z[events[k].turn] # "new"
    /\ events[k].type = "ack" => k = 1 /\ s[events[k].turn] = "new"
    /\ events[k].type \in {"settled", "removed"} => z[events[k].turn] = "over"
    /\ events[k].type = "removed" => s[events[k].turn] = "waiting"
    /\ events[k].type = "compactionStatus" =>
         k = 1 /\ s[events[k].turn] = "running" /\ z[events[k].turn] = "running"

\* How turns and the requests on their way move on, from u and s to w and z.
Advances(u, s, w, z) ==
  \A t \in Turn :
    /\ s[t] # "new" => z[t] # "new"
    /\ s[t] \in {"running", "over"} => z[t] \in {"running", "over"}
    /\ Asks(w, t) \/ z[t] \in {"waiting", "running"} =>
         Asks(u, t) \/ s[t] \in {"waiting", "running"}
    /\ Asks(w, t) => z[t] = "new"

LEMMA TurnsOfEvents ==
  ASSUME NEW e \in Events
  PROVE  e.type \in {"enqueued", "activated", "removed", "ack", "tokenDelta", "settled",
                     "compactionStatus"} => e.turn \in Turn
  BY DEF Events

\* The backend tells what happened.
LEMMA Told ==
  ASSUME NEW q \in Seq(Events), NEW events \in Seq(Events), NEW f,
         NEW u, NEW s \in Stages, NEW w, NEW z \in Stages,
         Piped(q, u, s, f), Tellable(events, s, z), Advances(u, s, w, z)
  PROVE  /\ Piped(q \o events, w, z, f)
         /\ \A t \in Turn : Begun(q, s, f, t) => Begun(q \o events, z, f, t)
         /\ \A t \in Turn : s[t] # "new" /\ ~Tells(q, "ack", t) => ~Tells(q \o events, "ack", t)
  <1> DEFINE p == q \o events
             n == Len(q)
             l == Len(events)
  <1>1. /\ n \in Nat /\ l \in Nat /\ DOMAIN q = 1..n /\ DOMAIN events = 1..l
        /\ DOMAIN p = 1..(n + l)
    OBVIOUS
  <1>2. \A i \in 1..n : p[i] = q[i] /\ q[i] \in Events
    OBVIOUS
  <1>3. \A k \in 1..l : p[n + k] = events[k] /\ events[k] \in Events
    OBVIOUS
  <1> HIDE DEF p, n, l
  <1>4. \A i \in 1..(n + l) : i \in 1..n \/ \E k \in 1..l : i = n + k
    <2> SUFFICES ASSUME NEW i \in 1..(n + l), i \notin 1..n PROVE \E k \in 1..l : i = n + k
      OBVIOUS
    <2>1. i - n \in 1..l /\ i = n + (i - n)
      BY <1>1
    <2> QED BY <2>1
  <1>5. \A i \in 1..n, k \in 1..l : i < n + k
    BY <1>1
  <1>6. /\ Heard(q, s) /\ Sent(q, u, s, f) /\ Folds(q, s, f)
    BY DEF Piped
  <1>7. \A type, t : Tells(p, type, t) =>
          Tells(q, type, t) \/ \E k \in 1..l : events[k].type = type /\ events[k].turn = t
    <2> SUFFICES ASSUME NEW type, NEW t, NEW i \in 1..(n + l), p[i].type = type, p[i].turn = t
                 PROVE  Tells(q, type, t) \/ \E k \in 1..l : events[k].type = type /\ events[k].turn = t
      BY <1>1 DEF Tells
    <2>1. CASE i \in 1..n
      BY <1>1, <1>2, <2>1 DEF Tells
    <2>2. ASSUME NEW k \in 1..l, i = n + k
          PROVE  \E h \in 1..l : events[h].type = type /\ events[h].turn = t
      <3>1. p[i] = events[k]
        BY <1>3, <2>2
      <3> QED BY <3>1
    <2> QED BY <1>4, <2>1, <2>2
  <1>8. Heard(p, z)
    <2>1. ASSUME NEW i \in 1..(n + l), p[i].turn \in Turn PROVE z[p[i].turn] # "new"
      <3>1. CASE i \in 1..n
        BY <1>1, <1>2, <1>6, <2>1, <3>1 DEF Heard, Advances
      <3>2. ASSUME NEW k \in 1..l, i = n + k PROVE z[p[i].turn] # "new"
        <4>1. p[i] = events[k]
          BY <1>3, <3>2
        <4> QED BY <1>1, <2>1, <4>1 DEF Tellable
      <3> QED BY <1>4, <3>1, <3>2
    <2>2. ASSUME NEW i \in 1..(n + l), NEW j \in 1..(n + l), i < j, p[j].type = "ack"
          PROVE  p[i].turn # p[j].turn
      <3>1. CASE j \in 1..n
        <4>1. i \in 1..n
          BY <1>1, <2>2, <3>1
        <4> QED BY <1>1, <1>2, <1>6, <2>2, <3>1, <4>1 DEF Heard
      <3>2. ASSUME NEW k \in 1..l, j = n + k PROVE p[i].turn # p[j].turn
        <4>1. p[j] = events[k] /\ events[k] \in Events
          BY <1>3, <3>2
        <4>2. k = 1 /\ s[events[k].turn] = "new" /\ events[k].turn \in Turn
          BY <1>1, <2>2, <4>1, TurnsOfEvents DEF Tellable
        <4>3. i \in 1..n /\ p[i] = q[i]
          <5>1. i \in 1..n
            BY <1>1, <2>2, <3>2, <4>2
          <5> QED BY <1>2, <5>1
        <4>4. q[i].turn \in Turn => s[q[i].turn] # "new"
          BY <1>1, <1>6, <4>3 DEF Heard
        <4> QED BY <4>1, <4>2, <4>3, <4>4
      <3> QED BY <1>4, <3>1, <3>2
    <2> QED BY <1>1, <2>1, <2>2 DEF Heard
  <1>9. Sent(p, w, z, f)
    <2> SUFFICES ASSUME NEW t \in Turn, Asks(w, t) \/ z[t] \in {"waiting", "running"}
                 PROVE  t \in ToSet(f) /\ ~Tells(p, "settled", t) /\ ~Tells(p, "removed", t)
      BY DEF Sent
    <2>1. t \in ToSet(f) /\ ~Tells(q, "settled", t) /\ ~Tells(q, "removed", t)
      BY <1>6 DEF Sent, Advances
    <2>2. z[t] # "over"
      BY DEF Advances
    <2>3. \A k \in 1..l : events[k].type \in {"settled", "removed"} => events[k].turn # t
      BY <1>1, <2>2 DEF Tellable
    <2> QED BY <1>7, <2>1, <2>3
  <1>10. ASSUME NEW t \in Turn, Begun(q, s, f, t) PROVE Begun(p, z, f, t)
    <2>1. \A k \in 1..l : events[k].type = "removed" => events[k].turn # t
      BY <1>1, <1>10 DEF Tellable, Begun
    <2>2. ~Tells(p, "removed", t)
      BY <1>7, <1>10, <2>1 DEF Begun
    <2> QED BY <1>10, <2>2 DEF Begun, Advances
  <1>11. Folds(p, z, f)
    <2> SUFFICES ASSUME NEW i \in 1..(n + l), p[i].type = "compactionStatus"
                 PROVE  /\ Begun(p, z, f, p[i].turn)
                        /\ \A j \in 1..(i - 1) : ~(p[j].type = "settled" /\ p[j].turn = p[i].turn)
      BY <1>1 DEF Folds
    <2>1. CASE i \in 1..n
      <3>1. p[i] = q[i] /\ q[i].turn \in Turn
        BY <1>2, <2>1, TurnsOfEvents
      <3>2. \A j \in 1..(i - 1) : p[j] = q[j]
        BY <1>1, <1>2, <2>1
      <3>3. /\ Begun(q, s, f, q[i].turn)
            /\ \A j \in 1..(i - 1) : ~(q[j].type = "settled" /\ q[j].turn = q[i].turn)
        BY <1>1, <1>6, <2>1, <3>1 DEF Folds
      <3> QED BY <1>10, <3>1, <3>2, <3>3
    <2>2. ASSUME NEW k \in 1..l, i = n + k
          PROVE  /\ Begun(p, z, f, p[i].turn)
                 /\ \A j \in 1..(i - 1) : ~(p[j].type = "settled" /\ p[j].turn = p[i].turn)
      <3> DEFINE t == events[k].turn
      <3>1. p[i] = events[k] /\ t \in Turn
        BY <1>3, <2>2, TurnsOfEvents
      <3>2. k = 1 /\ s[t] = "running" /\ z[t] = "running"
        BY <1>1, <3>1 DEF Tellable
      <3> HIDE DEF t
      <3>3. t \in ToSet(f) /\ ~Tells(q, "settled", t) /\ ~Tells(q, "removed", t)
        BY <1>6, <3>1, <3>2 DEF Sent
      <3>4. Begun(q, s, f, t)
        BY <3>2, <3>3 DEF Begun
      <3>5. \A j \in 1..(i - 1) : j \in 1..n /\ p[j] = q[j]
        <4>1. \A j \in 1..(i - 1) : j \in 1..n
          BY <1>1, <2>2, <3>2
        <4> QED BY <1>2, <4>1
      <3>6. \A j \in 1..n : ~(q[j].type = "settled" /\ q[j].turn = t)
        BY <1>1, <3>3 DEF Tells
      <3>7. p[i].turn = t
        BY <3>1 DEF t
      <3> QED BY <1>10, <3>1, <3>4, <3>5, <3>6, <3>7
    <2> QED BY <1>4, <2>1, <2>2
  <1>12. ASSUME NEW t \in Turn, s[t] # "new", ~Tells(q, "ack", t) PROVE ~Tells(p, "ack", t)
    <2>1. \A k \in 1..l : events[k].type = "ack" => events[k].turn # t
      BY <1>1, <1>12 DEF Tellable
    <2> QED BY <1>7, <1>12, <2>1
  <1> QED BY <1>8, <1>9, <1>10, <1>11, <1>12 DEF Piped, p

\* The first of what was told arrives.
LEMMA Popped ==
  ASSUME NEW q \in Seq(Events), q # <<>>, NEW f, NEW g, NEW u, NEW w, NEW s \in Stages,
         Piped(q, u, s, f), \A t : Asks(w, t) => Asks(u, t),
         \A t \in ToSet(f) : t \in ToSet(g) \/
           (Head(q).type \in {"settled", "removed"} /\ Head(q).turn = t)
  PROVE  /\ Head(q) \in Events /\ Tail(q) \in Seq(Events)
         /\ Piped(Tail(q), w, s, g)
         /\ \A t \in Turn : Begun(q, s, f, t) /\ ~(Head(q).type = "settled" /\ Head(q).turn = t)
              => Begun(Tail(q), s, g, t)
         /\ \A type, t : ~Tells(q, type, t) => ~Tells(Tail(q), type, t)
         /\ ~Tells(Tail(q), "ack", Head(q).turn)
         /\ Head(q).turn \in Turn => s[Head(q).turn] # "new"
         /\ Head(q).type = "compactionStatus" => Begun(Tail(q), s, g, Head(q).turn)
  <1> DEFINE p == Tail(q)
             e == Head(q)
             n == Len(q)
  <1>1. /\ n \in Nat /\ n # 0 /\ DOMAIN q = 1..n /\ DOMAIN p = 1..(n - 1) /\ p \in Seq(Events)
        /\ e = q[1]
    OBVIOUS
  <1>2. \A i \in 1..(n - 1) : p[i] = q[i + 1]
    OBVIOUS
  <1>3. \A i \in 1..n : q[i] \in Events
    OBVIOUS
  <1> HIDE DEF p, e, n
  <1>4. 1 \in 1..n /\ \A i \in 1..(n - 1) : i + 1 \in 1..n /\ 1 < i + 1
    BY <1>1
  <1>5. Heard(q, s) /\ Sent(q, u, s, f) /\ Folds(q, s, f)
    BY DEF Piped
  <1>6. \A type, t : Tells(p, type, t) => Tells(q, type, t)
    BY <1>1, <1>2, <1>4 DEF Tells
  <1>7. Heard(p, s)
    <2>1. ASSUME NEW i \in 1..(n - 1), p[i].turn \in Turn PROVE s[p[i].turn] # "new"
      BY <1>1, <1>2, <1>4, <1>5, <2>1 DEF Heard
    <2>2. ASSUME NEW i \in 1..(n - 1), NEW j \in 1..(n - 1), i < j, p[j].type = "ack"
          PROVE  p[i].turn # p[j].turn
      <3>1. i + 1 < j + 1 /\ p[i] = q[i + 1] /\ p[j] = q[j + 1]
        BY <1>2, <2>2
      <3> QED BY <1>1, <1>4, <1>5, <2>2, <3>1 DEF Heard
    <2> QED BY <1>1, <2>1, <2>2 DEF Heard
  <1>8. Tells(q, e.type, e.turn)
    BY <1>1, <1>4 DEF Tells
  <1>9. Sent(p, w, s, g)
    <2> SUFFICES ASSUME NEW t \in Turn, Asks(w, t) \/ s[t] \in {"waiting", "running"}
                 PROVE  t \in ToSet(g) /\ ~Tells(p, "settled", t) /\ ~Tells(p, "removed", t)
      BY DEF Sent
    <2>1. t \in ToSet(f) /\ ~Tells(q, "settled", t) /\ ~Tells(q, "removed", t)
      BY <1>5 DEF Sent
    <2>2. ~(e.type \in {"settled", "removed"} /\ e.turn = t)
      BY <1>8, <2>1
    <2> QED BY <1>6, <2>1, <2>2 DEF e
  <1>10. ASSUME NEW t \in Turn, Begun(q, s, f, t), ~(e.type = "settled" /\ e.turn = t)
         PROVE  Begun(p, s, g, t)
    <2>1. ~(e.type \in {"settled", "removed"} /\ e.turn = t)
      BY <1>8, <1>10 DEF Begun
    <2>2. t \in ToSet(g)
      BY <1>10, <2>1 DEF Begun, e
    <2> QED BY <1>6, <1>10, <2>2 DEF Begun
  <1>11. \A i \in 1..n : q[i].type = "compactionStatus" =>
           /\ q[i].turn \in Turn /\ Begun(q, s, f, q[i].turn)
           /\ \A j \in 1..(i - 1) : ~(q[j].type = "settled" /\ q[j].turn = q[i].turn)
    BY <1>1, <1>3, <1>5, TurnsOfEvents DEF Folds
  <1>12. Folds(p, s, g)
    <2> SUFFICES ASSUME NEW i \in 1..(n - 1), p[i].type = "compactionStatus"
                 PROVE  /\ Begun(p, s, g, p[i].turn)
                        /\ \A j \in 1..(i - 1) : ~(p[j].type = "settled" /\ p[j].turn = p[i].turn)
      BY <1>1 DEF Folds
    <2>1. p[i] = q[i + 1] /\ i + 1 \in 1..n
      BY <1>2, <1>4
    <2>2. /\ p[i].turn \in Turn /\ Begun(q, s, f, p[i].turn)
          /\ \A j \in 1..i : ~(q[j].type = "settled" /\ q[j].turn = p[i].turn)
      <3>1. (i + 1) - 1 = i
        OBVIOUS
      <3> QED BY <1>11, <2>1, <3>1
    <2>3. ~(e.type = "settled" /\ e.turn = p[i].turn)
      <3>1. 1 \in 1..i
        OBVIOUS
      <3> QED BY <1>1, <2>2, <3>1
    <2>4. \A j \in 1..(i - 1) : j + 1 \in 1..i /\ p[j] = q[j + 1]
      BY <1>1, <1>2
    <2> QED BY <1>10, <2>2, <2>3, <2>4
  <1>13. ~Tells(p, "ack", e.turn)
    <2> SUFFICES ASSUME NEW i \in 1..(n - 1), p[i].type = "ack", p[i].turn = e.turn PROVE FALSE
      BY <1>1 DEF Tells
    <2>1. q[i + 1].type = "ack" /\ q[i + 1].turn = q[1].turn
      BY <1>1, <1>2
    <2> QED BY <1>1, <1>4, <1>5, <2>1 DEF Heard
  <1>14. e.turn \in Turn => s[e.turn] # "new"
    BY <1>1, <1>4, <1>5 DEF Heard
  <1>15. e.type = "compactionStatus" => Begun(p, s, g, e.turn)
    BY <1>1, <1>4, <1>10, <1>11
  <1>16. e \in Events
    BY <1>1, <1>3, <1>4
  <1>17. Piped(p, w, s, g)
    BY <1>7, <1>9, <1>12 DEF Piped
  <1> QED BY <1>1, <1>6, <1>10, <1>13, <1>14, <1>15, <1>16, <1>17 DEF p, e

\* Requests are sent, and the submits among them are in flight.
LEMMA Asked ==
  ASSUME NEW q \in Seq(Events), NEW f, NEW g, NEW u, NEW w, NEW s \in Stages,
         Piped(q, u, s, f), ToSet(f) \subseteq ToSet(g),
         \A t \in Turn : Asks(w, t) => Asks(u, t) \/ (t \in ToSet(g) /\ s[t] = "new")
  PROVE  /\ Piped(q, w, s, g)
         /\ \A t \in Turn : Begun(q, s, f, t) => Begun(q, s, g, t)
  <1>1. Heard(q, s) /\ Sent(q, u, s, f) /\ Folds(q, s, f)
    BY DEF Piped
  <1>2. \A t \in Turn : Begun(q, s, f, t) => Begun(q, s, g, t)
    BY DEF Begun
  <1>3. \A t \in Turn : s[t] = "new" => ~Tells(q, "settled", t) /\ ~Tells(q, "removed", t)
    BY <1>1 DEF Heard, Tells
  <1>4. Sent(q, w, s, g)
    BY <1>1, <1>3 DEF Sent
  <1>5. Folds(q, s, g)
    <2>1. \A i \in DOMAIN q : q[i].type = "compactionStatus" => q[i].turn \in Turn
      <3>1. \A i \in DOMAIN q : q[i] \in Events
        OBVIOUS
      <3> QED BY <3>1, TurnsOfEvents
    <2> QED BY <1>1, <1>2, <2>1 DEF Folds
  <1> QED BY <1>1, <1>2, <1>4, <1>5 DEF Piped

\* Nothing is told, and what is asked is in flight.
LEMMA Emptied ==
  ASSUME NEW g, NEW w, NEW s,
         \A t \in Turn : Asks(w, t) \/ s[t] \in {"waiting", "running"} => t \in ToSet(g)
  PROVE  Piped(<<>>, w, s, g) /\ \A type, t : ~Tells(<<>>, type, t)
  <1>1. DOMAIN <<>> = {}
    OBVIOUS
  <1>2. Heard(<<>>, s) /\ Folds(<<>>, s, g)
    BY <1>1 DEF Heard, Folds
  <1>3. \A type, t : ~Tells(<<>>, type, t)
    BY <1>1 DEF Tells
  <1>4. Sent(<<>>, w, s, g)
    BY <1>3 DEF Sent
  <1> QED BY <1>2, <1>3, <1>4 DEF Piped

\* The requests whose answer has not arrived.
Answered == [kind : {"submit", "stopped", "listed", "resumed"}, turn : Turn \cup {None}]

\* The submits that are not answered are acknowledged in the pipe or not taken from it.
LEMMA UnansweredAre ==
  ASSUME PipeType
  PROVE  /\ Unanswered \in Seq(Requests \cup Answered)
         /\ \A i \in DOMAIN Unanswered : Unanswered[i].kind = "submit" =>
              \/ Tells(down, "ack", Unanswered[i].turn)
              \/ \E t \in Turn : Unanswered[i] = Request("submit", t) /\ Asks(up, t)
  <1> DEFINE K == {e \in ToSet(down) : e.type \in {"ack", "stopped", "listed", "resumed"}}
             a == Only(down, K)
             r == [i \in DOMAIN a |->
                     Request(IF a[i].type = "ack" THEN "submit" ELSE a[i].type, a[i].turn)]
             S == Requests \cup Answered
  <1>1. down \in Seq(Events) /\ up \in Seq(Requests)
    BY DEF PipeType
  <1>2. /\ a \in Seq(Events)
        /\ \A i \in DOMAIN a : a[i] \in K /\ \E j \in DOMAIN down : down[j] = a[i]
    <2> HIDE DEF K
    <2> QED BY <1>1, OnlyIs
  <1>3. \A e \in K : e.type \in {"ack", "stopped", "listed", "resumed"}
    OBVIOUS
  <1> HIDE DEF K, a
  <1>4. DOMAIN a = 1..Len(a) /\ Len(a) \in Nat
    BY <1>2
  <1>5. ASSUME NEW i \in DOMAIN a
        PROVE  r[i] \in S /\ (r[i].kind = "submit" => Tells(down, "ack", r[i].turn))
    <2>1. a[i] \in Events /\ a[i].type \in {"ack", "stopped", "listed", "resumed"}
      BY <1>2, <1>3
    <2>2. a[i].turn \in Turn \cup {None}
      BY <2>1 DEF Events
    <2>3. /\ r[i].kind = IF a[i].type = "ack" THEN "submit" ELSE a[i].type
          /\ r[i].turn = a[i].turn /\ r[i] \in Answered
      <3> DEFINE x == IF a[i].type = "ack" THEN "submit" ELSE a[i].type
      <3>1. x \in {"submit", "stopped", "listed", "resumed"}
        BY <2>1
      <3>2. r[i] = [kind |-> x, turn |-> a[i].turn]
        BY DEF Request
      <3> HIDE DEF x, r
      <3>4. r[i] \in Answered
        BY <2>2, <3>1, <3>2 DEF Answered
      <3>5. r[i].kind = x /\ r[i].turn = a[i].turn
        BY <3>2
      <3> QED BY <3>4, <3>5 DEF x
    <2>4. PICK j \in DOMAIN down : down[j] = a[i]
      BY <1>2
    <2> QED BY <2>1, <2>3, <2>4 DEF Tells
  <1>6. r \in Seq(S) /\ Len(r) = Len(a) /\ DOMAIN r = 1..Len(a)
    BY <1>4, <1>5
  <1>7. Unanswered = r \o up
    BY DEF Unanswered, r, a, K
  <1> HIDE DEF r, S
  <1>8. up \in Seq(S)
    <2>1. Requests \subseteq S
      BY DEF S
    <2> QED BY <1>1, <2>1
  <1>9. r \o up \in Seq(S) /\ DOMAIN (r \o up) = 1..(Len(r) + Len(up))
    BY <1>6, <1>8
  <1>10. ASSUME NEW i \in 1..(Len(r) + Len(up)), (r \o up)[i].kind = "submit"
         PROVE  \/ Tells(down, "ack", (r \o up)[i].turn)
                \/ \E t \in Turn : (r \o up)[i] = Request("submit", t) /\ Asks(up, t)
    <2>1. CASE i \in 1..Len(r)
      <3>1. (r \o up)[i] = r[i] /\ i \in DOMAIN a
        BY <1>4, <1>6, <1>8, <2>1
      <3> QED BY <1>5, <1>10, <3>1
    <2>2. CASE i \notin 1..Len(r)
      <3>1. (r \o up)[i] = up[i - Len(r)] /\ i - Len(r) \in DOMAIN up
        BY <1>6, <1>8, <2>2
      <3>2. up[i - Len(r)] \in Requests
        BY <1>1, <3>1
      <3>3. PICK t \in Turn : up[i - Len(r)] = Request("submit", t)
        BY <1>10, <3>1, <3>2 DEF Requests, Request
      <3> QED BY <3>1, <3>3 DEF Asks
    <2> QED BY <2>1, <2>2
  <1> QED BY <1>7, <1>9, <1>10 DEF S

-----------------------------------------------------------------------------
(* Failing what was sent *)

LEMMA SubmitTurnsAre ==
  ASSUME NEW q \in Seq(Requests)
  PROVE  \A t \in SubmitTurns(q) : t \in Turn /\ Asks(q, t)
  <1> SUFFICES ASSUME NEW i \in DOMAIN q, q[i].kind = "submit"
               PROVE  q[i].turn \in Turn /\ Asks(q, q[i].turn)
    BY DEF SubmitTurns, ToSet
  <1>1. q[i] \in Requests
    OBVIOUS
  <1>2. PICK t \in Turn : q[i] = Request("submit", t)
    BY <1>1 DEF Requests, Request
  <1> QED BY <1>2 DEF Asks, Request

\* The turns whose submit has not been answered, or sent, have shown no text.
Silent(t) ==
  t \in Turn /\ (Tells(down, "ack", t) \/ Asks(up, t) \/ Asks(waiting, t))

LEMMA SilentHasNone ==
  ASSUME LinkInv, NEW t, Silent(t)
  PROVE  t \in submitted /\ Text(mirror, t) = 0
  <1>1. t \in Turn
    BY DEF Silent
  <1>2. CASE Tells(down, "ack", t)
    <2>1. stage[t] # "new"
      BY <1>1, <1>2 DEF LinkInv, PipeInv, Piped, Heard, Tells
    <2>2. t \in submitted
      BY <1>1, <2>1 DEF LinkInv, PipeInv, OnlySubmitted
    <2> QED BY <1>1, <1>2, <2>2 DEF LinkInv, PipeInv, TextHeard
  <1>3. CASE Asks(up, t) \/ Asks(waiting, t)
    <2>1. t \in submitted /\ stage[t] = "new"
      BY <1>1, <1>3 DEF LinkInv, PipeInv, SubmitsInOrder
    <2> QED BY <1>1, <2>1 DEF LinkInv, PipeInv, TextHeard
  <1> QED BY <1>2, <1>3 DEF Silent

LEMMA UnansweredSilent ==
  ASSUME LinkInv
  PROVE  /\ \A t \in SubmitTurns(Unanswered) : Silent(t)
         /\ \A t \in SubmitTurns(Unanswered \o waiting) : Silent(t)
         /\ \A t \in SubmitTurns(waiting) : Silent(t)
  <1> DEFINE U == Unanswered
             S == Requests \cup Answered
  <1>1. /\ U \in Seq(S) /\ waiting \in Seq(Requests) /\ down \in Seq(Events)
        /\ \A i \in DOMAIN U : U[i].kind = "submit" =>
              \/ Tells(down, "ack", U[i].turn)
              \/ \E t \in Turn : U[i] = Request("submit", t) /\ Asks(up, t)
    BY UnansweredAre DEF LinkInv, PipeType
  <1>2. waiting \in Seq(S)
    BY <1>1
  <1> HIDE DEF U, S
  <1>3. \A t : Tells(down, "ack", t) => t \in Turn
    <2>1. \A i \in DOMAIN down : down[i] \in Events
      BY <1>1
    <2> QED BY <2>1, TurnsOfEvents DEF Tells
  <1>4. ASSUME NEW i \in DOMAIN U, U[i].kind = "submit" PROVE Silent(U[i].turn)
    BY <1>1, <1>3, <1>4 DEF Silent, Request
  <1>5. \A t \in SubmitTurns(waiting) : Silent(t)
    BY <1>1, SubmitTurnsAre DEF Silent
  <1>6. \A t \in SubmitTurns(U) : Silent(t)
    BY <1>4 DEF SubmitTurns, ToSet
  <1>7. SubmitTurns(U \o waiting) \subseteq SubmitTurns(U) \cup SubmitTurns(waiting)
    <2>1. ToSet(U \o waiting) \subseteq ToSet(U) \cup ToSet(waiting)
      <3> SUFFICES ASSUME NEW i \in DOMAIN (U \o waiting)
                   PROVE  (U \o waiting)[i] \in ToSet(U) \cup ToSet(waiting)
        BY DEF ToSet
      <3>1. CASE i \in 1..Len(U)
        BY <1>1, <1>2, <3>1 DEF ToSet
      <3>2. CASE i \notin 1..Len(U)
        <4>1. (U \o waiting)[i] = waiting[i - Len(U)] /\ i - Len(U) \in DOMAIN waiting
          BY <1>1, <1>2, <3>2
        <4> QED BY <4>1 DEF ToSet
      <3> QED BY <3>1, <3>2
    <2> QED BY <2>1 DEF SubmitTurns
  <1> QED BY <1>5, <1>6, <1>7 DEF U

LEMMA FailedAfter ==
  ASSUME LinkInv, NEW s \in Seq(Turn), ToSet(s) \subseteq ToSet(inFlight),
         NEW T, \A t \in T : Silent(t)
  PROVE  /\ SettleLocalSubmitFailure(FoldLeft(TransportFailure, mirror, s), T)
              \in After(mirror, submitted)
         /\ SettleLocalSubmitFailure(mirror, T) \in After(mirror, submitted)
  <1> DEFINE m == FoldLeft(TransportFailure, mirror, s)
  <1>1. mirror \in GoodMirrors
    BY DEF LinkInv, MirrorInv
  <1>2. T \in SUBSET Turn /\ T \subseteq submitted /\ \A t \in T : Text(mirror, t) = 0
    BY SilentHasNone DEF Silent
  <1>3. ToSet(s) \subseteq submitted
    BY DEF LinkInv, PipeInv, OnlySubmitted
  <1>4. m \in After(mirror, ToSet(s)) /\ m \in GoodMirrors
    BY <1>1, FailuresAfter DEF After
  <1> HIDE DEF m
  <1>5. \A t \in T : Text(m, t) = 0
    <2>1. \A t \in Turn : Text(m, t) \in Nat
      BY <1>4 DEF GoodMirrors, Mirrors, Text
    <2>2. \A t \in T : Text(m, t) <= 0
      BY <1>2, <1>4 DEF After
    <2> QED BY <1>2, <2>1, <2>2
  <1>6. SettleLocalSubmitFailure(m, T) \in After(m, T)
    BY <1>2, <1>4, <1>5, SettleLocalAfter
  <1>7. SettleLocalSubmitFailure(m, T) \in After(mirror, ToSet(s) \cup T)
    BY <1>1, <1>4, <1>6, AfterMore
  <1>8. SettleLocalSubmitFailure(m, T) \in After(mirror, submitted)
    BY <1>2, <1>3, <1>7, AfterWider
  <1>9. SettleLocalSubmitFailure(mirror, T) \in After(mirror, submitted)
    BY <1>1, <1>2, SettleLocalAfter, AfterWider
  <1> QED BY <1>8, <1>9 DEF m

\* The hint has an owner.
LEMMA HintOff ==
  ASSUME LinkInv, hint
  PROVE  inFlight # <<>> /\ HintAfterFailing = FALSE
  <1>1. PICK t \in Turn : Begun(down, stage, inFlight, t)
    BY DEF LinkInv, PipeInv, HintOwned
  <1>2. t \in ToSet(inFlight)
    BY <1>1 DEF Begun
  <1>3. inFlight # <<>>
    BY <1>2 DEF ToSet
  <1> QED BY <1>3 DEF HintAfterFailing

\* The pipe is empty, and no turn runs or waits.
LEMMA PipeEmptied ==
  ASSUME LinkInv, up' = <<>>, down' = <<>>, inFlight' = <<>>, hint' = FALSE,
         waiting' \in {waiting, <<>>}, submitted' = submitted,
         \A t \in Turn : stage'[t] \in {"new", "over"} /\ (stage'[t] = "new" <=> stage[t] = "new"),
         \A t \in Turn : Text(mirror', t) # 0 => Text(mirror, t) # 0
  PROVE  PipeInv' /\ PipeType'
  <1>1. PipeType'
    <2>1. <<>> \in Seq(Turn) /\ <<>> \in Seq(Requests) /\ <<>> \in Seq(Events)
      OBVIOUS
    <2>2. waiting' \in Seq(Requests)
      BY <2>1 DEF LinkInv, PipeType
    <2> QED BY <2>1, <2>2 DEF PipeType
  <1>2. OnlySubmitted'
    <2>1. ToSet(<<>>) = {}
      BY DEF ToSet
    <2> QED BY <2>1 DEF LinkInv, PipeInv, OnlySubmitted
  <1>3. \A t : ~Asks(<<>>, t)
    BY DEF Asks
  <1>4. SubmitsInOrder'
    <2>1. Once(<<>>)
      BY DEF Once
    <2> QED BY <1>3, <2>1 DEF LinkInv, PipeInv, SubmitsInOrder
  <1>5. Piped(<<>>, <<>>, stage', <<>>) /\ \A type, t : ~Tells(<<>>, type, t)
    BY <1>3, Emptied
  <1>6. TextHeard'
    BY <1>5 DEF LinkInv, PipeInv, TextHeard
  <1>7. DeadIsIdle'
    BY DEF DeadIsIdle
  <1>8. HintOwned'
    BY DEF HintOwned
  <1> QED BY <1>1, <1>2, <1>4, <1>5, <1>6, <1>7, <1>8 DEF PipeInv

-----------------------------------------------------------------------------
(* The backend's steps *)

\* How the stages of the turns go from s to z while the requests go from u to w.
Moves(u, w, s, z) ==
  \A t \in Turn :
    \/ z[t] = s[t]
    \/ s[t] = "waiting" /\ z[t] \in {"running", "over"}
    \/ s[t] = "running" /\ z[t] = "over"
    \/ s[t] = "new" /\ u # <<>> /\ Head(u) = Request("submit", t) /\ w = Tail(u)

LEMMA MovesAdvance ==
  ASSUME NEW u \in Seq(Requests), NEW w, NEW s \in Stages, NEW z \in Stages, Once(u),
         w = u \/ (u # <<>> /\ w = Tail(u)), Moves(u, w, s, z),
         \A t \in Turn : Asks(u, t) => s[t] = "new"
  PROVE  /\ Advances(u, s, w, z) /\ w \in Seq(Requests) /\ Once(w)
         /\ \A t : Asks(w, t) => Asks(u, t)
         /\ \A t \in Turn : s[t] = "new" /\ z[t] # "new" => Asks(u, t) /\ ~Asks(w, t)
  <1>1. /\ w \in Seq(Requests) /\ Once(w) /\ \A t : Asks(w, t) => Asks(u, t)
        /\ \A t : u # <<>> /\ Head(u) = Request("submit", t) /\ w = Tail(u)
                    => Asks(u, t) /\ ~Asks(w, t)
    <2>1. u # <<>> =>
            /\ Tail(u) \in Seq(Requests) /\ Once(Tail(u))
            /\ \A t : Asks(u, t) <=> Head(u) = Request("submit", t) \/ Asks(Tail(u), t)
            /\ \A t : ~(Head(u) = Request("submit", t) /\ Asks(Tail(u), t))
      BY AskLess
    <2> QED BY <2>1
  <1>2. \A t \in Turn : s[t] = "new" /\ z[t] # "new" => Asks(u, t) /\ ~Asks(w, t)
    BY <1>1 DEF Moves
  <1>3. \A t \in Turn : z[t] \in {"new", "waiting", "running", "over"}
                        /\ s[t] \in {"new", "waiting", "running", "over"}
    BY DEF Stages
  <1>4. ASSUME NEW t \in Turn
        PROVE  /\ s[t] # "new" => z[t] # "new"
               /\ s[t] \in {"running", "over"} => z[t] \in {"running", "over"}
               /\ Asks(w, t) \/ z[t] \in {"waiting", "running"} =>
                    Asks(u, t) \/ s[t] \in {"waiting", "running"}
               /\ Asks(w, t) => z[t] = "new"
    BY <1>1, <1>2, <1>3 DEF Moves
  <1> QED BY <1>1, <1>2, <1>4 DEF Advances

LEMMA BackendStep ==
  ASSUME LinkInv, alive' \in BOOLEAN,
         alive' \/ \A t \in Turn : stage'[t] \notin {"waiting", "running"},
         NEW events \in Seq(Events), down' = down \o events,
         Tellable(events, stage, stage'), Moves(up, up', stage, stage'),
         up' = up \/ (up # <<>> /\ up' = Tail(up)),
         Backend!Next \/ UNCHANGED queueVars,
         newest' \in Nat, attached' \in Session,
         UNCHANGED <<backendOnly, submitted, cleared, received, hydrated>>
  PROVE  LinkInv' /\ Keeps(mirror, mirror')
  <1>0. UNCHANGED <<mirror, hint, state, session, launching, fallback, inFlight, waiting, flow,
                    submitted, cleared, received, hydrated>>
    BY DEF backendOnly, clientVars
  <1>1. QueueInv'
    BY QueueKeeps DEF LinkInv
  <1>2. MirrorInv' /\ Keeps(mirror, mirror')
    BY <1>0, MirrorStays DEF LinkInv
  <1>3. ClientType' /\ HistoryType'
    BY <1>0 DEF LinkInv, ClientType, HistoryType
  <1>4. stage \in Stages /\ stage' \in Stages
    BY <1>1 DEF LinkInv, QueueInv, Backend!TypeOK, Stages
  <1>5. up \in Seq(Requests) /\ down \in Seq(Events) /\ Piped(down, up, stage, inFlight)
        /\ Once(up) /\ \A t \in Turn : Asks(up, t) => stage[t] = "new"
    BY DEF LinkInv, PipeType, PipeInv, SubmitsInOrder
  <1>6. /\ Advances(up, stage, up', stage') /\ up' \in Seq(Requests) /\ Once(up')
        /\ \A t : Asks(up', t) => Asks(up, t)
        /\ \A t \in Turn : stage[t] = "new" /\ stage'[t] # "new" => Asks(up, t) /\ ~Asks(up', t)
    BY <1>4, <1>5, MovesAdvance
  <1>7. /\ Piped(down', up', stage', inFlight)
        /\ \A t \in Turn : Begun(down, stage, inFlight, t) => Begun(down', stage', inFlight, t)
        /\ \A t \in Turn : stage[t] # "new" /\ ~Tells(down, "ack", t) => ~Tells(down', "ack", t)
    BY <1>4, <1>5, <1>6, Told
  <1>8. \A t \in Turn : stage[t] # "new" => stage'[t] # "new"
    BY <1>6 DEF Advances
  <1>9. PipeType'
    <2>1. down' \in Seq(Events)
      BY <1>5
    <2> QED BY <1>0, <1>6, <2>1 DEF LinkInv, PipeType
  <1>10. OnlySubmitted'
    BY <1>0, <1>6 DEF LinkInv, PipeInv, OnlySubmitted, SubmitsInOrder
  <1>11. SubmitsInOrder'
    BY <1>0, <1>6 DEF LinkInv, PipeInv, SubmitsInOrder, Advances
  <1>12. TextHeard'
    BY <1>0, <1>7, <1>8 DEF LinkInv, PipeInv, TextHeard
  <1>13. HintOwned'
    <2>1. \A t \in Turn : Begun(down, stage, inFlight, t) => stage[t] # "new"
      BY DEF Begun
    <2> QED BY <1>0, <1>7, <2>1 DEF LinkInv, PipeInv, HintOwned
  <1>14. DeadIsIdle'
    BY DEF DeadIsIdle
  <1> QED BY <1>0, <1>1, <1>2, <1>3, <1>7, <1>9, <1>10, <1>11, <1>12, <1>13, <1>14
          DEF LinkInv, PipeInv

LEMMA HeadIs ==
  ASSUME LinkInv, up # <<>>
  PROVE  /\ Head(up) \in Requests
         /\ Head(up).kind = "submit" =>
              Head(up).turn \in Turn /\ Head(up) = Request("submit", Head(up).turn)
  <1>1. Head(up) \in Requests
    BY DEF LinkInv, PipeType
  <1>2. Head(up).kind = "submit" => \E t \in Turn : Head(up) = Request("submit", t)
    BY <1>1 DEF Requests, Request
  <1> QED BY <1>1, <1>2 DEF Request

\* One event, or two, in a sequence.
LEMMA OneEvent ==
  ASSUME NEW e \in Events
  PROVE  <<e>> \in Seq(Events) /\ \A k \in DOMAIN <<e>> : k = 1 /\ <<e>>[k] = e
  OBVIOUS

LEMMA TwoEvents ==
  ASSUME NEW e \in Events, NEW d \in Events
  PROVE  /\ <<e, d>> \in Seq(Events)
         /\ \A k \in DOMAIN <<e, d>> : (k = 1 /\ <<e, d>>[k] = e) \/ (k = 2 /\ <<e, d>>[k] = d)
  OBVIOUS

LEMMA AcceptSubmitKeeps ==
  ASSUME LinkInv, AcceptSubmit
  PROVE  LinkInv' /\ Keeps(mirror, mirror')
  <1> DEFINE t == Head(up).turn
             e == Enqueued(t, IF stage'[t] = "running" THEN "active" ELSE "queued")
             events == <<Ack(t), e>>
  <1>1. /\ alive' /\ alive' \in BOOLEAN /\ up # <<>> /\ up' = Tail(up) /\ Head(up).kind = "submit"
        /\ Backend!Accept(t) /\ down' = down \o events
        /\ UNCHANGED <<backendOnly, submitted, cleared, received, hydrated>>
    BY DEF AcceptSubmit, Take, Tell
  <1>2. t \in Turn /\ Head(up) = Request("submit", t)
    BY <1>1, HeadIs
  <1>3. Ack(t) \in Events /\ e \in Events
    BY <1>2 DEF Ack, Enqueued, Events
  <1>4. /\ events \in Seq(Events)
        /\ \A k \in DOMAIN events : (k = 1 /\ events[k] = Ack(t)) \/ (k = 2 /\ events[k] = e)
    BY <1>3, TwoEvents
  <1>5. /\ stage[t] = "new" /\ stage'[t] # "new"
        /\ \A u \in Turn : u # t => stage'[u] = stage[u]
    BY <1>1, <1>2 DEF Backend!Accept, LinkInv, QueueInv, Backend!TypeOK
  <1>6. Moves(up, up', stage, stage')
    BY <1>1, <1>2, <1>5 DEF Moves
  <1>7. Tellable(events, stage, stage')
    <2>1. /\ Ack(t).turn = t /\ Ack(t).type = "ack" /\ e.turn = t /\ e.type = "enqueued"
      BY DEF Ack, Enqueued
    <2> HIDE DEF events, e, t
    <2> QED BY <1>4, <1>5, <2>1 DEF Tellable
  <1>8. newest' \in Nat /\ attached' \in Session
    BY DEF AcceptSubmit, LinkInv, HistoryType, Session
  <1>9. Backend!Next
    BY <1>1, <1>2 DEF Backend!Next
  <1> HIDE DEF events
  <1> QED BY <1>1, <1>4, <1>6, <1>7, <1>8, <1>9, BackendStep

LEMMA RefuseSubmitKeeps ==
  ASSUME LinkInv, RefuseSubmit
  PROVE  LinkInv' /\ Keeps(mirror, mirror')
  <1> DEFINE t == Head(up).turn
             e == Settled(t, "error")
             events == <<Ack(t), e>>
  <1>1. /\ alive' /\ alive' \in BOOLEAN /\ up # <<>> /\ up' = Tail(up) /\ Head(up).kind = "submit"
        /\ Backend!Refuse(t) /\ down' = down \o events
        /\ UNCHANGED <<backendOnly, submitted, cleared, received, hydrated, newest, attached>>
    BY DEF RefuseSubmit, Take, Tell
  <1>2. t \in Turn /\ Head(up) = Request("submit", t)
    BY <1>1, HeadIs
  <1>3. Ack(t) \in Events /\ e \in Events
    BY <1>2 DEF Ack, Settled, Events, Result
  <1>4. /\ events \in Seq(Events)
        /\ \A k \in DOMAIN events : (k = 1 /\ events[k] = Ack(t)) \/ (k = 2 /\ events[k] = e)
    BY <1>3, TwoEvents
  <1>5. /\ stage[t] = "new" /\ stage'[t] = "over"
        /\ \A u \in Turn : u # t => stage'[u] = stage[u]
    BY <1>1, <1>2 DEF Backend!Refuse, LinkInv, QueueInv, Backend!TypeOK
  <1>6. Moves(up, up', stage, stage')
    BY <1>1, <1>2, <1>5 DEF Moves
  <1>7. Tellable(events, stage, stage')
    <2>1. /\ Ack(t).turn = t /\ Ack(t).type = "ack" /\ e.turn = t /\ e.type = "settled"
      BY DEF Ack, Settled
    <2> HIDE DEF events, e, t
    <2> QED BY <1>4, <1>5, <2>1 DEF Tellable
  <1>8. newest' \in Nat /\ attached' \in Session
    BY <1>1 DEF LinkInv, HistoryType
  <1>9. Backend!Next
    BY <1>1, <1>2 DEF Backend!Next
  <1> HIDE DEF events
  <1> QED BY <1>1, <1>4, <1>6, <1>7, <1>8, <1>9, BackendStep

\* Nothing is told.
LEMMA QuietStep ==
  ASSUME LinkInv, alive' \in BOOLEAN,
         alive' \/ \A t \in Turn : stage'[t] \notin {"waiting", "running"},
         down' = down, Moves(up, up', stage, stage'),
         up' = up \/ (up # <<>> /\ up' = Tail(up)),
         Backend!Next \/ UNCHANGED queueVars,
         newest' = newest, attached' \in Session,
         UNCHANGED <<backendOnly, submitted, cleared, received, hydrated>>
  PROVE  LinkInv' /\ Keeps(mirror, mirror')
  <1>1. <<>> \in Seq(Events) /\ DOMAIN <<>> = {}
    OBVIOUS
  <1>2. down' = down \o <<>>
    BY DEF LinkInv, PipeType
  <1>3. Tellable(<<>>, stage, stage')
    BY <1>1 DEF Tellable
  <1>4. newest' \in Nat
    BY DEF LinkInv, HistoryType
  <1> QED BY <1>1, <1>2, <1>3, <1>4, BackendStep

LEMMA HandleCancelKeeps ==
  ASSUME LinkInv, HandleCancel
  PROVE  LinkInv' /\ Keeps(mirror, mirror')
  <1>1. /\ alive' /\ alive' \in BOOLEAN /\ up # <<>> /\ up' = Tail(up) /\ down' = down
        /\ newest' = newest /\ attached' = attached
        /\ UNCHANGED <<backendOnly, submitted, cleared, received, hydrated>>
    BY DEF HandleCancel, Take, historyVars
  <1>2. Backend!Condemn \/ UNCHANGED queueVars
    BY DEF HandleCancel
  <1>3. stage' = stage /\ (Backend!Next \/ UNCHANGED queueVars)
    BY <1>2 DEF Backend!Condemn, Backend!Next, queueVars
  <1>4. Moves(up, up', stage, stage')
    BY <1>3 DEF Moves
  <1>5. attached' \in Session
    BY <1>1 DEF LinkInv, HistoryType
  <1> QED BY <1>1, <1>3, <1>4, <1>5, QuietStep

\* The turns that wait are dropped.
LEMMA DropMoves ==
  ASSUME Backend!Drop
  PROVE  /\ Moves(up, up', stage, stage') /\ Backend!Next
         /\ \A t \in Backend!Waiting : t \in Turn /\ stage[t] = "waiting" /\ stage'[t] = "over"
  <1>1. \A t \in Turn : stage'[t] = IF t \in Backend!Waiting THEN "over" ELSE stage[t]
    BY DEF Backend!Drop
  <1>2. \A t \in Backend!Waiting : t \in Turn /\ stage[t] = "waiting"
    BY DEF Backend!Waiting
  <1> QED BY <1>1, <1>2 DEF Moves, Backend!Next

LEMMA HandleStopKeeps ==
  ASSUME LinkInv, HandleStop
  PROVE  LinkInv' /\ Keeps(mirror, mirror')
  <1> DEFINE dropped == AcceptedOrder(Backend!Waiting)
             removals == [i \in DOMAIN dropped |-> Removed(dropped[i])]
             events == removals \o <<Stopped>>
  <1>1. /\ alive' /\ alive' \in BOOLEAN /\ up # <<>> /\ up' = Tail(up) /\ Backend!Drop
        /\ down' = down \o events /\ newest' = newest /\ attached' = attached
        /\ UNCHANGED <<backendOnly, submitted, cleared, received, hydrated>>
    BY DEF HandleStop, Take, Tell, historyVars
  <1>2. dropped \in Seq(Backend!Waiting)
    BY WaitingOrdered DEF LinkInv
  <1>3. /\ Moves(up, up', stage, stage') /\ Backend!Next
        /\ \A t \in Backend!Waiting : t \in Turn /\ stage[t] = "waiting" /\ stage'[t] = "over"
    BY <1>1, DropMoves
  <1> HIDE DEF dropped
  <1>4. /\ Len(dropped) \in Nat /\ DOMAIN dropped = 1..Len(dropped)
        /\ \A i \in DOMAIN dropped : dropped[i] \in Backend!Waiting
    BY <1>2
  <1>5. \A i \in DOMAIN dropped : Removed(dropped[i]) \in Events
    BY <1>3, <1>4 DEF Removed, Events
  <1>6. removals \in Seq(Events) /\ DOMAIN removals = 1..Len(dropped) /\ Len(removals) = Len(dropped)
    BY <1>4, <1>5
  <1>7. Stopped \in Events
    BY DEF Stopped, Events
  <1>8. \A i \in 1..Len(dropped) : removals[i] = Removed(dropped[i])
    BY <1>4
  <1> HIDE DEF removals
  <1>9. /\ events \in Seq(Events) /\ DOMAIN events = 1..(Len(dropped) + 1)
        /\ events[Len(dropped) + 1] = Stopped
        /\ \A i \in 1..Len(dropped) : events[i] = Removed(dropped[i])
    BY <1>4, <1>6, <1>7, <1>8
  <1> HIDE DEF events
  <1>10. \A k \in DOMAIN events :
           \/ events[k] = Stopped
           \/ \E t \in Backend!Waiting : events[k] = Removed(t)
    BY <1>4, <1>9
  <1>11. Tellable(events, stage, stage')
    <2>1. /\ Stopped.turn \notin Turn /\ Stopped.type = "stopped"
          /\ \A t : Removed(t).turn = t /\ Removed(t).type = "removed"
      BY LinkAssumption DEF Stopped, Removed
    <2> QED BY <1>3, <1>10, <2>1 DEF Tellable
  <1>12. newest' \in Nat /\ attached' \in Session
    BY <1>1 DEF LinkInv, HistoryType
  <1> QED BY <1>1, <1>3, <1>9, <1>11, <1>12, BackendStep

LEMMA HandleClearKeeps ==
  ASSUME LinkInv, HandleClear
  PROVE  LinkInv' /\ Keeps(mirror, mirror')
  <1>1. /\ alive' /\ alive' \in BOOLEAN /\ up # <<>> /\ up' = Tail(up) /\ down' = down
        /\ Backend!Drop /\ newest' = newest /\ attached' = 0
        /\ UNCHANGED <<backendOnly, submitted, cleared, received, hydrated>>
    BY DEF HandleClear, Take, historyVars
  <1>2. Moves(up, up', stage, stage') /\ Backend!Next
    BY <1>1, DropMoves
  <1>3. attached' \in Session
    BY <1>1 DEF Session
  <1> QED BY <1>1, <1>2, <1>3, QuietStep

LEMMA HandleListKeeps ==
  ASSUME LinkInv, HandleList
  PROVE  LinkInv' /\ Keeps(mirror, mirror')
  <1> DEFINE e == Listed(attached, Head(up).turn)
             events == <<e>>
  <1>1. /\ alive' /\ alive' \in BOOLEAN /\ up # <<>> /\ up' = Tail(up) /\ Head(up).kind = "list"
        /\ down' = down \o events /\ newest' = newest /\ attached' = attached
        /\ UNCHANGED <<backendOnly, queueVars, submitted, cleared, received, hydrated>>
    BY DEF HandleList, Take, Tell, historyVars, LinkInv, ClientType
  <1>2. attached \in Session /\ newest \in Nat
    BY DEF LinkInv, HistoryType
  <1>3. Head(up).turn \in {FlowUse, CaptureUse}
    BY <1>1, HeadIs DEF Requests
  <1>4. e \in Events
    BY <1>2, <1>3 DEF Listed, Events
  <1>5. events \in Seq(Events) /\ \A k \in DOMAIN events : k = 1 /\ events[k] = e
    BY <1>4, OneEvent
  <1>6. stage' = stage
    BY <1>1 DEF queueVars
  <1>7. Moves(up, up', stage, stage')
    BY <1>6 DEF Moves
  <1>8. Tellable(events, stage, stage')
    <2>1. e.turn \notin Turn /\ e.type = "listed"
      BY LinkAssumption DEF Listed
    <2> HIDE DEF events, e
    <2> QED BY <1>5, <2>1 DEF Tellable
  <1> HIDE DEF events
  <1> QED BY <1>1, <1>2, <1>5, <1>7, <1>8, BackendStep

LEMMA HandleResumeKeeps ==
  ASSUME LinkInv, HandleResume
  PROVE  LinkInv' /\ Keeps(mirror, mirror')
  <1>1. PICK ok \in BOOLEAN : down' = down \o <<Resumed(ok)>>
    BY DEF HandleResume, Tell
  <1> DEFINE e == Resumed(ok)
             events == <<e>>
  <1>2. /\ alive' /\ alive' \in BOOLEAN /\ up # <<>> /\ up' = Tail(up)
        /\ newest' = newest /\ attached' \in {attached, Stored}
        /\ UNCHANGED <<backendOnly, queueVars, submitted, cleared, received, hydrated>>
    BY DEF HandleResume, Take, LinkInv, ClientType
  <1>3. attached' \in Session /\ newest' \in Nat
    BY <1>2 DEF LinkInv, HistoryType, Session
  <1>4. e \in Events
    BY DEF Resumed, Events
  <1>5. events \in Seq(Events) /\ \A k \in DOMAIN events : k = 1 /\ events[k] = e
    BY <1>4, OneEvent
  <1>6. stage' = stage
    BY <1>2 DEF queueVars
  <1>7. Moves(up, up', stage, stage')
    BY <1>6 DEF Moves
  <1>8. Tellable(events, stage, stage')
    <2>1. e.turn \notin Turn /\ e.type = "resumed"
      BY LinkAssumption DEF Resumed
    <2> HIDE DEF events, e
    <2> QED BY <1>5, <2>1 DEF Tellable
  <1>9. down' = down \o events
    BY <1>1
  <1> HIDE DEF events
  <1> QED BY <1>2, <1>3, <1>5, <1>7, <1>8, <1>9, BackendStep

\* The running turn tells something.
LEMMA RunningTells ==
  ASSUME LinkInv, NEW t \in Backend!Running, alive' \in BOOLEAN, alive', up' = up,
         NEW e \in Events, down' = down \o <<e>>, e.turn = t,
         e.type \in {"tokenDelta", "compactionStatus"},
         newest' = newest, attached' = attached,
         UNCHANGED <<backendOnly, queueVars, submitted, cleared, received, hydrated>>
  PROVE  LinkInv' /\ Keeps(mirror, mirror')
  <1> DEFINE events == <<e>>
  <1>1. t \in Turn /\ stage[t] = "running"
    BY DEF Backend!Running
  <1>2. stage' = stage
    BY DEF queueVars
  <1>3. Moves(up, up', stage, stage')
    BY <1>2 DEF Moves
  <1>4. events \in Seq(Events) /\ \A k \in DOMAIN events : k = 1 /\ events[k] = e
    BY OneEvent
  <1>5. down' = down \o events
    OBVIOUS
  <1> HIDE DEF events
  <1>6. Tellable(events, stage, stage')
    BY <1>1, <1>2, <1>4 DEF Tellable
  <1>7. newest' \in Nat /\ attached' \in Session
    BY DEF LinkInv, HistoryType
  <1> QED BY <1>3, <1>4, <1>5, <1>6, <1>7, BackendStep

LEMMA StreamChunkKeeps ==
  ASSUME LinkInv, NEW t \in Turn, StreamChunk(t)
  PROVE  LinkInv' /\ Keeps(mirror, mirror')
  <1>1. /\ t \in Backend!Running /\ alive' \in BOOLEAN /\ alive' /\ up' = up
        /\ down' = down \o <<Delta(t, 1)>> /\ newest' = newest /\ attached' = attached
        /\ UNCHANGED <<backendOnly, queueVars, submitted, cleared, received, hydrated>>
    BY DEF StreamChunk, Tell, LinkInv, ClientType
  <1>2. Delta(t, 1) \in Events /\ Delta(t, 1).turn = t /\ Delta(t, 1).type = "tokenDelta"
    BY DEF Delta, Events
  <1> QED BY <1>1, <1>2, RunningTells

LEMMA FoldKeeps ==
  ASSUME LinkInv, NEW t \in Turn, Fold(t)
  PROVE  LinkInv' /\ Keeps(mirror, mirror')
  <1>1. /\ t \in Backend!Running /\ alive' \in BOOLEAN /\ alive' /\ up' = up
        /\ newest' = newest /\ attached' = attached
        /\ UNCHANGED <<backendOnly, queueVars, submitted, cleared, received, hydrated>>
    BY DEF Fold, LinkInv, ClientType
  <1>2. PICK on \in BOOLEAN : down' = down \o <<Compaction(t, on)>>
    BY DEF Fold, Tell
  <1>3. /\ Compaction(t, on) \in Events /\ Compaction(t, on).turn = t
        /\ Compaction(t, on).type = "compactionStatus"
    BY DEF Compaction, Events
  <1> QED BY <1>1, <1>2, <1>3, RunningTells

LEMMA FinishTurnKeeps ==
  ASSUME LinkInv, NEW t \in Turn, FinishTurn(t)
  PROVE  LinkInv' /\ Keeps(mirror, mirror')
  <1> DEFINE next == {u \in Turn : stage[u] = "waiting" /\ stage'[u] = "running"}
             started == SetToSeq(next)
             starts == [i \in DOMAIN started |-> Activated(started[i])]
             e == Settled(t, outcome'[t])
             events == <<e>> \o starts
  <1>1. /\ alive' \in BOOLEAN /\ alive' /\ up' = up /\ Backend!Finish(t)
        /\ down' = down \o events /\ newest' = newest /\ attached' = attached
        /\ UNCHANGED <<backendOnly, submitted, cleared, received, hydrated>>
    BY DEF FinishTurn, Tell, historyVars, LinkInv, ClientType
  <1>2. Backend!Next
    BY <1>1 DEF Backend!Next
  <1>3. /\ stage[t] = "running" /\ stage'[t] = "over"
        /\ \A u \in Turn : \/ stage'[u] = stage[u] \/ u = t
                           \/ stage[u] = "waiting" /\ stage'[u] = "running"
    BY <1>1 DEF Backend!Finish, Backend!Waiting
  <1>4. Moves(up, up', stage, stage')
    BY <1>3 DEF Moves
  <1>5. e \in Events
    <2>1. QueueInv'
      BY <1>2, QueueKeeps DEF LinkInv
    <2>2. outcome'[t] \in Result
      BY <2>1 DEF QueueInv, Backend!TypeOK, Backend!Outcome, Result
    <2> QED BY <2>2 DEF Settled, Events
  <1>6. started \in Seq(next)
    <2>1. next \in SUBSET Turn
      OBVIOUS
    <2>2. IsFiniteSet(next)
      BY <2>1, LinkAssumption, FS_Subset
    <2> QED BY <2>2, SetAsSeq
  <1>7. \A u \in next : u \in Turn /\ stage'[u] = "running"
    OBVIOUS
  <1> HIDE DEF next, started
  <1>8. /\ Len(started) \in Nat /\ DOMAIN started = 1..Len(started)
        /\ \A i \in DOMAIN started : started[i] \in next
    BY <1>6
  <1>9. \A i \in DOMAIN started : Activated(started[i]) \in Events
    BY <1>7, <1>8 DEF Activated, Events
  <1>10. /\ starts \in Seq(Events) /\ Len(starts) = Len(started)
         /\ \A i \in DOMAIN started : starts[i] = Activated(started[i])
    BY <1>8, <1>9
  <1> HIDE DEF starts, e
  <1>11. /\ events \in Seq(Events) /\ DOMAIN events = 1..(1 + Len(started)) /\ events[1] = e
         /\ \A i \in 1..(1 + Len(started)) : i # 1 => events[i] = starts[i - 1] /\ i - 1 \in DOMAIN started
    BY <1>5, <1>8, <1>10
  <1> HIDE DEF events
  <1>12. \A k \in DOMAIN events :
           events[k] = e \/ \E u \in next : events[k] = Activated(u)
    BY <1>8, <1>10, <1>11, ZenonT(60)
  <1>13. Tellable(events, stage, stage')
    <2>1. /\ e.turn = t /\ e.type = "settled"
          /\ \A u : Activated(u).turn = u /\ Activated(u).type = "activated"
      BY DEF Settled, Activated, e
    <2> QED BY <1>3, <1>7, <1>12, <2>1 DEF Tellable
  <1>14. newest' \in Nat /\ attached' \in Session
    BY <1>1 DEF LinkInv, HistoryType
  <1> QED BY <1>1, <1>2, <1>4, <1>11, <1>13, <1>14, BackendStep

\* The process dies: what becomes of its turns.
LEMMA Died ==
  ASSUME LinkInv, Backend!Die
  PROVE  /\ QueueInv'
         /\ \A t \in Turn : stage'[t] \in {"new", "over"} /\ (stage'[t] = "new" <=> stage[t] = "new")
  <1>1. QueueInv'
    BY QueueKeeps DEF LinkInv, Backend!Next
  <1> QED BY <1>1 DEF Backend!Die

LEMMA CrashKeeps ==
  ASSUME LinkInv, Crash
  PROVE  LinkInv' /\ Keeps(mirror, mirror')
  <1>1. /\ alive' = FALSE /\ up' = up /\ down' = down /\ Backend!Die
        /\ newest' = newest /\ attached' = 0
        /\ UNCHANGED <<backendOnly, submitted, cleared, received, hydrated>>
    BY DEF Crash
  <1>2. \A t \in Turn : stage'[t] \in {"new", "over"} /\ (stage'[t] = "new" <=> stage[t] = "new")
    BY <1>1, Died
  <1>3. Moves(up, up', stage, stage')
    <2>1. \A t \in Turn : stage[t] \in {"new", "waiting", "running", "over"}
      BY DEF LinkInv, QueueInv, Backend!TypeOK
    <2> QED BY <1>2, <2>1 DEF Moves
  <1>4. Backend!Next /\ attached' \in Session
    BY <1>1 DEF Backend!Next, Session
  <1> QED BY <1>1, <1>2, <1>3, <1>4, QuietStep

LEMMA BackendKeeps ==
  ASSUME LinkInv, BackendActs \/ Crash
  PROVE  LinkInv' /\ Keeps(mirror, mirror')
  BY AcceptSubmitKeeps, RefuseSubmitKeeps, HandleCancelKeeps, HandleStopKeeps, HandleClearKeeps,
     HandleListKeeps, HandleResumeKeeps, StreamChunkKeeps, FoldKeeps, FinishTurnKeeps, CrashKeeps
  DEF BackendActs

-----------------------------------------------------------------------------
(* The terminal's steps *)

ConnectionType ==
  /\ state \in {"Starting", "Ready", "Dead"}
  /\ session \in {"none", "live", "gone"} /\ fallback \in {"none", "live", "gone"}
  /\ launching \in {"no", "start", "relaunch"}

\* No submit is sent, or put among the requests that wait.
SubmitsStay ==
  /\ up' \in Seq(Requests) /\ waiting' \in Seq(Requests) /\ Once(up') /\ Once(waiting')
  /\ \A t : (Asks(up', t) => Asks(up, t)) /\ (Asks(waiting', t) => Asks(waiting, t))

LEMMA Stay ==
  ASSUME LinkInv, UNCHANGED <<up, waiting>>
  PROVE  SubmitsStay
  BY DEF LinkInv, PipeType, PipeInv, SubmitsInOrder, SubmitsStay

LEMMA MoreStay ==
  ASSUME LinkInv, NEW r \in Requests, r.kind # "submit",
         (up' = Append(up, r) /\ waiting' = waiting) \/ (up' = up /\ waiting' = Append(waiting, r))
  PROVE  SubmitsStay
  <1>1. up \in Seq(Requests) /\ waiting \in Seq(Requests) /\ Once(up) /\ Once(waiting)
    BY DEF LinkInv, PipeType, PipeInv, SubmitsInOrder
  <1>2. /\ Append(up, r) \in Seq(Requests) /\ Once(Append(up, r))
        /\ \A t : Asks(Append(up, r), t) <=> Asks(up, t)
    BY <1>1, AskMore
  <1>3. /\ Append(waiting, r) \in Seq(Requests) /\ Once(Append(waiting, r))
        /\ \A t : Asks(Append(waiting, r), t) <=> Asks(waiting, t)
    BY <1>1, AskMore
  <1> QED BY <1>1, <1>2, <1>3 DEF SubmitsStay

\* A request that is not a submit.
LEMMA Dispatched ==
  ASSUME LinkInv, NEW r \in Requests, r.kind # "submit", Dispatch(r) \/ RefusedAtOnce
  PROVE  SubmitsStay /\ inFlight' = inFlight /\ ConnectionType'
  <1>1. ConnectionType
    BY DEF LinkInv, ClientType, ConnectionType
  <1>2. CASE Dispatch(r)
    <2>1. inFlight' = inFlight /\ ConnectionType'
      BY <1>1, <1>2 DEF Dispatch, ConnectionType, clientVars
    <2>2. (up' = Append(up, r) /\ waiting' = waiting) \/ (up' = up /\ waiting' = Append(waiting, r))
      BY <1>2 DEF Dispatch
    <2> QED BY <2>1, <2>2, MoreStay
  <1>3. CASE RefusedAtOnce
    BY <1>1, <1>3, Stay DEF RefusedAtOnce, ConnectionType
  <1> QED BY <1>2, <1>3

\* What no submit and no word of the backend changes.
LEMMA StayInOrder ==
  ASSUME LinkInv, SubmitsStay, UNCHANGED <<queueVars, submitted>>
  PROVE  SubmitsInOrder'
  <1>1. stage' = stage
    BY DEF queueVars
  <1> QED BY <1>1 DEF LinkInv, PipeInv, SubmitsInOrder, SubmitsStay

\* The terminal acts, without a word of the backend.
LEMMA OwnStep ==
  ASSUME LinkInv, SubmitsStay, UNCHANGED <<inFlight, down, alive, queueVars, submitted, hint>>,
         \A t \in Turn : Text(mirror', t) # 0 => Text(mirror, t) # 0
  PROVE  PipeInv' /\ PipeType' /\ QueueInv'
  <1>1. SubmitsInOrder'
    BY StayInOrder
  <1>2. UNCHANGED <<stage, ahead, outcome, condemned>>
    BY DEF queueVars
  <1>3. QueueInv'
    BY QueueKeeps DEF LinkInv
  <1>4. PipeType'
    BY DEF LinkInv, PipeType, SubmitsStay
  <1>5. stage \in Stages /\ down \in Seq(Events)
    BY DEF LinkInv, QueueInv, Backend!TypeOK, Stages, PipeType
  <1>6. \A t \in Turn : Asks(up', t) => Asks(up, t)
    BY DEF SubmitsStay
  <1>7. Piped(down, up', stage, inFlight)
    BY <1>5, <1>6, Asked DEF LinkInv, PipeInv
  <1>8. TextHeard' /\ HintOwned' /\ DeadIsIdle' /\ OnlySubmitted'
    BY <1>2 DEF LinkInv, PipeInv, TextHeard, HintOwned, DeadIsIdle, OnlySubmitted
  <1> QED BY <1>1, <1>2, <1>3, <1>4, <1>7, <1>8 DEF PipeInv

\* The terminal hears the first word the backend told.
LEMMA HeardStep ==
  ASSUME LinkInv, SubmitsStay, down # <<>>, down' = Tail(down),
         UNCHANGED <<alive, queueVars, submitted>>,
         inFlight' \in Seq(Turn), ToSet(inFlight') \subseteq ToSet(inFlight),
         \A t \in ToSet(inFlight) : t \in ToSet(inFlight') \/
           (Head(down).type \in {"settled", "removed"} /\ Head(down).turn = t),
         hint' => (hint /\ Head(down).type # "settled") \/ Head(down).type = "compactionStatus",
         \A t \in Turn : Text(mirror', t) # 0 => Text(mirror, t) # 0 \/ Head(down).turn = t
  PROVE  PipeInv' /\ PipeType' /\ QueueInv'
  <1>1. SubmitsInOrder'
    BY StayInOrder
  <1>2. UNCHANGED <<stage, ahead, outcome, condemned>>
    BY DEF queueVars
  <1>3. QueueInv'
    BY QueueKeeps DEF LinkInv
  <1>4. stage \in Stages /\ down \in Seq(Events) /\ Piped(down, up, stage, inFlight)
    BY DEF LinkInv, QueueInv, Backend!TypeOK, Stages, PipeType, PipeInv
  <1>5. \A t : Asks(up', t) => Asks(up, t)
    BY DEF SubmitsStay
  <1>6. /\ Head(down) \in Events /\ Tail(down) \in Seq(Events)
        /\ Piped(Tail(down), up', stage, inFlight')
        /\ \A t \in Turn : Begun(down, stage, inFlight, t)
                           /\ ~(Head(down).type = "settled" /\ Head(down).turn = t)
             => Begun(Tail(down), stage, inFlight', t)
        /\ \A type, t : ~Tells(down, type, t) => ~Tells(Tail(down), type, t)
        /\ ~Tells(Tail(down), "ack", Head(down).turn)
        /\ Head(down).turn \in Turn => stage[Head(down).turn] # "new"
        /\ Head(down).type = "compactionStatus" => Begun(Tail(down), stage, inFlight', Head(down).turn)
    BY <1>4, <1>5, Popped
  <1>7. PipeType'
    BY <1>6 DEF LinkInv, PipeType, SubmitsStay
  <1>8. OnlySubmitted'
    BY <1>2 DEF LinkInv, PipeInv, OnlySubmitted
  <1>9. TextHeard'
    BY <1>2, <1>6 DEF LinkInv, PipeInv, TextHeard
  <1>10. HintOwned'
    <2>1. CASE Head(down).type = "compactionStatus"
      <3>1. Head(down).turn \in Turn
        BY <1>6, <2>1, TurnsOfEvents
      <3> QED BY <1>2, <1>6, <2>1, <3>1 DEF HintOwned
    <2>2. CASE hint /\ Head(down).type \notin {"settled", "compactionStatus"}
      <3>1. PICK t \in Turn : Begun(down, stage, inFlight, t) /\ ~Tells(down, "ack", t)
        BY <2>2 DEF LinkInv, PipeInv, HintOwned
      <3> QED BY <1>2, <1>6, <2>2, <3>1 DEF HintOwned
    <2> QED BY <2>1, <2>2 DEF HintOwned
  <1>11. DeadIsIdle'
    BY <1>2 DEF LinkInv, PipeInv, DeadIsIdle
  <1> QED BY <1>1, <1>2, <1>3, <1>6, <1>7, <1>8, <1>9, <1>10, <1>11 DEF PipeInv

LEMMA LinkTypes ==
  ASSUME LinkInv
  PROVE  /\ ConnectionType /\ hint \in BOOLEAN /\ alive \in BOOLEAN /\ flow \in FlowPhase
         /\ mirror \in GoodMirrors /\ inFlight \in Seq(Turn) /\ down \in Seq(Events)
         /\ submitted \in SUBSET Turn /\ newest \in Nat /\ attached \in Session
         /\ stage \in Stages /\ Past \in Seq(Turn) /\ ToSet(inFlight) \subseteq submitted
  BY LinkAssumption DEF LinkInv, ClientType, ConnectionType, PipeType, HistoryType, MirrorInv,
     QueueInv, Backend!TypeOK, Stages, PipeInv, OnlySubmitted

LEMMA HearsSubmitted ==
  ASSUME LinkInv, mirror' \in After(mirror, submitted),
         UNCHANGED <<submitted, cleared, received, hydrated>>
  PROVE  /\ MirrorInv' /\ Keeps(mirror, mirror')
         /\ \A t \in Turn : Text(mirror', t) # 0 => Text(mirror, t) # 0
  <1>1. submitted \subseteq submitted' \cup ToSet(Past) /\ submitted \subseteq submitted'
    OBVIOUS
  <1> QED BY <1>1, MirrorHears DEF LinkInv

LEMMA OwnKeeps ==
  ASSUME LinkInv, SubmitsStay, ConnectionType', flow' \in FlowPhase,
         UNCHANGED <<inFlight, down, alive, queueVars, hint, newest, attached,
                     submitted, cleared, received, hydrated>>,
         mirror' \in After(mirror, submitted)
  PROVE  LinkInv' /\ Keeps(mirror, mirror')
  <1>1. /\ MirrorInv' /\ Keeps(mirror, mirror')
        /\ \A t \in Turn : Text(mirror', t) # 0 => Text(mirror, t) # 0
    BY HearsSubmitted
  <1>2. PipeInv' /\ PipeType' /\ QueueInv'
    BY <1>1, OwnStep
  <1>3. ClientType' /\ HistoryType'
    BY DEF LinkInv, ClientType, ConnectionType, HistoryType
  <1> QED BY <1>1, <1>2, <1>3 DEF LinkInv

LEMMA MirrorSame ==
  ASSUME LinkInv, mirror' = mirror
  PROVE  mirror' \in After(mirror, submitted)
  BY LinkTypes, AfterSelf

LEMMA FlowPhases ==
  {"closed", "stopping", "listing", "asking", "relaunching", "attaching", "labelling",
   "rollback", "failed"} \subseteq FlowPhase
  BY DEF FlowPhase

LEMMA CancelKeeps ==
  ASSUME LinkInv, Cancel
  PROVE  LinkInv' /\ Keeps(mirror, mirror')
  <1> DEFINE Active == {j \in DOMAIN mirror.rows : mirror.rows[j].state = "active"}
             First(j) == /\ mirror.rows[j].state = "active"
                         /\ \A k \in 1..(j - 1) : mirror.rows[k].state # "active"
             i == CHOOSE j \in DOMAIN mirror.rows : First(j)
             r == Request("cancel", mirror.rows[i].turn)
  <1>1. mirror.rows \in Seq(Row) /\ DOMAIN mirror.rows = 1..Len(mirror.rows) /\ Len(mirror.rows) \in Nat
    BY LinkTypes DEF GoodMirrors, Mirrors
  <1>2. \E j \in DOMAIN mirror.rows : First(j)
    <2>1. Active # {} /\ Active \in SUBSET Nat
      BY <1>1 DEF Cancel, HasActiveRow
    <2>2. PICK j \in Active : \A k \in Active : j <= k
      BY <2>1, LeastElement
    <2>3. \A k \in 1..(j - 1) : k \in DOMAIN mirror.rows /\ ~(j <= k)
      BY <1>1
    <2> QED BY <2>2, <2>3
  <1>3. i \in DOMAIN mirror.rows
    BY <1>2
  <1> HIDE DEF i
  <1>4. r \in Requests /\ r.kind # "submit"
    <2>1. mirror.rows[i] \in Row
      BY <1>1, <1>3
    <2> QED BY <2>1 DEF Request, Requests, Row
  <1>5. Dispatch(r) \/ RefusedAtOnce
    BY DEF Cancel, i
  <1> HIDE DEF r
  <1>6. SubmitsStay /\ inFlight' = inFlight /\ ConnectionType'
    BY <1>4, <1>5, Dispatched
  <1>7. mirror' = mirror /\ flow' = flow
        /\ UNCHANGED <<down, alive, queueVars, hint, newest, attached, submitted, cleared,
                       received, hydrated>>
    BY DEF Cancel
  <1>8. mirror' \in After(mirror, submitted) /\ flow' \in FlowPhase
    BY <1>7, MirrorSame, LinkTypes
  <1> QED BY <1>6, <1>7, <1>8, OwnKeeps

LEMMA ResumeSelectedKeeps ==
  ASSUME LinkInv, ResumeSelected
  PROVE  LinkInv' /\ Keeps(mirror, mirror')
  <1> DEFINE r == Request("stop", None)
  <1>1. r \in Requests /\ r.kind # "submit"
    BY DEF Request, Requests
  <1>2. SubmitsStay /\ inFlight' = inFlight /\ ConnectionType'
    <2>1. CASE Dispatch(r) \/ RefusedAtOnce
      <3> HIDE DEF r
      <3> QED BY <1>1, <2>1, Dispatched
    <2>2. CASE UNCHANGED <<clientVars, up, inFlight, waiting>>
      BY <2>2, Stay, LinkTypes DEF clientVars, ConnectionType
    <2> QED BY <2>1, <2>2 DEF ResumeSelected
  <1>3. UNCHANGED flowOnly /\ flow' \in FlowPhase
    BY FlowPhases DEF ResumeSelected
  <1>4. mirror' \in After(mirror, submitted)
    BY <1>3, MirrorSame DEF flowOnly
  <1> QED BY <1>2, <1>3, <1>4, OwnKeeps DEF flowOnly

LEMMA ConfirmKeeps ==
  ASSUME LinkInv, ConfirmWorkspaceOrResume
  PROVE  LinkInv' /\ Keeps(mirror, mirror')
  <1> DEFINE r == Request("list", FlowUse)
  <1>1. r \in Requests /\ r.kind # "submit"
    BY DEF Request, Requests
  <1>2. SubmitsStay /\ inFlight' = inFlight /\ ConnectionType'
    <2>1. CASE Dispatch(r) \/ RefusedAtOnce
      <3> HIDE DEF r
      <3> QED BY <1>1, <2>1, Dispatched
    <2>2. CASE UNCHANGED <<clientVars, up, inFlight, waiting>>
      BY <2>2, Stay, LinkTypes DEF clientVars, ConnectionType
    <2> QED BY <2>1, <2>2 DEF ConfirmWorkspaceOrResume
  <1>3. UNCHANGED flowOnly /\ flow' \in FlowPhase
    BY FlowPhases DEF ConfirmWorkspaceOrResume
  <1>4. mirror' \in After(mirror, submitted)
    BY <1>3, MirrorSame DEF flowOnly
  <1> QED BY <1>2, <1>3, <1>4, OwnKeeps DEF flowOnly

LEMMA TurnIdleKeeps ==
  ASSUME LinkInv, TurnIdle
  PROVE  LinkInv' /\ Keeps(mirror, mirror')
  <1>1. UNCHANGED <<flowOnly, clientVars, up, inFlight, waiting>> /\ flow' \in FlowPhase
    BY FlowPhases DEF TurnIdle
  <1>2. SubmitsStay /\ ConnectionType'
    BY <1>1, Stay, LinkTypes DEF clientVars, ConnectionType
  <1>3. mirror' \in After(mirror, submitted)
    BY <1>1, MirrorSame DEF flowOnly
  <1> QED BY <1>1, <1>2, <1>3, OwnKeeps DEF flowOnly

LEMMA RelaunchType ==
  ASSUME ConnectionType, BeginRelaunch
  PROVE  ConnectionType'
  BY DEF ConnectionType, BeginRelaunch

LEMMA BeginRollbackKeeps ==
  ASSUME LinkInv, BeginRollback
  PROVE  LinkInv' /\ Keeps(mirror, mirror')
  <1>1. UNCHANGED <<flowOnly, up, inFlight, waiting, flow>> /\ BeginRelaunch
    BY DEF BeginRollback
  <1>2. SubmitsStay /\ ConnectionType' /\ flow' \in FlowPhase
    BY <1>1, Stay, LinkTypes, RelaunchType
  <1>3. mirror' \in After(mirror, submitted)
    BY <1>1, MirrorSame DEF flowOnly
  <1> QED BY <1>1, <1>2, <1>3, OwnKeeps DEF flowOnly

LEMMA FlushTimerKeeps ==
  ASSUME LinkInv, NEW t \in Turn, FlushTimer(t)
  PROVE  LinkInv' /\ Keeps(mirror, mirror')
  <1>1. UNCHANGED <<linkOnly, hint, inFlight, up, down, flow, received>>
        /\ mirror' = FlushCoalescer(mirror, t) /\ mirror.held[t] > 0
    BY DEF FlushTimer
  <1>2. SubmitsStay /\ ConnectionType' /\ flow' \in FlowPhase
    BY <1>1, Stay, LinkTypes DEF linkOnly, clientVars, ConnectionType
  <1>3. t \in submitted
    <2>1. mirror.stream[t] \in Nat /\ mirror.held[t] \in Nat
      BY LinkTypes DEF GoodMirrors, Mirrors
    <2>2. Text(mirror, t) # 0
      BY <1>1, <2>1 DEF Text
    <2> QED BY <2>2 DEF LinkInv, PipeInv, TextHeard, OnlySubmitted
  <1>4. mirror' \in After(mirror, submitted)
    <2>1. mirror' \in After(mirror, {t})
      BY <1>1, LinkTypes, FlushAfter
    <2> QED BY <1>3, <2>1, AfterWider
  <1> QED BY <1>1, <1>2, <1>4, OwnKeeps DEF linkOnly

LEMMA ZeroIs ==
  Zero \in [Turn -> Nat] /\ \A t \in Turn : Zero[t] = 0
  BY DEF Zero

LEMMA ClearKeeps ==
  ASSUME LinkInv, Clear
  PROVE  LinkInv' /\ Keeps(mirror, mirror')
  <1> DEFINE r == Request("clear", None)
  <1>1. r \in Requests /\ r.kind # "submit"
    BY DEF Request, Requests
  <1>2. Dispatch(r) \/ RefusedAtOnce
    BY DEF Clear
  <1> HIDE DEF r
  <1>3. SubmitsStay /\ inFlight' = inFlight /\ ConnectionType'
    BY <1>1, <1>2, Dispatched
  <1>4. /\ mirror' = ClearTranscript(mirror) /\ received' = Zero
        /\ cleared' = cleared \cup VisibleTurns(mirror)
        /\ UNCHANGED <<hint, down, alive, queueVars, attached, flow, newest, submitted, hydrated>>
    BY DEF Clear
  <1>5. mirror \in GoodMirrors
    BY LinkTypes
  <1>6. /\ Wiped(mirror, mirror') /\ VisibleTurns(mirror') = {}
        /\ VisibleTurns(mirror) \subseteq mirror'.ignored
    BY <1>4, <1>5, ClearIs
  <1>7. MirrorInv' /\ Keeps(mirror, mirror')
    <2>1. KnownTurns'
      BY <1>4, <1>6 DEF Wiped, LinkInv, MirrorInv, KnownTurns
    <2>2. ClearedIgnored'
      BY <1>4, <1>6 DEF Wiped, Keeps, LinkInv, MirrorInv, ClearedIgnored
    <2>3. TextArrived'
      BY <1>4, <1>6, ZeroIs DEF Wiped, TextArrived
    <2> QED BY <1>6, <2>1, <2>2, <2>3 DEF Wiped, MirrorInv
  <1>8. PipeInv' /\ PipeType' /\ QueueInv'
    <2>1. \A t \in Turn : Text(mirror', t) # 0 => Text(mirror, t) # 0
      BY <1>6 DEF Wiped
    <2> QED BY <1>3, <1>4, <2>1, OwnStep
  <1>9. ClientType'
    BY <1>3, <1>4 DEF LinkInv, ClientType, ConnectionType
  <1>10. HistoryType'
    <2>1. VisibleTurns(mirror) \in SUBSET Turn
      <3>1. VisibleTurns(mirror) \subseteq submitted \cup ToSet(Past)
        BY DEF LinkInv, MirrorInv, KnownTurns, Known
      <3>2. ToSet(Past) \subseteq Turn
        BY LinkTypes DEF ToSet
      <3> QED BY <3>1, <3>2, LinkTypes
    <2> QED BY <1>4, <2>1, ZeroIs DEF LinkInv, HistoryType
  <1> QED BY <1>7, <1>8, <1>9, <1>10 DEF LinkInv

LEMMA ApplyResumeKeeps ==
  ASSUME LinkInv, ApplyResolvedResume
  PROVE  LinkInv'
  <1>1. /\ mirror' = HydrateResumedTranscript(mirror, Stored, Past)
        /\ flow' = "closed" /\ hydrated' = TRUE /\ received' = Zero
        /\ UNCHANGED <<hint, clientVars, inFlight, waiting, up, down, alive, attached, folding,
                       queueVars, newest, submitted, count, cleared>>
    BY DEF ApplyResolvedResume
  <1>2. mirror \in GoodMirrors
    BY LinkTypes
  <1>3. mirror' \in GoodMirrors /\ Known(mirror') = ToSet(Past) /\ \A t \in Turn : Text(mirror', t) = 0
    BY <1>1, <1>2, HydrateIs
  <1>4. MirrorInv'
    BY <1>1, <1>3, ZeroIs DEF MirrorInv, KnownTurns, ClearedIgnored, TextArrived
  <1>5. SubmitsStay /\ ConnectionType' /\ flow' \in FlowPhase
    BY <1>1, Stay, LinkTypes, FlowPhases DEF clientVars, ConnectionType
  <1>6. PipeInv' /\ PipeType' /\ QueueInv'
    BY <1>1, <1>3, <1>5, OwnStep
  <1>7. ClientType' /\ HistoryType'
    BY <1>1, <1>5, ZeroIs DEF LinkInv, ClientType, ConnectionType, HistoryType
  <1> QED BY <1>4, <1>6, <1>7 DEF LinkInv

\* A turn nobody has heard of.
Fresh(t) ==
  /\ t \in Turn /\ t \notin submitted /\ t \notin Known(mirror)
  /\ stage[t] = "new" /\ ~Asks(up, t) /\ ~Asks(waiting, t) /\ Text(mirror, t) = 0

LEMMA NewIsFresh ==
  ASSUME LinkInv, Turn # submitted \cup ToSet(Past)
  PROVE  Fresh(NewTurnId)
  <1>1. submitted \subseteq Turn /\ ToSet(Past) \subseteq Turn
    BY LinkTypes DEF ToSet
  <1>2. NewTurnId \in Turn /\ NewTurnId \notin submitted \cup ToSet(Past)
    BY <1>1 DEF NewTurnId
  <1>3. stage[NewTurnId] = "new"
    BY <1>2 DEF LinkInv, PipeInv, OnlySubmitted
  <1> QED BY <1>2, <1>3 DEF LinkInv, PipeInv, SubmitsInOrder, TextHeard, MirrorInv, KnownTurns, Fresh

LEMMA PromptHeard ==
  ASSUME LinkInv, NEW t, Fresh(t)
  PROVE  /\ AppendPrompt(mirror, t) \in After(mirror, {t})
         /\ SettleLocalSubmitFailure(AppendPrompt(mirror, t), {t}) \in After(mirror, {t})
  <1>1. mirror \in GoodMirrors /\ t \in Turn \ Known(mirror) /\ {t} \in SUBSET Turn
    BY LinkTypes DEF Fresh
  <1>2. /\ AppendPrompt(mirror, t) \in After(mirror, {t})
        /\ Text(AppendPrompt(mirror, t), t) = Text(mirror, t)
    BY <1>1, PromptAfter
  <1>3. AppendPrompt(mirror, t) \in GoodMirrors
    BY <1>2 DEF After
  <1>4. \A u \in {t} : Text(AppendPrompt(mirror, t), u) = 0
    BY <1>2 DEF Fresh
  <1>5. SettleLocalSubmitFailure(AppendPrompt(mirror, t), {t}) \in After(AppendPrompt(mirror, t), {t})
    BY <1>1, <1>3, <1>4, SettleLocalAfter
  <1>6. SettleLocalSubmitFailure(AppendPrompt(mirror, t), {t}) \in After(mirror, {t} \cup {t})
    BY <1>1, <1>2, <1>5, AfterMore
  <1> QED BY <1>2, <1>6, AfterWider

\* The submit of a new turn is sent, waits, or is refused.
SubmitSent(t) ==
  \/ /\ up' = Append(up, Request("submit", t)) /\ inFlight' = Append(inFlight, t)
     /\ waiting' = waiting
  \/ /\ waiting' = Append(waiting, Request("submit", t)) /\ up' = up /\ inFlight' = inFlight
  \/ UNCHANGED <<up, waiting, inFlight>>

LEMMA SubmitStep ==
  ASSUME LinkInv, NEW t, Fresh(t), SubmitSent(t), submitted' = submitted \cup {t},
         UNCHANGED <<down, alive, queueVars, hint>>,
         \A u \in Turn : Text(mirror', u) # 0 => Text(mirror, u) # 0
  PROVE  PipeInv' /\ PipeType' /\ QueueInv'
  <1>1. UNCHANGED <<stage, ahead, outcome, condemned>>
    BY DEF queueVars
  <1>2. QueueInv'
    BY QueueKeeps DEF LinkInv
  <1>3. /\ up \in Seq(Requests) /\ waiting \in Seq(Requests) /\ Once(up) /\ Once(waiting)
        /\ inFlight \in Seq(Turn) /\ t \in Turn /\ ~Asks(up, t) /\ ~Asks(waiting, t)
    BY DEF LinkInv, PipeType, PipeInv, SubmitsInOrder, Fresh
  <1>4. LET p == Append(up, Request("submit", t))
        IN  p \in Seq(Requests) /\ (Once(up) => Once(p)) /\ \A u : Asks(p, u) <=> Asks(up, u) \/ u = t
    BY <1>3, AskSubmit
  <1>5. LET p == Append(waiting, Request("submit", t))
        IN  p \in Seq(Requests) /\ (Once(waiting) => Once(p))
            /\ \A u : Asks(p, u) <=> Asks(waiting, u) \/ u = t
    BY <1>3, AskSubmit
  <1>6. Append(inFlight, t) \in Seq(Turn) /\ ToSet(Append(inFlight, t)) = ToSet(inFlight) \cup {t}
    <2>1. /\ DOMAIN inFlight = 1..Len(inFlight) /\ Len(inFlight) \in Nat
          /\ Append(inFlight, t) \in Seq(Turn)
          /\ DOMAIN Append(inFlight, t) = 1..(Len(inFlight) + 1)
          /\ Append(inFlight, t)[Len(inFlight) + 1] = t
          /\ \A i \in DOMAIN inFlight : Append(inFlight, t)[i] = inFlight[i]
      BY <1>3
    <2>2. \A i \in 1..(Len(inFlight) + 1) : i \in 1..Len(inFlight) \/ i = Len(inFlight) + 1
      BY <2>1
    <2>3. 1..Len(inFlight) \subseteq 1..(Len(inFlight) + 1) /\ Len(inFlight) + 1 \in 1..(Len(inFlight) + 1)
      BY <2>1
    <2> QED BY <2>1, <2>2, <2>3 DEF ToSet
  <1>7. /\ up' \in Seq(Requests) /\ waiting' \in Seq(Requests) /\ inFlight' \in Seq(Turn)
        /\ Once(up') /\ Once(waiting')
        /\ \A u : Asks(up', u) => Asks(up, u) \/ (u = t /\ t \in ToSet(inFlight'))
        /\ \A u : Asks(waiting', u) => Asks(waiting, u) \/ u = t
        /\ ~(Asks(up', t) /\ Asks(waiting', t))
        /\ ToSet(inFlight) \subseteq ToSet(inFlight')
        /\ ToSet(inFlight') \subseteq ToSet(inFlight) \cup {t}
    BY <1>3, <1>4, <1>5, <1>6 DEF SubmitSent
  <1>8. PipeType'
    BY <1>7 DEF LinkInv, PipeType
  <1>9. OnlySubmitted'
    BY <1>1, <1>7 DEF LinkInv, PipeInv, OnlySubmitted
  <1>10. SubmitsInOrder'
    BY <1>1, <1>7 DEF LinkInv, PipeInv, SubmitsInOrder, Fresh
  <1>11. /\ Piped(down, up', stage, inFlight')
         /\ \A u \in Turn : Begun(down, stage, inFlight, u) => Begun(down, stage, inFlight', u)
    <2>1. /\ stage \in Stages /\ down \in Seq(Events) /\ Piped(down, up, stage, inFlight)
      BY LinkTypes DEF LinkInv, PipeInv
    <2>2. \A u \in Turn : Asks(up', u) => Asks(up, u) \/ (u \in ToSet(inFlight') /\ stage[u] = "new")
      BY <1>7 DEF Fresh
    <2> QED BY <1>7, <2>1, <2>2, Asked
  <1>12. TextHeard' /\ DeadIsIdle'
    BY <1>1 DEF LinkInv, PipeInv, TextHeard, DeadIsIdle
  <1>13. HintOwned'
    BY <1>1, <1>11 DEF LinkInv, PipeInv, HintOwned
  <1> QED BY <1>1, <1>2, <1>8, <1>9, <1>10, <1>11, <1>12, <1>13 DEF PipeInv

LEMMA EnqueuePromptKeeps ==
  ASSUME LinkInv, EnqueuePrompt
  PROVE  LinkInv' /\ Keeps(mirror, mirror')
  <1> DEFINE t == NewTurnId
             r == Request("submit", t)
  <1>1. /\ submitted' = submitted \cup {t}
        /\ \/ Dispatch(r) /\ mirror' = AppendPrompt(mirror, t)
           \/ RefusedAtOnce /\ mirror' = SettleLocalSubmitFailure(AppendPrompt(mirror, t), {t})
        /\ UNCHANGED <<hint, down, alive, attached, queueVars, flow, newest, cleared, received, hydrated>>
    BY DEF EnqueuePrompt
  <1>2. Fresh(t)
    BY NewIsFresh DEF EnqueuePrompt
  <1> HIDE DEF t
  <1>3. SubmitSent(t) /\ ConnectionType'
    <2>1. r.kind = "submit" /\ r.turn = t
      BY DEF Request
    <2>2. CASE Dispatch(r)
      <3>1. SubmitSent(t)
        BY <2>1, <2>2 DEF Dispatch, SubmitSent
      <3>2. ConnectionType'
        BY <2>2, LinkTypes DEF Dispatch, ConnectionType, clientVars
      <3> QED BY <3>1, <3>2
    <2>3. CASE RefusedAtOnce
      BY <2>3, LinkTypes DEF RefusedAtOnce, SubmitSent, ConnectionType
    <2> QED BY <1>1, <2>2, <2>3
  <1>4. mirror' \in After(mirror, {t})
    BY <1>1, <1>2, PromptHeard
  <1>5. /\ MirrorInv' /\ Keeps(mirror, mirror')
        /\ \A u \in Turn : Text(mirror', u) # 0 => Text(mirror, u) # 0
    <2>1. {t} \subseteq submitted' \cup ToSet(Past) /\ submitted \subseteq submitted'
      BY <1>1
    <2> QED BY <1>1, <1>4, <2>1, MirrorHears DEF LinkInv
  <1>6. PipeInv' /\ PipeType' /\ QueueInv'
    BY <1>1, <1>2, <1>3, <1>5, SubmitStep
  <1>7. ClientType' /\ HistoryType'
    BY <1>1, <1>2, <1>3 DEF LinkInv, ClientType, ConnectionType, HistoryType, Fresh
  <1> QED BY <1>5, <1>6, <1>7 DEF LinkInv

\* The turns in flight when a word e of the backend has been heard.
StillInFlight(e) ==
  /\ inFlight' \in Seq(Turn) /\ ToSet(inFlight') \subseteq ToSet(inFlight)
  /\ \A t \in ToSet(inFlight) : t \in ToSet(inFlight') \/
       (e.type \in {"settled", "removed"} /\ e.turn = t)

LEMMA HeardKeeps ==
  ASSUME LinkInv, SubmitsStay, ConnectionType', flow' \in FlowPhase, hint' \in BOOLEAN,
         down # <<>>, down' = Tail(down), StillInFlight(Head(down)),
         UNCHANGED <<alive, queueVars, newest, attached, submitted, cleared, received, hydrated>>,
         hint' => (hint /\ Head(down).type # "settled") \/ Head(down).type = "compactionStatus",
         mirror' \in After(mirror, submitted)
  PROVE  LinkInv' /\ Keeps(mirror, mirror')
  <1>1. /\ MirrorInv' /\ Keeps(mirror, mirror')
        /\ \A t \in Turn : Text(mirror', t) # 0 => Text(mirror, t) # 0
    BY HearsSubmitted
  <1>2. PipeInv' /\ PipeType' /\ QueueInv'
    BY <1>1, HeardStep DEF StillInFlight
  <1>3. ClientType' /\ HistoryType'
    BY DEF LinkInv, ClientType, ConnectionType, HistoryType
  <1> QED BY <1>1, <1>2, <1>3 DEF LinkInv

LEMMA FirstIs ==
  ASSUME LinkInv, down # <<>>
  PROVE  /\ Head(down) \in Events
         /\ Head(down).turn \in Turn => Head(down).turn \in submitted
  <1>1. /\ down \in Seq(Events) /\ Heard(down, stage)
    BY DEF LinkInv, PipeType, PipeInv, Piped
  <1>2. Head(down) \in Events /\ Head(down) = down[1] /\ 1 \in DOMAIN down
    BY <1>1
  <1>3. Head(down).turn \in Turn => stage[Head(down).turn] # "new"
    BY <1>1, <1>2 DEF Heard
  <1> QED BY <1>2, <1>3 DEF LinkInv, PipeInv, OnlySubmitted

LEMMA InFlightSame ==
  ASSUME LinkInv, inFlight' = inFlight, NEW e
  PROVE  StillInFlight(e)
  BY LinkTypes DEF StillInFlight

\* The mirror hears of a turn that was submitted.
LEMMA EventHeard ==
  ASSUME LinkInv, down # <<>>,
         Head(down).type \in {"enqueued", "activated", "settled", "removed"}
  PROVE  TranscriptEvent(mirror, Head(down)) \in After(mirror, submitted)
  <1> DEFINE e == Head(down)
  <1>1. e \in Events /\ e.type \in {"enqueued", "activated", "settled", "removed"}
    BY FirstIs
  <1>2. e.turn \in Turn /\ e.turn \in submitted
    BY <1>1, FirstIs, TurnsOfEvents
  <1>3. /\ e.type = "enqueued" => e.state \in {"active", "queued"}
        /\ e.type = "settled" => e.result \in Result
    BY <1>1 DEF Events
  <1> HIDE DEF e
  <1>4. TranscriptEvent(mirror, e) \in After(mirror, {e.turn})
    BY <1>1, <1>2, <1>3, LinkTypes, EventAfter
  <1>5. TranscriptEvent(mirror, e) \in After(mirror, submitted)
    BY <1>2, <1>4, AfterWider
  <1> QED BY <1>5 DEF e

LEMMA ReceiveEnqueuedKeeps ==
  ASSUME LinkInv, ReceiveEnqueued
  PROVE  LinkInv' /\ Keeps(mirror, mirror')
  <1> DEFINE r == Request("list", CaptureUse)
             asks == IF mirror.current = None THEN <<r>> ELSE <<>>
  <1>1. /\ down # <<>> /\ Head(down).type = "enqueued" /\ down' = Tail(down)
        /\ mirror' = TranscriptEvent(mirror, Head(down))
        /\ UNCHANGED <<clientVars, alive, attached, queueVars, hint, inFlight, flow,
                       newest, submitted, cleared, received, hydrated>>
    BY DEF ReceiveEnqueued, Arrives, historyVars
  <1>2. IF state = "Ready" THEN up' = up \o asks /\ waiting' = waiting
        ELSE up' = up /\ waiting' = waiting \o asks
    BY DEF ReceiveEnqueued
  <1>3. r \in Requests /\ r.kind # "submit"
    BY DEF Request, Requests
  <1>4. up \in Seq(Requests) /\ waiting \in Seq(Requests)
    BY DEF LinkInv, PipeType
  <1> HIDE DEF r
  <1>5. SubmitsStay
    <2>1. CASE mirror.current = None
      <3>1. up \o <<r>> = Append(up, r) /\ waiting \o <<r>> = Append(waiting, r)
        BY <1>3, <1>4
      <3>2. \/ up' = Append(up, r) /\ waiting' = waiting
            \/ up' = up /\ waiting' = Append(waiting, r)
        BY <1>2, <2>1, <3>1
      <3> QED BY <1>3, <3>2, MoreStay
    <2>2. CASE mirror.current # None
      <3>1. up \o <<>> = up /\ waiting \o <<>> = waiting
        BY <1>4
      <3>2. up' = up /\ waiting' = waiting
        BY <1>2, <2>2, <3>1
      <3> QED BY <3>2, Stay
    <2> QED BY <2>1, <2>2
  <1>6. mirror' \in After(mirror, submitted)
    BY <1>1, EventHeard
  <1>7. ConnectionType' /\ flow' \in FlowPhase /\ hint' \in BOOLEAN /\ StillInFlight(Head(down))
    BY <1>1, LinkTypes, InFlightSame DEF clientVars, ConnectionType
  <1>8. hint' => hint /\ Head(down).type # "settled"
    BY <1>1
  <1> QED BY <1>1, <1>5, <1>6, <1>7, <1>8, HeardKeeps

\* The first chunk in the pipe is held back.
LEMMA ChunkHeld ==
  ASSUME LinkInv, NEW t \in Turn, t \in submitted,
         mirror' = [mirror EXCEPT !.held[t] = @ + 1],
         received' = IF t \notin mirror.ignored THEN [received EXCEPT ![t] = @ + 1] ELSE received,
         UNCHANGED <<submitted, cleared, hydrated>>
  PROVE  /\ MirrorInv' /\ Keeps(mirror, mirror')
         /\ \A u \in Turn : Text(mirror', u) # 0 => Text(mirror, u) # 0 \/ t = u
  <1>1. mirror \in Mirrors /\ mirror \in GoodMirrors /\ mirror.held \in [Turn -> Nat]
    BY LinkTypes DEF GoodMirrors, Mirrors
  <1>2. [mirror.held EXCEPT ![t] = @ + 1] \in [Turn -> Nat]
    BY <1>1
  <1>3. /\ mirror' \in Mirrors /\ mirror'.rows = mirror.rows /\ mirror'.ignored = mirror.ignored
        /\ mirror'.stream = mirror.stream /\ mirror'.stamp = mirror.stamp
        /\ mirror'.generation = mirror.generation
        /\ mirror'.held = [mirror.held EXCEPT ![t] = @ + 1]
    BY <1>1, <1>2 DEF Mirrors
  <1>4. \A u \in Turn : /\ Text(mirror, u) \in Nat /\ mirror.stream[u] \in Nat
                        /\ Text(mirror', u) = Text(mirror, u) + (IF u = t THEN 1 ELSE 0)
    <2>1. \A u \in Turn : mirror.stream[u] \in Nat /\ mirror.held[u] \in Nat
      BY <1>1 DEF Mirrors
    <2>2. \A u \in Turn : mirror'.held[u] = mirror.held[u] + (IF u = t THEN 1 ELSE 0)
      BY <1>1, <1>3, <2>1
    <2>3. ASSUME NEW a \in Nat, NEW b \in Nat, NEW c \in {0, 1}
          PROVE  a + b \in Nat /\ a + (b + c) = (a + b) + c
      OBVIOUS
    <2>4. \A u \in Turn : (IF u = t THEN 1 ELSE 0) \in {0, 1}
      OBVIOUS
    <2>5. mirror'.stream = mirror.stream
      BY <1>3
    <2> QED BY <2>1, <2>2, <2>3, <2>4, <2>5 DEF Text
  <1>5. mirror' \in GoodMirrors
    <2>1. \A u : HasRow(mirror', u) <=> HasRow(mirror, u)
      BY <1>3 DEF HasRow
    <2> DEFINE n == mirror'
    <2>2. /\ n \in Mirrors /\ n.rows = mirror.rows /\ n.ignored = mirror.ignored
          /\ n.stream = mirror.stream /\ n.stamp = mirror.stamp /\ n.generation = mirror.generation
          /\ \A u : HasRow(n, u) <=> HasRow(mirror, u)
      BY <1>3, <2>1
    <2> HIDE DEF n
    <2>3. n \in GoodMirrors
      BY <1>1, <2>2 DEF GoodMirrors
    <2> QED BY <2>3 DEF n
  <1>6. VisibleTurns(mirror') = VisibleTurns(mirror) /\ Known(mirror') = Known(mirror)
    BY <1>3 DEF VisibleTurns, Known
  <1>7. Keeps(mirror, mirror')
    BY <1>3 DEF Keeps
  <1>8. KnownTurns' /\ ClearedIgnored'
    BY <1>3, <1>6 DEF LinkInv, MirrorInv, KnownTurns, ClearedIgnored
  <1>9. TextArrived'
    <2>1. received \in [Turn -> Nat]
      BY DEF LinkInv, HistoryType
    <2> QED BY <1>3, <1>4, <2>1 DEF LinkInv, MirrorInv, TextArrived
  <1> QED BY <1>4, <1>5, <1>7, <1>8, <1>9 DEF MirrorInv

\* The turn whose end arrives is not in flight any more.
LEMMA FlightEnds ==
  ASSUME LinkInv, NEW e, inFlight' = IF e.type \in {"settled", "removed"}
                                     THEN Only(inFlight, Turn \ {e.turn}) ELSE inFlight
  PROVE  StillInFlight(e)
  <1>1. CASE e.type \notin {"settled", "removed"}
    BY <1>1, LinkTypes DEF StillInFlight
  <1>2. CASE e.type \in {"settled", "removed"}
    <2> DEFINE K == Turn \ {e.turn}
               q == Only(inFlight, K)
    <2>1. inFlight \in Seq(Turn)
      BY LinkTypes
    <2>2. /\ q \in Seq(Turn)
          /\ \A i \in DOMAIN q : \E j \in DOMAIN inFlight : inFlight[j] = q[i]
          /\ \A j \in DOMAIN inFlight : inFlight[j] \in K => \E i \in DOMAIN q : q[i] = inFlight[j]
      <3> HIDE DEF K
      <3>1. /\ Only(inFlight, K) \in Seq(Turn)
            /\ \A i \in DOMAIN Only(inFlight, K) :
                 Only(inFlight, K)[i] \in K
                 /\ \E j \in DOMAIN inFlight : inFlight[j] = Only(inFlight, K)[i]
            /\ \A j \in DOMAIN inFlight : inFlight[j] \in K =>
                 \E i \in DOMAIN Only(inFlight, K) : Only(inFlight, K)[i] = inFlight[j]
        BY <2>1, OnlyIs
      <3> QED BY <3>1
    <2>3. \A j \in DOMAIN inFlight : inFlight[j] \in Turn
      BY <2>1
    <2>4. inFlight' = q
      BY <1>2
    <2> HIDE DEF q
    <2>5. ToSet(q) \subseteq ToSet(inFlight)
      BY <2>2 DEF ToSet
    <2>6. \A t \in ToSet(inFlight) : t \in ToSet(q) \/ e.turn = t
      BY <2>2, <2>3 DEF ToSet
    <2> QED BY <1>2, <2>2, <2>4, <2>5, <2>6 DEF StillInFlight
  <1> QED BY <1>1, <1>2

LEMMA ReceiveEventKeeps ==
  ASSUME LinkInv, ReceiveEvent
  PROVE  LinkInv' /\ Keeps(mirror, mirror')
  <1> DEFINE e == Head(down)
  <1>1. /\ down # <<>> /\ e.type \in {"activated", "tokenDelta", "settled", "removed"}
        /\ down' = Tail(down) /\ mirror' = TranscriptEvent(mirror, e)
        /\ hint' = (hint /\ e.type # "settled")
        /\ inFlight' = IF e.type \in {"settled", "removed"}
                       THEN Only(inFlight, Turn \ {e.turn}) ELSE inFlight
        /\ received' = IF e.type = "tokenDelta" /\ e.turn \notin mirror.ignored
                       THEN [received EXCEPT ![e.turn] = @ + 1] ELSE received
    BY DEF ReceiveEvent, Arrives
  <1>2. UNCHANGED <<clientVars, waiting, alive, attached, queueVars, newest, submitted, cleared,
                    hydrated, up, flow>>
    BY DEF ReceiveEvent, linkOnly
  <1>3. /\ SubmitsStay /\ ConnectionType' /\ flow' \in FlowPhase
    BY <1>2, Stay, LinkTypes DEF clientVars, ConnectionType
  <1>4. StillInFlight(e)
    BY <1>1, FlightEnds
  <1>5. hint' \in BOOLEAN /\ (hint' => hint /\ e.type # "settled")
    BY <1>1
  <1>6. CASE e.type # "tokenDelta"
    <2>1. received' = received
      BY <1>1, <1>6
    <2>2. mirror' \in After(mirror, submitted)
      BY <1>1, <1>6, EventHeard
    <2> QED BY <1>1, <1>2, <1>3, <1>4, <1>5, <2>1, <2>2, HeardKeeps
  <1>7. CASE e.type = "tokenDelta"
    <2> DEFINE t == e.turn
    <2>1. e \in Events /\ t \in Turn /\ t \in submitted
      BY <1>1, <1>7, FirstIs, TurnsOfEvents
    <2>2. e.chunks = 1
      BY <1>7, <2>1 DEF Events
    <2>3. mirror' = [mirror EXCEPT !.held[t] = @ + 1]
      BY <1>1, <1>7, <2>2 DEF TranscriptEvent
    <2>4. received' = IF t \notin mirror.ignored THEN [received EXCEPT ![t] = @ + 1] ELSE received
      BY <1>1, <1>7
    <2> HIDE DEF t, e
    <2>5. /\ MirrorInv' /\ Keeps(mirror, mirror')
          /\ \A u \in Turn : Text(mirror', u) # 0 => Text(mirror, u) # 0 \/ t = u
      BY <1>2, <2>1, <2>3, <2>4, ChunkHeld
    <2>6. PipeInv' /\ PipeType' /\ QueueInv'
      BY <1>1, <1>2, <1>3, <1>4, <1>5, <2>5, HeardStep DEF StillInFlight, e, t
    <2>7. received' \in [Turn -> Nat]
      BY <2>1, <2>4 DEF LinkInv, HistoryType
    <2>8. ClientType' /\ HistoryType'
      BY <1>2, <1>3, <1>5, <2>7 DEF LinkInv, ClientType, ConnectionType, HistoryType
    <2> QED BY <2>5, <2>6, <2>8 DEF LinkInv
  <1> QED BY <1>6, <1>7

\* What arrives leaves the requests and the connection alone.
LEMMA Arrived ==
  ASSUME LinkInv, NEW type, Arrives(type), UNCHANGED <<linkOnly, inFlight, up>>
  PROVE  /\ SubmitsStay /\ ConnectionType' /\ StillInFlight(Head(down))
         /\ down # <<>> /\ Head(down).type = type /\ down' = Tail(down) /\ Head(down) \in Events
         /\ UNCHANGED <<alive, queueVars, newest, attached, submitted, cleared, hydrated>>
  <1>1. /\ down # <<>> /\ Head(down).type = type /\ down' = Tail(down)
        /\ UNCHANGED <<clientVars, waiting, alive, queueVars, newest, attached, submitted,
                       cleared, hydrated>>
    BY DEF Arrives, linkOnly
  <1> QED BY <1>1, Stay, LinkTypes, InFlightSame, FirstIs DEF clientVars, ConnectionType

LEMMA ReceiveCompactionKeeps ==
  ASSUME LinkInv, ReceiveCompaction
  PROVE  LinkInv' /\ Keeps(mirror, mirror')
  <1>1. /\ Arrives("compactionStatus") /\ hint' = Head(down).on
        /\ UNCHANGED <<linkOnly, mirror, inFlight, up, flow, received>>
    BY DEF ReceiveCompaction
  <1>2. /\ SubmitsStay /\ ConnectionType' /\ StillInFlight(Head(down))
        /\ down # <<>> /\ Head(down).type = "compactionStatus" /\ down' = Tail(down)
        /\ Head(down) \in Events
        /\ UNCHANGED <<alive, queueVars, newest, attached, submitted, cleared, hydrated>>
    BY <1>1, Arrived
  <1>3. hint' \in BOOLEAN
    BY <1>1, <1>2 DEF Events
  <1>4. mirror' \in After(mirror, submitted) /\ flow' \in FlowPhase /\ received' = received
    BY <1>1, MirrorSame, LinkTypes
  <1> QED BY <1>2, <1>3, <1>4, HeardKeeps

LEMMA ReceiveAckKeeps ==
  ASSUME LinkInv, ReceiveAck \/ ReceiveStopped
  PROVE  LinkInv' /\ Keeps(mirror, mirror')
  <1>1. PICK type \in {"ack", "stopped"} : Arrives(type)
    BY DEF ReceiveAck, ReceiveStopped
  <1>2. UNCHANGED <<linkOnly, mirror, hint, inFlight, up, flow, received>>
    BY DEF ReceiveAck, ReceiveStopped
  <1>3. /\ SubmitsStay /\ ConnectionType' /\ StillInFlight(Head(down))
        /\ down # <<>> /\ Head(down).type = type /\ down' = Tail(down)
        /\ UNCHANGED <<alive, queueVars, newest, attached, submitted, cleared, hydrated>>
    BY <1>1, <1>2, Arrived
  <1>4. /\ hint' \in BOOLEAN /\ (hint' => hint /\ Head(down).type # "settled")
        /\ mirror' \in After(mirror, submitted) /\ flow' \in FlowPhase /\ received' = received
    BY <1>2, <1>3, MirrorSame, LinkTypes
  <1> QED BY <1>3, <1>4, HeardKeeps

LEMMA ReceiveCaptureKeeps ==
  ASSUME LinkInv, ReceiveCapture
  PROVE  LinkInv' /\ Keeps(mirror, mirror')
  <1>1. /\ Arrives("listed")
        /\ mirror' = IF Head(down).session = 0 THEN mirror
                     ELSE [mirror EXCEPT !.current = Head(down).session]
        /\ UNCHANGED <<linkOnly, hint, inFlight, up, flow, received>>
    BY DEF ReceiveCapture
  <1>2. /\ SubmitsStay /\ ConnectionType' /\ StillInFlight(Head(down))
        /\ down # <<>> /\ Head(down).type = "listed" /\ down' = Tail(down) /\ Head(down) \in Events
        /\ UNCHANGED <<alive, queueVars, newest, attached, submitted, cleared, hydrated>>
    BY <1>1, Arrived
  <1>3. Head(down).session \in Session
    BY <1>2 DEF Events
  <1>4. mirror' \in After(mirror, {})
    BY <1>1, <1>3, LinkTypes, CaptureAfter, AfterSelf
  <1>5. mirror' \in After(mirror, submitted)
    BY <1>4, AfterWider
  <1>6. hint' \in BOOLEAN /\ (hint' => hint /\ Head(down).type # "settled")
        /\ flow' \in FlowPhase /\ received' = received
    BY <1>1, <1>2, LinkTypes
  <1> QED BY <1>2, <1>5, <1>6, HeardKeeps

LEMMA ReceiveResumedKeeps ==
  ASSUME LinkInv, ReceiveResumed
  PROVE  LinkInv' /\ Keeps(mirror, mirror')
  <1>1. /\ Arrives("resumed") /\ flow' \in FlowPhase
        /\ UNCHANGED <<linkOnly, mirror, hint, inFlight, up, received>>
    BY FlowPhases DEF ReceiveResumed
  <1>2. /\ SubmitsStay /\ ConnectionType' /\ StillInFlight(Head(down))
        /\ down # <<>> /\ Head(down).type = "resumed" /\ down' = Tail(down)
        /\ UNCHANGED <<alive, queueVars, newest, attached, submitted, cleared, hydrated>>
    BY <1>1, Arrived
  <1>3. /\ hint' \in BOOLEAN /\ (hint' => hint /\ Head(down).type # "settled")
        /\ mirror' \in After(mirror, submitted) /\ received' = received
    BY <1>1, <1>2, MirrorSame, LinkTypes
  <1> QED BY <1>1, <1>2, <1>3, HeardKeeps

LEMMA ResumeSessionKeeps ==
  ASSUME LinkInv, ResumeSessionById
  PROVE  LinkInv' /\ Keeps(mirror, mirror')
  <1> DEFINE r == Request("resume", None)
  <1>1. /\ down # <<>> /\ Head(down).type = "listed" /\ down' = Tail(down)
        /\ UNCHANGED <<mirror, hint, alive, attached, queueVars, newest, submitted, cleared,
                       received, hydrated>>
    BY DEF ResumeSessionById, Arrives, historyVars
  <1>2. r \in Requests /\ r.kind # "submit"
    BY DEF Request, Requests
  <1>3. flow' \in FlowPhase
    BY FlowPhases DEF ResumeSessionById
  <1>4. SubmitsStay /\ inFlight' = inFlight /\ ConnectionType'
    <2>1. CASE Dispatch(r)
      <3> HIDE DEF r
      <3> QED BY <1>2, <2>1, Dispatched
    <2>2. CASE BeginRelaunch /\ UNCHANGED <<up, inFlight, waiting>>
      BY <2>2, Stay, LinkTypes, RelaunchType
    <2> QED BY <2>1, <2>2 DEF ResumeSessionById
  <1>5. /\ StillInFlight(Head(down)) /\ mirror' \in After(mirror, submitted)
        /\ hint' \in BOOLEAN /\ (hint' => hint /\ Head(down).type # "settled")
    BY <1>1, <1>4, InFlightSame, MirrorSame, LinkTypes
  <1> QED BY <1>1, <1>3, <1>4, <1>5, HeardKeeps

LEMMA ReceiveKeeps ==
  ASSUME LinkInv, Receive
  PROVE  LinkInv' /\ Keeps(mirror, mirror')
  BY ReceiveEnqueuedKeeps, ReceiveEventKeeps, ReceiveCompactionKeeps, ReceiveAckKeeps,
     ReceiveCaptureKeeps, ReceiveResumedKeeps, ResumeSessionKeeps DEF Receive

-----------------------------------------------------------------------------
(* The process dies, does not answer, or is not ready in time *)

LEMMA FlowAfter ==
  ASSUME flow \in FlowPhase
  PROVE  FlowAfterFailure \in FlowPhase
  BY FlowPhases DEF FlowAfterFailure

LEMMA NoHint ==
  ASSUME LinkInv
  PROVE  HintAfterFailing = FALSE
  <1>1. CASE hint
    BY <1>1, HintOff
  <1>2. CASE ~hint
    BY <1>2 DEF HintAfterFailing
  <1> QED BY <1>1, <1>2

\* The connection is gone with what it carried.
LEMMA TornDown ==
  ASSUME LinkInv, up' = <<>>, down' = <<>>, inFlight' = <<>>, hint' = FALSE,
         waiting' \in {waiting, <<>>}, alive' \in BOOLEAN, ConnectionType', flow' \in FlowPhase,
         QueueInv',
         \A t \in Turn : stage'[t] \in {"new", "over"} /\ (stage'[t] = "new" <=> stage[t] = "new"),
         mirror' \in After(mirror, submitted), newest' = newest, attached' \in Session,
         UNCHANGED <<submitted, cleared, received, hydrated>>
  PROVE  LinkInv' /\ Keeps(mirror, mirror')
  <1>1. /\ MirrorInv' /\ Keeps(mirror, mirror')
        /\ \A t \in Turn : Text(mirror', t) # 0 => Text(mirror, t) # 0
    BY HearsSubmitted
  <1>2. PipeInv' /\ PipeType'
    BY <1>1, PipeEmptied
  <1>3. ClientType' /\ HistoryType'
    BY DEF LinkInv, ClientType, ConnectionType, HistoryType
  <1> QED BY <1>1, <1>2, <1>3 DEF LinkInv

LEMMA NoticeExitKeeps ==
  ASSUME LinkInv, NoticeExit
  PROVE  LinkInv' /\ Keeps(mirror, mirror')
  <1>1. /\ ~alive /\ mirror' = FailSubmits(FailInFlight(mirror), Unanswered)
        /\ hint' = HintAfterFailing /\ inFlight' = <<>> /\ up' = <<>> /\ down' = <<>>
        /\ flow' = FlowAfterFailure /\ MarkDead
        /\ UNCHANGED <<launching, waiting, alive, attached, queueVars, newest, submitted,
                       cleared, received, hydrated>>
    BY DEF NoticeExit, CloseConnection, historyVars
  <1>2. hint' = FALSE /\ flow' \in FlowPhase
    BY <1>1, NoHint, FlowAfter, LinkTypes
  <1>3. ConnectionType'
    BY <1>1, LinkTypes DEF MarkDead, ConnectionType
  <1>4. \A t \in Turn : stage'[t] \in {"new", "over"} /\ (stage'[t] = "new" <=> stage[t] = "new")
    <2>1. \A t \in Turn : stage[t] \in {"new", "waiting", "running", "over"}
      BY LinkTypes DEF Stages
    <2> QED BY <1>1, <2>1 DEF queueVars, LinkInv, PipeInv, DeadIsIdle
  <1>5. QueueInv'
    BY <1>1, QueueKeeps DEF LinkInv
  <1>6. mirror' \in After(mirror, submitted)
    BY <1>1, LinkTypes, UnansweredSilent, FailedAfter DEF FailSubmits, FailInFlight
  <1>7. waiting' \in {waiting, <<>>} /\ alive' \in BOOLEAN /\ attached' \in Session
    BY <1>1, LinkTypes
  <1> QED BY <1>1, <1>2, <1>3, <1>4, <1>5, <1>6, <1>7, TornDown

LEMMA RequestTimeoutKeeps ==
  ASSUME LinkInv, RequestTimeout
  PROVE  LinkInv' /\ Keeps(mirror, mirror')
  <1> DEFINE K == {t \in Turn : Unanswered[1] # Request("submit", t)}
             others == Only(inFlight, K)
  <1>1. /\ Unanswered # <<>>
        /\ mirror' = FailSubmits(FoldLeft(TransportFailure, mirror, others), Unanswered)
        /\ hint' = (hint /\ others = <<>>)
        /\ inFlight' = <<>> /\ up' = <<>> /\ down' = <<>> /\ flow' = FlowAfterFailure
        /\ alive' = FALSE /\ attached' = 0 /\ Backend!Die
        /\ UNCHANGED <<launching, waiting, newest, submitted, cleared, received, hydrated>>
    BY DEF RequestTimeout
  <1>2. ConnectionType'
    <2>1. /\ launching' = launching
          /\ session' = "none" /\ state' = "Dead" /\ fallback' \in {"gone", fallback}
      BY DEF RequestTimeout
    <2> QED BY <2>1, LinkTypes DEF ConnectionType
  <1>3. /\ Unanswered \in Seq(Requests \cup Answered)
        /\ \A i \in DOMAIN Unanswered : Unanswered[i].kind = "submit" =>
              \/ Tells(down, "ack", Unanswered[i].turn)
              \/ \E t \in Turn : Unanswered[i] = Request("submit", t) /\ Asks(up, t)
    BY UnansweredAre DEF LinkInv
  <1> HIDE DEF K
  <1>4. /\ others \in Seq(Turn)
        /\ \A i \in DOMAIN others : \E j \in DOMAIN inFlight : inFlight[j] = others[i]
        /\ \A j \in DOMAIN inFlight : inFlight[j] \in K => \E i \in DOMAIN others : others[i] = inFlight[j]
    <2>1. inFlight \in Seq(Turn)
      BY LinkTypes
    <2>2. /\ Only(inFlight, K) \in Seq(Turn)
          /\ \A i \in DOMAIN Only(inFlight, K) :
               Only(inFlight, K)[i] \in K
               /\ \E j \in DOMAIN inFlight : inFlight[j] = Only(inFlight, K)[i]
          /\ \A j \in DOMAIN inFlight : inFlight[j] \in K =>
               \E i \in DOMAIN Only(inFlight, K) : Only(inFlight, K)[i] = inFlight[j]
      BY <2>1, OnlyIs
    <2> QED BY <2>2
  <1> HIDE DEF others
  <1>5. hint' = FALSE
    <2> SUFFICES ASSUME hint, others = <<>> PROVE FALSE
      BY <1>1
    <2>1. PICK t \in Turn : Begun(down, stage, inFlight, t) /\ ~Tells(down, "ack", t)
      BY DEF LinkInv, PipeInv, HintOwned
    <2>2. t \in ToSet(inFlight) /\ stage[t] # "new"
      BY <2>1 DEF Begun
    <2>3. ~Asks(up, t)
      BY <2>2 DEF LinkInv, PipeInv, SubmitsInOrder
    <2>4. 1 \in DOMAIN Unanswered
      BY <1>1, <1>3
    <2>5. Unanswered[1] # Request("submit", t)
      <3> SUFFICES ASSUME Unanswered[1] = Request("submit", t) PROVE FALSE
        OBVIOUS
      <3>1. Unanswered[1].kind = "submit" /\ Unanswered[1].turn = t
        BY DEF Request
      <3> QED BY <1>3, <2>1, <2>3, <2>4, <3>1 DEF Request
    <2>6. t \in K
      BY <2>5 DEF K
    <2>7. \E i \in DOMAIN others : others[i] = t
      BY <1>4, <2>2, <2>6 DEF ToSet
    <2> QED BY <2>7
  <1>6. mirror' \in After(mirror, submitted)
    <2>1. ToSet(others) \subseteq ToSet(inFlight)
      BY <1>4 DEF ToSet
    <2> QED BY <1>1, <1>4, <2>1, UnansweredSilent, FailedAfter DEF FailSubmits
  <1>7. /\ QueueInv'
        /\ \A t \in Turn : stage'[t] \in {"new", "over"} /\ (stage'[t] = "new" <=> stage[t] = "new")
    BY <1>1, Died
  <1>8. /\ waiting' \in {waiting, <<>>} /\ alive' \in BOOLEAN /\ attached' \in Session
        /\ flow' \in FlowPhase
    BY <1>1, LinkTypes, FlowAfter DEF Session
  <1> QED BY <1>1, <1>2, <1>5, <1>6, <1>7, <1>8, TornDown

LEMMA LaunchFailsKeeps ==
  ASSUME LinkInv, NEW exits \in BOOLEAN, LaunchFails(exits)
  PROVE  LinkInv' /\ Keeps(mirror, mirror')
  <1> DEFINE torn == fallback # "none" /\ exits /\ fallback = "live"
  <1>1. /\ ConnectionType' /\ waiting' = <<>> /\ flow' \in FlowPhase
        /\ UNCHANGED <<newest, submitted, cleared, received, hydrated>>
    <2>1. /\ launching' = "no" /\ fallback' = "none" /\ state' \in {"Ready", "Dead"}
          /\ session' \in {"none", "gone", fallback}
      BY DEF LaunchFails
    <2> QED BY <2>1, LinkTypes, FlowPhases DEF LaunchFails, ConnectionType
  <1>2. CASE torn
    <2>1. /\ mirror' = FailSubmits(FailInFlight(mirror), Unanswered \o waiting)
          /\ hint' = HintAfterFailing /\ inFlight' = <<>> /\ up' = <<>> /\ down' = <<>>
          /\ alive' = FALSE /\ attached' = 0 /\ Backend!Die
      BY <1>2 DEF LaunchFails
    <2>2. /\ QueueInv'
          /\ \A t \in Turn : stage'[t] \in {"new", "over"} /\ (stage'[t] = "new" <=> stage[t] = "new")
      BY <2>1, Died
    <2>3. mirror' \in After(mirror, submitted)
      BY <2>1, LinkTypes, UnansweredSilent, FailedAfter DEF FailSubmits, FailInFlight
    <2>4. /\ waiting' \in {waiting, <<>>} /\ alive' \in BOOLEAN /\ attached' \in Session
          /\ hint' = FALSE
      BY <1>1, <2>1, NoHint DEF Session
    <2> QED BY <1>1, <2>1, <2>2, <2>3, <2>4, TornDown
  <1>3. CASE ~torn
    <2>1. /\ mirror' = FailSubmits(mirror, waiting)
          /\ UNCHANGED <<hint, inFlight, up, down, alive, attached, queueVars>>
      BY <1>3 DEF LaunchFails
    <2>2. mirror' \in After(mirror, submitted)
      BY <2>1, LinkTypes, UnansweredSilent, FailedAfter DEF FailSubmits
    <2>3. SubmitsStay
      <3>1. <<>> \in Seq(Requests) /\ Once(<<>>) /\ \A t : ~Asks(<<>>, t)
        BY DEF Once, Asks
      <3> QED BY <1>1, <2>1, <3>1 DEF LinkInv, PipeType, PipeInv, SubmitsInOrder, SubmitsStay
    <2> QED BY <1>1, <2>1, <2>2, <2>3, OwnKeeps
  <1> QED BY <1>2, <1>3

-----------------------------------------------------------------------------
(* A new process *)

LEMMA KeepsMore ==
  ASSUME NEW m, NEW n, NEW o, Keeps(m, n), Keeps(n, o)
  PROVE  Keeps(m, o)
  BY DEF Keeps

\* The mirror without text, whatever it was before.
LEMMA MirrorWiped ==
  ASSUME LinkInv, mirror' \in GoodMirrors, Keeps(mirror, mirror'),
         Known(mirror') \subseteq Known(mirror) \cup submitted,
         \A t \in Turn : Text(mirror', t) = 0, received' = Zero,
         UNCHANGED <<submitted, cleared, hydrated>>
  PROVE  MirrorInv'
  <1>1. KnownTurns'
    BY DEF LinkInv, MirrorInv, KnownTurns
  <1>2. ClearedIgnored'
    <2>1. \A t \in mirror.ignored : t \in VisibleTurns(mirror') => t \in VisibleTurns(mirror)
      BY DEF Keeps, VisibleTurns
    <2>2. mirror.ignored \subseteq mirror'.ignored
      BY DEF Keeps
    <2> QED BY <2>1, <2>2 DEF LinkInv, MirrorInv, ClearedIgnored
  <1>3. TextArrived'
    BY ZeroIs DEF TextArrived
  <1> QED BY <1>1, <1>2, <1>3 DEF MirrorInv

\* The mirror of a new process: what was sent failed, and what cannot be sent is discarded.
LEMMA ResetHeard ==
  ASSUME LinkInv
  PROVE  LET reset == ResetTranscriptMirror(FailSubmits(FailInFlight(mirror), Unanswered))
         IN  \A n \in {reset, DiscardSubmits(reset, waiting)} :
               /\ n \in GoodMirrors /\ Keeps(mirror, n)
               /\ Known(n) \subseteq Known(mirror) \cup submitted
               /\ \A t \in Turn : Text(n, t) = 0
  <1> DEFINE a == FailSubmits(FailInFlight(mirror), Unanswered)
             reset == ResetTranscriptMirror(a)
             gone == DiscardSubmits(reset, waiting)
             T == SubmitTurns(waiting)
  <1>1. a \in After(mirror, submitted)
    BY LinkTypes, UnansweredSilent, FailedAfter DEF FailSubmits, FailInFlight
  <1> HIDE DEF a
  <1>2. a \in GoodMirrors /\ Keeps(mirror, a) /\ Known(a) \subseteq Known(mirror) \cup submitted
    BY <1>1 DEF After
  <1>3. /\ reset \in GoodMirrors /\ Keeps(a, reset) /\ Known(reset) \subseteq Known(a)
        /\ \A t \in Turn : Text(reset, t) = 0
    BY <1>2, ResetIs DEF Wiped
  <1> HIDE DEF reset
  <1>4. T \in SUBSET Turn /\ T \subseteq submitted
    <2>1. \A t \in T : Silent(t)
      BY UnansweredSilent
    <2> QED BY <2>1, SilentHasNone DEF Silent
  <1> HIDE DEF T
  <1>5. gone \in After(reset, T)
    <2>1. \A t \in T : Text(reset, t) = 0
      BY <1>3, <1>4
    <2>2. DiscardLocalSubmit(reset, T) \in After(reset, T)
      BY <1>3, <1>4, <2>1, DiscardAfter
    <2> QED BY <2>2 DEF DiscardSubmits, T
  <1> HIDE DEF gone
  <1>6. gone \in GoodMirrors /\ Keeps(reset, gone) /\ Known(gone) \subseteq Known(reset) \cup T
    BY <1>5 DEF After
  <1>7. \A t \in Turn : Text(gone, t) = 0
    <2>1. \A t \in Turn : Text(gone, t) \in Nat
      BY <1>6 DEF GoodMirrors, Mirrors, Text
    <2>2. \A t \in Turn : Text(gone, t) <= 0
      BY <1>3, <1>5 DEF After
    <2> QED BY <2>1, <2>2
  <1>8. Keeps(mirror, reset)
    BY <1>2, <1>3, KeepsMore
  <1>9. Keeps(mirror, gone)
    BY <1>6, <1>8, KeepsMore
  <1>10. Known(reset) \subseteq Known(mirror) \cup submitted
    BY <1>2, <1>3
  <1>11. Known(gone) \subseteq Known(mirror) \cup submitted
    BY <1>4, <1>6, <1>10
  <1>12. \A n \in {reset, gone} :
           /\ n \in GoodMirrors /\ Keeps(mirror, n)
           /\ Known(n) \subseteq Known(mirror) \cup submitted
           /\ \A t \in Turn : Text(n, t) = 0
    BY <1>3, <1>6, <1>7, <1>8, <1>9, <1>10, <1>11
  <1> QED BY <1>12 DEF gone, reset, a

\* A part of a queue of requests has its submits once, too.
LEMMA OnlyOnce ==
  ASSUME NEW q \in Seq(Requests), Once(q), NEW K
  PROVE  /\ Only(q, K) \in Seq(Requests) /\ Once(Only(q, K))
         /\ \A t : Asks(Only(q, K), t) => Asks(q, t)
         /\ \A t : Asks(q, t) /\ Request("submit", t) \in K => Asks(Only(q, K), t)
  <1> DEFINE p == Only(q, K)
  <1>1. /\ Only(q, K) \in Seq(Requests)
        /\ \A i \in DOMAIN Only(q, K) :
             Only(q, K)[i] \in K /\ \E j \in DOMAIN q : q[j] = Only(q, K)[i]
        /\ \A j \in DOMAIN q : q[j] \in K => \E i \in DOMAIN Only(q, K) : Only(q, K)[i] = q[j]
        /\ \A i, j \in DOMAIN Only(q, K) : i # j =>
             \E k, l \in DOMAIN q : k # l /\ q[k] = Only(q, K)[i] /\ q[l] = Only(q, K)[j]
    BY OnlyIs
  <1>2. /\ p \in Seq(Requests)
        /\ \A i \in DOMAIN p : \E j \in DOMAIN q : q[j] = p[i]
        /\ \A j \in DOMAIN q : q[j] \in K => \E i \in DOMAIN p : p[i] = q[j]
        /\ \A i, j \in DOMAIN p : i # j => \E k, l \in DOMAIN q : k # l /\ q[k] = p[i] /\ q[l] = p[j]
    BY <1>1
  <1> HIDE DEF p
  <1>3. Once(p)
    <2> SUFFICES ASSUME NEW i \in DOMAIN p, NEW j \in DOMAIN p, p[i].kind = "submit", p[i] = p[j],
                        i # j
                 PROVE  FALSE
      BY DEF Once
    <2>1. PICK k, l \in DOMAIN q : k # l /\ q[k] = p[i] /\ q[l] = p[j]
      BY <1>2
    <2> QED BY <2>1 DEF Once
  <1>4. \A t : Asks(p, t) => Asks(q, t)
    BY <1>2 DEF Asks
  <1>5. \A t : Asks(q, t) /\ Request("submit", t) \in K => Asks(p, t)
    BY <1>2 DEF Asks
  <1> QED BY <1>2, <1>3, <1>4, <1>5 DEF p

\* The submits of a queue, and the turns they are of.
LEMMA SubmitsAre ==
  ASSUME NEW q \in Seq(Requests)
  PROVE  LET submits == Submits(q)
             turns == [i \in DOMAIN submits |-> submits[i].turn]
         IN  turns \in Seq(Turn) /\ \A t : t \in ToSet(turns) <=> Asks(q, t)
  <1> DEFINE K == {r \in ToSet(q) : r.kind = "submit"}
             s == Submits(q)
             turns == [i \in DOMAIN s |-> s[i].turn]
  <1>1. /\ Only(q, K) \in Seq(Requests)
        /\ \A i \in DOMAIN Only(q, K) :
             Only(q, K)[i] \in K /\ \E j \in DOMAIN q : q[j] = Only(q, K)[i]
        /\ \A j \in DOMAIN q : q[j] \in K => \E i \in DOMAIN Only(q, K) : Only(q, K)[i] = q[j]
    <2> HIDE DEF K
    <2> QED BY OnlyIs
  <1>2. s = Only(q, K)
    BY DEF Submits
  <1>3. /\ s \in Seq(Requests) /\ DOMAIN s = 1..Len(s) /\ Len(s) \in Nat
        /\ \A i \in DOMAIN s : s[i] \in Requests /\ s[i] \in K /\ \E j \in DOMAIN q : q[j] = s[i]
        /\ \A j \in DOMAIN q : q[j] \in K => \E i \in DOMAIN s : s[i] = q[j]
    <2> HIDE DEF s
    <2>1. /\ s \in Seq(Requests)
          /\ \A i \in DOMAIN s : s[i] \in K /\ \E j \in DOMAIN q : q[j] = s[i]
          /\ \A j \in DOMAIN q : q[j] \in K => \E i \in DOMAIN s : s[i] = q[j]
      BY <1>1, <1>2
    <2> HIDE DEF K
    <2> QED BY <2>1
  <1>4. \A r \in K : r.kind = "submit"
    OBVIOUS
  <1>5. \A j \in DOMAIN q : q[j].kind = "submit" => q[j] \in K
    BY DEF ToSet
  <1> HIDE DEF s, K
  <1>6. \A i \in DOMAIN s : \E t \in Turn : s[i] = Request("submit", t)
    BY <1>3, <1>4 DEF Requests, Request
  <1>7. \A t : Request("submit", t).kind = "submit" /\ Request("submit", t).turn = t
    BY DEF Request
  <1>8. \A i \in DOMAIN s : s[i].turn \in Turn /\ s[i] = Request("submit", s[i].turn)
    BY <1>6, <1>7
  <1>9. turns \in Seq(Turn) /\ DOMAIN turns = DOMAIN s /\ \A i \in DOMAIN s : turns[i] = s[i].turn
    BY <1>3, <1>8
  <1> HIDE DEF turns
  <1>10. ASSUME NEW t, t \in ToSet(turns) PROVE Asks(q, t)
    <2>1. PICK i \in DOMAIN s : s[i].turn = t
      BY <1>9, <1>10 DEF ToSet
    <2> QED BY <1>3, <1>8, <2>1 DEF Asks
  <1>11. ASSUME NEW t, Asks(q, t) PROVE t \in ToSet(turns)
    <2>1. PICK j \in DOMAIN q : q[j] = Request("submit", t)
      BY <1>11 DEF Asks
    <2>2. PICK i \in DOMAIN s : s[i] = q[j]
      BY <1>3, <1>5, <1>7, <2>1
    <2> QED BY <1>7, <1>9, <2>1, <2>2 DEF ToSet
  <1> QED BY <1>9, <1>10, <1>11 DEF turns, s

\* What waited for the process, without the prompts if it replaces another.
Resent ==
  IF launching = "relaunch"
  THEN Only(waiting, {r \in ToSet(waiting) : r.kind # "submit"}) ELSE waiting

LEMMA ResentIs ==
  ASSUME LinkInv
  PROVE  /\ Resent \in Seq(Requests) /\ Once(Resent)
         /\ \A t : Asks(Resent, t) => Asks(waiting, t)
  <1>1. waiting \in Seq(Requests) /\ Once(waiting)
    BY DEF LinkInv, PipeType, PipeInv, SubmitsInOrder
  <1>2. CASE launching = "relaunch"
    <2> DEFINE K == {r \in ToSet(waiting) : r.kind # "submit"}
    <2>1. Resent = Only(waiting, K)
      BY <1>2 DEF Resent
    <2> HIDE DEF K
    <2>2. /\ Only(waiting, K) \in Seq(Requests) /\ Once(Only(waiting, K))
          /\ \A t : Asks(Only(waiting, K), t) => Asks(waiting, t)
      BY <1>1, OnlyOnce
    <2> QED BY <2>1, <2>2
  <1>3. CASE launching # "relaunch"
    BY <1>1, <1>3 DEF Resent
  <1> QED BY <1>2, <1>3

LEMMA AdoptKeeps ==
  ASSUME LinkInv, Adopt
  PROVE  LinkInv' /\ Keeps(mirror, mirror')
  <1> DEFINE reset == ResetTranscriptMirror(FailSubmits(FailInFlight(mirror), Unanswered))
             submits == Submits(Resent)
             turns == [i \in DOMAIN submits |-> submits[i].turn]
             r == Request("resume", None)
  <1>1. /\ session' = "live" /\ state' = "Ready" /\ launching' = "no" /\ fallback' = "none"
        /\ hint' = HintAfterFailing /\ waiting' = <<>> /\ down' = <<>>
        /\ alive' = TRUE /\ attached' = 0 /\ Backend!Die /\ received' = Zero
        /\ UNCHANGED <<newest, submitted, cleared, hydrated>>
    BY DEF Adopt
  <1>2. /\ mirror' = IF launching = "relaunch" THEN DiscardSubmits(reset, waiting) ELSE reset
        /\ up' = Resent \o (IF flow = "relaunching" THEN <<r>> ELSE <<>>)
        /\ inFlight' = turns
    BY DEF Adopt, Resent
  <1>3. flow' \in FlowPhase
    BY LinkTypes, FlowPhases DEF Adopt
  <1>4. /\ mirror' \in GoodMirrors /\ Keeps(mirror, mirror')
        /\ Known(mirror') \subseteq Known(mirror) \cup submitted
        /\ \A t \in Turn : Text(mirror', t) = 0
    <2>1. mirror' \in {reset, DiscardSubmits(reset, waiting)}
      BY <1>2
    <2>2. \A n \in {reset, DiscardSubmits(reset, waiting)} :
            /\ n \in GoodMirrors /\ Keeps(mirror, n)
            /\ Known(n) \subseteq Known(mirror) \cup submitted
            /\ \A t \in Turn : Text(n, t) = 0
      BY ResetHeard
    <2> HIDE DEF reset
    <2> QED BY <2>1, <2>2
  <1> HIDE DEF reset
  <1>5. MirrorInv'
    BY <1>1, <1>4, MirrorWiped
  <1>6. /\ Resent \in Seq(Requests) /\ Once(Resent)
        /\ \A t : Asks(Resent, t) => Asks(waiting, t)
    BY ResentIs
  <1>7. turns \in Seq(Turn) /\ \A t : t \in ToSet(turns) <=> Asks(Resent, t)
    BY <1>6, SubmitsAre
  <1> HIDE DEF turns
  <1>8. up' \in Seq(Requests) /\ Once(up') /\ \A t : Asks(up', t) <=> Asks(Resent, t)
    <2>1. r \in Requests /\ r.kind # "submit"
      BY DEF Request, Requests
    <2> HIDE DEF r
    <2>2. /\ Append(Resent, r) \in Seq(Requests) /\ Once(Append(Resent, r))
          /\ \A t : Asks(Append(Resent, r), t) <=> Asks(Resent, t)
      BY <1>6, <2>1, AskMore
    <2>3. Resent \o <<r>> = Append(Resent, r) /\ Resent \o <<>> = Resent
      BY <1>6, <2>1
    <2>4. up' \in {Append(Resent, r), Resent}
      BY <1>2, <2>3
    <2> QED BY <1>6, <2>2, <2>4
  <1>9. /\ QueueInv'
        /\ \A t \in Turn : stage'[t] \in {"new", "over"} /\ (stage'[t] = "new" <=> stage[t] = "new")
    BY <1>1, Died
  <1>10. \A t \in Turn : Asks(waiting, t) => t \in submitted /\ stage[t] = "new"
    BY DEF LinkInv, PipeInv, SubmitsInOrder
  <1>11. <<>> \in Seq(Requests) /\ <<>> \in Seq(Events) /\ Once(<<>>) /\ \A t : ~Asks(<<>>, t)
    BY DEF Once, Asks
  <1>12. PipeType'
    BY <1>1, <1>2, <1>7, <1>8, <1>11 DEF PipeType
  <1>13. OnlySubmitted'
    <2>1. ToSet(turns) \subseteq Turn
      BY <1>7 DEF ToSet
    <2>2. ToSet(turns) \subseteq submitted
      BY <1>6, <1>7, <1>10, <2>1
    <2> QED BY <1>1, <1>2, <1>9, <2>2 DEF LinkInv, PipeInv, OnlySubmitted
  <1>14. SubmitsInOrder'
    BY <1>1, <1>6, <1>8, <1>9, <1>10, <1>11 DEF SubmitsInOrder
  <1>15. Piped(<<>>, up', stage', inFlight')
    <2>1. \A t \in Turn : Asks(up', t) \/ stage'[t] \in {"waiting", "running"} => t \in ToSet(inFlight')
      BY <1>2, <1>7, <1>8, <1>9
    <2> QED BY <2>1, Emptied
  <1>16. TextHeard' /\ HintOwned' /\ DeadIsIdle' /\ hint' = FALSE
    <2>1. hint' = FALSE
      BY <1>1, NoHint
    <2> QED BY <1>1, <1>4, <2>1 DEF TextHeard, HintOwned, DeadIsIdle
  <1>17. PipeInv'
    BY <1>1, <1>13, <1>14, <1>15, <1>16 DEF PipeInv
  <1>18. ClientType'
    BY <1>1, <1>3, <1>16 DEF ClientType
  <1>19. HistoryType'
    BY <1>1, ZeroIs DEF LinkInv, HistoryType, Session
  <1> QED BY <1>4, <1>5, <1>9, <1>12, <1>17, <1>18, <1>19 DEF LinkInv

-----------------------------------------------------------------------------
(* The specification *)

LEMMA LinkInit ==
  ASSUME Init
  PROVE  LinkInv
  <1>1. DOMAIN <<>> = {} /\ ToSet(<<>>) = {} /\ Zero \in [Turn -> Nat] /\ \A t \in Turn : Zero[t] = 0
    BY ZeroIs DEF ToSet
  <1>2. <<>> \in Seq(Turn) /\ <<>> \in Seq(Requests) /\ <<>> \in Seq(Events) /\ <<>> \in Seq(Row)
    OBVIOUS
  <1>3. ClientType /\ PipeType
    BY <1>2, FlowPhases DEF Init, ClientType, PipeType
  <1>4. HistoryType
    BY <1>1 DEF Init, HistoryType, Session
  <1>5. /\ mirror = EmptyMirror /\ mirror.rows = <<>> /\ mirror.ignored = {} /\ mirror.stream = Zero
        /\ mirror.held = Zero /\ mirror.stamp = Zero /\ mirror.generation = 1
    BY DEF Init, EmptyMirror
  <1>6. mirror \in Mirrors
    <2>1. {} \in SUBSET Turn /\ 1 \in Nat /\ None \in Session
      BY DEF Session
    <2> QED BY <1>1, <1>2, <1>5, <2>1 DEF EmptyMirror, Mirrors
  <1>7. mirror \in GoodMirrors
    BY <1>1, <1>5, <1>6 DEF GoodMirrors
  <1>8. VisibleTurns(mirror) = {}
    BY <1>1, <1>5 DEF VisibleTurns
  <1>9. \A t \in Turn : Text(mirror, t) = 0
    BY <1>1, <1>5 DEF Text
  <1>10. MirrorInv
    BY <1>1, <1>5, <1>7, <1>8, <1>9
    DEF Init, MirrorInv, KnownTurns, Known, ClearedIgnored, TextArrived
  <1>11. Backend!Init
    BY DEF Init
  <1>12. QueueInv
    BY <1>11 DEF Backend!Init, QueueInv, Backend!TypeOK, QueueOrdered, Backend!Waiting
  <1>13. \A t \in Turn : stage[t] = "new"
    BY <1>11 DEF Backend!Init
  <1>14. Once(<<>>) /\ \A t : ~Asks(<<>>, t)
    BY <1>1 DEF Once, Asks
  <1>15. Piped(<<>>, <<>>, stage, <<>>)
    BY <1>13, <1>14, Emptied
  <1>16. OnlySubmitted /\ SubmitsInOrder /\ TextHeard /\ HintOwned /\ DeadIsIdle
    BY <1>1, <1>9, <1>13, <1>14
    DEF Init, OnlySubmitted, SubmitsInOrder, TextHeard, HintOwned, DeadIsIdle
  <1>17. PipeInv
    BY <1>15, <1>16 DEF Init, PipeInv
  <1> QED BY <1>3, <1>4, <1>10, <1>12, <1>17 DEF LinkInv

LEMMA LinkStays ==
  ASSUME LinkInv, UNCHANGED vars
  PROVE  LinkInv' /\ Keeps(mirror, mirror')
  <1>1. UNCHANGED <<mirror, hint, clientVars, inFlight, waiting, up, down, alive, attached,
                    queueVars, flow, historyVars>>
    BY DEF vars
  <1>2. SubmitsStay /\ ConnectionType' /\ flow' \in FlowPhase /\ mirror' \in After(mirror, submitted)
    BY <1>1, Stay, LinkTypes, MirrorSame DEF clientVars, ConnectionType
  <1> QED BY <1>1, <1>2, OwnKeeps DEF historyVars

LEMMA LinkStep ==
  ASSUME LinkInv, [Next]_vars
  PROVE  LinkInv' /\ (Keeps(mirror, mirror') \/ ApplyResolvedResume)
  <1>1. CASE UNCHANGED vars
    BY <1>1, LinkStays
  <1>2. CASE UserActs
    BY <1>2, EnqueuePromptKeeps, CancelKeeps, ClearKeeps, ResumeSelectedKeeps DEF UserActs
  <1>3. CASE BackendActs \/ Crash
    BY <1>3, BackendKeeps
  <1>4. CASE Receive
    BY <1>4, ReceiveKeeps
  <1>5. CASE ResumeActs
    BY <1>5, TurnIdleKeeps, ConfirmKeeps, BeginRollbackKeeps, ApplyResumeKeeps DEF ResumeActs
  <1>6. CASE LaunchEnds
    BY <1>6, AdoptKeeps, LaunchFailsKeeps DEF LaunchEnds
  <1>7. CASE NoticeExit
    BY <1>7, NoticeExitKeeps
  <1>8. CASE RequestTimeout
    BY <1>8, RequestTimeoutKeeps
  <1>9. CASE \E t \in Turn : FlushTimer(t)
    BY <1>9, FlushTimerKeeps
  <1> QED BY <1>1, <1>2, <1>3, <1>4, <1>5, <1>6, <1>7, <1>8, <1>9 DEF Next

\* The invariant of the link: the mirror, the pipe and the backend's queue agree on which
\* turns were submitted, heard of and ended, in every state the program can reach.
THEOREM LinkCorrect == Spec => []LinkInv
  <1>1. Init => LinkInv
    BY LinkInit
  <1>2. LinkInv /\ [Next]_vars => LinkInv'
    BY LinkStep
  <1> QED BY <1>1, <1>2, PTL DEF Spec

\* The client's state, its connection and its transition only take the values of
\* backendClient.ts, and no turn has two rows.
THEOREM LinkTypeCorrect == Spec => []LinkTypeOK
  <1>1. LinkInv => LinkTypeOK
    BY DEF LinkInv, ClientType, MirrorInv, GoodMirrors, LinkTypeOK
  <1> QED BY <1>1, LinkCorrect, PTL

\* A cleared turn has no row again, whatever its process, or the next one, still tells.
THEOREM ClearedStaysGoneCorrect == Spec => []ClearedStaysGone
  <1>1. LinkInv => ClearedStaysGone
    BY DEF LinkInv, MirrorInv, ClearedIgnored, VisibleTurns, HasRow, ClearedStaysGone
  <1> QED BY <1>1, LinkCorrect, PTL

\* The row of a turn.
LEMMA RowIs ==
  ASSUME NEW m \in GoodMirrors, NEW t, HasRow(m, t)
  PROVE  \E i \in DOMAIN m.rows : m.rows[i].turn = t /\ RowOf(m, t) = m.rows[i]
  BY DEF HasRow, RowOf

\* The text of a turn is of a row that has not settled, and it is all that arrived: a
\* coalescer's timer adds nothing and loses nothing.
THEOREM StreamFollowsRowCorrect == Spec => []StreamFollowsRow
  <1>1. ASSUME LinkInv PROVE StreamFollowsRow
    <2>1. mirror \in GoodMirrors /\ mirror \in Mirrors /\ TextArrived
      BY <1>1 DEF LinkInv, MirrorInv, GoodMirrors
    <2>2. ASSUME NEW t \in Turn, mirror.stream[t] > 0
          PROVE  \E i \in DOMAIN Unsettled(mirror) : Unsettled(mirror)[i].turn = t
      <3> DEFINE K == {r \in ToSet(mirror.rows) : r.state # "settled"}
      <3>1. HasRow(mirror, t) /\ t \notin mirror.ignored
        <4>1. mirror.stream[t] # 0
          BY <2>1, <2>2 DEF Mirrors
        <4> QED BY <2>1, <4>1 DEF GoodMirrors
      <3>2. PICK j \in DOMAIN mirror.rows : mirror.rows[j].turn = t
        BY <3>1 DEF HasRow
      <3>3. mirror.rows[j] \in K
        BY <2>1, <3>1, <3>2 DEF GoodMirrors, ToSet
      <3>4. mirror.rows \in Seq(Row) /\ Unsettled(mirror) = Only(mirror.rows, K)
        BY <2>1 DEF Mirrors, Unsettled
      <3> HIDE DEF K
      <3>5. \A k \in DOMAIN mirror.rows : mirror.rows[k] \in K =>
              \E i \in DOMAIN Only(mirror.rows, K) : Only(mirror.rows, K)[i] = mirror.rows[k]
        BY <3>4, OnlyIs
      <3> QED BY <3>2, <3>3, <3>4, <3>5
    <2>3. ASSUME NEW t \in Turn, HasRow(mirror, t), RowOf(mirror, t).state # "settled"
          PROVE  mirror.stream[t] + mirror.held[t] = received[t]
      <3>1. PICK i \in DOMAIN mirror.rows : mirror.rows[i].turn = t /\ RowOf(mirror, t) = mirror.rows[i]
        BY <2>1, <2>3, RowIs
      <3>2. t \notin mirror.ignored
        BY <2>1, <2>3, <3>1 DEF GoodMirrors
      <3> QED BY <2>1, <3>2 DEF TextArrived, Text
    <2> QED BY <2>2, <2>3 DEF StreamFollowsRow
  <1> QED BY <1>1, LinkCorrect, PTL

\* The hint is on only while a turn is in flight: neither the end of a turn nor that of a
\* process, nor a request that times out, leaves it on.
THEOREM HintHasOwnerCorrect == Spec => []HintHasOwner
  <1>1. LinkInv => HintHasOwner
    BY HintOff DEF HintHasOwner
  <1> QED BY <1>1, LinkCorrect, PTL

\* How a turn ended stays as it is while its row is there, except that a resume may
\* replace all rows.
THEOREM AnswerIsFinalCorrect == Spec => AnswerIsFinal
  <1> DEFINE Final == \A t \in Turn :
               /\ HasRow(mirror, t) /\ RowOf(mirror, t).state = "settled"
               /\ HasRow(mirror', t) /\ flow # "labelling"
               => RowOf(mirror', t) = RowOf(mirror, t)
  <1>1. ASSUME LinkInv, LinkInv', [Next]_vars PROVE [Final]_vars
    <2> SUFFICES ASSUME NEW t \in Turn,
                        HasRow(mirror, t), RowOf(mirror, t).state = "settled",
                        HasRow(mirror', t), flow # "labelling"
                 PROVE  RowOf(mirror', t) = RowOf(mirror, t)
      OBVIOUS
    <2>1. mirror \in GoodMirrors /\ mirror' \in GoodMirrors
      BY <1>1 DEF LinkInv, MirrorInv
    <2>2. Keeps(mirror, mirror')
      BY <1>1, LinkStep DEF ApplyResolvedResume
    <2>3. PICK i \in DOMAIN mirror.rows : mirror.rows[i].turn = t /\ RowOf(mirror, t) = mirror.rows[i]
      BY <2>1, RowIs
    <2>4. PICK k \in DOMAIN mirror'.rows : mirror'.rows[k].turn = t /\ RowOf(mirror', t) = mirror'.rows[k]
      BY <2>1, RowIs
    <2>5. t \in mirror.ignored
      BY <2>1, <2>3 DEF GoodMirrors
    <2>6. PICK j \in DOMAIN mirror.rows : mirror.rows[j] = mirror'.rows[k]
      BY <2>2, <2>4, <2>5 DEF Keeps
    <2>7. j = i
      BY <2>1, <2>3, <2>4, <2>6 DEF GoodMirrors
    <2> QED BY <2>3, <2>4, <2>6, <2>7
  <1> QED BY <1>1, LinkCorrect, PTL DEF Spec, AnswerIsFinal
=============================================================================
