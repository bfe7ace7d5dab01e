---------------------------- MODULE SessionProofs ----------------------------
(***************************************************************************)
(* Sessions and their logs, for any number of turns and any bounds, with   *)
(* crashes.  First where the turns are, failing writes included: the       *)
(* transcript and every session log number their turns apart               *)
(* (UniqueOrder), although numbers start again with a process and with a   *)
(* resume and are spent by turns that could not be recorded; and a turn's  *)
(* context holds no round of another session (ContextOfOwnSession),        *)
(* although clears and resumes change the session under turns that wait,   *)
(* under compactions that run and under titles that are generated.         *)
(*                                                                         *)
(* Then what the logs say, as long as no write has failed: the result the  *)
(* client was told (VerdictIsLogged), the rounds the next turn is given    *)
(* (RoundsMatchLog), the titles (TitleOfOwnRound), and the context of a    *)
(* running turn, before and after its own compaction (ContextExact).  It   *)
(* builds on where the turns are, on who is at work and on the active turn *)
(* having been accepted first (QueueProofs).                               *)
(***************************************************************************)
EXTENDS QueueProofs


-----------------------------------------------------------------------------
(* The inductive invariant *)

\* A turn, and so a session, that exists: its enqueue was handled.
Known(s) == told[s] \notin {"unsent", "sent"}

\* The turns that number numbers are numbered apart.
Apart(number) == \A t, u \in Turn : number[t] >= 0 /\ number[t] = number[u] => t = u

\* The turns of the transcript are numbered apart, below the next number.
TranscriptOrder ==
  /\ \A t \in Turn : phase[t] # "absent" => seq[t] < nextSeq
  /\ \A t, u \in Turn :
       phase[t] # "absent" /\ phase[u] # "absent" /\ seq[t] = seq[u] => t = u

\* So are those of each log, and the next number is new to the current session's.
LogOrder ==
  /\ \A s \in Turn : Apart(log[s].seq)
  /\ session # None => Known(session) /\ \A t \in Turn : log[session].seq[t] < nextSeq

\* A session that does not exist has no turn, no row, and nobody asks for it.
OnlyKnown ==
  /\ \A s \in Turn : ~Known(s) => row[s] = "absent" /\ \A t \in Turn : log[s].seq[t] < 0
  /\ main = "querying" => Known(rpc.session)

\* What the request loop read of a log is still what the log says when it is attached.
ReadIsCurrent ==
  \A i \in DOMAIN chan :
    At(i, "ResumeSession") =>
      Known(chan[i].session) /\ chan[i].turns.seq = log[chan[i].session].seq

OrderInv == TranscriptOrder /\ LogOrder /\ OnlyKnown /\ ReadIsCurrent

-----------------------------------------------------------------------------
(* Steps that number no turn *)

\* The numbers stay, in the transcript and in the logs; no turn joins the transcript, no
\* session is opened or attached, only the current one gets a row, and no turn is unsent.
NumbersStay ==
  /\ UNCHANGED <<seq, nextSeq>>
  /\ \A t \in Turn : phase'[t] # "absent" => phase[t] # "absent"
  /\ \A s \in Turn : log'[s].seq = log[s].seq
  /\ session' = session \/ session' = None
  /\ \A s \in Turn : row'[s] # "absent" => row[s] # "absent" \/ s = session
  /\ \A s \in Turn : Known(s) => Known(s)'
  /\ main' = "querying" => main = "querying" /\ rpc'.session = rpc.session

\* No session is sent to be attached.
NoResumeSent ==
  \A i \in DOMAIN chan' :
    At(i, "ResumeSession")' => \E j \in DOMAIN chan : chan[j] = chan'[i]

LEMMA NumbersStayOrder ==
  ASSUME TypeOK, TypeOK', OrderInv, NumbersStay, NoResumeSent
  PROVE  OrderInv'
  <1>1. TranscriptOrder'
    BY DEF OrderInv, TranscriptOrder, NumbersStay
  <1>2. session \in Turn \cup {None}
    BY DEF TypeOK, AttachedType
  <1>3. LogOrder'
    BY <1>2 DEF OrderInv, LogOrder, Apart, NumbersStay
  <1>4. main = "querying" => rpc.session \in Turn
    BY DEF TypeOK, FrontendType
  <1>5. OnlyKnown'
    <2>1. ASSUME NEW s \in Turn, ~Known(s)' PROVE row'[s] = "absent" /\ s # session
      <3>1. ~Known(s)
        BY <2>1 DEF NumbersStay
      <3>2. s # session
        BY <1>2, <3>1, ConversationAssumption DEF OrderInv, LogOrder
      <3> QED BY <3>1, <3>2 DEF NumbersStay, OrderInv, OnlyKnown
    <2> QED BY <1>4, <2>1 DEF OrderInv, OnlyKnown, NumbersStay
  <1>6. ReadIsCurrent'
    <2> SUFFICES ASSUME NEW i \in DOMAIN chan', At(i, "ResumeSession")'
                 PROVE  /\ Known(chan[i].session)'
                        /\ chan'[i].turns.seq = log'[chan'[i].session].seq
      BY DEF ReadIsCurrent
    <2>1. PICK j \in DOMAIN chan : chan[j] = chan'[i]
      BY DEF NoResumeSent
    <2>2. chan[j] \in Command /\ At(j, "ResumeSession")
      BY <2>1 DEF TypeOK, At
    <2>3. chan[j].session \in Turn
      BY <2>2, CommandFields DEF At
    <2>4. Known(chan[j].session) /\ chan[j].turns.seq = log[chan[j].session].seq
      BY <2>2 DEF OrderInv, ReadIsCurrent
    <2>5. Known(chan[i].session)'
      BY <2>1, <2>3, <2>4 DEF NumbersStay, Known
    <2> QED BY <2>1, <2>3, <2>4, <2>5 DEF NumbersStay
  <1> QED BY <1>1, <1>3, <1>5, <1>6 DEF OrderInv

LEMMA ReturnSendsNone ==
  ASSUME TypeOK, NEW rest, rest = chan \/ (chan # <<>> /\ rest = Tail(chan)), Return(rest)
  PROVE  NoResumeSent
  BY ReturnShifts DEF TypeOK, NoResumeSent

LEMMA SendSendsNone ==
  ASSUME TypeOK, chan' = chan \/ \E c : c.op # "ResumeSession" /\ Send(c)
  PROVE  NoResumeSent
  <1>1. CASE chan' = chan
    BY <1>1 DEF NoResumeSent
  <1>2. ASSUME NEW c, c.op # "ResumeSession", chan' = Append(chan, c) PROVE NoResumeSent
    <2>1. \A i \in DOMAIN chan' : (i \in DOMAIN chan /\ chan'[i] = chan[i]) \/ chan'[i] = c
      BY <1>2 DEF TypeOK
    <2> QED BY <1>2, <2>1 DEF NoResumeSent, At
  <1> QED BY <1>1, <1>2 DEF Send

\* Only an enqueue adds a number to a log.
LEMMA LogKeepsNumbers ==
  ASSUME NEW l \in Log
  PROVE  /\ Started(l).seq = l.seq
         /\ \A S, k : TurnSettled(l, S, k).seq = l.seq
         /\ \A c : Compacted(l, c).seq = l.seq
         /\ \A t : SummaryGenerated(l, t).seq = l.seq
  BY DEF Log, Started, TurnSettled, Compacted, SummaryGenerated

LEMMA SettleActiveStays ==
  ASSUME TypeOK, NEW t \in Active, NEW k, NEW lost, SettleActive(t, k, lost)
  PROVE  NumbersStay
  <1>1. /\ UNCHANGED <<seq, nextSeq, session, main, rpc>>
        /\ \A u \in Turn : told'[u] \in {"over", "running", told[u]}
        /\ \A u \in Turn : phase'[u] # "absent" => phase[u] # "absent"
    BY DEF SettleActive, OnSettle, frontend, Active, FirstPending, Pending
  <1>2. row' = row \/ (session # None /\ row' = [row EXCEPT ![session] = sessionTitle])
    BY DEF SettleActive, OnSettle
  <1>3. \A s \in Turn : log'[s].seq = log[s].seq
    <2> DEFINE folded(c) == [log EXCEPT ![session] = Compacted(@, c)]
    <2>1. log \in [Turn -> Log] /\ session \in Turn \cup {None} /\ pendingCompaction.state \in Summary
      BY DEF TypeOK, DiskType, AttachedType, LoopType
    <2>2. PICK f \in {log, folded(pendingCompaction.state)} : \E home, kind :
            log' = f \/ log' = [f EXCEPT ![home] = TurnSettled(@, {t}, kind)]
      BY DEF SettleActive, OnSettle
    <2>3. ASSUME NEW c \in Summary, NEW s \in Turn
          PROVE  folded(c)[s] \in Log /\ folded(c)[s].seq = log[s].seq
      <3>1. folded(c)[s] = log[s] \/ folded(c)[s] = Compacted(log[s], c)
        BY <2>1
      <3> HIDE DEF folded
      <3> QED BY <2>1, <3>1, LogType, LogKeepsNumbers
    <2>4. DOMAIN f = Turn /\ DOMAIN folded(pendingCompaction.state) = Turn
      BY <2>1, <2>2
    <2> HIDE DEF folded
    <2>5. \A s \in Turn : f[s] \in Log /\ f[s].seq = log[s].seq
      BY <2>1, <2>2, <2>3
    <2>6. PICK home, kind : log' = f \/ log' = [f EXCEPT ![home] = TurnSettled(@, {t}, kind)]
      BY <2>2
    <2>7. \A s \in Turn : log'[s] = f[s] \/ log'[s] = TurnSettled(f[s], {t}, kind)
      BY <2>4, <2>6
    <2>8. ASSUME NEW s \in Turn PROVE log'[s].seq = log[s].seq
      BY <2>5, <2>7, LogKeepsNumbers
    <2> QED BY <2>8
  <1> QED BY <1>1, <1>2, <1>3 DEF NumbersStay, Known, TypeOK, DiskType

LEMMA HandlerStays ==
  ASSUME TypeOK, CancelInv, Coordinator,
         ~ \E fault \in EnqueueFault : Enqueue(fault),
         ~ ResumeSession
  PROVE  NumbersStay /\ NoResumeSent
  <1> DEFINE Quiet == /\ NumbersStay
                      /\ Return(chan) \/ (chan # <<>> /\ Return(Tail(chan)))
  <1>1. ASSUME \/ EnqueueIgnored \/ SettleStale \/ Delta \/ CompactedReported
               \/ CompactionStatus \/ Cancel \/ QueryStatus \/ Shutdown
               \/ \E t \in Turn : StartWorker(t)
        PROVE  Quiet
    <2>1. Return(chan) \/ (chan # <<>> /\ Return(Tail(chan)))
      BY <1>1 DEF EnqueueIgnored, SettleStale, Delta, CompactedReported, CompactionStatus,
         Cancel, QueryStatus, Shutdown, StartWorker, Receive
    <2>2. /\ UNCHANGED <<seq, nextSeq, log, row, session, main>>
          /\ phase' = phase \/ Shutdown
          /\ told' = told \/ Delta
      BY <1>1 DEF EnqueueIgnored, SettleStale, Delta, CompactedReported, CompactionStatus,
         Cancel, QueryStatus, Shutdown, StartWorker, transcript, attached, disk, frontend, view
    <2>3. \A t \in Turn : phase'[t] # "absent" => phase[t] # "absent"
      BY <2>2 DEF Shutdown
    <2>4. \A t \in Turn : Known(t) => Known(t)'
      BY <2>2 DEF Delta, Known, TypeOK, ViewType
    <2>5. rpc'.session = rpc.session
      BY <1>1 DEF EnqueueIgnored, SettleStale, Delta, CompactedReported, CompactionStatus,
         Cancel, QueryStatus, Shutdown, StartWorker, frontend, Reply, TypeOK, FrontendType
    <2> QED BY <2>1, <2>2, <2>3, <2>4, <2>5 DEF NumbersStay
  <1>2. ASSUME NEW lost, Settle(lost) PROVE Quiet
    BY <1>2, SettleActiveStays DEF Settle, Receive
  <1>3. ASSUME NEW t \in Turn, NEW lost, Unconfigured(t, lost) PROVE Quiet
    <2>1. t \in Active
      BY <1>3, ConversationAssumption DEF Unconfigured, CancelInv, AboutActive
    <2> QED BY <1>3, <2>1, SettleActiveStays DEF Unconfigured
  <1>4. ASSUME NEW lost, SetSessionSummary(lost) PROVE Quiet
    <2>1. /\ UNCHANGED <<phase, seq, nextSeq, session, main, rpc, told>>
          /\ chan # <<>> /\ Return(Tail(chan))
          /\ row' = row \/ row' = [row EXCEPT ![session] = "generated"]
          /\ \/ log' = log
             \/ log' = [log EXCEPT ![session] = SummaryGenerated(@, Head(chan).first)]
      BY <1>4 DEF SetSessionSummary, Receive, transcript, frontend, view
    <2>2. \A s \in Turn : log'[s].seq = log[s].seq
      BY <2>1, LogKeepsNumbers DEF TypeOK, DiskType
    <2>3. \A s \in Turn : row'[s] # "absent" => row[s] # "absent" \/ s = session
      BY <2>1 DEF TypeOK, DiskType
    <2> QED BY <2>1, <2>2, <2>3 DEF NumbersStay, Known
  <1>5. ASSUME NEW lost, Stop(lost) PROVE Quiet
    <2>1. /\ UNCHANGED <<seq, nextSeq, session, main, rpc>>
          /\ chan # <<>> /\ Return(Tail(chan))
          /\ row' = row \/ row' = [row EXCEPT ![session] = sessionTitle]
          /\ phase' = [t \in Turn |-> IF t \in Pending THEN "absent" ELSE phase[t]]
          /\ told' = [t \in Turn |-> IF t \in Pending THEN "removed" ELSE told[t]]
      BY <1>5 DEF Stop, Receive, frontend
    <2>2. \A s \in Turn : \E S : log'[s] = TurnSettled(log[s], S, "cancelled")
      BY <1>5 DEF Stop
    <2>3. \A s \in Turn : log'[s].seq = log[s].seq
      BY <2>2, LogKeepsNumbers DEF TypeOK, DiskType
    <2>4. \A s \in Turn : row'[s] # "absent" => row[s] # "absent" \/ s = session
      BY <2>1 DEF TypeOK, DiskType
    <2> QED BY <2>1, <2>3, <2>4 DEF NumbersStay, Known
  <1>6. ASSUME NEW logged, Clear(logged) PROVE Quiet
    <2>1. /\ UNCHANGED <<seq, nextSeq, main, rpc, told, row>>
          /\ chan # <<>> /\ Return(Tail(chan))
          /\ session' = session \/ session' = None
          /\ phase' = [t \in Turn |-> IF t \in Active THEN phase[t] ELSE "absent"]
          /\ log' = log \/ log' = [log EXCEPT ![session] = TurnSettled(@, logged, "cancelled")]
      BY <1>6 DEF Clear, OnClear, KeptByClear, Receive, frontend, view, attached, disk
    <2>2. \A s \in Turn : log'[s].seq = log[s].seq
      BY <2>1, LogKeepsNumbers DEF TypeOK, DiskType
    <2> QED BY <2>1, <2>2 DEF NumbersStay, Known
  <1> HIDE DEF Quiet
  <1>7. Quiet
    BY <1>1, <1>2, <1>3, <1>4, <1>5, <1>6 DEF Coordinator, StartActive
  <1> QED BY <1>7, ReturnSendsNone DEF Quiet

-----------------------------------------------------------------------------
(* Steps that do *)

\* A turn gets the next number, which is new to the transcript and to the log it goes to.
LEMMA EnqueueOrder ==
  ASSUME TypeOK, TypeOK', CancelInv, ResumeInv, OrderInv,
         NEW fault \in EnqueueFault, Enqueue(fault)
  PROVE  OrderInv'
  <1>1. /\ chan # <<>> /\ 1 \in DOMAIN chan /\ Head(chan) = chan[1] /\ Head(chan) \in Command
        /\ At(1, "Enqueue") /\ Return(Tail(chan)) /\ UNCHANGED <<main, rpc>>
    BY ReceiveType DEF Enqueue, Receive, TypeOK, At, frontend
  <1>2. PICK t \in Turn : /\ t = Head(chan).turn /\ told[t] = "sent"
                          /\ phase[t] # "active" /\ phase[t] # "pending"
    BY <1>1, CommandFields DEF CancelInv, EnqueuedOnce, Fresh, At, Unsettled, Pending, Active
  <1>3. /\ nextSeq' = nextSeq + 1 /\ nextSeq \in Nat
        /\ seq' = [seq EXCEPT ![t] = nextSeq]
        /\ phase' = phase \/ \E p \in {"active", "pending"} : phase' = [phase EXCEPT ![t] = p]
    BY <1>2 DEF Enqueue, NextSeq, TypeOK, TranscriptType
  <1>4. Known(t)' /\ \A u \in Turn : Known(u) => Known(u)'
    <2>1. \E w \in {"running", "queued", "over"} : told' = [told EXCEPT ![t] = w]
      BY <1>2 DEF Enqueue, Tell
    <2> QED BY <2>1 DEF Known, TypeOK, ViewType
  <1>5. PICK here \in Turn : here = (IF session = None THEN t ELSE session)
    BY DEF TypeOK, AttachedType
  <1>6. /\ Known(here)' /\ (session' = None \/ session' = here)
        /\ \A u \in Turn : log[here].seq[u] < nextSeq
    <2>1. session' = None \/ session' = here
      BY <1>2, <1>5 DEF Enqueue, OnEnqueue
    <2>2. \A u \in Turn : log[here].seq[u] \in Int
      BY DEF TypeOK, DiskType, Log, SeqNo
    <2>3. CASE session = None
      <3>1. here = t /\ ~Known(t)
        BY <1>2, <1>5, <2>3 DEF Known
      <3>2. \A u \in Turn : log[here].seq[u] < 0
        BY <3>1 DEF OrderInv, OnlyKnown
      <3> QED BY <1>3, <1>4, <2>1, <2>2, <3>1, <3>2
    <2>4. CASE session # None
      BY <1>4, <1>5, <2>1, <2>4 DEF OrderInv, LogOrder
    <2> QED BY <2>3, <2>4
  <1>7. /\ \A s \in Turn : s # here => log'[s].seq = log[s].seq /\ row'[s] = row[s]
        /\ \/ log'[here].seq = log[here].seq
           \/ log'[here].seq = [log[here].seq EXCEPT ![t] = nextSeq]
    <2>1. \A s \in Turn : s # here => log'[s] = log[s] /\ row'[s] = row[s]
      BY <1>2, <1>5 DEF Enqueue, OnEnqueue, TypeOK, DiskType
    <2>2. log[here] \in Log
      BY DEF TypeOK, DiskType
    <2>3. \E l \in {log[here], Started(log[here])} :
            log'[here] = l \/ log'[here] = TurnEnqueued(l, t, nextSeq)
      BY <1>2, <1>5 DEF Enqueue, OnEnqueue, TypeOK, DiskType
    <2>4. \A l \in {log[here], Started(log[here])} : l \in Log /\ l.seq = log[here].seq
      BY <2>2, LogType, LogKeepsNumbers
    <2>5. \A l \in Log : TurnEnqueued(l, t, nextSeq).seq = [l.seq EXCEPT ![t] = nextSeq]
      BY DEF TurnEnqueued, Log
    <2> QED BY <2>1, <2>3, <2>4, <2>5
  <1>8. \A s, u \in Turn : log[s].seq[u] \in Int /\ DOMAIN log[s].seq = Turn
    BY DEF TypeOK, DiskType, Log, SeqNo
  <1>9. TranscriptOrder'
    <2>1. \A u \in Turn : seq[u] \in Int
      BY DEF TypeOK, TranscriptType, SeqNo
    <2>2. \A u \in Turn : u # t => seq'[u] = seq[u] /\ phase'[u] = phase[u]
      BY <1>3 DEF TypeOK, TranscriptType
    <2>3. seq'[t] = nextSeq
      BY <1>2, <1>3 DEF TypeOK, TranscriptType
    <2>4. ASSUME NEW u \in Turn, phase'[u] # "absent" PROVE seq'[u] < nextSeq'
      BY <1>3, <2>1, <2>2, <2>3, <2>4 DEF OrderInv, TranscriptOrder
    <2>5. ASSUME NEW u \in Turn, NEW v \in Turn, phase'[u] # "absent", phase'[v] # "absent",
                 seq'[u] = seq'[v]
          PROVE  u = v
      BY <1>3, <2>1, <2>2, <2>3, <2>5 DEF OrderInv, TranscriptOrder
    <2> QED BY <2>4, <2>5 DEF TranscriptOrder
  <1>10. LogOrder'
    <2>1. /\ \A u \in Turn : u # t => log'[here].seq[u] = log[here].seq[u]
          /\ log'[here].seq[t] \in {log[here].seq[t], nextSeq}
      BY <1>2, <1>6, <1>7, <1>8
    <2>2. \A u, v \in Turn : log[here].seq[u] >= 0 /\ log[here].seq[u] = log[here].seq[v]
                                => u = v
      BY <1>6 DEF OrderInv, LogOrder, Apart
    <2>3. \A u, v \in Turn : log'[here].seq[u] >= 0 /\ log'[here].seq[u] = log'[here].seq[v]
                                => u = v
      BY <1>3, <1>6, <1>8, <2>1, <2>2
    <2>4. \A s \in Turn : s # here => Apart(log[s].seq)'
      BY <1>7 DEF OrderInv, LogOrder, Apart
    <2>5. \A u \in Turn : log'[here].seq[u] < nextSeq'
      BY <1>2, <1>3, <1>6, <1>8, <2>1
    <2>6. \A s \in Turn : Apart(log[s].seq)'
      BY <2>3, <2>4 DEF Apart
    <2> QED BY <1>6, <2>5, <2>6 DEF LogOrder
  <1>11. OnlyKnown'
    <2>1. main = "querying" => rpc.session \in Turn
      BY DEF TypeOK, FrontendType
    <2>2. ASSUME NEW s \in Turn, ~Known(s)'
          PROVE  row'[s] = "absent" /\ \A u \in Turn : log'[s].seq[u] < 0
      <3>1. s # here /\ ~Known(s)
        BY <1>4, <1>6, <2>2
      <3> QED BY <1>7, <3>1 DEF OrderInv, OnlyKnown
    <2>3. main' = "querying" => Known(rpc.session)'
      BY <1>1, <1>4, <2>1 DEF OrderInv, OnlyKnown, Known
    <2> QED BY <2>2, <2>3 DEF OnlyKnown
  <1>12. ReadIsCurrent'
    <2>1. \A i \in DOMAIN chan : ~At(i, "ResumeSession")
      BY <1>1 DEF ResumeInv, AttachBeforeEnqueue, At, TypeOK
    <2>2. NoResumeSent
      BY <1>1, ReturnSendsNone
    <2> QED BY <2>1, <2>2 DEF ReadIsCurrent, NoResumeSent, At
  <1> QED BY <1>9, <1>10, <1>11, <1>12 DEF OrderInv

\* The transcript becomes the log's, and the next number follows all of its numbers.
LEMMA ResumeSessionOrder ==
  ASSUME TypeOK, TypeOK', OrderInv, ResumeSession
  PROVE  OrderInv'
  <1> DEFINE c == Head(chan)
  <1>1. /\ chan # <<>> /\ 1 \in DOMAIN chan /\ c = chan[1] /\ c \in Command
        /\ At(1, "ResumeSession") /\ Return(Tail(chan))
        /\ UNCHANGED <<log, row, main, told>> /\ rpc'.session = rpc.session
    BY ReceiveType DEF ResumeSession, Receive, TypeOK, At, disk, view, Reply, FrontendType
  <1>2. c.session \in Turn /\ c.turns \in Restored
    BY <1>1, CommandFields DEF At
  <1>3. Known(c.session) /\ c.turns.seq = log[c.session].seq
    BY <1>1 DEF OrderInv, ReadIsCurrent
  <1>4. /\ session' = c.session /\ seq' = c.turns.seq
        /\ phase' = [t \in Turn |-> IF c.turns.seq[t] >= 0 THEN "settled" ELSE "absent"]
        /\ \A t \in Turn : c.turns.seq[t] < nextSeq'
    <2>1. \A t \in Turn : c.turns.seq[t] \in Int
      BY <1>2 DEF Restored, SeqNo
    <2>2. PICK top \in {-1} \cup {c.turns.seq[t] : t \in Turn} :
            (\A t \in Turn : c.turns.seq[t] <= top) /\ nextSeq' = top + 1
      BY DEF ResumeSession, SeqAfter
    <2>3. top \in Int
      BY <2>1
    <2>4. \A t \in Turn : c.turns.seq[t] < nextSeq'
      BY <2>1, <2>2, <2>3
    <2> QED BY <2>4 DEF ResumeSession
  <1> HIDE DEF c
  <1>5. TranscriptOrder'
    BY <1>2, <1>3, <1>4 DEF OrderInv, LogOrder, Apart, TranscriptOrder
  <1>6. LogOrder' /\ OnlyKnown'
    BY <1>1, <1>3, <1>4 DEF OrderInv, LogOrder, Apart, OnlyKnown, Known
  <1>7. ReadIsCurrent'
    <2>1. NoResumeSent
      BY <1>1, ReturnSendsNone
    <2> QED BY <1>1, <2>1 DEF OrderInv, ReadIsCurrent, NoResumeSent, At, Known
  <1> QED BY <1>5, <1>6, <1>7 DEF OrderInv

\* The request loop sends what it has just read.
LEMMA SendResumeOrder ==
  ASSUME TypeOK, TypeOK', OrderInv, Serve, SendResume
  PROVE  OrderInv'
  <1> DEFINE c == [op |-> "ResumeSession", id |-> rpc.id, session |-> rpc.session,
                   title |-> row[rpc.session], turns |-> Restore(log[rpc.session])]
  <1>1. /\ main = "querying" /\ main' = "attaching" /\ (chan' = chan \/ chan' = Append(chan, c))
        /\ c.session = rpc.session /\ c.turns.seq = log[rpc.session].seq
        /\ UNCHANGED <<phase, seq, nextSeq, session, log, row, told>>
    BY DEF SendResume, Send, Answer, Serve, transcript, attached, disk, view, Restore
  <1> HIDE DEF c
  <1>2. \A i \in DOMAIN chan' : (i \in DOMAIN chan /\ chan'[i] = chan[i]) \/ chan'[i] = c
    <2>1. CASE chan' = chan
      BY <2>1
    <2>2. CASE chan' = Append(chan, c)
      BY <2>2 DEF TypeOK
    <2> QED BY <1>1, <2>1, <2>2
  <1>3. Known(c.session)
    BY <1>1 DEF OrderInv, OnlyKnown
  <1>4. ReadIsCurrent'
    BY <1>1, <1>2, <1>3 DEF OrderInv, ReadIsCurrent, At, Known
  <1> QED BY <1>1, <1>4 DEF OrderInv, TranscriptOrder, LogOrder, Apart, OnlyKnown, Known

LEMMA ServeOrder ==
  ASSUME TypeOK, TypeOK', OrderInv, Serve
  PROVE  OrderInv'
  <1>1. CASE SendResume
    BY <1>1, SendResumeOrder
  <1>2. ASSUME NEW s \in Turn, RequestResume(s) PROVE OrderInv'
    <2>1. /\ row[s] # "absent" /\ rpc'.session = s /\ main' = "querying"
          /\ UNCHANGED <<phase, seq, nextSeq, session, log, row, told>>
          /\ \E c : c.op # "ResumeSession" /\ Send(c)
      BY <1>2 DEF RequestResume, Serve, transcript, attached, disk, view
    <2>2. NoResumeSent
      BY <2>1, SendSendsNone
    <2>3. ReadIsCurrent'
      BY <2>1, <2>2 DEF OrderInv, ReadIsCurrent, NoResumeSent, At, Known
    <2>4. OnlyKnown'
      BY <2>1 DEF OrderInv, OnlyKnown, Known
    <2> QED BY <2>1, <2>3, <2>4 DEF OrderInv, TranscriptOrder, LogOrder, Apart, Known
  <1>3. ASSUME \/ \E t \in Turn, config \in BOOLEAN : Submit(t, config)
               \/ \E t \in Turn : RequestCancel(t)
               \/ RequestStop \/ RequestClear
               \/ RefuseResume \/ ConfirmResume \/ TimeOut
               \/ \E polite \in BOOLEAN : EndOfInput(polite)
        PROVE  OrderInv'
    <2>1. /\ UNCHANGED <<phase, seq, nextSeq, session, log, row>>
          /\ chan' = chan \/ \E c : c.op # "ResumeSession" /\ Send(c)
      BY <1>3 DEF Serve, transcript, attached, disk, Submit, RequestCancel, RequestStop,
         RequestClear, RefuseResume, ConfirmResume, TimeOut, EndOfInput
    <2>2. main' = "querying" => main = "querying" /\ rpc'.session = rpc.session
      BY <1>3 DEF Submit, Ask, RequestCancel, RequestStop, RequestClear, RefuseResume,
         ConfirmResume, TimeOut, EndOfInput, Answer, frontend
    <2>3. \A t \in Turn : Known(t) => Known(t)'
      <3>1. UNCHANGED told \/ \E t \in Turn : /\ told[t] = "unsent"
                                              /\ told' = [told EXCEPT ![t] = "sent"]
        BY <1>3 DEF Submit, RequestCancel, RequestStop, RequestClear, RefuseResume,
           ConfirmResume, TimeOut, EndOfInput, view
      <3> QED BY <3>1 DEF Known, TypeOK, ViewType
    <2> QED BY <2>1, <2>2, <2>3, SendSendsNone, NumbersStayOrder DEF NumbersStay
  <1> QED BY <1>1, <1>2, <1>3 DEF Serve

LEMMA ThreadOrder ==
  ASSUME TypeOK, TypeOK', OrderInv,
         (\E t \in Turn : Worker(t)) \/ (\E j \in titling : TitleThread(j)) \/ ShutdownAndJoin
  PROVE  OrderInv'
  <1>1. /\ UNCHANGED <<phase, seq, nextSeq, session, log, row, told>>
        /\ main' = "querying" => main = "querying" /\ rpc'.session = rpc.session
    BY DEF Worker, TitleThread, ShutdownAndJoin, RaiseFlag, SendShutdown, Join, transcript,
       attached, disk, frontend, view
  <1>2. chan' = chan \/ \E c : c.op # "ResumeSession" /\ Send(c)
    BY DEF Worker, CallProvider, StartFolding, StopFolding, ReportCompaction, Stream,
       Complete, NoticeCancel, Fail, End, EndThread, TitleThread, ShutdownAndJoin, RaiseFlag,
       SendShutdown, Join
  <1> QED BY <1>1, <1>2, SendSendsNone, NumbersStayOrder DEF NumbersStay, Known

LEMMA OrderInvStep ==
  ASSUME TypeOK, TypeOK', CancelInv, ResumeInv, OrderInv, [Next]_vars
  PROVE  OrderInv'
  <1>1. CASE UNCHANGED vars
    <2>1. UNCHANGED <<phase, seq, nextSeq, session, log, row, told, main, rpc, chan>>
      BY <1>1 DEF vars, transcript, attached, disk, frontend, view
    <2> QED BY <2>1, SendSendsNone, NumbersStayOrder DEF NumbersStay, Known
  <1>2. CASE Restart
    <2>1. /\ phase' = [t \in Turn |-> "absent"] /\ chan' = <<>> /\ session' = None
          /\ UNCHANGED <<log, row, told>> /\ main' = "serving"
      BY <1>2 DEF Restart, disk
    <2> QED BY <2>1 DEF OrderInv, TranscriptOrder, LogOrder, Apart, OnlyKnown, ReadIsCurrent,
         Known
  <1>3. CASE Coordinator
    BY <1>3, EnqueueOrder, ResumeSessionOrder, HandlerStays, NumbersStayOrder
  <1> QED BY <1>1, <1>2, <1>3, ServeOrder, ThreadOrder DEF Next

LEMMA OrderInvariant == Spec => []OrderInv
  <1>1. Init => OrderInv
    BY DEF Init, OrderInv, TranscriptOrder, LogOrder, Apart, OnlyKnown, ReadIsCurrent, EmptyLog
  <1>2. TypeOK /\ TypeOK' /\ CancelInv /\ ResumeInv /\ OrderInv /\ [Next]_vars => OrderInv'
    BY OrderInvStep
  <1> QED BY <1>1, <1>2, TypeAndResume, CancelInvariant, PTL DEF Spec

\* The turns of a session stay in order: no two of the transcript, and no two of a log,
\* have the same number, although the numbers start again with each process and each
\* resume, a turn that fails to be recorded spends one, and a resume attaches a log that
\* was read two steps earlier (push and replace_with of transcript.rs, sessions.rs).
THEOREM TurnsAreOrdered == Spec => []UniqueOrder
  <1>1. OrderInv => UniqueOrder
    BY DEF OrderInv, TranscriptOrder, LogOrder, Apart, UniqueOrder
  <1> QED BY <1>1, OrderInvariant, PTL

-----------------------------------------------------------------------------
(* What the channel holds *)

Queued == {chan[i] : i \in DOMAIN chan}

LEMMA QueuedType == ASSUME TypeOK PROVE Queued \subseteq Command
  BY DEF TypeOK, Queued

LEMMA ReturnQueued ==
  ASSUME TypeOK, NEW rest, rest = chan \/ (chan # <<>> /\ rest = Tail(chan)), Return(rest)
  PROVE  Queued' \subseteq Queued
  BY ReturnShifts DEF TypeOK, Queued

LEMMA SendQueued ==
  ASSUME TypeOK, NEW c, Send(c)
  PROVE  Queued' \subseteq Queued \cup {c}
  <1>1. CASE chan' = chan
    BY <1>1 DEF Queued
  <1>2. CASE chan' = Append(chan, c)
    <2>1. \A i \in DOMAIN chan' : (i \in DOMAIN chan /\ chan'[i] = chan[i]) \/ chan'[i] = c
      BY <1>2 DEF TypeOK
    <2> QED BY <2>1 DEF Queued
  <1> QED BY <1>1, <1>2 DEF Send

LEMMA HeadQueued ==
  ASSUME TypeOK, NEW op, Receive(op)
  PROVE  Head(chan) \in Queued /\ Head(chan).op = op
  BY DEF Receive, TypeOK, Queued

-----------------------------------------------------------------------------
(* Every turn in its session *)

\* Turn t is logged in session s.
Logged(t, s) == log[s].seq[t] >= 0
Of(s) == {t \in Turn : Logged(t, s)}

\* A log holds results of its own turns, a turn is in one log at most, and what does not
\* exist yet is in none.
LogsAreSound ==
  /\ \A s, t \in Turn : log[s].result[t] # "none" => Logged(t, s)
  /\ \A t, r, s \in Turn : Logged(t, r) /\ Logged(t, s) => r = s
  /\ \A s \in Turn : ~Known(s) => log[s].compaction = NoSummary
  /\ \A t, s \in Turn : Logged(t, s) => Known(t)

\* An unsettled turn is logged in the current session under its number, or a clear has
\* detached it, and then it is the active one and being cancelled.
AtHome(t) ==
  /\ session # None /\ turnSession[t] = session
  /\ seq[t] >= 0 /\ log[session].seq[t] = seq[t]
Adrift(t) == t \in Active /\ cancelling = t /\ starting # t /\ turnSession[t] = None
UnsettledAtHome == \A t \in Unsettled : AtHome(t) \/ Adrift(t)

\* So are the completed rounds of the transcript.
RoundsAtHome ==
  \A t \in Turn :
    phase[t] = "settled" /\ result[t] = "completed" =>
      session # None /\ seq[t] >= 0 /\ log[session].seq[t] = seq[t]

\* A summary stands for rounds of its session.
OwnSummary ==
  /\ session = None => compaction = NoSummary
  /\ session # None => compaction.folded \subseteq Of(session)
  /\ \A s \in Turn : log[s].compaction.folded \subseteq Of(s)

PlaceInv == LogsAreSound /\ UnsettledAtHome /\ RoundsAtHome /\ OwnSummary

\* The summaries that may be adopted for turn t, or are its context's.
Plans(t) ==
  {NoSummary, job[t].base, job[t].folding}
    \cup (IF pendingCompaction.turn = t THEN {pendingCompaction.state} ELSE {})
    \cup {c.state : c \in {d \in Queued : d.op = "Compacted" /\ d.turn = t}}

NothingPlanned ==
  \A t \in Turn :
    ~Known(t) => worker[t] = "off" /\ job[t].history = {} /\ Plans(t) \subseteq {NoSummary}

OwnPlans ==
  \A t, s \in Turn :
    Logged(t, s) => /\ job[t].history \subseteq Of(s)
                    /\ \A c \in Plans(t) : c.folded \subseteq Of(s)

PlanInv == NothingPlanned /\ OwnPlans

\* What is read of a log is still what the log says when it is attached.
ReadIsExact ==
  \A c \in Queued : c.op = "ResumeSession" => c.turns = Restore(log[c.session])

\* A title, its report and its job are of a round of their session.
OwnTitles ==
  /\ \A s \in Turn : log[s].titles \subseteq Of(s)
  /\ \A c \in Queued : c.op = "SetSessionSummary" => Logged(c.first, c.session)
  /\ \A j \in titling : Logged(j.first, j.session)

SessionInv == PlaceInv /\ PlanInv /\ ReadIsExact /\ OwnTitles

-----------------------------------------------------------------------------
(* Steps that leave the turns where they are *)

SameFold(l, k) == l.seq = k.seq /\ l.result = k.result /\ l.compaction = k.compaction

PlaceStays ==
  /\ UNCHANGED <<seq, result, session, turnSession, compaction>>
  /\ \A s \in Turn : SameFold(log'[s], log[s])
  /\ Active' = Active /\ Pending' \subseteq Pending
  /\ \A t \in Turn : phase'[t] = "settled" <=> phase[t] = "settled"
  /\ cancelling' = cancelling \/ cancelling' \in Active
  /\ starting' = starting \/ starting' = None
  /\ \A t \in Turn : Known(t) => Known(t)'

LEMMA PlaceStaysPlace ==
  ASSUME TypeOK, CancelInv, PlaceInv, PlaceStays
  PROVE  PlaceInv'
  <1>1. session \in Turn \cup {None} /\ None \notin Turn
    BY ConversationAssumption DEF TypeOK, AttachedType
  <1>2. \A s, t \in Turn : Logged(t, s)' <=> Logged(t, s)
    BY DEF PlaceStays, SameFold, Logged
  <1>3. LogsAreSound'
    BY <1>2 DEF PlaceInv, LogsAreSound, PlaceStays, SameFold
  <1>4. UnsettledAtHome'
    <2> SUFFICES ASSUME NEW t \in Unsettled' PROVE AtHome(t)' \/ Adrift(t)'
      BY DEF UnsettledAtHome
    <2>1. t \in Unsettled /\ t \in Turn
      BY DEF PlaceStays, Unsettled, Active, Pending
    <2>2. AtHome(t) => AtHome(t)'
      BY <1>1, <2>1 DEF AtHome, PlaceStays, SameFold
    <2>3. Adrift(t) => Adrift(t)'
      BY <1>1, <2>1 DEF Adrift, PlaceStays, CancelInv, OneActive
    <2> QED BY <2>1, <2>2, <2>3 DEF PlaceInv, UnsettledAtHome
  <1>5. RoundsAtHome'
    BY <1>1 DEF PlaceInv, RoundsAtHome, PlaceStays, SameFold
  <1>6. OwnSummary'
    <2>1. \A s \in Turn : Of(s)' = Of(s)
      BY <1>2 DEF Of
    <2> QED BY <1>1, <2>1 DEF PlaceInv, OwnSummary, PlaceStays, SameFold
  <1> QED BY <1>3, <1>4, <1>5, <1>6 DEF PlaceInv

\* What a handler may be, that neither moves a turn nor touches a log's fold.
QuietHandler ==
  \/ EnqueueIgnored \/ SettleStale \/ Delta \/ CompactedReported \/ CompactionStatus
  \/ Cancel \/ QueryStatus \/ Shutdown
  \/ (\E t \in Turn : StartWorker(t))
  \/ (\E lost : SetSessionSummary(lost))

\* And what the other threads may do.
Elsewhere ==
  \/ (\E t \in Turn : Worker(t)) \/ (\E j \in titling : TitleThread(j))
  \/ Serve \/ ShutdownAndJoin \/ UNCHANGED vars

\* A handler is one of these, settles the active turn, or is an enqueue, a stop, a clear or
\* a resume.
LEMMA HandlerSteps ==
  ASSUME TypeOK, CancelInv, Coordinator
  PROVE  \/ QuietHandler \/ ResumeSession
         \/ \E t \in Active, k \in Kind : \E lost : SettleActive(t, k, lost)
         \/ \E fault \in EnqueueFault : Enqueue(fault)
         \/ \E lost : Stop(lost)
         \/ \E logged : Clear(logged)
  <1>1. ASSUME NEW lost, Settle(lost)
        PROVE  \E t \in Active, k \in Kind : SettleActive(t, k, lost)
    <2>1. Head(chan) \in Queued /\ Head(chan).op = "Settle"
      BY <1>1, HeadQueued DEF Settle
    <2>2. Head(chan).kind \in Kind
      BY <2>1, QueuedType, CommandFields
    <2> QED BY <1>1, <2>2 DEF Settle
  <1>2. ASSUME NEW t \in Turn, NEW lost, Unconfigured(t, lost)
        PROVE  t \in Active /\ "needsConfiguration" \in Kind
    BY <1>2, ConversationAssumption DEF Unconfigured, CancelInv, AboutActive, Kind
  <1>3. CASE \E lost : Settle(lost)
    BY <1>1, <1>3
  <1>4. CASE \E t \in Turn : \E lost : Unconfigured(t, lost)
    BY <1>2, <1>4 DEF Unconfigured
  <1> QED BY <1>3, <1>4 DEF Coordinator, StartActive, QuietHandler

LEMMA Steps ==
  ASSUME TypeOK, CancelInv, [Next]_vars
  PROVE  \/ QuietHandler \/ Elsewhere \/ ResumeSession \/ Restart
         \/ \E t \in Active, k \in Kind : \E lost : SettleActive(t, k, lost)
         \/ \E fault \in EnqueueFault : Enqueue(fault)
         \/ \E lost : Stop(lost)
         \/ \E logged : Clear(logged)
  BY HandlerSteps DEF Next, Elsewhere

LEMMA QuietPlace ==
  ASSUME TypeOK, QuietHandler
  PROVE  PlaceStays
  <1>1. ASSUME \/ EnqueueIgnored \/ SettleStale \/ Delta \/ CompactedReported
               \/ CompactionStatus \/ Cancel \/ QueryStatus \/ Shutdown
               \/ \E t \in Turn : StartWorker(t)
        PROVE  PlaceStays
    <2>1. /\ UNCHANGED <<seq, result, session, turnSession, compaction, log>>
          /\ \/ phase' = phase
             \/ phase' = [t \in Turn |-> IF t \in Pending THEN "absent" ELSE phase[t]]
          /\ cancelling' = cancelling \/ cancelling' \in Active
          /\ starting' = starting \/ starting' = None
      BY <1>1 DEF EnqueueIgnored, SettleStale, Delta, CompactedReported, CompactionStatus,
         Cancel, QueryStatus, Shutdown, StartWorker, transcript, attached, disk, loop
    <2>2. told' = told \/ \E t \in Turn : told' = [told EXCEPT ![t] = "speaking"]
      BY <1>1 DEF EnqueueIgnored, SettleStale, Delta, CompactedReported, CompactionStatus,
         Cancel, QueryStatus, Shutdown, StartWorker, view, Active
    <2>3. \A t \in Turn : Known(t) => Known(t)'
      BY <2>2 DEF Known, TypeOK, ViewType
    <2>4. /\ Active' = Active /\ Pending' \subseteq Pending
          /\ \A t \in Turn : phase'[t] = "settled" <=> phase[t] = "settled"
      BY <2>1 DEF Active, Pending
    <2> QED BY <2>1, <2>3, <2>4 DEF PlaceStays, SameFold
  <1>2. ASSUME NEW lost, SetSessionSummary(lost) PROVE PlaceStays
    <2>1. /\ UNCHANGED <<phase, seq, result, session, turnSession, compaction, cancelling,
                         starting, told>>
          /\ \/ log' = log
             \/ log' = [log EXCEPT ![session] = SummaryGenerated(@, Head(chan).first)]
      BY <1>2 DEF SetSessionSummary, transcript, loop, view
    <2>2. \A l \in Log : \A t : SameFold(SummaryGenerated(l, t), l)
      BY DEF SameFold, SummaryGenerated, Log
    <2>3. \A s \in Turn : SameFold(log'[s], log[s])
      BY <2>1, <2>2 DEF TypeOK, DiskType, SameFold
    <2> QED BY <2>1, <2>3 DEF PlaceStays, Known, Active, Pending
  <1> QED BY <1>1, <1>2 DEF QuietHandler

LEMMA ElsewherePlace ==
  ASSUME TypeOK, Elsewhere
  PROVE  PlaceStays /\ log' = log
  <1>1. UNCHANGED <<phase, seq, result, session, turnSession, compaction, log, cancelling,
                    starting>>
    BY DEF Elsewhere, Worker, TitleThread, Serve, ShutdownAndJoin, vars, transcript, attached,
       disk, loop
  <1>2. UNCHANGED told \/ \E t \in Turn : /\ told[t] = "unsent"
                                          /\ told' = [told EXCEPT ![t] = "sent"]
    BY DEF Elsewhere, Worker, TitleThread, Serve, ShutdownAndJoin, vars, view, Submit,
       RequestCancel, RequestStop, RequestClear, RequestResume, RefuseResume, SendResume,
       ConfirmResume, TimeOut, EndOfInput
  <1>3. \A t \in Turn : Known(t) => Known(t)'
    BY <1>2 DEF Known, TypeOK, ViewType
  <1> QED BY <1>1, <1>3 DEF PlaceStays, SameFold, Active, Pending

-----------------------------------------------------------------------------
(* The steps that move turns *)

\* What the settle of the active turn does, to its log among others.
LEMMA SettleEffect ==
  ASSUME TypeOK, CancelInv, UnsettledAtHome, NEW t \in Active, NEW k \in Kind, NEW lost,
         SettleActive(t, k, lost)
  PROVE  /\ \A s \in Turn : /\ log'[s].seq = log[s].seq /\ log'[s].titles = log[s].titles
                            /\ \A u \in Turn : u # t => log'[s].result[u] = log[s].result[u]
                            /\ log'[s].result[t] =
                                 IF AtHome(t) /\ s = session /\ "settled" \notin lost
                                 THEN SettledAs(t, k) ELSE log[s].result[t]
                            /\ log'[s].compaction =
                                 IF /\ pendingCompaction.turn = t /\ SettledAs(t, k) = "completed"
                                    /\ s = session /\ "compacted" \notin lost
                                 THEN pendingCompaction.state ELSE log[s].compaction
  <1> DEFINE kind   == SettledAs(t, k)
             adopts == pendingCompaction.turn = t /\ kind = "completed"
             home   == turnSession[t]
             folds  == adopts /\ session # None /\ "compacted" \notin lost
             ends   == home # None /\ "settled" \notin lost
             folded == IF folds
                       THEN [log EXCEPT ![session] = Compacted(@, pendingCompaction.state)]
                       ELSE log
  <1>1. log' = IF ends THEN [folded EXCEPT ![home] = TurnSettled(@, {t}, kind)] ELSE folded
    BY DEF SettleActive, OnSettle
  <1>2. log \in [Turn -> Log] /\ pendingCompaction.state \in Summary /\ t \in Turn
        /\ session \in Turn \cup {None} /\ None \notin Turn
    BY ConversationAssumption DEF TypeOK, DiskType, LoopType, AttachedType, Active
  <1>3. home # None <=> AtHome(t)
    BY <1>2 DEF UnsettledAtHome, Unsettled, AtHome, Adrift
  <1>4. AtHome(t) => home = session /\ session \in Turn /\ log[session].seq[t] >= 0
    BY <1>2 DEF AtHome
  <1>5. ASSUME NEW s \in Turn
        PROVE  /\ folded[s] \in Log /\ folded[s].seq = log[s].seq
               /\ folded[s].titles = log[s].titles /\ folded[s].result = log[s].result
               /\ folded[s].compaction = IF folds /\ s = session
                                         THEN pendingCompaction.state
                                         ELSE log[s].compaction
    <2>1. log[s] \in Log
      BY <1>2
    <2>2. CASE folds /\ s = session
      <3>1. folded[s] = Compacted(log[s], pendingCompaction.state)
        BY <1>2, <2>2
      <3> DEFINE e == Compacted(log[s], pendingCompaction.state)
      <3>2. /\ e \in Log /\ e.seq = log[s].seq /\ e.titles = log[s].titles
            /\ e.result = log[s].result /\ e.compaction = pendingCompaction.state
        BY <1>2, <2>1 DEF Compacted, Log
      <3> HIDE DEF e, folded, folds
      <3> QED BY <2>2, <3>1, <3>2 DEF e
    <2>3. CASE ~(folds /\ s = session)
      <3>1. folded[s] = log[s]
        BY <1>2, <2>3
      <3> HIDE DEF folded, folds
      <3> QED BY <2>1, <2>3, <3>1
    <2> QED BY <2>2, <2>3
  <1>6. DOMAIN folded = Turn
    BY <1>2
  <1>7. \A l \in Log : LET e == TurnSettled(l, {t}, kind)
                       IN  /\ e.seq = l.seq /\ e.titles = l.titles
                           /\ e.compaction = l.compaction
                           /\ \A u \in Turn : u # t => e.result[u] = l.result[u]
                           /\ l.seq[t] >= 0 => e.result[t] = kind
    BY <1>2 DEF TurnSettled, Log
  <1>8. folds <=> adopts /\ session \in Turn /\ "compacted" \notin lost
    BY <1>2
  <1> HIDE DEF folded, home, kind
  <1>9. ASSUME NEW s \in Turn
        PROVE  log'[s] = IF AtHome(t) /\ s = session /\ "settled" \notin lost
                         THEN TurnSettled(folded[s], {t}, kind) ELSE folded[s]
    BY <1>1, <1>2, <1>3, <1>4, <1>6
  <1>10. ASSUME NEW s \in Turn
         PROVE  /\ log'[s].seq = log[s].seq /\ log'[s].titles = log[s].titles
                /\ \A u \in Turn : u # t => log'[s].result[u] = log[s].result[u]
                /\ log'[s].result[t] =
                     IF AtHome(t) /\ s = session /\ "settled" \notin lost
                     THEN kind ELSE log[s].result[t]
                /\ log'[s].compaction = folded[s].compaction
    <2>1. CASE AtHome(t) /\ s = session /\ "settled" \notin lost
      <3> DEFINE e == TurnSettled(folded[s], {t}, kind)
      <3>1. log'[s] = e
        BY <1>9, <2>1
      <3>2. /\ e.seq = folded[s].seq /\ e.titles = folded[s].titles
            /\ e.compaction = folded[s].compaction
            /\ \A u \in Turn : u # t => e.result[u] = folded[s].result[u]
            /\ folded[s].seq[t] >= 0 => e.result[t] = kind
        BY <1>5, <1>7
      <3> HIDE DEF e
      <3> QED BY <1>4, <1>5, <2>1, <3>1, <3>2
    <2>2. CASE ~(AtHome(t) /\ s = session /\ "settled" \notin lost)
      BY <1>5, <1>9, <2>2
    <2> QED BY <2>1, <2>2
  <1>11. adopts <=> pendingCompaction.turn = t /\ kind = "completed"
    OBVIOUS
  <1> HIDE DEF adopts, folds
  <1>12. \A s \in Turn : log'[s].compaction =
                           IF adopts /\ s = session /\ "compacted" \notin lost
                           THEN pendingCompaction.state ELSE log[s].compaction
    BY <1>5, <1>8, <1>10
  <1>13. kind = SettledAs(t, k)
    BY DEF kind
  <1> QED BY <1>10, <1>11, <1>12, <1>13

\* Only the settled turn leaves the queue; those it frees were pending.
LEMMA SettleQueue ==
  ASSUME TypeOK, NEW t \in Active, NEW k \in Kind, NEW lost, SettleActive(t, k, lost)
  PROVE  /\ UNCHANGED <<seq, session, nextSeq>> /\ pendingCompaction' = NoPending
         /\ result' = [result EXCEPT ![t] = SettledAs(t, k)]
         /\ turnSession' = [turnSession EXCEPT ![t] = None]
         /\ phase'[t] = "settled"
         /\ \A u \in Turn : u # t => (phase'[u] = "settled" <=> phase[u] = "settled")
         /\ Unsettled' \subseteq Unsettled \ {t}
         /\ \A u \in Turn : Known(u) => Known(u)'
         /\ compaction' = IF pendingCompaction.turn = t /\ SettledAs(t, k) = "completed"
                          THEN pendingCompaction.state ELSE compaction
  <1>1. FirstPending \subseteq Pending /\ t \in Turn /\ phase[t] = "active"
    BY DEF FirstPending, Active
  <1> DEFINE next == IF IsShuttingDown THEN {} ELSE FirstPending
  <1>2. next \subseteq Pending
    BY <1>1
  <1>3. /\ phase' = [u \in Turn |-> IF u = t THEN "settled"
                                    ELSE IF u \in next THEN "active" ELSE phase[u]]
        /\ told' = [u \in Turn |-> IF u = t THEN "over"
                                   ELSE IF u \in next THEN "running" ELSE told[u]]
    BY DEF SettleActive
  <1>4. /\ UNCHANGED <<seq, session, nextSeq>> /\ pendingCompaction' = NoPending
        /\ result' = [result EXCEPT ![t] = SettledAs(t, k)]
        /\ turnSession' = [turnSession EXCEPT ![t] = None]
        /\ compaction' = IF pendingCompaction.turn = t /\ SettledAs(t, k) = "completed"
                          THEN pendingCompaction.state ELSE compaction
    BY DEF SettleActive, OnSettle
  <1> HIDE DEF next
  <1>5. /\ phase'[t] = "settled"
        /\ \A u \in Turn : u # t => (phase'[u] = "settled" <=> phase[u] = "settled")
        /\ Unsettled' \subseteq Unsettled \ {t}
    BY <1>1, <1>2, <1>3 DEF Unsettled, Active, Pending
  <1>6. \A u \in Turn : Known(u) => Known(u)'
    BY <1>3 DEF Known
  <1> QED BY <1>4, <1>5, <1>6

LEMMA SettleActivePlace ==
  ASSUME TypeOK, CancelInv, OrderInv, PlaceInv, OwnPlans,
         NEW t \in Active, NEW k \in Kind, NEW lost, SettleActive(t, k, lost)
  PROVE  PlaceInv'
  <1>1. /\ UNCHANGED <<seq, session>>
        /\ result' = [result EXCEPT ![t] = SettledAs(t, k)]
        /\ turnSession' = [turnSession EXCEPT ![t] = None]
        /\ \A u \in Turn : u # t => (phase'[u] = "settled" <=> phase[u] = "settled")
        /\ Unsettled' \subseteq Unsettled \ {t}
        /\ \A u \in Turn : Known(u) => Known(u)'
        /\ compaction' = IF pendingCompaction.turn = t /\ SettledAs(t, k) = "completed"
                          THEN pendingCompaction.state ELSE compaction
    BY SettleQueue
  <1>2. /\ t \in Turn /\ session \in Turn \cup {None} /\ None \notin Turn
        /\ turnSession \in [Turn -> Turn \cup {None}]
        /\ result \in [Turn -> Kind \cup {"none"}]
    BY ConversationAssumption DEF TypeOK, AttachedType, TranscriptType, Active
  <1>3. /\ \A s \in Turn : log'[s].seq = log[s].seq
        /\ \A s, u \in Turn : u # t => log'[s].result[u] = log[s].result[u]
        /\ \A s \in Turn : log'[s].result[t] # log[s].result[t] => AtHome(t) /\ s = session
        /\ \A s \in Turn : log'[s].compaction = log[s].compaction
                           \/ /\ s = session /\ pendingCompaction.turn = t
                              /\ SettledAs(t, k) = "completed"
                              /\ log'[s].compaction = pendingCompaction.state
    BY SettleEffect DEF PlaceInv
  <1>4. AtHome(t) \/ cancelling = t
    BY DEF PlaceInv, UnsettledAtHome, Unsettled, Adrift
  <1>5. SettledAs(t, k) = "completed" =>
          AtHome(t) /\ session \in Turn /\ Logged(t, session)
    BY <1>2, <1>4 DEF SettledAs, AtHome, Logged
  <1>6. \A s, u \in Turn : Logged(u, s)' <=> Logged(u, s)
    BY <1>3 DEF Logged
  <1>7. LogsAreSound'
    <2>1. \A s, u \in Turn : log'[s].result[u] # "none" => Logged(u, s)'
      BY <1>3, <1>6 DEF PlaceInv, LogsAreSound, AtHome, Logged
    <2>2. ASSUME NEW s \in Turn, ~Known(s)' PROVE log'[s].compaction = NoSummary
      BY <1>1, <1>2, <1>3, <2>2 DEF PlaceInv, LogsAreSound, OrderInv, LogOrder
    <2> QED BY <1>1, <1>6, <2>1, <2>2 DEF PlaceInv, LogsAreSound
  <1>8. UnsettledAtHome'
    <2> SUFFICES ASSUME NEW u \in Unsettled' PROVE AtHome(u)'
      BY DEF UnsettledAtHome
    <2>1. u \in Unsettled /\ u \in Turn /\ u # t
      BY <1>1 DEF Unsettled, Active, Pending
    <2>2. ~Adrift(u)
      BY <2>1 DEF Adrift, CancelInv, OneActive
    <2>3. AtHome(u)
      BY <2>1, <2>2 DEF PlaceInv, UnsettledAtHome
    <2>4. turnSession'[u] = turnSession[u]
      BY <1>1, <1>2, <2>1
    <2> QED BY <1>1, <1>2, <1>3, <2>3, <2>4 DEF AtHome
  <1>9. RoundsAtHome'
    <2> SUFFICES ASSUME NEW u \in Turn, phase'[u] = "settled", result'[u] = "completed"
                 PROVE  session' # None /\ seq'[u] >= 0 /\ log'[session'].seq[u] = seq'[u]
      BY DEF RoundsAtHome
    <2>1. CASE u = t
      BY <1>1, <1>2, <1>3, <1>5, <2>1 DEF AtHome
    <2>2. CASE u # t
      BY <1>1, <1>2, <1>3, <2>2 DEF PlaceInv, RoundsAtHome
    <2> QED BY <2>1, <2>2
  <1>10. OwnSummary'
    <2>1. \A s \in Turn : Of(s)' = Of(s)
      BY <1>6 DEF Of
    <2>2. pendingCompaction.turn = t /\ SettledAs(t, k) = "completed" =>
            session \in Turn /\ pendingCompaction.state.folded \subseteq Of(session)
      BY <1>2, <1>5 DEF OwnPlans, Plans
    <2> QED BY <1>1, <1>2, <1>3, <2>1, <2>2 DEF PlaceInv, OwnSummary
  <1> QED BY <1>7, <1>8, <1>9, <1>10 DEF PlaceInv

\* What an enqueue does: a turn that did not exist gets the next number, and, if it is
\* logged at all, in the current session or in the one it opens.
Joins(t, here, fault) ==
  /\ ~Known(t) /\ t \notin Unsettled /\ verdict[t] = "none"
  /\ \A s \in Turn : ~Logged(t, s) /\ log[s].result[t] = "none"
  /\ here = IF session = None THEN t ELSE session
  /\ session' = here \/ (session = None /\ session' = None /\ phase' = phase)
  /\ seq' = [seq EXCEPT ![t] = nextSeq]
  /\ phase' = phase \/ \E p \in {"active", "pending"} : phase' = [phase EXCEPT ![t] = p]
  /\ starting' = None \/ starting' = t
  /\ \E w \in {"running", "queued", "over"} : told' = [told EXCEPT ![t] = w]
  /\ \A s \in Turn : /\ log'[s].result = log[s].result
                     /\ log'[s].compaction = log[s].compaction
                     /\ log'[s].titles = log[s].titles
                     /\ s # here => log'[s].seq = log[s].seq
  /\ \A u \in Turn : u # t => /\ log'[here].seq[u] = log[here].seq[u]
                              /\ turnSession'[u] = turnSession[u]
  /\ \/ /\ fault # "none" /\ phase' = phase /\ verdict' = [verdict EXCEPT ![t] = "error"]
     \/ /\ fault = "none" /\ phase'[t] \in {"active", "pending"} /\ verdict' = verdict
        /\ session' = here /\ turnSession'[t] = here /\ log'[here].seq[t] = nextSeq

LEMMA EnqueueHome ==
  ASSUME TypeOK, CancelInv, LogsAreSound, NEW fault \in EnqueueFault, Enqueue(fault)
  PROVE  \E t, here \in Turn : Joins(t, here, fault)
  <1>1. /\ 1 \in DOMAIN chan /\ Head(chan) = chan[1] /\ Head(chan) \in Command
        /\ At(1, "Enqueue")
    BY ReceiveType DEF Enqueue, Receive, TypeOK, At
  <1>2. PICK t \in Turn : /\ t = Head(chan).turn /\ t \notin Unsettled /\ told[t] = "sent"
                          /\ verdict[t] = "none"
    BY <1>1, CommandFields DEF CancelInv, EnqueuedOnce, Fresh, At
  <1>3. PICK here \in Turn : here = (IF session = None THEN t ELSE session)
    BY DEF TypeOK, AttachedType
  <1>4. ~Known(t) /\ \A s \in Turn : ~Logged(t, s) /\ log[s].result[t] = "none"
    BY <1>2 DEF Known, LogsAreSound
  <1>5. /\ seq' = [seq EXCEPT ![t] = nextSeq]
        /\ phase' = phase \/ \E p \in {"active", "pending"} : phase' = [phase EXCEPT ![t] = p]
        /\ starting' = None \/ starting' = t
        /\ \E w \in {"running", "queued", "over"} : told' = [told EXCEPT ![t] = w]
        /\ session' = here \/ (session = None /\ session' = None /\ phase' = phase)
    BY <1>2, <1>3 DEF Enqueue, OnEnqueue, Tell
  <1>6. \A u \in Turn : u # t => turnSession'[u] = turnSession[u]
    BY <1>2, <1>3 DEF Enqueue, OnEnqueue, TypeOK, AttachedType
  <1>7. log \in [Turn -> Log] /\ nextSeq \in SeqNo
    BY DEF TypeOK, DiskType, TranscriptType, SeqNo
  <1>8. PICK l \in {log[here], Started(log[here])} :
          IF fault \in {"none", "touch"}
          THEN log' = [log EXCEPT ![here] = TurnEnqueued(l, t, nextSeq)]
          ELSE log' = [log EXCEPT ![here] = l]
    BY <1>2, <1>3 DEF Enqueue, OnEnqueue
  <1>9. /\ l \in Log /\ l.seq = log[here].seq /\ l.result = log[here].result
        /\ l.compaction = log[here].compaction /\ l.titles = log[here].titles
    <2>1. \A k \in Log : /\ Started(k) \in Log /\ Started(k).seq = k.seq
                         /\ Started(k).result = k.result /\ Started(k).titles = k.titles
                         /\ Started(k).compaction = k.compaction
      BY DEF Started, Log
    <2> QED BY <1>7, <2>1
  <1>10. LET e == TurnEnqueued(l, t, nextSeq)
         IN  /\ \A u \in Turn : u # t => e.seq[u] = l.seq[u]
             /\ e.seq[t] = nextSeq /\ e.compaction = l.compaction /\ e.titles = l.titles
             /\ e.result = [l.result EXCEPT ![t] = "none"]
    BY <1>7, <1>9 DEF TurnEnqueued, Log
  <1>11. [l.result EXCEPT ![t] = "none"] = l.result
    BY <1>4, <1>7, <1>9 DEF Log
  <1>12. \A s \in Turn : s # here => log'[s] = log[s]
    BY <1>7, <1>8
  <1>13. /\ log'[here].result = log[here].result
         /\ log'[here].compaction = log[here].compaction
         /\ log'[here].titles = log[here].titles
         /\ \A u \in Turn : u # t => log'[here].seq[u] = log[here].seq[u]
         /\ fault \in {"none", "touch"} => log'[here].seq[t] = nextSeq
    <2>1. CASE fault \in {"none", "touch"}
      <3> DEFINE e == TurnEnqueued(l, t, nextSeq)
      <3>1. log'[here] = e
        BY <1>7, <1>8, <2>1
      <3>2. /\ \A u \in Turn : u # t => e.seq[u] = l.seq[u]
            /\ e.seq[t] = nextSeq /\ e.compaction = l.compaction /\ e.titles = l.titles
            /\ e.result = l.result
        BY <1>10, <1>11
      <3> HIDE DEF e
      <3> QED BY <1>9, <2>1, <3>1, <3>2
    <2>2. CASE fault \notin {"none", "touch"}
      <3>1. log'[here] = l
        BY <1>7, <1>8, <2>2
      <3> QED BY <1>9, <2>2, <3>1
    <2> QED BY <2>1, <2>2
  <1>14. \/ /\ fault # "none" /\ phase' = phase /\ verdict' = [verdict EXCEPT ![t] = "error"]
         \/ /\ fault = "none" /\ phase'[t] \in {"active", "pending"} /\ verdict' = verdict
            /\ session' = here /\ turnSession'[t] = here /\ log'[here].seq[t] = nextSeq
    <2>1. CASE fault = "none"
      <3>1. [verdict EXCEPT ![t] = "none"] = verdict
        BY <1>2 DEF TypeOK, ViewType
      <3>2. verdict' = verdict /\ session' = here
        BY <1>2, <1>3, <2>1, <3>1 DEF Enqueue, OnEnqueue, Tell
      <3>3. phase'[t] \in {"active", "pending"}
        BY <1>2, <2>1 DEF Enqueue, TypeOK, TranscriptType
      <3>4. turnSession'[t] = here
        BY <1>2, <1>3, <2>1 DEF Enqueue, OnEnqueue, TypeOK, AttachedType
      <3> QED BY <1>13, <2>1, <3>2, <3>3, <3>4
    <2>2. CASE fault # "none"
      <3>1. phase' = phase /\ verdict' = [verdict EXCEPT ![t] = "error"]
        BY <1>2, <2>2 DEF Enqueue, Tell
      <3> QED BY <2>2, <3>1
    <2> QED BY <2>1, <2>2
  <1>15. \A s \in Turn : /\ log'[s].result = log[s].result
                         /\ log'[s].compaction = log[s].compaction
                         /\ log'[s].titles = log[s].titles
                         /\ s # here => log'[s].seq = log[s].seq
    BY <1>12, <1>13, SMTT(30)
  <1>16. Joins(t, here, fault)
    BY <1>2, <1>3, <1>4, <1>5, <1>6, <1>13, <1>14, <1>15 DEF Joins
  <1> QED BY <1>16

LEMMA EnqueuePlace ==
  ASSUME TypeOK, CancelInv, PlaceInv, NEW fault \in EnqueueFault, Enqueue(fault)
  PROVE  PlaceInv'
  <1> PICK t, here \in Turn : Joins(t, here, fault)
    BY EnqueueHome DEF PlaceInv
  <1>1. Joins(t, here, fault)
    OBVIOUS
  <1> USE DEF Joins
  <1>2. /\ session \in Turn \cup {None} /\ None \notin Turn /\ nextSeq \in Nat
        /\ seq \in [Turn -> SeqNo] /\ phase \in [Turn -> Phase]
        /\ t \notin Pending /\ t \notin Active
        /\ compaction' = compaction /\ cancelling' = cancelling /\ result' = result
    BY <1>1, ConversationAssumption DEF TypeOK, AttachedType, TranscriptType, Unsettled, Enqueue
  <1>3. Known(t)' /\ \A u \in Turn : u # t => told'[u] = told[u]
    BY <1>1 DEF Known, TypeOK, ViewType
  <1>4. \A s, u \in Turn : u # t \/ s # here => log'[s].seq[u] = log[s].seq[u]
    BY <1>1
  <1>5. \A s, u \in Turn : Logged(u, s) => Logged(u, s)' /\ u # t
    BY <1>1, <1>4 DEF Logged
  <1>6. \A s, u \in Turn : Logged(u, s)' => Logged(u, s) \/ (u = t /\ s = here)
    BY <1>4 DEF Logged
  <1>7. LogsAreSound'
    <2>1. \A s, u \in Turn : log'[s].result[u] # "none" => Logged(u, s)'
      BY <1>1, <1>5 DEF PlaceInv, LogsAreSound
    <2>2. \A u, r, s \in Turn : Logged(u, r)' /\ Logged(u, s)' => r = s
      BY <1>1, <1>6 DEF PlaceInv, LogsAreSound
    <2>3. \A s \in Turn : ~Known(s)' => log'[s].compaction = NoSummary
      BY <1>1, <1>3 DEF PlaceInv, LogsAreSound, Known
    <2>4. \A u, s \in Turn : Logged(u, s)' => Known(u)'
      BY <1>3, <1>6 DEF PlaceInv, LogsAreSound, Known
    <2> QED BY <2>1, <2>2, <2>3, <2>4 DEF LogsAreSound
  <1>8. \A u \in Turn : u # t => seq'[u] = seq[u] /\ phase'[u] = phase[u]
    BY <1>1, <1>2
  <1>9. seq'[t] = nextSeq
    BY <1>1, <1>2
  <1>10. UnsettledAtHome'
    <2> SUFFICES ASSUME NEW u \in Unsettled' PROVE AtHome(u)' \/ Adrift(u)'
      BY DEF UnsettledAtHome
    <2>1. CASE u = t
      <3>1. phase' # phase
        BY <1>2, <2>1 DEF Unsettled, Pending, Active
      <3> QED BY <1>1, <1>2, <1>9, <2>1, <3>1 DEF AtHome
    <2>2. CASE u # t
      <3>1. u \in Unsettled /\ u \in Turn
        BY <1>8, <2>2 DEF Unsettled, Pending, Active
      <3>2. CASE AtHome(u)
        BY <1>1, <1>2, <1>8, <2>2, <3>1, <3>2 DEF AtHome
      <3>3. CASE Adrift(u)
        BY <1>1, <1>2, <1>8, <2>2, <3>1, <3>3 DEF Adrift, Active
      <3> QED BY <3>1, <3>2, <3>3 DEF PlaceInv, UnsettledAtHome
    <2> QED BY <2>1, <2>2
  <1>11. RoundsAtHome'
    <2> SUFFICES ASSUME NEW u \in Turn, phase'[u] = "settled", result'[u] = "completed"
                 PROVE  session' # None /\ seq'[u] >= 0 /\ log'[session'].seq[u] = seq'[u]
      BY DEF RoundsAtHome
    <2>1. phase[u] = "settled"
      BY <1>1, <1>2
    <2>2. session # None /\ seq[u] >= 0 /\ log[session].seq[u] = seq[u]
      BY <1>2, <2>1 DEF PlaceInv, RoundsAtHome
    <2>3. u # t
      BY <1>1, <1>2, <2>2 DEF Logged
    <2> QED BY <1>1, <1>2, <1>8, <2>2, <2>3
  <1>12. OwnSummary'
    <2>1. \A s \in Turn : Of(s) \subseteq Of(s)'
      BY <1>5 DEF Of
    <2>2. NoSummary.folded = {}
      BY DEF NoSummary
    <2> QED BY <1>1, <1>2, <2>1, <2>2 DEF PlaceInv, OwnSummary
  <1> QED BY <1>7, <1>10, <1>11, <1>12 DEF PlaceInv

\* What a settle that is written adds to a log.
LEMMA Ended ==
  ASSUME NEW l \in Log, NEW S, NEW k \in Kind
  PROVE  LET e == TurnSettled(l, S, k)
         IN  /\ e.seq = l.seq /\ e.titles = l.titles /\ e.compaction = l.compaction
             /\ \A u \in Turn : e.result[u] = IF u \in S /\ l.seq[u] >= 0 THEN k ELSE l.result[u]
  BY DEF TurnSettled, Log

\* What a stop and a clear do to the logs: they end unsettled turns, as cancelled.
LEMMA StopLog ==
  ASSUME TypeOK, NEW lost, Stop(lost)
  PROVE  \A s \in Turn :
           /\ log'[s].seq = log[s].seq /\ log'[s].titles = log[s].titles
           /\ log'[s].compaction = log[s].compaction
           /\ \A u \in Turn :
                log'[s].result[u] =
                  IF u \in Pending \ lost /\ turnSession[u] = s /\ Logged(u, s)
                  THEN "cancelled" ELSE log[s].result[u]
  <1> TAKE s \in Turn
  <1> DEFINE ended == {u \in Pending \ lost : turnSession[u] = s}
  <1>1. log'[s] = TurnSettled(log[s], ended, "cancelled")
    BY DEF Stop
  <1>2. log[s] \in Log /\ "cancelled" \in Kind
    BY DEF TypeOK, DiskType, Kind
  <1> HIDE DEF ended
  <1>3. /\ log'[s].seq = log[s].seq /\ log'[s].titles = log[s].titles
        /\ log'[s].compaction = log[s].compaction
        /\ \A u \in Turn : log'[s].result[u] =
             IF u \in ended /\ log[s].seq[u] >= 0 THEN "cancelled" ELSE log[s].result[u]
    BY <1>1, <1>2, Ended
  <1> QED BY <1>3 DEF ended, Logged

LEMMA ClearLog ==
  ASSUME TypeOK, NEW logged, Clear(logged)
  PROVE  \A s \in Turn :
           /\ log'[s].seq = log[s].seq /\ log'[s].titles = log[s].titles
           /\ log'[s].compaction = log[s].compaction
           /\ \A u \in Turn :
                log'[s].result[u] =
                  IF u \in logged /\ s = session /\ Logged(u, s)
                  THEN "cancelled" ELSE log[s].result[u]
  <1> TAKE s \in Turn
  <1>1. log[s] \in Log /\ log \in [Turn -> Log] /\ "cancelled" \in Kind /\ None \notin Turn
    BY ConversationAssumption DEF TypeOK, DiskType, Kind
  <1>2. CASE s = session
    <2>1. log'[s] = TurnSettled(log[s], logged, "cancelled")
      BY <1>1, <1>2 DEF Clear, OnClear
    <2>2. /\ log'[s].seq = log[s].seq /\ log'[s].titles = log[s].titles
          /\ log'[s].compaction = log[s].compaction
          /\ \A u \in Turn : log'[s].result[u] =
               IF u \in logged /\ log[s].seq[u] >= 0 THEN "cancelled" ELSE log[s].result[u]
      BY <1>1, <2>1, Ended
    <2> QED BY <1>2, <2>2 DEF Logged
  <1>3. CASE s # session
    BY <1>1, <1>3 DEF Clear, OnClear, disk
  <1> QED BY <1>2, <1>3

LEMMA StopPlace ==
  ASSUME TypeOK, CancelInv, PlaceInv, NEW lost, Stop(lost)
  PROVE  PlaceInv'
  <1>1. /\ UNCHANGED <<seq, result, starting, compaction, session>>
        /\ phase' = [t \in Turn |-> IF t \in Pending THEN "absent" ELSE phase[t]]
        /\ turnSession' = [t \in Turn |-> IF t \in Pending THEN None ELSE turnSession[t]]
        /\ told' = [t \in Turn |-> IF t \in Pending THEN "removed" ELSE told[t]]
        /\ Active = {} \/ cancelling' \in Active
    BY DEF Stop
  <1>2. session \in Turn \cup {None} /\ None \notin Turn
    BY ConversationAssumption DEF TypeOK, AttachedType
  <1>3. \A s, u \in Turn : Logged(u, s)' <=> Logged(u, s)
    BY StopLog DEF Logged
  <1>4. LogsAreSound'
    <2>1. \A s, u \in Turn : log'[s].result[u] # "none" => Logged(u, s)'
      BY <1>3, StopLog DEF PlaceInv, LogsAreSound
    <2>2. \A u \in Turn : Known(u) => Known(u)'
      BY <1>1 DEF Known
    <2> QED BY <1>3, <2>1, <2>2, StopLog DEF PlaceInv, LogsAreSound
  <1>5. UnsettledAtHome'
    <2> SUFFICES ASSUME NEW u \in Unsettled' PROVE AtHome(u)' \/ Adrift(u)'
      BY DEF UnsettledAtHome
    <2>1. u \in Active /\ u \in Turn /\ u \in Active' /\ u \in Unsettled
      BY <1>1 DEF Unsettled, Active, Pending
    <2>2. turnSession'[u] = turnSession[u]
      BY <1>1, <2>1 DEF Active, Pending
    <2>3. AtHome(u) => AtHome(u)'
      BY <1>1, <1>2, <2>1, <2>2, StopLog DEF AtHome
    <2>4. Adrift(u) => Adrift(u)'
      BY <1>1, <2>1, <2>2 DEF Adrift, CancelInv, OneActive
    <2> QED BY <2>1, <2>3, <2>4 DEF PlaceInv, UnsettledAtHome
  <1>6. RoundsAtHome'
    BY <1>1, <1>2, StopLog DEF PlaceInv, RoundsAtHome
  <1>7. OwnSummary'
    <2>1. \A s \in Turn : Of(s)' = Of(s)
      BY <1>3 DEF Of
    <2> QED BY <1>1, <1>2, <2>1, StopLog DEF PlaceInv, OwnSummary
  <1> QED BY <1>4, <1>5, <1>6, <1>7 DEF PlaceInv

LEMMA ClearPlace ==
  ASSUME TypeOK, CancelInv, PlaceInv, NEW logged, Clear(logged)
  PROVE  PlaceInv'
  <1>1. /\ UNCHANGED <<seq, starting, told>> /\ starting = None /\ compaction' = NoSummary
        /\ phase' = [t \in Turn |-> IF t \in Active THEN phase[t] ELSE "absent"]
        /\ Active = {} \/ cancelling' \in Active
        /\ logged \subseteq Unsettled
        /\ \/ session = None /\ session' = None /\ turnSession' = turnSession
           \/ /\ session # None
              /\ turnSession' = [t \in Turn |-> IF t \in logged THEN None ELSE turnSession[t]]
              /\ session' = IF logged = Unsettled THEN None ELSE session
    BY DEF Clear, OnClear, KeptByClear, Receive, view, attached
  <1>2. session \in Turn \cup {None} /\ None \notin Turn
    BY ConversationAssumption DEF TypeOK, AttachedType
  <1>3. \A s, u \in Turn : Logged(u, s)' <=> Logged(u, s)
    BY ClearLog DEF Logged
  <1>4. LogsAreSound'
    <2>1. \A s, u \in Turn : log'[s].result[u] # "none" => Logged(u, s)'
      BY <1>3, ClearLog DEF PlaceInv, LogsAreSound
    <2> QED BY <1>1, <1>3, <2>1, ClearLog DEF PlaceInv, LogsAreSound, Known
  <1>5. UnsettledAtHome'
    <2> SUFFICES ASSUME NEW u \in Unsettled' PROVE AtHome(u)' \/ Adrift(u)'
      BY DEF UnsettledAtHome
    <2>1. u \in Active /\ u \in Turn /\ u \in Active' /\ u \in Unsettled
      BY <1>1 DEF Unsettled, Active, Pending
    <2>2. cancelling' = u /\ starting' # u
      BY <1>1, <1>2, <2>1 DEF CancelInv, OneActive
    <2>3. AtHome(u) \/ Adrift(u)
      BY <2>1 DEF PlaceInv, UnsettledAtHome
    <2>4. CASE u \in logged \/ Adrift(u)
      <3>1. turnSession'[u] = None
        BY <1>1, <1>2, <2>1, <2>3, <2>4 DEF AtHome, Adrift
      <3> QED BY <2>1, <2>2, <3>1 DEF Adrift
    <2>5. CASE u \notin logged /\ AtHome(u)
      <3>1. session' = session /\ turnSession'[u] = turnSession[u]
        BY <1>1, <2>1, <2>5 DEF AtHome
      <3> QED BY <1>1, <1>2, <2>1, <2>5, <3>1, ClearLog DEF AtHome
    <2> QED BY <2>3, <2>4, <2>5
  <1>6. RoundsAtHome'
    BY <1>1 DEF RoundsAtHome, Active
  <1>7. OwnSummary'
    <2>1. \A s \in Turn : Of(s)' = Of(s)
      BY <1>3 DEF Of
    <2>2. NoSummary.folded = {}
      BY DEF NoSummary
    <2> QED BY <1>1, <2>1, <2>2, ClearLog DEF PlaceInv, OwnSummary
  <1> QED BY <1>4, <1>5, <1>6, <1>7 DEF PlaceInv

\* The transcript becomes what the log says, which still is what was read of it.
LEMMA ResumeEffect ==
  ASSUME TypeOK, ReadIsExact, ResumeSession
  PROVE  \E s \in Turn :
           /\ session' = s /\ seq' = log[s].seq /\ compaction' = log[s].compaction
           /\ phase' = [t \in Turn |-> IF log[s].seq[t] >= 0 THEN "settled" ELSE "absent"]
           /\ result' = Restore(log[s]).result
           /\ pendingCompaction' = NoPending /\ summaryRequested' = TRUE
           /\ UNCHANGED <<disk, told, titling, worker, job, verdict, spent, starting, cancelling>>
           /\ s = Head(chan).session
  <1> DEFINE c == Head(chan)
  <1>1. c \in Queued /\ c.op = "ResumeSession"
    BY HeadQueued DEF ResumeSession
  <1>2. c.session \in Turn
    BY <1>1, QueuedType, CommandFields
  <1>3. c.turns = Restore(log[c.session])
    BY <1>1 DEF ReadIsExact
  <1>4. /\ c.turns.seq = log[c.session].seq /\ c.turns.compaction = log[c.session].compaction
        /\ c.turns.result = Restore(log[c.session]).result
    BY <1>3 DEF Restore
  <1>5. /\ session' = c.session /\ seq' = c.turns.seq /\ compaction' = c.turns.compaction
        /\ phase' = [t \in Turn |-> IF c.turns.seq[t] >= 0 THEN "settled" ELSE "absent"]
        /\ result' = c.turns.result
        /\ pendingCompaction' = NoPending /\ summaryRequested' = TRUE
        /\ UNCHANGED <<disk, told, titling, worker, job, verdict, spent, starting, cancelling>>
    BY DEF ResumeSession, disk, view, workers
  <1> HIDE DEF c
  <1> QED BY <1>2, <1>4, <1>5 DEF c

LEMMA ResumeSessionPlace ==
  ASSUME TypeOK, PlaceInv, ReadIsExact, ResumeSession
  PROVE  PlaceInv'
  <1>1. PICK s \in Turn :
           /\ session' = s /\ seq' = log[s].seq /\ compaction' = log[s].compaction
           /\ phase' = [t \in Turn |-> IF log[s].seq[t] >= 0 THEN "settled" ELSE "absent"]
           /\ log' = log /\ told' = told
    BY ResumeEffect DEF disk
  <1>2. LogsAreSound'
    BY <1>1 DEF PlaceInv, LogsAreSound, Logged, Known
  <1>3. UnsettledAtHome'
    BY <1>1 DEF UnsettledAtHome, Unsettled, Active, Pending
  <1>4. RoundsAtHome'
    BY <1>1, ConversationAssumption DEF RoundsAtHome
  <1>5. OwnSummary'
    BY <1>1, ConversationAssumption DEF PlaceInv, OwnSummary, Of, Logged
  <1> QED BY <1>2, <1>3, <1>4, <1>5 DEF PlaceInv

LEMMA RestartPlace ==
  ASSUME TypeOK, PlaceInv, Restart
  PROVE  PlaceInv'
  <1>1. /\ phase' = [t \in Turn |-> "absent"] /\ session' = None /\ compaction' = NoSummary
        /\ log' = log /\ told' = told
    BY DEF Restart, disk
  <1>2. LogsAreSound'
    BY <1>1 DEF PlaceInv, LogsAreSound, Logged, Known
  <1>3. UnsettledAtHome' /\ RoundsAtHome'
    BY <1>1 DEF UnsettledAtHome, Unsettled, Active, Pending, RoundsAtHome
  <1>4. OwnSummary'
    BY <1>1 DEF PlaceInv, OwnSummary, Of, Logged
  <1> QED BY <1>2, <1>3, <1>4 DEF PlaceInv

-----------------------------------------------------------------------------
(* What is planned *)

\* Only an enqueue logs a turn, and what is logged stays so.
LEMMA LoggedStays ==
  ASSUME TypeOK, CancelInv, LogsAreSound, [Next]_vars
  PROVE  /\ \A t, s \in Turn : Logged(t, s) => Logged(t, s)'
         /\ \A t, s \in Turn : Logged(t, s)' => Logged(t, s) \/ ~Known(t)
         /\ \A t \in Turn : Known(t) => Known(t)'
  <1>1. ASSUME NEW fault \in EnqueueFault, Enqueue(fault)
        PROVE  /\ \A t, s \in Turn : Logged(t, s) => Logged(t, s)'
               /\ \A t, s \in Turn : Logged(t, s)' => Logged(t, s) \/ ~Known(t)
               /\ \A t \in Turn : Known(t) => Known(t)'
    <2> PICK t, here \in Turn : Joins(t, here, fault)
      BY <1>1, EnqueueHome
    <2>1. \A s, u \in Turn : u # t \/ s # here => log'[s].seq[u] = log[s].seq[u]
      BY DEF Joins
    <2>2. /\ ~Known(t) /\ \A s \in Turn : ~Logged(t, s)
          /\ \A u \in Turn : u # t => told'[u] = told[u]
      BY DEF Joins, TypeOK, ViewType
    <2> QED BY <2>1, <2>2 DEF Logged, Known
  <1>2. CASE Coordinator /\ ~(\E fault \in EnqueueFault : Enqueue(fault))
    <2>1. CASE ResumeSession
      BY <2>1 DEF ResumeSession, disk, view, Logged, Known
    <2>2. CASE ~ResumeSession
      BY <1>2, <2>2, HandlerStays DEF NumbersStay, Logged
    <2> QED BY <2>1, <2>2
  <1>3. CASE Restart
    BY <1>3 DEF Restart, disk, Logged, Known
  <1>4. CASE Elsewhere
    <2>1. log' = log /\ \A t \in Turn : Known(t) => Known(t)'
      BY <1>4, ElsewherePlace DEF PlaceStays
    <2> QED BY <2>1 DEF Logged
  <1> QED BY <1>1, <1>2, <1>3, <1>4 DEF Next, Elsewhere

\* A step that plans nothing: a summary only moves on, from the job to the channel and from
\* there to the coordinator.
PlansNothing ==
  /\ \/ pendingCompaction' \in {pendingCompaction, NoPending}
     \/ \E d \in Queued : /\ d.op = "Compacted"
                          /\ pendingCompaction' = [turn |-> d.turn, state |-> d.state]
  /\ \A c \in Queued' : c.op = "Compacted" => c \in Queued \/ c.state = job[c.turn].folding
  /\ \A t \in Turn : job'[t] = job[t] \/ job'[t] = NoJob
  /\ \A t \in Turn : worker'[t] = "off" \/ worker[t] # "off"

LEMMA PlansShrink ==
  ASSUME TypeOK, PlansNothing, NEW t \in Turn
  PROVE  Plans(t)' \subseteq Plans(t) /\ job'[t].history \subseteq job[t].history
  <1>1. job'[t].history \subseteq job[t].history /\ job'[t].base \in Plans(t)
        /\ job'[t].folding \in Plans(t)
    BY DEF PlansNothing, NoJob, Plans
  <1>2. pendingCompaction'.turn = t => pendingCompaction'.state \in Plans(t)
    BY ConversationAssumption DEF PlansNothing, NoPending, Plans
  <1>3. \A c \in Queued' : c.op = "Compacted" /\ c.turn = t => c.state \in Plans(t)
    BY DEF PlansNothing, Plans
  <1>4. NoSummary \in Plans(t)
    BY DEF Plans
  <1> QED BY <1>1, <1>2, <1>3, <1>4 DEF Plans

LEMMA PlansNothingPlan ==
  ASSUME TypeOK, CancelInv, LogsAreSound, PlanInv, PlansNothing, [Next]_vars
  PROVE  PlanInv'
  <1>1. NothingPlanned'
    <2> SUFFICES ASSUME NEW t \in Turn, ~Known(t)'
                 PROVE  /\ worker'[t] = "off" /\ job'[t].history = {}
                        /\ Plans(t)' \subseteq {NoSummary}
      BY DEF NothingPlanned
    <2>1. ~Known(t)
      BY LoggedStays
    <2>2. worker[t] = "off" /\ job[t].history = {} /\ Plans(t) \subseteq {NoSummary}
      BY <2>1 DEF PlanInv, NothingPlanned
    <2> QED BY <2>2, PlansShrink DEF PlansNothing
  <1>2. OwnPlans'
    <2> SUFFICES ASSUME NEW t \in Turn, NEW s \in Turn, Logged(t, s)'
                 PROVE  /\ job'[t].history \subseteq Of(s)'
                        /\ \A c \in Plans(t)' : c.folded \subseteq Of(s)'
      BY DEF OwnPlans
    <2>1. Of(s) \subseteq Of(s)'
      BY LoggedStays DEF Of
    <2>2. CASE Logged(t, s)
      <3>1. job[t].history \subseteq Of(s) /\ \A c \in Plans(t) : c.folded \subseteq Of(s)
        BY <2>2 DEF PlanInv, OwnPlans
      <3> QED BY <2>1, <3>1, PlansShrink
    <2>3. CASE ~Known(t)
      <3>1. job[t].history = {} /\ Plans(t) \subseteq {NoSummary} /\ NoSummary.folded = {}
        BY <2>3 DEF PlanInv, NothingPlanned, NoSummary
      <3> QED BY <3>1, PlansShrink
    <2> QED BY <2>2, <2>3, LoggedStays
  <1> QED BY <1>1, <1>2 DEF PlanInv

\* The coordinator plans nothing but to start a worker.
LEMMA HandlerPlans ==
  ASSUME TypeOK, Coordinator, ~ \E t \in Turn : StartWorker(t)
  PROVE  PlansNothing
  <1>1. UNCHANGED <<worker, job>> /\ (Return(chan) \/ (chan # <<>> /\ Return(Tail(chan))))
    BY DEF Coordinator, EnqueueIgnored, Enqueue, Settle, SettleStale, StartActive, Unconfigured,
       Delta, CompactedReported, CompactionStatus, SetSessionSummary, Cancel, Stop, Clear,
       QueryStatus, ResumeSession, Shutdown, Receive, workers
  <1>2. Queued' \subseteq Queued
    BY <1>1, ReturnQueued
  <1>3. pendingCompaction' \in {pendingCompaction, NoPending} \/ CompactedReported
    BY DEF Coordinator, EnqueueIgnored, Enqueue, Settle, SettleStale, StartActive, Unconfigured,
       SettleActive, Delta, CompactionStatus, SetSessionSummary, Cancel, Stop, Clear,
       QueryStatus, ResumeSession, Shutdown, loop
  <1>4. CompactedReported =>
          \E d \in Queued : /\ d.op = "Compacted"
                            /\ pendingCompaction' = [turn |-> d.turn, state |-> d.state]
    BY HeadQueued DEF CompactedReported
  <1> QED BY <1>1, <1>2, <1>3, <1>4 DEF PlansNothing

\* The other threads plan nothing but the summary a worker starts to fold.
LEMMA ElsewherePlans ==
  ASSUME TypeOK, Elsewhere, ~ \E t \in Turn : StartFolding(t) /\ Worker(t)
  PROVE  PlansNothing
  <1>1. pendingCompaction' = pendingCompaction
    BY DEF Elsewhere, Worker, TitleThread, Serve, ShutdownAndJoin, loop, vars
  <1>2. ASSUME NEW t \in Turn, Worker(t), ~StartFolding(t) PROVE PlansNothing
    <2>1. /\ job' = job \/ job' = [job EXCEPT ![t] = NoJob]
          /\ worker[t] # "off" /\ \A u \in Turn : u # t => worker'[u] = worker[u]
      BY <1>2 DEF TypeOK, WorkersType, Worker, CallProvider, StopFolding, ReportCompaction,
         Stream, Complete, NoticeCancel, Fail, End, EndThread, Live
    <2> DEFINE plan == [op |-> "Compacted", turn |-> t, state |-> job[t].folding]
    <2>2. Send(plan) \/ chan' = chan \/ \E c : c.op # "Compacted" /\ Send(c)
      <3>1. ReportCompaction(t) => Send(plan)
        BY DEF ReportCompaction
      <3>2. ~ReportCompaction(t) => chan' = chan \/ \E c : c.op # "Compacted" /\ Send(c)
        BY <1>2 DEF Worker, CallProvider, StopFolding, Stream, Complete, NoticeCancel, Fail,
           End, EndThread
      <3> QED BY <3>1, <3>2
    <2>3. \A c \in Queued' : c.op = "Compacted" => c \in Queued \/ c.state = job[c.turn].folding
      <3>1. CASE Send(plan)
        BY <3>1, SendQueued
      <3>2. ASSUME NEW c, c.op # "Compacted", Send(c)
            PROVE  \A d \in Queued' : d.op = "Compacted" => d \in Queued
        BY <3>2, SendQueued
      <3> QED BY <2>2, <3>1, <3>2 DEF Queued
    <2>4. \A u \in Turn : job'[u] = job[u] \/ job'[u] = NoJob
      BY <2>1 DEF TypeOK, WorkersType
    <2>5. \A u \in Turn : worker'[u] = "off" \/ worker[u] # "off"
      BY <2>1
    <2> QED BY <1>1, <2>3, <2>4, <2>5 DEF PlansNothing
  <1>3. CASE (\E j \in titling : TitleThread(j)) \/ Serve \/ ShutdownAndJoin \/ UNCHANGED vars
    <2>1. UNCHANGED <<worker, job>>
      BY <1>3 DEF TitleThread, Serve, ShutdownAndJoin, vars, workers
    <2>2. chan' = chan \/ \E c : c.op # "Compacted" /\ Send(c)
      BY <1>3 DEF TitleThread, Serve, ShutdownAndJoin, vars, Submit, RequestCancel, RequestStop,
         RequestClear, RequestResume, RefuseResume, SendResume, ConfirmResume, TimeOut,
         EndOfInput, RaiseFlag, SendShutdown, Join
    <2>3. \A c \in Queued' : c.op = "Compacted" => c \in Queued
      <3>1. ASSUME NEW c, c.op # "Compacted", Send(c)
            PROVE  \A d \in Queued' : d.op = "Compacted" => d \in Queued
        BY <3>1, SendQueued
      <3> QED BY <2>2, <3>1 DEF Queued
    <2> QED BY <1>1, <2>1, <2>3 DEF PlansNothing
  <1> QED BY <1>2, <1>3 DEF Elsewhere

\* A job that is made or extended adds to the plans what it holds.
LEMMA PlansOfJob ==
  ASSUME pendingCompaction' = pendingCompaction, NEW t \in Turn,
         \A c \in Queued' : c.op = "Compacted" => c \in Queued
  PROVE  Plans(t)' \subseteq Plans(t) \cup {job'[t].base, job'[t].folding}
  BY DEF Plans

LEMMA StartWorkerEffect ==
  ASSUME TypeOK, CancelInv, UnsettledAtHome, NEW t \in Turn, StartWorker(t)
  PROVE  /\ t \in Active /\ starting = t /\ starting' = None
         /\ session \in Turn /\ AtHome(t)
         /\ UNCHANGED <<phase, seq, result, compaction, pendingCompaction, log, told>>
         /\ job'[t] = [history |-> CompletedHistory(phase, result, compaction),
                       base |-> compaction, folding |-> NoSummary]
         /\ \A u \in Turn : u # t => job'[u] = job[u] /\ worker'[u] = worker[u]
         /\ Plans(t)' \subseteq Plans(t) \cup {compaction, NoSummary}
         /\ \A u \in Turn : u # t => Plans(u)' \subseteq Plans(u)
  <1>1. /\ starting = t /\ starting' = None /\ worker' = [worker EXCEPT ![t] = "started"]
        /\ job' = [job EXCEPT ![t] = [history |-> CompletedHistory(phase, result, compaction),
                                      base |-> compaction, folding |-> NoSummary]]
        /\ UNCHANGED <<phase, seq, result, compaction, pendingCompaction, log, told>>
        /\ Return(chan)
    BY DEF StartWorker, transcript, disk, view
  <1>2. t \in Active /\ None \notin Turn /\ session \in Turn \cup {None}
    BY <1>1, ConversationAssumption DEF CancelInv, AboutActive, TypeOK, AttachedType
  <1>3. AtHome(t) /\ session \in Turn
    BY <1>1, <1>2 DEF UnsettledAtHome, Unsettled, Adrift, AtHome
  <1>4. /\ job'[t] = [history |-> CompletedHistory(phase, result, compaction),
                      base |-> compaction, folding |-> NoSummary]
        /\ \A u \in Turn : u # t => job'[u] = job[u] /\ worker'[u] = worker[u]
    BY <1>1 DEF TypeOK, WorkersType
  <1>5. job'[t].base = compaction /\ job'[t].folding = NoSummary
    BY <1>4
  <1>6. \A u \in Turn : Plans(u)' \subseteq Plans(u) \cup {job'[u].base, job'[u].folding}
    <2>1. Queued' \subseteq Queued
      BY <1>1, ReturnQueued
    <2> QED BY <1>1, <2>1, PlansOfJob
  <1>7. \A u \in Turn : u # t => Plans(u)' \subseteq Plans(u)
    BY <1>4, <1>6 DEF Plans
  <1>8. Plans(t)' \subseteq Plans(t) \cup {compaction, NoSummary}
    BY <1>5, <1>6
  <1> QED BY <1>1, <1>2, <1>3, <1>4, <1>7, <1>8

LEMMA StartWorkerPlans ==
  ASSUME TypeOK, CancelInv, PlaceInv, PlanInv, NEW t \in Turn, StartWorker(t)
  PROVE  PlanInv'
  <1>1. /\ session \in Turn /\ AtHome(t)
        /\ UNCHANGED <<log, told>>
        /\ job'[t].history = CompletedHistory(phase, result, compaction)
        /\ \A u \in Turn : u # t => job'[u] = job[u] /\ worker'[u] = worker[u]
        /\ Plans(t)' \subseteq Plans(t) \cup {compaction, NoSummary}
        /\ \A u \in Turn : u # t => Plans(u)' \subseteq Plans(u)
    BY StartWorkerEffect DEF PlaceInv
  <1>2. Logged(t, session) /\ Known(t) /\ session # None
    BY <1>1 DEF PlaceInv, AtHome, Logged, LogsAreSound
  <1>3. \A u, s \in Turn : (Logged(u, s)' <=> Logged(u, s)) /\ (Known(u)' <=> Known(u))
                           /\ Of(s)' = Of(s)
    BY <1>1 DEF Logged, Known, Of
  <1>4. NothingPlanned'
    BY <1>1, <1>2, <1>3 DEF PlanInv, NothingPlanned
  <1>5. OwnPlans'
    <2> SUFFICES ASSUME NEW u \in Turn, NEW s \in Turn, Logged(u, s)
                 PROVE  /\ job'[u].history \subseteq Of(s)
                        /\ \A c \in Plans(u)' : c.folded \subseteq Of(s)
      BY <1>3 DEF OwnPlans
    <2>1. CASE u = t
      <3>1. s = session
        BY <1>1, <1>2, <2>1 DEF PlaceInv, LogsAreSound
      <3>2. job'[t].history \subseteq Of(s)
        BY <1>1, <3>1 DEF CompletedHistory, PlaceInv, RoundsAtHome, Of, Logged
      <3>3. compaction.folded \subseteq Of(s) /\ NoSummary.folded = {}
        BY <1>2, <3>1 DEF PlaceInv, OwnSummary, NoSummary
      <3>4. \A c \in Plans(t) : c.folded \subseteq Of(s)
        BY <2>1 DEF PlanInv, OwnPlans
      <3> QED BY <1>1, <2>1, <3>2, <3>3, <3>4
    <2>2. CASE u # t
      BY <1>1, <2>2 DEF PlanInv, OwnPlans
    <2> QED BY <2>1, <2>2
  <1> QED BY <1>4, <1>5 DEF PlanInv

\* The worker cuts its history: the summary it plans stands for what is before the cut.
LEMMA StartFoldingEffect ==
  ASSUME TypeOK, NEW t \in Turn, StartFolding(t), Worker(t)
  PROVE  /\ worker[t] = "started"
         /\ UNCHANGED <<phase, seq, log, told, starting, compaction>>
         /\ job'[t].history = job[t].history /\ job'[t].base = job[t].base
         /\ \E cut \in job[t].history :
              job'[t].folding =
                [folded  |-> job[t].base.folded
                               \cup {u \in job[t].history : seq[u] <= seq[cut]},
                 through |-> seq[cut]]
         /\ \A u \in Turn : u # t => job'[u] = job[u] /\ worker'[u] = worker[u]
         /\ Plans(t)' \subseteq Plans(t) \cup {job'[t].folding}
         /\ \A u \in Turn : u # t => Plans(u)' \subseteq Plans(u)
  <1>1. /\ UNCHANGED <<phase, seq, log, told, starting, compaction, pendingCompaction>>
        /\ worker[t] = "started"
    BY DEF Worker, StartFolding, transcript, disk, view, loop
  <1>2. PICK cut \in job[t].history :
          job' = [job EXCEPT ![t].folding =
                    [folded  |-> job[t].base.folded
                                   \cup {u \in job[t].history : seq[u] <= seq[cut]},
                     through |-> seq[cut]]]
    BY DEF StartFolding
  <1>3. /\ job'[t].history = job[t].history /\ job'[t].base = job[t].base
        /\ job'[t].folding =
             [folded  |-> job[t].base.folded
                            \cup {u \in job[t].history : seq[u] <= seq[cut]},
              through |-> seq[cut]]
        /\ \A u \in Turn : u # t => job'[u] = job[u] /\ worker'[u] = worker[u]
    BY <1>2, ZenonT(60) DEF TypeOK, WorkersType, StartFolding, Job
  <1>4. \A u \in Turn : Plans(u)' \subseteq Plans(u) \cup {job'[u].base, job'[u].folding}
    <2>1. \E c : c.op # "Compacted" /\ Send(c)
      BY DEF StartFolding
    <2>2. \A c \in Queued' : c.op = "Compacted" => c \in Queued
      BY <2>1, SendQueued
    <2> QED BY <1>1, <2>2, PlansOfJob
  <1>5. \A u \in Turn : job[u].base \in Plans(u) /\ job[u].folding \in Plans(u)
    BY DEF Plans
  <1>6. \A u \in Turn : u # t => Plans(u)' \subseteq Plans(u)
    BY <1>3, <1>4, <1>5
  <1>7. Plans(t)' \subseteq Plans(t) \cup {job'[t].folding}
    BY <1>3, <1>4, <1>5
  <1> QED BY <1>1, <1>3, <1>6, <1>7

LEMMA StartFoldingPlans ==
  ASSUME TypeOK, PlanInv, NEW t \in Turn, StartFolding(t), Worker(t)
  PROVE  PlanInv'
  <1>1. /\ worker[t] = "started" /\ UNCHANGED <<log, told>>
        /\ job'[t].history = job[t].history /\ job'[t].base = job[t].base
        /\ \A u \in Turn : u # t => job'[u] = job[u] /\ worker'[u] = worker[u]
        /\ Plans(t)' \subseteq Plans(t) \cup {job'[t].folding}
        /\ \A u \in Turn : u # t => Plans(u)' \subseteq Plans(u)
    BY StartFoldingEffect
  <1>2. job'[t].folding.folded \subseteq job[t].base.folded \cup job[t].history
    <2> PICK cut \in job[t].history :
          job'[t].folding =
            [folded  |-> job[t].base.folded \cup {u \in job[t].history : seq[u] <= seq[cut]},
             through |-> seq[cut]]
      BY StartFoldingEffect
    <2> QED OBVIOUS
  <1>3. Known(t)
    BY <1>1 DEF PlanInv, NothingPlanned
  <1>4. \A u, s \in Turn : (Logged(u, s)' <=> Logged(u, s)) /\ (Known(u)' <=> Known(u))
                           /\ Of(s)' = Of(s)
    BY <1>1 DEF Logged, Known, Of
  <1>5. NothingPlanned'
    BY <1>1, <1>3, <1>4 DEF PlanInv, NothingPlanned
  <1>6. OwnPlans'
    <2> SUFFICES ASSUME NEW u \in Turn, NEW s \in Turn, Logged(u, s)
                 PROVE  /\ job'[u].history \subseteq Of(s)
                        /\ \A c \in Plans(u)' : c.folded \subseteq Of(s)
      BY <1>4 DEF OwnPlans
    <2>1. /\ job[u].history \subseteq Of(s) /\ \A c \in Plans(u) : c.folded \subseteq Of(s)
          /\ job[u].base \in Plans(u)
      BY DEF PlanInv, OwnPlans, Plans
    <2>2. CASE u = t
      BY <1>1, <1>2, <2>1, <2>2
    <2>3. CASE u # t
      BY <1>1, <2>1, <2>3
    <2> QED BY <2>2, <2>3
  <1> QED BY <1>5, <1>6 DEF PlanInv

LEMMA RestartPlans ==
  ASSUME TypeOK, PlanInv, Restart
  PROVE  PlanInv'
  <1>1. /\ worker' = [t \in Turn |-> "off"] /\ job' = [t \in Turn |-> NoJob]
        /\ pendingCompaction' = NoPending /\ chan' = <<>>
    BY DEF Restart
  <1>2. \A t \in Turn : job'[t].history = {} /\ Plans(t)' = {NoSummary}
    <2>1. Queued' = {}
      BY <1>1 DEF Queued
    <2> QED BY <1>1, <2>1, ConversationAssumption DEF Plans, NoJob, NoPending
  <1>3. NoSummary.folded = {}
    BY DEF NoSummary
  <1> QED BY <1>1, <1>2, <1>3 DEF PlanInv, NothingPlanned, OwnPlans

-----------------------------------------------------------------------------
(* What is read of a log *)

\* A resume reads a log's numbers, results and summary.
LEMMA SameFoldRestores ==
  ASSUME NEW l, NEW k, SameFold(l, k)
  PROVE  Restore(l) = Restore(k)
  BY DEF SameFold, Restore

LEMMA SameResults ==
  ASSUME NEW l \in Log, NEW k \in Log, l.seq = k.seq, l.compaction = k.compaction,
         \A t \in Turn : l.result[t] = k.result[t]
  PROVE  SameFold(l, k)
  BY DEF Log, SameFold

LEMMA CoordinatorReturns ==
  ASSUME TypeOK, Coordinator
  PROVE  (Return(chan) \/ (chan # <<>> /\ Return(Tail(chan)))) /\ Queued' \subseteq Queued
  <1>1. Return(chan) \/ (chan # <<>> /\ Return(Tail(chan)))
    BY DEF Coordinator, EnqueueIgnored, Enqueue, Settle, SettleStale, StartActive, StartWorker,
       Unconfigured, Delta, CompactedReported, CompactionStatus, SetSessionSummary, Cancel, Stop,
       Clear, QueryStatus, ResumeSession, Shutdown, Receive
  <1> QED BY <1>1, ReturnQueued

\* No log changes that is to be attached, since no turn is unsettled.
LEMMA LogsStay ==
  ASSUME TypeOK, TypeOK', CancelInv, ResumeInv, PlaceInv, Coordinator,
         NEW c \in Queued, c.op = "ResumeSession"
  PROVE  \A s \in Turn : SameFold(log'[s], log[s])
  <1>1. PICK i \in DOMAIN chan : chan[i] = c /\ At(i, "ResumeSession")
    BY DEF Queued, At
  <1>2. Unsettled = {} /\ Active = {} /\ Pending = {}
    BY <1>1 DEF ResumeInv, AttachBeforeEnqueue, Unsettled
  <1>3. \A s \in Turn : log[s] \in Log /\ log'[s] \in Log
    BY DEF TypeOK, DiskType
  <1>4. CASE QuietHandler
    BY <1>4, QuietPlace DEF PlaceStays
  <1>5. ASSUME NEW fault \in EnqueueFault, Enqueue(fault) PROVE FALSE
    <2>1. 1 \in DOMAIN chan /\ At(1, "Enqueue")
      BY <1>5, ReceiveType DEF Enqueue, Receive, TypeOK, At
    <2> QED BY <1>1, <2>1 DEF ResumeInv, AttachBeforeEnqueue, TypeOK
  <1>6. ASSUME NEW lost, Stop(lost) PROVE \A s \in Turn : SameFold(log'[s], log[s])
    BY <1>2, <1>3, <1>6, StopLog, SameResults
  <1>7. ASSUME NEW logged, Clear(logged) PROVE \A s \in Turn : SameFold(log'[s], log[s])
    <2>1. logged = {}
      BY <1>2, <1>7 DEF Clear, OnClear
    <2> QED BY <1>3, <1>7, <2>1, ClearLog, SameResults
  <1>8. CASE ResumeSession
    BY <1>8 DEF ResumeSession, disk, SameFold
  <1>9. Active = {}
    BY <1>2
  <1> QED BY <1>4, <1>5, <1>6, <1>7, <1>8, <1>9, HandlerSteps

LEMMA ReadStep ==
  ASSUME TypeOK, TypeOK', CancelInv, ResumeInv, PlaceInv, ReadIsExact, [Next]_vars
  PROVE  ReadIsExact'
  <1>1. CASE Coordinator
    <2> SUFFICES ASSUME NEW c \in Queued', c.op = "ResumeSession"
                 PROVE  c.turns = Restore(log'[c.session])
      BY DEF ReadIsExact
    <2>1. c \in Queued
      BY <1>1, CoordinatorReturns
    <2>2. c.session \in Turn
      BY <2>1, QueuedType, CommandFields
    <2>3. SameFold(log'[c.session], log[c.session])
      BY <1>1, <2>1, <2>2, LogsStay
    <2> QED BY <2>1, <2>3, SameFoldRestores DEF ReadIsExact
  <1>2. CASE Elsewhere
    <2>1. log' = log
      BY <1>2, ElsewherePlace
    <2> DEFINE read == [op |-> "ResumeSession", id |-> rpc.id, session |-> rpc.session,
                        title |-> row[rpc.session], turns |-> Restore(log[rpc.session])]
    <2>2. chan' = chan \/ Send(read) \/ \E c : c.op # "ResumeSession" /\ Send(c)
      <3>1. CASE \E t \in Turn : Worker(t)
        BY <3>1 DEF Worker, CallProvider, StartFolding, StopFolding, ReportCompaction, Stream,
           Complete, NoticeCancel, Fail, End, EndThread
      <3>2. SendResume => Send(read)
        BY DEF SendResume
      <3>3. CASE ~(\E t \in Turn : Worker(t)) /\ ~SendResume
        BY <1>2, <3>3 DEF Elsewhere, TitleThread, Serve, ShutdownAndJoin, vars, Submit,
           RequestCancel, RequestStop, RequestClear, RequestResume, RefuseResume, ConfirmResume,
           TimeOut, EndOfInput, RaiseFlag, SendShutdown, Join
      <3> QED BY <3>1, <3>2, <3>3
    <2>3. read.turns = Restore(log[read.session])
      OBVIOUS
    <2> HIDE DEF read
    <2>4. CASE Send(read)
      BY <2>1, <2>3, <2>4, SendQueued DEF ReadIsExact
    <2>5. ASSUME NEW c, c.op # "ResumeSession", Send(c) PROVE ReadIsExact'
      BY <2>1, <2>5, SendQueued DEF ReadIsExact
    <2>6. CASE chan' = chan
      BY <2>1, <2>6 DEF ReadIsExact, Queued
    <2> QED BY <2>2, <2>4, <2>5, <2>6
  <1>3. CASE Restart
    BY <1>3 DEF Restart, ReadIsExact, Queued
  <1> QED BY <1>1, <1>2, <1>3 DEF Next, Elsewhere

-----------------------------------------------------------------------------
(* The titles *)

\* A title is asked for from a completed round, the first time in a session.
LEMMA SettleTitles ==
  ASSUME TypeOK, NEW t \in Active, NEW k \in Kind, NEW lost, SettleActive(t, k, lost)
  PROVE  \/ titling' = titling /\ summaryRequested' = summaryRequested
         \/ \E first \in Turn :
              /\ phase'[first] = "settled" /\ result'[first] = "completed"
              /\ ~summaryRequested /\ summaryRequested'
              /\ session # None
              /\ titling' = titling \cup {[session |-> session, first |-> first]}
  <1> DEFINE kind   == SettledAs(t, k)
             rounds == CompletedHistory([phase EXCEPT ![t] = "settled"],
                                        [result EXCEPT ![t] = kind], compaction')
             next   == IF IsShuttingDown THEN {} ELSE FirstPending
             asks   == /\ ~summaryRequested /\ kind = "completed"
                       /\ session # None /\ activeConfig /\ rounds # {}
  <1>1. CASE ~asks
    <2>1. titling' = titling /\ summaryRequested' = (summaryRequested \/ asks)
      BY <1>1 DEF SettleActive, MaybeRequestSummary
    <2>2. summaryRequested' = summaryRequested
      <3> HIDE DEF asks
      <3> QED BY <1>1, <2>1 DEF TypeOK, LoopType
    <2> QED BY <2>1, <2>2
  <1>2. CASE asks
    <2>1. PICK first \in {r \in rounds : \A s \in rounds : seq[r] <= seq[s]} :
            titling' = titling \cup {[session |-> session, first |-> first]}
      BY <1>2 DEF SettleActive, MaybeRequestSummary
    <2>2. ~summaryRequested /\ summaryRequested' /\ session # None
      BY <1>2 DEF SettleActive, MaybeRequestSummary
    <2>3. /\ first \in Turn /\ [phase EXCEPT ![t] = "settled"][first] = "settled"
          /\ [result EXCEPT ![t] = kind][first] = "completed"
      BY <2>1 DEF CompletedHistory
    <2>4. phase'[first] = "settled"
      <3>1. next \subseteq Pending
        BY DEF FirstPending
      <3>2. phase' = [u \in Turn |-> IF u = t THEN "settled"
                                     ELSE IF u \in next THEN "active" ELSE phase[u]]
        BY DEF SettleActive
      <3> HIDE DEF next
      <3> QED BY <2>3, <3>1, <3>2 DEF Pending, TypeOK, TranscriptType
    <2>5. result'[first] = "completed"
      BY <2>3 DEF SettleActive
    <2> QED BY <2>1, <2>2, <2>3, <2>4, <2>5
  <1> QED BY <1>1, <1>2

\* Where titles come from: those of the logs from their reports, these from the jobs.
TitlesOnlyMove ==
  /\ \A s \in Turn : \A t \in log'[s].titles :
       \/ t \in log[s].titles
       \/ \E c \in Queued : c.op = "SetSessionSummary" /\ c.session = s /\ c.first = t
  /\ \A c \in Queued' : c.op = "SetSessionSummary" =>
       c \in Queued \/ \E j \in titling : c.session = j.session /\ c.first = j.first
  /\ titling' \subseteq titling

\* Or a title is asked for.
TitleAsked ==
  \E first \in Turn :
    /\ phase'[first] = "settled" /\ result'[first] = "completed"
    /\ ~summaryRequested /\ summaryRequested'
    /\ session # None /\ session' = session
    /\ \A s \in Turn : log'[s].titles = log[s].titles
    /\ Queued' \subseteq Queued
    /\ titling' = titling \cup {[session |-> session, first |-> first]}

LEMMA CoordinatorTitles ==
  ASSUME TypeOK, CancelInv, PlaceInv, Coordinator
  PROVE  TitlesOnlyMove \/ TitleAsked
  <1>1. Queued' \subseteq Queued
    BY CoordinatorReturns
  <1>2. ASSUME titling' = titling, \A s \in Turn : log'[s].titles = log[s].titles
        PROVE  TitlesOnlyMove
    BY <1>1, <1>2 DEF TitlesOnlyMove
  <1>3. ASSUME NEW t \in Active, NEW k \in Kind, NEW lost, SettleActive(t, k, lost)
        PROVE  TitlesOnlyMove \/ TitleAsked
    <2>1. session' = session /\ \A s \in Turn : log'[s].titles = log[s].titles
      BY <1>3, SettleEffect, SettleQueue DEF PlaceInv
    <2> QED BY <1>1, <1>2, <1>3, <2>1, SettleTitles DEF TitleAsked
  <1>4. ASSUME NEW fault \in EnqueueFault, Enqueue(fault) PROVE TitlesOnlyMove
    <2>1. titling' = titling
      BY <1>4 DEF Enqueue
    <2>2. \A s \in Turn : log'[s].titles = log[s].titles
      BY <1>4, EnqueueHome DEF PlaceInv, Joins
    <2> QED BY <1>2, <2>1, <2>2
  <1>5. ASSUME NEW lost, SetSessionSummary(lost) PROVE TitlesOnlyMove
    <2>1. /\ Head(chan) \in Queued /\ Head(chan).op = "SetSessionSummary"
          /\ titling' = titling
          /\ \/ log' = log
             \/ /\ session = Head(chan).session
                /\ log' = [log EXCEPT ![session] = SummaryGenerated(@, Head(chan).first)]
      BY <1>5, HeadQueued DEF SetSessionSummary, Adopts
    <2>2. ASSUME NEW s \in Turn, NEW u \in log'[s].titles
          PROVE  \/ u \in log[s].titles
                 \/ \E c \in Queued : c.op = "SetSessionSummary" /\ c.session = s /\ c.first = u
      <3>1. \A l \in Log : \A v : SummaryGenerated(l, v).titles = l.titles \cup {v}
        BY DEF SummaryGenerated, Log
      <3>2. log'[s].titles = log[s].titles
            \/ (s = Head(chan).session /\ log'[s].titles = log[s].titles \cup {Head(chan).first})
        BY <2>1, <3>1 DEF TypeOK, DiskType
      <3> QED BY <2>1, <2>2, <3>2
    <2> QED BY <1>1, <2>1, <2>2 DEF TitlesOnlyMove
  <1>6. ASSUME NEW lost, Stop(lost) PROVE TitlesOnlyMove
    <2>1. titling' = titling
      BY <1>6 DEF Stop
    <2> QED BY <1>2, <1>6, <2>1, StopLog
  <1>7. ASSUME NEW logged, Clear(logged) PROVE TitlesOnlyMove
    <2>1. titling' = titling
      BY <1>7 DEF Clear
    <2> QED BY <1>2, <1>7, <2>1, ClearLog
  <1>8. CASE QuietHandler /\ ~ \E lost : SetSessionSummary(lost)
    <2>1. titling' = titling /\ log' = log
      BY <1>8 DEF QuietHandler, EnqueueIgnored, SettleStale, Delta, CompactedReported,
         CompactionStatus, Cancel, QueryStatus, Shutdown, StartWorker, disk
    <2> QED BY <1>2, <2>1
  <1>9. CASE ResumeSession
    BY <1>2, <1>9 DEF ResumeSession, disk
  <1> QED BY <1>3, <1>4, <1>5, <1>6, <1>7, <1>8, <1>9, HandlerSteps DEF QuietHandler

LEMMA TitlesOrigin ==
  ASSUME TypeOK, CancelInv, PlaceInv, [Next]_vars
  PROVE  TitlesOnlyMove \/ TitleAsked
  <1>1. ASSUME NEW j \in titling, TitleThread(j) PROVE TitlesOnlyMove
    <2> DEFINE report == [op |-> "SetSessionSummary", session |-> j.session, first |-> j.first]
    <2>1. log' = log /\ titling' \subseteq titling /\ (chan' = chan \/ Send(report))
      BY <1>1 DEF TitleThread, disk
    <2>2. \A c \in Queued' : c \in Queued \/ c = report
      BY <2>1, SendQueued DEF Queued
    <2> QED BY <2>1, <2>2 DEF TitlesOnlyMove
  <1>2. CASE (\E t \in Turn : Worker(t)) \/ Serve \/ ShutdownAndJoin \/ UNCHANGED vars
    <2>1. log' = log /\ titling' = titling
      BY <1>2 DEF Worker, Serve, ShutdownAndJoin, vars, disk
    <2>2. chan' = chan \/ \E c : c.op # "SetSessionSummary" /\ Send(c)
      <3>1. CASE \E t \in Turn : Worker(t)
        BY <3>1 DEF Worker, CallProvider, StartFolding, StopFolding, ReportCompaction, Stream,
           Complete, NoticeCancel, Fail, End, EndThread
      <3>2. CASE Serve \/ ShutdownAndJoin \/ UNCHANGED vars
        BY <3>2 DEF Serve, ShutdownAndJoin, vars, Submit,
           RequestCancel, RequestStop, RequestClear, RequestResume, RefuseResume, SendResume,
           ConfirmResume, TimeOut, EndOfInput, RaiseFlag, SendShutdown, Join
      <3> QED BY <1>2, <3>1, <3>2
    <2>3. \A c \in Queued' : c.op = "SetSessionSummary" => c \in Queued
      <3>1. ASSUME NEW c, c.op # "SetSessionSummary", Send(c)
            PROVE  \A d \in Queued' : d.op = "SetSessionSummary" => d \in Queued
        BY <3>1, SendQueued
      <3> QED BY <2>2, <3>1 DEF Queued
    <2> QED BY <2>1, <2>3 DEF TitlesOnlyMove
  <1>3. CASE Restart
    <2>1. log' = log /\ titling' = {} /\ Queued' = {}
      BY <1>3 DEF Restart, disk, Queued
    <2> QED BY <2>1 DEF TitlesOnlyMove
  <1> QED BY <1>1, <1>2, <1>3, CoordinatorTitles DEF Next

LEMMA TitlesStep ==
  ASSUME TypeOK, CancelInv, PlaceInv, OwnTitles, RoundsAtHome', [Next]_vars
  PROVE  OwnTitles'
  <1>1. \A t, s \in Turn : Logged(t, s) => Logged(t, s)'
    BY LoggedStays DEF PlaceInv
  <1>2. \A c \in Queued : c.op = "SetSessionSummary" => c.session \in Turn /\ c.first \in Turn
    BY QueuedType, CommandFields
  <1>3. \A j \in titling : j.session \in Turn /\ j.first \in Turn
    BY DEF TypeOK
  <1>4. CASE TitlesOnlyMove
    <2>1. \A s \in Turn : log'[s].titles \subseteq Of(s)'
      BY <1>1, <1>2, <1>4 DEF OwnTitles, TitlesOnlyMove, Of
    <2>2. \A c \in Queued' : c.op = "SetSessionSummary" => Logged(c.first, c.session)'
      BY <1>1, <1>2, <1>3, <1>4 DEF OwnTitles, TitlesOnlyMove
    <2>3. \A j \in titling' : Logged(j.first, j.session)'
      BY <1>1, <1>3, <1>4 DEF OwnTitles, TitlesOnlyMove
    <2> QED BY <2>1, <2>2, <2>3 DEF OwnTitles
  <1>5. ASSUME NEW first \in Turn, phase'[first] = "settled", result'[first] = "completed",
               session # None, session' = session, \A s \in Turn : log'[s].titles = log[s].titles,
               Queued' \subseteq Queued,
               titling' = titling \cup {[session |-> session, first |-> first]}
        PROVE  OwnTitles'
    <2>1. session \in Turn /\ Logged(first, session)'
      BY <1>5 DEF RoundsAtHome, Logged, TypeOK, AttachedType
    <2>2. \A j \in titling' : Logged(j.first, j.session)'
      BY <1>1, <1>3, <1>5, <2>1 DEF OwnTitles
    <2> QED BY <1>1, <1>2, <1>5, <2>2 DEF OwnTitles, Of
  <1> QED BY <1>4, <1>5, TitlesOrigin DEF TitleAsked

-----------------------------------------------------------------------------
(* The invariant *)

LEMMA PlaceStep ==
  ASSUME TypeOK, TypeOK', CancelInv, OrderInv, PlaceInv, PlanInv, ReadIsExact, [Next]_vars
  PROVE  PlaceInv'
  <1>1. CASE Elsewhere
    BY <1>1, ElsewherePlace, PlaceStaysPlace
  <1>2. CASE QuietHandler
    BY <1>2, QuietPlace, PlaceStaysPlace
  <1>3. ASSUME NEW t \in Active, NEW k \in Kind, NEW lost, SettleActive(t, k, lost)
        PROVE  PlaceInv'
    BY <1>3, SettleActivePlace DEF PlanInv
  <1> QED BY <1>1, <1>2, <1>3, Steps, EnqueuePlace, StopPlace, ClearPlace, ResumeSessionPlace,
             RestartPlace

\* A step plans nothing, starts a worker or a fold, or forgets everything.
LEMMA PlanSteps ==
  ASSUME TypeOK, [Next]_vars
  PROVE  \/ PlansNothing \/ Restart
         \/ \E t \in Turn : StartWorker(t)
         \/ \E t \in Turn : StartFolding(t) /\ Worker(t)
  BY HandlerPlans, ElsewherePlans DEF Next, Elsewhere

LEMMA PlanStep ==
  ASSUME TypeOK, TypeOK', CancelInv, PlaceInv, PlanInv, [Next]_vars
  PROVE  PlanInv'
  <1>1. ASSUME NEW t \in Turn, StartWorker(t) PROVE PlanInv'
    BY <1>1, StartWorkerPlans
  <1>2. ASSUME NEW t \in Turn, StartFolding(t), Worker(t) PROVE PlanInv'
    BY <1>2, StartFoldingPlans
  <1>3. CASE PlansNothing
    BY <1>3, PlansNothingPlan DEF PlaceInv
  <1> QED BY <1>1, <1>2, <1>3, PlanSteps, RestartPlans

LEMMA SessionInvStep ==
  ASSUME TypeOK, TypeOK', CancelInv, ResumeInv, OrderInv, SessionInv, [Next]_vars
  PROVE  SessionInv'
  <1>1. PlaceInv' /\ RoundsAtHome'
    BY PlaceStep DEF SessionInv, PlaceInv
  <1> QED BY <1>1, PlanStep, ReadStep, TitlesStep DEF SessionInv

LEMMA SessionInvInit == Init => SessionInv
  <1> SUFFICES ASSUME Init PROVE SessionInv
    OBVIOUS
  <1>1. /\ phase = [t \in Turn |-> "absent"] /\ log = [s \in Turn |-> EmptyLog] /\ chan = <<>>
        /\ session = None /\ compaction = NoSummary /\ pendingCompaction = NoPending
        /\ worker = [t \in Turn |-> "off"] /\ job = [t \in Turn |-> NoJob] /\ titling = {}
    BY DEF Init
  <1>2. \A s, t \in Turn : log[s].seq[t] = -1 /\ log[s].result[t] = "none"
    BY <1>1 DEF EmptyLog
  <1>3. \A s \in Turn : log[s].compaction = NoSummary /\ log[s].titles = {}
    BY <1>1 DEF EmptyLog
  <1>4. Queued = {}
    BY <1>1 DEF Queued
  <1>5. \A t \in Turn : job[t].history = {} /\ Plans(t) = {NoSummary}
    BY <1>1, <1>4, ConversationAssumption DEF Plans, NoJob, NoPending
  <1>6. PlaceInv
    BY <1>1, <1>2, <1>3 DEF PlaceInv, LogsAreSound, UnsettledAtHome, Unsettled, Active, Pending,
       RoundsAtHome, OwnSummary, Logged, NoSummary
  <1>7. PlanInv
    BY <1>1, <1>2, <1>5 DEF PlanInv, NothingPlanned, OwnPlans, Logged
  <1>8. ReadIsExact /\ OwnTitles
    BY <1>1, <1>3, <1>4 DEF ReadIsExact, OwnTitles
  <1> QED BY <1>6, <1>7, <1>8 DEF SessionInv

LEMMA SessionInvariant ==
  Spec => [](TypeOK /\ CancelInv /\ ResumeInv /\ OrderInv /\ SessionInv)
  <1>1. TypeOK /\ TypeOK' /\ CancelInv /\ ResumeInv /\ OrderInv /\ SessionInv /\ [Next]_vars
          => SessionInv'
    BY SessionInvStep
  <1> QED BY <1>1, SessionInvInit, TypeAndResume, CancelInvariant, OrderInvariant, PTL DEF Spec

\* The context of a running turn is of the session that logged it, and of no other, even
\* when writes fail: its snapshot is taken of a transcript that a clear or a resume may have
\* replaced since it was queued, a compaction is adopted when its turn settles, and a
\* clear may have detached that turn in between (start_active, completed_history and
\* on_compacted of state.rs, attach_session of persistence.rs).
THEOREM OwnSessionOnly == Spec => []ContextOfOwnSession
  <1>1. SessionInv => ContextOfOwnSession
    <2>1. \A t \in Turn : job[t].base \in Plans(t)
      BY DEF Plans
    <2> QED BY <2>1 DEF SessionInv, PlanInv, OwnPlans, ContextOfOwnSession, Of, Logged
  <1> QED BY <1>1, SessionInvariant, PTL

-----------------------------------------------------------------------------
(* Runs in which no write fails *)

Sound == spent["fault"] = 0

LEMMA SpendsNoFault ==
  ASSUME TypeOK, Sound', NEW what \in Counted, NEW n \in Nat, Spend(what, n)
  PROVE  Sound /\ (what = "fault" => n = 0)
  <1>1. \A c \in Counted : /\ spent[c] \in Nat
                           /\ spent'[c] = IF c = what THEN spent[c] + n ELSE spent[c]
    BY DEF TypeOK, Spend
  <1>2. "fault" \in Counted
    BY DEF Counted
  <1> QED BY <1>1, <1>2 DEF Sound

LEMMA NoneFails ==
  ASSUME TypeOK, Sound', NEW ops, IsFiniteSet(ops), NEW lost, Failing(ops, lost)
  PROVE  Sound /\ lost = {}
  <1>1. lost \subseteq ops /\ Spend("fault", Cardinality(lost))
    BY DEF Failing
  <1>2. IsFiniteSet(lost) /\ Cardinality(lost) \in Nat
    BY <1>1, FS_Subset, FS_CardinalityType
  <1>3. Sound /\ Cardinality(lost) = 0
    BY <1>1, <1>2, SpendsNoFault DEF Counted
  <1> QED BY <1>2, <1>3, FS_EmptySet

\* What a handler's writes are when none fails.
LEMMA WritesSucceed ==
  ASSUME TypeOK, Sound'
  PROVE  /\ \A t \in Active : \A k, lost : SettleActive(t, k, lost) => Sound /\ lost = {}
         /\ \A lost : SetSessionSummary(lost) => Sound /\ lost = {}
         /\ \A lost : Stop(lost) => Sound /\ lost = {}
         /\ \A fault \in EnqueueFault : Enqueue(fault) => Sound /\ fault = "none"
         /\ \A logged : Clear(logged) => Sound /\ (session = None \/ logged = Unsettled)
  <1>1. IsFiniteSet({"compacted", "settled", "touch"}) /\ IsFiniteSet({"title", "touch"})
    BY WritesFinite
  <1>2. IsFiniteSet(Pending \cup {"touch"})
    BY ConversationAssumption, FS_Subset, FS_Singleton, FS_Union DEF Pending
  <1>3. \A t \in Active : \A k, lost : SettleActive(t, k, lost) => Sound /\ lost = {}
    BY <1>1, NoneFails DEF SettleActive
  <1>4. \A lost : SetSessionSummary(lost) => Sound /\ lost = {}
    BY <1>1, NoneFails DEF SetSessionSummary
  <1>5. \A lost : Stop(lost) => Sound /\ lost = {}
    BY <1>2, NoneFails DEF Stop
  <1>6. ASSUME NEW fault \in EnqueueFault, Enqueue(fault) PROVE Sound /\ fault = "none"
    <2>1. Spend("fault", IF fault = "none" THEN 0 ELSE 1)
      BY <1>6 DEF Enqueue
    <2> QED BY <2>1, SpendsNoFault DEF Counted
  <1>7. ASSUME NEW logged, Clear(logged)
        PROVE  Sound /\ (session = None \/ logged = Unsettled)
    <2>1. CASE session = None
      BY <1>7, <2>1 DEF Clear, OnClear, Sound
    <2>2. CASE session # None
      <3>1. Spend("fault", IF logged = Unsettled THEN 0 ELSE 1)
        BY <1>7, <2>2 DEF Clear, OnClear
      <3> QED BY <3>1, SpendsNoFault DEF Counted
    <2> QED BY <2>1, <2>2
  <1> QED BY <1>3, <1>4, <1>5, <1>6, <1>7

\* Failures are not taken back.
LEMMA WasSound ==
  ASSUME TypeOK, CancelInv, Sound', [Next]_vars
  PROVE  Sound
  <1>1. CASE QuietHandler
    BY <1>1, WritesSucceed DEF QuietHandler, EnqueueIgnored, SettleStale, Delta,
       CompactedReported, CompactionStatus, Cancel, QueryStatus, Shutdown, StartWorker, Sound
  <1>2. CASE ResumeSession
    BY <1>2 DEF ResumeSession, Sound
  <1>3. spent' = spent \/ (\E what \in Counted : Spend(what, 1)) => Sound
    BY SpendsNoFault DEF Sound
  <1>4. CASE \E t \in Turn : Worker(t)
    BY <1>3, <1>4 DEF Worker, CallProvider, StartFolding, StopFolding, ReportCompaction, Stream,
       Complete, NoticeCancel, Fail, End, EndThread, Counted
  <1>5. CASE Serve
    BY <1>3, <1>5 DEF Serve, Submit, Ask, RequestCancel, RequestStop, RequestClear,
       RequestResume, RefuseResume, SendResume, ConfirmResume, TimeOut, EndOfInput, Counted
  <1>6. CASE (\E j \in titling : TitleThread(j)) \/ ShutdownAndJoin \/ UNCHANGED vars
    BY <1>3, <1>6 DEF TitleThread, ShutdownAndJoin, vars
  <1>7. CASE Restart
    BY <1>3, <1>7 DEF Restart, Counted
  <1> QED BY <1>1, <1>2, <1>4, <1>5, <1>6, <1>7, WritesSucceed, Steps DEF Elsewhere

-----------------------------------------------------------------------------
(* What the transcript and the client know is what the logs say *)

Rounds(s) == {t \in Turn : log[s].result[t] = "completed"}

\* The completed rounds of the transcript are those of the current session's log, and its
\* summary is the log's.
RoundsLogged ==
  session # None =>
    /\ \A t \in Turn : phase[t] = "settled" /\ result[t] = "completed" <=> t \in Rounds(session)
    /\ compaction = log[session].compaction

\* A turn that was told its end is logged with it, and so is a turn a clear has detached.
VerdictLogged ==
  /\ \A t \in Turn : verdict[t] # "none" => \E s \in Turn : log[s].result[t] = verdict[t]
  /\ \A t \in Unsettled : turnSession[t] = None => \E s \in Turn : log[s].result[t] = "cancelled"

\* The rounds session s has, or is going to have, titles from.
Titled(s) ==
  log[s].titles
    \cup {c.first : c \in {d \in Queued : d.op = "SetSessionSummary" /\ d.session = s}}
    \cup {j.first : j \in {k \in titling : k.session = s}}

\* They are one at most, which completed; and the current session asks for no second one.
TitledOnce ==
  /\ \A s \in Turn : Titled(s) \subseteq Rounds(s) /\ \A t, u \in Titled(s) : t = u
  /\ session # None /\ Titled(session) # {} => summaryRequested

SoundInv == Sound => RoundsLogged /\ VerdictLogged /\ TitledOnce

\* A round that completed stays so: only the unsettled turns get a result.
LEMMA RoundsStay ==
  ASSUME TypeOK, CancelInv, PlaceInv, [Next]_vars
  PROVE  \A s, t \in Turn : log[s].result[t] \in Kind /\ t \notin Unsettled =>
           log'[s].result[t] = log[s].result[t]
  <1>1. CASE QuietHandler
    BY <1>1, QuietPlace DEF PlaceStays, SameFold
  <1>2. CASE Elsewhere
    BY <1>2, ElsewherePlace
  <1>3. ASSUME NEW t \in Active, NEW k \in Kind, NEW lost, SettleActive(t, k, lost)
        PROVE  \A s, u \in Turn : u \notin Unsettled => log'[s].result[u] = log[s].result[u]
    BY <1>3, SettleEffect DEF PlaceInv, Unsettled
  <1>4. ASSUME NEW fault \in EnqueueFault, Enqueue(fault)
        PROVE  \A s \in Turn : log'[s].result = log[s].result
    BY <1>4, EnqueueHome DEF PlaceInv, Joins
  <1>5. ASSUME NEW lost, Stop(lost)
        PROVE  \A s, u \in Turn : u \notin Unsettled => log'[s].result[u] = log[s].result[u]
    BY <1>5, StopLog DEF Unsettled
  <1>6. ASSUME NEW logged, Clear(logged)
        PROVE  \A s, u \in Turn : u \notin Unsettled => log'[s].result[u] = log[s].result[u]
    <2>1. logged \subseteq Unsettled
      BY <1>6 DEF Clear, OnClear
    <2> QED BY <1>6, <2>1, ClearLog
  <1>7. ResumeSession \/ Restart => log' = log
    BY DEF ResumeSession, Restart, disk
  <1> QED BY <1>1, <1>2, <1>3, <1>4, <1>5, <1>6, <1>7, Steps

LEMMA RoundsLoggedStep ==
  ASSUME TypeOK, CancelInv, OrderInv, SessionInv, Sound, Sound', RoundsLogged, [Next]_vars
  PROVE  RoundsLogged'
  <1>1. session \in Turn \cup {None} /\ None \notin Turn /\ PlaceInv
    BY ConversationAssumption DEF TypeOK, AttachedType, SessionInv
  <1>2. CASE PlaceStays
    BY <1>1, <1>2 DEF RoundsLogged, PlaceStays, SameFold, Rounds
  <1>3. ASSUME NEW t \in Active, NEW k \in Kind, NEW lost, SettleActive(t, k, lost)
        PROVE  RoundsLogged'
    <2> SUFFICES ASSUME session # None
                 PROVE  /\ \A u \in Turn : phase'[u] = "settled" /\ result'[u] = "completed"
                                           <=> log'[session].result[u] = "completed"
                        /\ compaction' = log'[session].compaction
      BY <1>1, <1>3, SettleQueue DEF RoundsLogged, Rounds
    <2>1. lost = {} /\ t \in Turn /\ phase[t] = "active" /\ session \in Turn
      BY <1>1, <1>3, WritesSucceed DEF Active
    <2>2. /\ \A u \in Turn : u # t => log'[session].result[u] = log[session].result[u]
          /\ log'[session].result[t] = IF AtHome(t) THEN SettledAs(t, k)
                                       ELSE log[session].result[t]
          /\ log'[session].compaction =
               IF pendingCompaction.turn = t /\ SettledAs(t, k) = "completed"
               THEN pendingCompaction.state ELSE log[session].compaction
      BY <1>1, <1>3, <2>1, SettleEffect DEF PlaceInv
    <2>3. /\ result' = [result EXCEPT ![t] = SettledAs(t, k)] /\ phase'[t] = "settled"
          /\ \A u \in Turn : u # t => (phase'[u] = "settled" <=> phase[u] = "settled")
          /\ compaction' = IF pendingCompaction.turn = t /\ SettledAs(t, k) = "completed"
                           THEN pendingCompaction.state ELSE compaction
      BY <1>3, SettleQueue
    <2>4. result'[t] = SettledAs(t, k) /\ \A u \in Turn : u # t => result'[u] = result[u]
      BY <2>1, <2>3 DEF TypeOK, TranscriptType
    <2>5. ~AtHome(t) => SettledAs(t, k) = "cancelled"
      BY <1>1 DEF PlaceInv, UnsettledAtHome, Unsettled, Adrift, SettledAs
    <2>6. log[session].result[t] # "completed"
      BY <2>1 DEF CancelInv, UnsettledIsOpen, Unsettled
    <2>7. \A u \in Turn : phase[u] = "settled" /\ result[u] = "completed"
                          <=> log[session].result[u] = "completed"
      BY DEF RoundsLogged, Rounds
    <2>8. compaction = log[session].compaction
      BY DEF RoundsLogged
    <2>9. ASSUME NEW u \in Turn
          PROVE  phase'[u] = "settled" /\ result'[u] = "completed"
                 <=> log'[session].result[u] = "completed"
      <3>1. CASE u = t
        BY <2>2, <2>3, <2>4, <2>5, <2>6, <3>1
      <3>2. CASE u # t
        BY <2>2, <2>3, <2>4, <2>7, <3>2
      <3> QED BY <3>1, <3>2
    <2> QED BY <2>2, <2>3, <2>8, <2>9
  <1>4. ASSUME NEW fault \in EnqueueFault, Enqueue(fault) PROVE RoundsLogged'
    <2> PICK t, here \in Turn : Joins(t, here, fault)
      BY <1>1, <1>4, EnqueueHome DEF PlaceInv
    <2>1. fault = "none" /\ UNCHANGED <<result, compaction>>
      BY <1>4, WritesSucceed DEF Enqueue
    <2>2. /\ session' = here /\ phase'[t] \in {"active", "pending"}
          /\ \A u \in Turn : u # t => phase'[u] = phase[u]
          /\ log'[here].result = log[here].result
          /\ log'[here].compaction = log[here].compaction
          /\ ~Known(t) /\ log[here].result[t] = "none"
      BY <2>1 DEF Joins, TypeOK, TranscriptType
    <2>3. CASE session # None
      BY <1>1, <2>1, <2>2, <2>3 DEF Joins, RoundsLogged, Rounds
    <2>4. CASE session = None
      <3>1. here = t /\ compaction = NoSummary
        BY <1>1, <2>4 DEF Joins, PlaceInv, OwnSummary
      <3>2. log[here].compaction = NoSummary
        BY <1>1, <2>2, <3>1 DEF PlaceInv, LogsAreSound
      <3>3. \A u \in Turn : log[here].result[u] = "none"
        <4>1. \A u \in Turn : log[here].seq[u] \in Int
          BY DEF TypeOK, DiskType, Log, SeqNo
        <4>2. \A u \in Turn : log[here].seq[u] < 0
          BY <2>2, <3>1 DEF OrderInv, OnlyKnown
        <4> QED BY <1>1, <4>1, <4>2 DEF PlaceInv, LogsAreSound, Logged
      <3>4. \A u \in Turn : ~(phase[u] = "settled" /\ result[u] = "completed")
        BY <1>1, <2>4 DEF PlaceInv, RoundsAtHome
      <3>5. \A u \in Turn : ~(phase'[u] = "settled" /\ result'[u] = "completed")
        BY <2>1, <2>2, <3>4
      <3>6. \A u \in Turn : log'[session'].result[u] # "completed"
        BY <2>2, <3>3
      <3>7. compaction' = log'[session'].compaction
        BY <2>1, <2>2, <3>1, <3>2
      <3> QED BY <3>5, <3>6, <3>7 DEF RoundsLogged, Rounds
    <2> QED BY <2>3, <2>4
  <1>5. ASSUME NEW lost, Stop(lost) PROVE RoundsLogged'
    <2>1. /\ UNCHANGED <<session, result, compaction>>
          /\ phase' = [t \in Turn |-> IF t \in Pending THEN "absent" ELSE phase[t]]
      BY <1>5 DEF Stop
    <2>2. session # None =>
            /\ log'[session].compaction = log[session].compaction
            /\ \A t \in Turn : t \notin Pending =>
                                 log'[session].result[t] = log[session].result[t]
            /\ \A t \in Pending : log'[session].result[t] # "completed"
      <3>1. \A t \in Pending, s \in Turn : log[s].result[t] # "completed" /\ t \in Turn
        BY DEF CancelInv, UnsettledIsOpen, Unsettled, Pending
      <3> QED BY <1>1, <1>5, <3>1, StopLog
    <2> QED BY <1>1, <2>1, <2>2 DEF RoundsLogged, Rounds, Pending
  <1>6. ASSUME NEW logged, Clear(logged) PROVE RoundsLogged'
    <2>1. session = None \/ logged = Unsettled
      BY <1>6, WritesSucceed
    <2>2. session' = None
      BY <1>6, <2>1 DEF Clear, OnClear, attached
    <2> QED BY <2>2 DEF RoundsLogged
  <1>7. CASE ResumeSession
    <2> PICK s \in Turn :
          /\ session' = s /\ compaction' = log[s].compaction
          /\ phase' = [t \in Turn |-> IF log[s].seq[t] >= 0 THEN "settled" ELSE "absent"]
          /\ result' = Restore(log[s]).result /\ UNCHANGED disk
      BY <1>7, ResumeEffect DEF SessionInv
    <2>1. \A t \in Turn : result'[t] = "completed" <=> log[s].result[t] = "completed"
      BY DEF Restore
    <2>2. \A t \in Turn : log[s].result[t] = "completed" => log[s].seq[t] >= 0
      BY <1>1 DEF PlaceInv, LogsAreSound, Logged
    <2> QED BY <2>1, <2>2 DEF RoundsLogged, Rounds, disk
  <1>8. CASE Restart
    BY <1>8 DEF Restart, RoundsLogged
  <1> QED BY <1>2, <1>3, <1>4, <1>5, <1>6, <1>7, <1>8, Steps, QuietPlace, ElsewherePlace

LEMMA VerdictLoggedStep ==
  ASSUME TypeOK, CancelInv, SessionInv, Sound, Sound', VerdictLogged, [Next]_vars
  PROVE  VerdictLogged'
  <1>1. session \in Turn \cup {None} /\ None \notin Turn /\ PlaceInv
        /\ turnSession \in [Turn -> Turn \cup {None}]
    BY ConversationAssumption DEF TypeOK, AttachedType, SessionInv
  <1>2. \A t \in Turn, s \in Turn :
          t \notin Unsettled /\ log[s].result[t] \in Kind => log'[s].result[t] = log[s].result[t]
    BY <1>1, RoundsStay
  <1>3. \A t \in Turn : verdict[t] # "none" => verdict[t] \in Kind /\ t \notin Unsettled
    BY DEF TypeOK, ViewType, CancelInv, UnsettledIsOpen
  <1>4. ASSUME NEW t \in Turn, verdict'[t] = verdict[t], verdict'[t] # "none"
        PROVE  \E s \in Turn : log'[s].result[t] = verdict'[t]
    <2>1. PICK s \in Turn : log[s].result[t] = verdict[t]
      BY <1>4 DEF VerdictLogged
    <2>2. log'[s].result[t] = log[s].result[t]
      BY <1>2, <1>3, <1>4, <2>1
    <2> QED BY <1>4, <2>1, <2>2
  <1>5. CASE PlaceStays /\ verdict' = verdict
    BY <1>4, <1>5 DEF VerdictLogged, PlaceStays, SameFold, Unsettled
  <1>6. QuietHandler \/ Elsewhere => verdict' = verdict
    BY DEF QuietHandler, EnqueueIgnored, SettleStale, Delta, CompactedReported,
       CompactionStatus, Cancel, QueryStatus, Shutdown, StartWorker, SetSessionSummary, view,
       Elsewhere, Worker, TitleThread, Serve, ShutdownAndJoin, vars, Submit,
       RequestCancel, RequestStop, RequestClear, RequestResume, RefuseResume, SendResume,
       ConfirmResume, TimeOut, EndOfInput
  <1>7. ASSUME NEW t \in Active, NEW k \in Kind, NEW lost, SettleActive(t, k, lost)
        PROVE  VerdictLogged'
    <2>1. lost = {} /\ t \in Turn /\ verdict' = [verdict EXCEPT ![t] = SettledAs(t, k)]
      BY <1>7, WritesSucceed DEF Active, SettleActive
    <2>2. verdict'[t] = SettledAs(t, k) /\ \A u \in Turn : u # t => verdict'[u] = verdict[u]
      BY <2>1 DEF TypeOK, ViewType
    <2>3. \E s \in Turn : log'[s].result[t] = SettledAs(t, k)
      <3>1. CASE AtHome(t)
        BY <1>1, <1>7, <2>1, <3>1, SettleEffect DEF PlaceInv, AtHome
      <3>2. CASE ~AtHome(t)
        <4>1. Adrift(t) /\ SettledAs(t, k) = "cancelled"
          BY <1>1, <3>2 DEF PlaceInv, UnsettledAtHome, Unsettled, Adrift, SettledAs
        <4>2. PICK s \in Turn : log[s].result[t] = "cancelled"
          BY <4>1 DEF VerdictLogged, Adrift, Unsettled
        <4>3. log'[s].result[t] = log[s].result[t]
          BY <1>1, <1>7, <3>2, SettleEffect DEF PlaceInv
        <4> QED BY <4>1, <4>2, <4>3
      <3> QED BY <3>1, <3>2
    <2>4. \A u \in Turn : verdict'[u] # "none" => \E s \in Turn : log'[s].result[u] = verdict'[u]
      BY <1>4, <2>2, <2>3
    <2>5. ASSUME NEW u \in Unsettled', turnSession'[u] = None
          PROVE  \E s \in Turn : log'[s].result[u] = "cancelled"
      <3>1. u \in Unsettled /\ u # t /\ u \in Turn
        BY <1>7, SettleQueue DEF Unsettled, Active, Pending
      <3>2. turnSession[u] = None
        BY <1>1, <1>7, <2>5, <3>1, SettleQueue
      <3>3. PICK s \in Turn : log[s].result[u] = "cancelled"
        BY <3>1, <3>2 DEF VerdictLogged
      <3>4. log'[s].result[u] = log[s].result[u]
        BY <1>1, <1>7, <3>1, SettleEffect DEF PlaceInv
      <3> QED BY <3>3, <3>4
    <2> QED BY <2>4, <2>5 DEF VerdictLogged
  <1>8. ASSUME NEW fault \in EnqueueFault, Enqueue(fault) PROVE VerdictLogged'
    <2> PICK t, here \in Turn : Joins(t, here, fault)
      BY <1>1, <1>8, EnqueueHome DEF PlaceInv
    <2>1. fault = "none"
      BY <1>8, WritesSucceed
    <2>2. /\ verdict' = verdict /\ turnSession'[t] # None
          /\ \A u \in Turn : u # t => phase'[u] = phase[u] /\ turnSession'[u] = turnSession[u]
          /\ \A s \in Turn : log'[s].result = log[s].result
      BY <1>1, <2>1 DEF Joins, TypeOK, TranscriptType
    <2> QED BY <1>4, <2>2 DEF VerdictLogged, Unsettled, Active, Pending
  <1>9. ASSUME NEW lost, Stop(lost) PROVE VerdictLogged'
    <2>1. /\ verdict' = verdict
          /\ phase' = [t \in Turn |-> IF t \in Pending THEN "absent" ELSE phase[t]]
          /\ turnSession' = [t \in Turn |-> IF t \in Pending THEN None ELSE turnSession[t]]
      BY <1>9 DEF Stop
    <2>2. ASSUME NEW t \in Unsettled', turnSession'[t] = None
          PROVE  \E s \in Turn : log'[s].result[t] = "cancelled"
      <3>1. t \in Unsettled /\ turnSession[t] = None /\ t \in Turn
        BY <2>1, <2>2 DEF Unsettled, Active, Pending
      <3>2. PICK s \in Turn : log[s].result[t] = "cancelled"
        BY <3>1 DEF VerdictLogged
      <3> QED BY <1>9, <3>1, <3>2, StopLog
    <2> QED BY <1>4, <2>1, <2>2 DEF VerdictLogged
  <1>10. ASSUME NEW logged, Clear(logged) PROVE VerdictLogged'
    <2>1. /\ verdict' = verdict
          /\ phase' = [t \in Turn |-> IF t \in Active THEN phase[t] ELSE "absent"]
          /\ session = None => turnSession' = turnSession
      BY <1>10 DEF Clear, OnClear, KeptByClear, view, attached
    <2>2. session = None \/ logged = Unsettled
      BY <1>10, WritesSucceed
    <2>3. ASSUME NEW t \in Unsettled', turnSession'[t] = None
          PROVE  \E s \in Turn : log'[s].result[t] = "cancelled"
      <3>1. t \in Unsettled /\ t \in Turn
        BY <2>1, <2>3 DEF Unsettled, Active, Pending
      <3>2. CASE turnSession[t] = None
        <4>1. PICK s \in Turn : log[s].result[t] = "cancelled"
          BY <3>1, <3>2 DEF VerdictLogged
        <4> QED BY <1>10, <3>1, <4>1, ClearLog
      <3>3. CASE turnSession[t] # None
        <4>1. AtHome(t)
          BY <1>1, <3>1, <3>3 DEF PlaceInv, UnsettledAtHome, Adrift
        <4>2. session \in Turn /\ t \in logged /\ Logged(t, session)
          BY <1>1, <2>2, <3>1, <4>1 DEF AtHome, Logged
        <4> QED BY <1>10, <3>1, <4>2, ClearLog
      <3> QED BY <3>2, <3>3
    <2> QED BY <1>4, <2>1, <2>3 DEF VerdictLogged
  <1>11. CASE ResumeSession \/ Restart
    <2>1. UNCHANGED <<verdict, log>> /\ Unsettled' = {}
      BY <1>11 DEF ResumeSession, Restart, disk, view, Unsettled, Active, Pending
    <2> QED BY <1>4, <2>1 DEF VerdictLogged
  <1> QED BY <1>5, <1>6, <1>7, <1>8, <1>9, <1>10, <1>11, Steps, QuietPlace, ElsewherePlace

\* Only these steps make another session the current one, or forget that it has a title.
LEMMA SummaryStays ==
  ASSUME TypeOK, CancelInv, [Next]_vars
  PROVE  \/ session' = session /\ (summaryRequested => summaryRequested')
         \/ ResumeSession \/ Restart
         \/ \E fault \in EnqueueFault : Enqueue(fault)
         \/ \E logged : Clear(logged)
  <1>1. QuietHandler => UNCHANGED <<session, summaryRequested>>
    BY DEF QuietHandler, EnqueueIgnored, SettleStale, Delta, CompactedReported,
       CompactionStatus, Cancel, QueryStatus, Shutdown, StartWorker, SetSessionSummary, loop,
       attached
  <1>2. Elsewhere => UNCHANGED <<session, summaryRequested>>
    BY DEF Elsewhere, Worker, TitleThread, Serve, ShutdownAndJoin, vars, loop, attached
  <1>3. ASSUME NEW t \in Active, NEW k \in Kind, NEW lost, SettleActive(t, k, lost)
        PROVE  session' = session /\ (summaryRequested => summaryRequested')
    BY <1>3, SettleQueue, SettleTitles
  <1>4. \A lost : Stop(lost) => UNCHANGED <<session, summaryRequested>>
    BY DEF Stop
  <1> QED BY <1>1, <1>2, <1>3, <1>4, Steps

LEMMA TitledOnceStep ==
  ASSUME TypeOK, CancelInv, OrderInv, SessionInv, Sound', TitledOnce, RoundsLogged', [Next]_vars
  PROVE  TitledOnce'
  <1>1. session \in Turn \cup {None} /\ None \notin Turn /\ PlaceInv /\ OwnTitles
    BY ConversationAssumption DEF TypeOK, AttachedType, SessionInv
  <1>2. \A s \in Turn : Rounds(s) \subseteq Rounds(s)'
    <2>1. \A s, t \in Turn : log[s].result[t] = "completed" => t \notin Unsettled
      BY DEF CancelInv, UnsettledIsOpen
    <2> QED BY <1>1, <2>1, RoundsStay DEF Rounds, Kind
  <1>3. CASE TitleAsked
    <2> PICK first \in Turn :
          /\ phase'[first] = "settled" /\ result'[first] = "completed"
          /\ ~summaryRequested /\ summaryRequested'
          /\ session # None /\ session' = session
          /\ \A s \in Turn : log'[s].titles = log[s].titles
          /\ Queued' \subseteq Queued
          /\ titling' = titling \cup {[session |-> session, first |-> first]}
      BY <1>3 DEF TitleAsked
    <2>1. Titled(session) = {} /\ first \in Rounds(session)'
      BY DEF TitledOnce, RoundsLogged, Rounds
    <2>2. \A s \in Turn : Titled(s)' \subseteq Titled(s) \cup {first}
      BY DEF Titled
    <2>3. \A s \in Turn : s # session => Titled(s)' \subseteq Titled(s)
      BY DEF Titled
    <2>4. ASSUME NEW s \in Turn
          PROVE  Titled(s)' \subseteq Rounds(s)' /\ \A t, u \in Titled(s)' : t = u
      <3>1. Titled(s) \subseteq Rounds(s) /\ \A t, u \in Titled(s) : t = u
        BY DEF TitledOnce
      <3>2. CASE s = session
        BY <2>1, <2>2, <3>2
      <3>3. CASE s # session
        BY <1>2, <2>3, <3>1, <3>3
      <3> QED BY <3>2, <3>3
    <2> QED BY <2>4 DEF TitledOnce
  <1>4. CASE TitlesOnlyMove
    <2>1. \A s \in Turn : Titled(s)' \subseteq Titled(s)
      BY <1>4 DEF TitlesOnlyMove, Titled
    <2>2. \A s \in Turn : Titled(s)' \subseteq Rounds(s)' /\ \A t, u \in Titled(s)' : t = u
      BY <1>2, <2>1 DEF TitledOnce
    <2>3. ASSUME session' # None, Titled(session)' # {} PROVE summaryRequested'
      <3>1. CASE session' = session /\ (summaryRequested => summaryRequested')
        BY <1>1, <2>1, <2>3, <3>1 DEF TitledOnce
      <3>2. CASE ResumeSession
        BY <3>2 DEF ResumeSession
      <3>3. CASE Restart
        BY <2>3, <3>3 DEF Restart
      <3>4. ASSUME NEW logged, Clear(logged) PROVE FALSE
        <4>1. session = None \/ logged = Unsettled
          BY <3>4, WritesSucceed
        <4> QED BY <2>3, <3>4, <4>1 DEF Clear, OnClear, attached
      <3>5. ASSUME NEW fault \in EnqueueFault, Enqueue(fault) PROVE summaryRequested'
        <4> PICK t, here \in Turn : Joins(t, here, fault)
          BY <1>1, <3>5, EnqueueHome DEF PlaceInv
        <4>1. summaryRequested' = summaryRequested
          BY <3>5 DEF Enqueue
        <4>2. CASE session # None
          BY <1>1, <2>1, <2>3, <4>1, <4>2 DEF Joins, TitledOnce
        <4>3. CASE session = None
          <5>1. ~Known(t) /\ session' = t
            BY <2>3, <4>3 DEF Joins
          <5>2. \A u \in Turn : ~Logged(u, t)
            <6>1. \A u \in Turn : log[t].seq[u] \in Int
              BY DEF TypeOK, DiskType, Log, SeqNo
            <6>2. \A u \in Turn : log[t].seq[u] < 0
              BY <5>1 DEF OrderInv, OnlyKnown
            <6> QED BY <6>1, <6>2 DEF Logged
          <5>3. \A c \in Queued : c.op = "SetSessionSummary" => c.first \in Turn
            BY QueuedType, CommandFields
          <5>4. Titled(t) = {}
            <6>1. log[t].titles \subseteq Of(t)
              BY <1>1 DEF OwnTitles, Joins
            <6>2. log[t].titles = {}
              BY <5>2, <6>1 DEF Of
            <6>3. \A c \in Queued : ~(c.op = "SetSessionSummary" /\ c.session = t)
              BY <1>1, <5>2, <5>3 DEF OwnTitles
            <6>4. \A j \in titling : j.first \in Turn
              BY DEF TypeOK
            <6>5. \A j \in titling : j.session # t
              BY <1>1, <5>2, <6>4 DEF OwnTitles
            <6> QED BY <6>2, <6>3, <6>5 DEF Titled
          <5> QED BY <2>1, <2>3, <5>1, <5>4
        <4> QED BY <4>2, <4>3
      <3> QED BY <3>1, <3>2, <3>3, <3>4, <3>5, SummaryStays
    <2> QED BY <2>2, <2>3 DEF TitledOnce
  <1> QED BY <1>1, <1>3, <1>4, TitlesOrigin

LEMMA SoundInvStep ==
  ASSUME TypeOK, CancelInv, OrderInv, SessionInv, SoundInv, [Next]_vars
  PROVE  SoundInv'
  <1> SUFFICES ASSUME Sound' PROVE RoundsLogged' /\ VerdictLogged' /\ TitledOnce'
    BY DEF SoundInv
  <1>1. Sound /\ RoundsLogged /\ VerdictLogged /\ TitledOnce
    BY WasSound DEF SoundInv
  <1>2. RoundsLogged'
    BY <1>1, RoundsLoggedStep
  <1> QED BY <1>1, <1>2, VerdictLoggedStep, TitledOnceStep

LEMMA SoundInvInit == Init => SoundInv
  <1> SUFFICES ASSUME Init PROVE RoundsLogged /\ VerdictLogged /\ TitledOnce
    BY DEF SoundInv
  <1>1. /\ phase = [t \in Turn |-> "absent"] /\ log = [s \in Turn |-> EmptyLog] /\ chan = <<>>
        /\ session = None /\ verdict = [t \in Turn |-> "none"] /\ titling = {}
    BY DEF Init
  <1>2. \A s \in Turn : log[s].titles = {} /\ Queued = {}
    BY <1>1 DEF EmptyLog, Queued
  <1>3. \A s \in Turn : Titled(s) = {}
    BY <1>1, <1>2 DEF Titled
  <1> QED BY <1>1, <1>3 DEF RoundsLogged, VerdictLogged, TitledOnce, Unsettled, Active, Pending

LEMMA SoundInvariant ==
  Spec => [](TypeOK /\ CancelInv /\ ResumeInv /\ OrderInv /\ SessionInv /\ SoundInv)
  <1>1. TypeOK /\ CancelInv /\ OrderInv /\ SessionInv /\ SoundInv /\ [Next]_vars => SoundInv'
    BY SoundInvStep
  <1> QED BY <1>1, SoundInvInit, SessionInvariant, PTL DEF Spec

\* What the client was told of a turn's end is in one log, and only there, and a restart and
\* a resume of that session show the same, as long as no write has failed: a settle, a stop
\* and a clear write it before they tell it, and a clear writes it for a turn that is still
\* to settle (on_settle and on_clear of persistence.rs, restore_turns of sessions.rs).
THEOREM VerdictsAreLogged == Spec => []VerdictIsLogged
  <1>1. TypeOK /\ SessionInv /\ SoundInv => VerdictIsLogged
    <2> SUFFICES ASSUME TypeOK, SessionInv, SoundInv, NEW t \in Turn, verdict[t] # "none", Sound
                 PROVE  \E s \in Turn : /\ Restore(log[s]).result[t] = verdict[t]
                                        /\ \A r \in Turn \ {s} : log[r].seq[t] < 0
      BY DEF VerdictIsLogged, Sound
    <2>1. PICK s \in Turn : log[s].result[t] = verdict[t]
      BY DEF SoundInv, VerdictLogged
    <2>2. Restore(log[s]).result[t] = verdict[t]
      BY <2>1 DEF Restore
    <2>3. \A r \in Turn \ {s} : ~Logged(t, r)
      BY <2>1 DEF SessionInv, PlaceInv, LogsAreSound
    <2>4. \A r \in Turn : log[r].seq[t] \in Int
      BY DEF TypeOK, DiskType, Log, SeqNo
    <2> QED BY <2>2, <2>3, <2>4 DEF Logged
  <1> QED BY <1>1, SoundInvariant, PTL

\* The rounds and the summary the next turn would be given are those a restart and a resume
\* of the current session would give it, as long as no write has failed, whatever was
\* cleared, attached, cancelled or compacted before (completed_history of state.rs,
\* replace_with of transcript.rs, restore_turns of sessions.rs).
THEOREM RoundsAreLogged == Spec => []RoundsMatchLog
  <1>1. SessionInv /\ SoundInv => RoundsMatchLog
    <2> SUFFICES ASSUME SessionInv, SoundInv, Sound
                 PROVE  LET rounds == {t \in Turn : phase[t] = "settled" /\ result[t] = "completed"}
                        IN  IF session = None THEN rounds = {} /\ compaction = NoSummary
                            ELSE /\ rounds = {t \in Turn : log[session].result[t] = "completed"}
                                 /\ \A t \in rounds : log[session].seq[t] = seq[t]
                                 /\ compaction = log[session].compaction
      BY DEF RoundsMatchLog, Sound
    <2> QED BY DEF SoundInv, RoundsLogged, Rounds, SessionInv, PlaceInv, RoundsAtHome, OwnSummary
  <1> QED BY <1>1, SoundInvariant, PTL

\* A title is of a round of the very session that gets it, although it comes from a thread
\* that outlives the session; and unless a write has failed, that round completed and the
\* session gets no second title (maybe_request_summary and SetSessionSummary of state.rs).
THEOREM TitlesAreOwn == Spec => []TitleOfOwnRound
  <1>1. SessionInv /\ SoundInv => TitleOfOwnRound
    <2> SUFFICES ASSUME SessionInv, SoundInv, NEW s \in Turn
                 PROVE  /\ \A t \in log[s].titles : log[s].seq[t] >= 0
                        /\ Sound => /\ \A t \in log[s].titles : log[s].result[t] = "completed"
                                    /\ Cardinality(log[s].titles) <= 1
      BY DEF TitleOfOwnRound, Sound
    <2>1. \A t \in log[s].titles : log[s].seq[t] >= 0
      BY DEF SessionInv, OwnTitles, Of, Logged
    <2>2. ASSUME Sound
          PROVE  /\ \A t \in log[s].titles : log[s].result[t] = "completed"
                 /\ \A t, u \in log[s].titles : t = u
      BY <2>2 DEF SoundInv, TitledOnce, Titled, Rounds
    <2>3. ASSUME \A t, u \in log[s].titles : t = u PROVE Cardinality(log[s].titles) <= 1
      <3>1. CASE log[s].titles = {}
        BY <3>1, FS_EmptySet
      <3>2. ASSUME NEW t \in log[s].titles PROVE Cardinality(log[s].titles) <= 1
        <4>1. log[s].titles = {t}
          BY <2>3
        <4> QED BY <4>1, FS_Singleton
      <3> QED BY <3>1, <3>2
    <2> QED BY <2>1, <2>2, <2>3
  <1> QED BY <1>1, SoundInvariant, PTL

-----------------------------------------------------------------------------
(* What a running turn has for context *)

\* What the proofs have established of the backend so far.
BackendInv ==
  /\ TypeOK /\ CancelInv /\ ResumeInv /\ OrderInv /\ SessionInv
  /\ NoIdleQueue /\ ActiveFirst /\ WorkerInv /\ SoundInv

\* Summary c stands for exactly those rounds whose number is not beyond its boundary, and
\* the boundary is the number of a turn.
Sums(c, number, rounds) ==
  /\ c.folded = {u \in rounds : number[u] <= c.through}
  /\ c.through = -1 \/ \E u \in Turn : number[u] = c.through

SumsOf(c, s) == Sums(c, log[s].seq, Rounds(s))

\* The summary of each log is one of its rounds, from before the turns that wait or run.
SummariesFit ==
  /\ \A s \in Turn : SumsOf(log[s].compaction, s)
  /\ \A t \in Unsettled : AtHome(t) => compaction.through < seq[t]

\* So is each summary that an active turn has or may have adopted.
PlansFit ==
  \A t \in Active, s \in Turn :
    Logged(t, s) => \A c \in Plans(t) : SumsOf(c, s) /\ c.through < log[s].seq[t]

\* No summary is on its way for a turn that has not started.
NothingPlannedYet ==
  \A t \in Turn : t \in Pending \/ starting = t => Plans(t) \subseteq {NoSummary}

\* A worker holds the rounds its summary does not stand for, under the numbers the log has
\* and from before its turn; and it only ever extends that summary.
HoldsTheRest(t, s) ==
  /\ job[t].history = {u \in Rounds(s) : ~Covers(job[t].base, log[s].seq[u])}
  /\ \A u \in job[t].history : seq[u] = log[s].seq[u] /\ seq[u] < log[s].seq[t]
  /\ job[t].folding # NoSummary => job[t].base.through <= job[t].folding.through

HistoriesFit == \A t, s \in Turn : worker[t] \in Live /\ Logged(t, s) => HoldsTheRest(t, s)

\* The turns that wait or run were accepted after those of the transcript that have ended.
SettledFirst ==
  \A u \in Turn, t \in Unsettled : phase[u] = "settled" => seq[u] < seq[t]

ContextInv ==
  /\ NothingPlannedYet
  /\ Sound => SummariesFit /\ PlansFit /\ HistoriesFit /\ SettledFirst

-----------------------------------------------------------------------------
(* Summaries *)

LEMMA NoSummarySums ==
  ASSUME NEW number, NEW rounds, \A u \in rounds : number[u] >= 0 /\ number[u] \in Int
  PROVE  Sums(NoSummary, number, rounds) /\ NoSummary.through = -1 /\ NoSummary \in Summary
  BY DEF Sums, NoSummary, Summary, SeqNo

\* A summary goes on to sum up a log that grows beyond its boundary.
LEMMA SumsMore ==
  ASSUME NEW c \in Summary, NEW m \in [Turn -> SeqNo], NEW n \in [Turn -> SeqNo],
         NEW R \in SUBSET Turn, NEW Q \in SUBSET Turn,
         Sums(c, m, R), R \subseteq Q,
         \A u \in Turn : m[u] >= 0 => n[u] = m[u],
         \A u \in R : m[u] >= 0,
         \A u \in Q \ R : c.through < n[u]
  PROVE  Sums(c, n, Q)
  <1>1. c.through \in SeqNo /\ \A u \in Turn : m[u] \in SeqNo /\ n[u] \in SeqNo
    BY DEF Summary
  <1>2. \A u \in Q : n[u] <= c.through <=> u \in R /\ m[u] <= c.through
    BY <1>1 DEF SeqNo
  <1>3. c.folded = {u \in Q : n[u] <= c.through}
    BY <1>2 DEF Sums
  <1>4. c.through = -1 \/ \E u \in Turn : n[u] = c.through
    BY <1>1 DEF Sums, SeqNo
  <1> QED BY <1>3, <1>4 DEF Sums

LEMMA LogValues ==
  ASSUME TypeOK
  PROVE  \A s \in Turn : /\ log[s] \in Log /\ log[s].seq \in [Turn -> SeqNo]
                         /\ log[s].compaction \in Summary /\ Rounds(s) \in SUBSET Turn
                         /\ \A u \in Turn : log[s].seq[u] \in Int
  BY DEF TypeOK, DiskType, Log, Rounds, SeqNo

LEMMA RoundsAreLoggedTurns ==
  ASSUME TypeOK, PlaceInv
  PROVE  \A s \in Turn : \A u \in Rounds(s) : Logged(u, s) /\ Known(u)
  BY DEF PlaceInv, LogsAreSound, Rounds

\* No summary at all fits every turn of a log.
LEMMA NoSummaryFits ==
  ASSUME TypeOK, PlaceInv, NEW t \in Turn, NEW s \in Turn, Logged(t, s)
  PROVE  SumsOf(NoSummary, s) /\ NoSummary.through < log[s].seq[t]
  <1>1. \A u \in Rounds(s) : log[s].seq[u] >= 0 /\ log[s].seq[u] \in Int
    BY LogValues, RoundsAreLoggedTurns DEF Logged
  <1>2. Sums(NoSummary, log[s].seq, Rounds(s)) /\ NoSummary.through = -1
    BY <1>1, NoSummarySums
  <1>3. log[s].seq[t] >= 0 /\ log[s].seq[t] \in Int
    BY LogValues DEF Logged
  <1> QED BY <1>2, <1>3 DEF SumsOf

LEMMA PlanValues ==
  ASSUME TypeOK, NEW t \in Turn
  PROVE  Plans(t) \subseteq Summary /\ job[t].history \subseteq Turn
  <1>1. job[t] \in Job /\ pendingCompaction.state \in Summary /\ NoSummary \in Summary
    BY DEF TypeOK, WorkersType, LoopType, NoSummary, Summary, SeqNo
  <1>2. \A c \in Queued : c.op = "Compacted" => c.state \in Summary
    BY QueuedType, CommandFields
  <1> QED BY <1>1, <1>2 DEF Plans, Job

-----------------------------------------------------------------------------
(* What a step may do to the queue and to the logs *)

\* A resume finds nothing in the queue, and leaves nothing there; nor does a restart.
LEMMA AttachesIdle ==
  ASSUME TypeOK, ResumeInv, WorkerInv, ResumeSession
  PROVE  /\ Unsettled = {} /\ starting = None /\ Unsettled' = {} /\ starting' = None
         /\ \A t \in Turn : worker[t] \notin Live
  <1>1. PICK i \in DOMAIN chan : At(i, "ResumeSession")
    BY ReceiveType DEF ResumeSession, Receive, TypeOK, At
  <1>2. Unsettled = {}
    BY <1>1 DEF ResumeInv, AttachBeforeEnqueue, Unsettled
  <1>3. starting = None /\ starting' = None
    BY DEF ResumeSession, Receive
  <1>4. Unsettled' = {}
    BY DEF ResumeSession, Unsettled, Active, Pending
  <1>5. \A t \in Turn : worker[t] \notin Live
    BY <1>2 DEF WorkerInv, InCharge, Unsettled, Active, Live
  <1> QED BY <1>2, <1>3, <1>4, <1>5

\* A worker at work is that of the active turn, which has been started.
LEMMA LiveIsActive ==
  ASSUME WorkerInv, NEW t \in Turn, worker[t] \in Live
  PROVE  t \in Active /\ starting # t
  BY DEF WorkerInv, InCharge, Active, Live

\* A turn that runs did so, waited, or did not exist; one that waits or is to start was
\* waiting, to start, or did not exist.
LEMMA QueueMoves ==
  ASSUME BackendInv, [Next]_vars
  PROVE  /\ \A t \in Active' : t \in Active \/ t \in Pending \/ ~Known(t)
         /\ \A t \in Turn : t \in Pending' \/ starting' = t =>
              t \in Pending \/ starting = t \/ ~Known(t)
  <1> USE DEF BackendInv
  <1>1. None \notin Turn
    BY ConversationAssumption
  <1>2. CASE PlaceStays
    BY <1>1, <1>2 DEF PlaceStays
  <1>3. ASSUME NEW t \in Active, NEW k \in Kind, NEW lost, SettleActive(t, k, lost)
        PROVE  /\ \A u \in Active' : u \in Pending
               /\ \A u \in Turn : u \in Pending' \/ starting' = u => u \in Pending
    <2>1. FirstPending \subseteq Pending
      BY DEF FirstPending
    <2> DEFINE next == IF IsShuttingDown THEN {} ELSE FirstPending
    <2>2. /\ phase' = [u \in Turn |-> IF u = t THEN "settled"
                                      ELSE IF u \in next THEN "active" ELSE phase[u]]
          /\ starting' = None \/ starting' \in next
      BY <1>3 DEF SettleActive
    <2>3. next \subseteq Pending
      BY <2>1
    <2> HIDE DEF next
    <2>4. \A u \in Turn : u # t => u \notin Active
      BY DEF CancelInv, OneActive
    <2> QED BY <1>1, <2>2, <2>3, <2>4 DEF Active, Pending
  <1>4. ASSUME NEW fault \in EnqueueFault, Enqueue(fault)
        PROVE  \A u \in Turn : u \in Unsettled' \/ starting' = u =>
                 \/ u \in Active /\ u \in Active' /\ u \notin Pending' /\ starting' # u
                 \/ u \in Pending \/ ~Known(u)
    <2> PICK t, here \in Turn : Joins(t, here, fault)
      BY <1>4, EnqueueHome DEF SessionInv, PlaceInv
    <2>1. \A u \in Turn : u # t => phase'[u] = phase[u] /\ starting' # u
      BY <1>1 DEF Joins, TypeOK, TranscriptType
    <2>2. ~Known(t)
      BY DEF Joins
    <2> QED BY <2>1, <2>2 DEF Unsettled, Active, Pending
  <1>5. ASSUME NEW lost, Stop(lost)
        PROVE  Active' \subseteq Active /\ Pending' = {} /\ starting' = starting
    BY <1>5 DEF Stop, Active, Pending
  <1>6. ASSUME NEW logged, Clear(logged)
        PROVE  Active' \subseteq Active /\ Pending' = {} /\ starting' = starting
    BY <1>6 DEF Clear, KeptByClear, Active, Pending
  <1>7. CASE ResumeSession
    BY <1>1, <1>7, AttachesIdle DEF Unsettled
  <1>8. CASE Restart
    BY <1>1, <1>8 DEF Restart, Active, Pending
  <1>9. Active' \subseteq Turn /\ Pending' \subseteq Turn
    BY DEF Active, Pending
  <1>10. Active' \subseteq Unsettled' /\ Pending' \subseteq Unsettled'
    BY DEF Unsettled
  <1>11. CASE \E fault \in EnqueueFault : Enqueue(fault)
    BY <1>4, <1>9, <1>10, <1>11
  <1>12. CASE \E t \in Active, k \in Kind : \E lost : SettleActive(t, k, lost)
    BY <1>3, <1>12
  <1>13. CASE (\E lost : Stop(lost)) \/ (\E logged : Clear(logged))
    BY <1>5, <1>6, <1>13
  <1> QED BY <1>2, <1>7, <1>8, <1>11, <1>12, <1>13, QuietPlace, ElsewherePlace, Steps

\* What is planned for a turn that has not started is what nobody else may add to.
LEMMA NothingPlannedYetStep ==
  ASSUME BackendInv, NothingPlannedYet, [Next]_vars
  PROVE  NothingPlannedYet'
  <1> USE DEF BackendInv
  <1>1. \A t \in Turn : t \in Pending' \/ starting' = t => Plans(t) \subseteq {NoSummary}
    BY QueueMoves DEF NothingPlannedYet, SessionInv, PlanInv, NothingPlanned
  <1>2. CASE PlansNothing
    BY <1>1, <1>2, PlansShrink DEF NothingPlannedYet
  <1>3. ASSUME NEW t \in Turn, StartWorker(t) PROVE NothingPlannedYet'
    <2>1. t \in Active /\ starting = t /\ starting' = None /\ None \notin Turn
      BY <1>3, ConversationAssumption DEF StartWorker, CancelInv, AboutActive
    <2>2. \A u \in Turn : u # t => Plans(u)' \subseteq Plans(u)
      BY <1>3, StartWorkerEffect DEF SessionInv, PlaceInv
    <2>3. t \notin Pending'
      BY <1>3, <2>1 DEF StartWorker, transcript, Active, Pending
    <2> QED BY <1>1, <2>1, <2>2, <2>3 DEF NothingPlannedYet
  <1>4. ASSUME NEW t \in Turn, StartFolding(t), Worker(t) PROVE NothingPlannedYet'
    <2>1. t \in Active /\ starting # t
      BY <1>4, LiveIsActive DEF StartFolding, Live
    <2>2. \A u \in Turn : u # t => Plans(u)' \subseteq Plans(u)
      BY <1>4, StartFoldingEffect
    <2>3. t \notin Pending' /\ starting' # t
      BY <1>4, <2>1 DEF Worker, transcript, loop, Active, Pending
    <2> QED BY <1>1, <2>2, <2>3 DEF NothingPlannedYet
  <1>5. CASE Restart
    BY <1>5, ConversationAssumption DEF Restart, NothingPlannedYet, Pending
  <1> QED BY <1>2, <1>3, <1>4, <1>5, PlanSteps

\* The logs only grow: what is logged keeps its number, rounds stay, and a round is added
\* only to the current session, by the turn that was active and whose worker is gone.
LEMMA LogsGrow ==
  ASSUME BackendInv, [Next]_vars
  PROVE  \A s \in Turn :
           /\ \A u \in Turn : Logged(u, s) => log'[s].seq[u] = log[s].seq[u]
           /\ Rounds(s) \subseteq Rounds(s)'
           /\ \A u \in Rounds(s)' \ Rounds(s) :
                s = session /\ u \in Active /\ AtHome(u) /\ worker[u] = "off" /\ u \notin Active'
  <1> USE DEF BackendInv
  <1> DEFINE Grows(s) ==
               \A u \in Turn : log'[s].result[u] = "completed" =>
                 \/ log[s].result[u] = "completed"
                 \/ /\ s = session /\ u \in Active /\ AtHome(u)
                    /\ worker[u] = "off" /\ u \notin Active'
  <1>1. \A s \in Turn : Rounds(s) \subseteq Rounds(s)'
    <2>1. \A s, t \in Turn : log[s].result[t] = "completed" => t \notin Unsettled
      BY DEF CancelInv, UnsettledIsOpen
    <2> QED BY <2>1, RoundsStay DEF Rounds, Kind, SessionInv
  <1>2. ASSUME NEW fault \in EnqueueFault, Enqueue(fault), NEW s \in Turn
        PROVE  Grows(s) /\ \A u \in Turn : Logged(u, s) => log'[s].seq[u] = log[s].seq[u]
    <2> PICK t, here \in Turn : Joins(t, here, fault)
      BY <1>2, EnqueueHome DEF SessionInv, PlaceInv
    <2>1. \A u \in Turn : u # t \/ s # here => log'[s].seq[u] = log[s].seq[u]
      BY DEF Joins
    <2>2. ~Logged(t, s) /\ log'[s].result = log[s].result
      BY DEF Joins
    <2> QED BY <2>1, <2>2
  <1>3. ASSUME NEW t \in Active, NEW k \in Kind, NEW lost, SettleActive(t, k, lost), NEW s \in Turn
        PROVE  Grows(s) /\ log'[s].seq = log[s].seq
    <2>1. /\ log'[s].seq = log[s].seq
          /\ \A u \in Turn : u # t => log'[s].result[u] = log[s].result[u]
          /\ log'[s].result[t] = log[s].result[t] \/ (AtHome(t) /\ s = session)
      BY <1>3, SettleEffect DEF SessionInv, PlaceInv
    <2>2. worker[t] = "off"
      BY <1>3 DEF SettleActive
    <2>3. phase'[t] = "settled"
      BY <1>3, SettleQueue
    <2>4. t \notin Active'
      BY <2>3 DEF Active
    <2> QED BY <2>1, <2>2, <2>4
  <1>4. ASSUME NEW lost, Stop(lost), NEW s \in Turn
        PROVE  Grows(s) /\ log'[s].seq = log[s].seq
    BY <1>4, StopLog
  <1>5. ASSUME NEW logged, Clear(logged), NEW s \in Turn
        PROVE  Grows(s) /\ log'[s].seq = log[s].seq
    BY <1>5, ClearLog
  <1>6. ASSUME ResumeSession \/ Restart
        PROVE  log' = log
    BY <1>6 DEF ResumeSession, Restart, disk
  <1>7. ASSUME NEW s \in Turn
        PROVE  Grows(s) /\ \A u \in Turn : Logged(u, s) => log'[s].seq[u] = log[s].seq[u]
    <2> HIDE DEF Grows
    <2>1. CASE PlaceStays
      BY <2>1 DEF Grows, PlaceStays, SameFold
    <2>2. CASE ResumeSession \/ Restart
      BY <1>6, <2>2 DEF Grows
    <2> QED BY <1>2, <1>3, <1>4, <1>5, <2>1, <2>2, QuietPlace, ElsewherePlace, Steps
  <1> QED BY <1>1, <1>7 DEF Rounds

\* So a summary that ends before what is added goes on to sum up the log.
LEMMA SumsStay ==
  ASSUME BackendInv, TypeOK', [Next]_vars, NEW s \in Turn, NEW c \in Summary, SumsOf(c, s),
         \A u \in Rounds(s)' \ Rounds(s) : c.through < log[s].seq[u]
  PROVE  Sums(c, log'[s].seq, Rounds(s)')
  <1>1. /\ log[s].seq \in [Turn -> SeqNo] /\ log'[s].seq \in [Turn -> SeqNo]
        /\ Rounds(s) \in SUBSET Turn /\ Rounds(s)' \in SUBSET Turn
    BY DEF BackendInv, TypeOK, DiskType, Log, Rounds
  <1>2. \A u \in Turn : log[s].seq[u] >= 0 => log'[s].seq[u] = log[s].seq[u]
    BY LogsGrow DEF Logged
  <1>3. \A u \in Rounds(s) : log[s].seq[u] >= 0
    BY RoundsAreLoggedTurns DEF BackendInv, SessionInv, Logged
  <1>4. \A u \in Rounds(s)' \ Rounds(s) : Logged(u, s)
    BY LogsGrow DEF AtHome, Logged
  <1>5. \A u \in Rounds(s)' \ Rounds(s) : c.through < log'[s].seq[u]
    BY <1>1, <1>2, <1>4 DEF Logged
  <1>6. Rounds(s) \subseteq Rounds(s)'
    BY LogsGrow
  <1>7. Sums(c, log[s].seq, Rounds(s))
    BY DEF SumsOf
  <1> QED BY <1>1, <1>2, <1>3, <1>5, <1>6, <1>7, SumsMore

\* A log's summary stays, unless the active turn that planned it settles as completed.
LEMMA SummaryMoves ==
  ASSUME BackendInv, [Next]_vars, NEW s \in Turn
  PROVE  \/ log'[s].compaction = log[s].compaction
         \/ /\ s = session /\ pendingCompaction.turn \in Active
            /\ AtHome(pendingCompaction.turn)
            /\ log'[s].compaction = pendingCompaction.state
  <1> USE DEF BackendInv
  <1>1. CASE PlaceStays
    BY <1>1 DEF PlaceStays, SameFold
  <1>2. ASSUME NEW t \in Active, NEW k \in Kind, NEW lost, SettleActive(t, k, lost)
        PROVE  \/ log'[s].compaction = log[s].compaction
               \/ /\ s = session /\ pendingCompaction.turn = t /\ AtHome(t)
                  /\ log'[s].compaction = pendingCompaction.state
    <2>1. log'[s].compaction = IF /\ pendingCompaction.turn = t /\ SettledAs(t, k) = "completed"
                                  /\ s = session /\ "compacted" \notin lost
                               THEN pendingCompaction.state ELSE log[s].compaction
      BY <1>2, SettleEffect DEF SessionInv, PlaceInv
    <2>2. SettledAs(t, k) = "completed" => AtHome(t)
      BY DEF SessionInv, PlaceInv, UnsettledAtHome, Unsettled, Adrift, SettledAs
    <2> QED BY <2>1, <2>2
  <1>3. ASSUME NEW fault \in EnqueueFault, Enqueue(fault)
        PROVE  log'[s].compaction = log[s].compaction
    BY <1>3, EnqueueHome DEF SessionInv, PlaceInv, Joins
  <1>4. ASSUME (\E lost : Stop(lost)) \/ (\E logged : Clear(logged))
        PROVE  log'[s].compaction = log[s].compaction
    BY <1>4, StopLog, ClearLog
  <1>5. ASSUME ResumeSession \/ Restart PROVE log' = log
    BY <1>5 DEF ResumeSession, Restart, disk
  <1> QED BY <1>1, <1>2, <1>3, <1>4, <1>5, QuietPlace, ElsewherePlace, Steps

\* The coordinator's summary is from before every turn that waits or runs.
LEMMA BoundaryStep ==
  ASSUME BackendInv, Sound, Sound', SummariesFit, PlansFit, [Next]_vars,
         NEW t \in Unsettled', AtHome(t)'
  PROVE  compaction'.through < seq'[t]
  <1> USE DEF BackendInv
  <1>1. /\ session \in Turn \cup {None} /\ None \notin Turn /\ t \in Turn
        /\ seq \in [Turn -> SeqNo] /\ nextSeq \in Nat /\ phase \in [Turn -> Phase]
        /\ \A s, u \in Turn : log[s].seq[u] \in Int
        /\ compaction.through \in SeqNo /\ pendingCompaction.state.through \in SeqNo
    BY ConversationAssumption, LogValues DEF TypeOK, AttachedType, TranscriptType, LoopType,
       Summary, Unsettled, Active, Pending
  <1>2. ASSUME compaction' = compaction, t \in Unsettled, AtHome(t), seq'[t] = seq[t]
        PROVE  compaction'.through < seq'[t]
    BY <1>2 DEF SummariesFit
  <1>3. CASE PlaceStays
    <2>1. t \in Unsettled
      BY <1>3 DEF PlaceStays, Unsettled
    <2>2. AtHome(t)
      BY <1>1, <1>3 DEF PlaceStays, SameFold, AtHome
    <2> QED BY <1>2, <1>3, <2>1, <2>2 DEF PlaceStays
  <1>4. ASSUME NEW u \in Active, NEW k \in Kind, NEW lost, SettleActive(u, k, lost)
        PROVE  compaction'.through < seq'[t]
    <2>1. /\ t \in Unsettled \ {u} /\ seq' = seq
          /\ compaction' = IF pendingCompaction.turn = u /\ SettledAs(u, k) = "completed"
                           THEN pendingCompaction.state ELSE compaction
      BY <1>4, SettleQueue
    <2>2. t \in Pending /\ u \in Turn /\ u \in Unsettled
      BY <2>1 DEF Unsettled, Active, CancelInv, OneActive
    <2>3. AtHome(t)
      BY <2>2 DEF SessionInv, PlaceInv, UnsettledAtHome, Unsettled, Adrift, Active, Pending
    <2>4. CASE pendingCompaction.turn = u /\ SettledAs(u, k) = "completed"
      <3>1. AtHome(u)
        BY <2>2, <2>4 DEF SessionInv, PlaceInv, UnsettledAtHome, Adrift, SettledAs
      <3>2. session \in Turn /\ Logged(u, session) /\ log[session].seq[u] = seq[u]
        BY <1>1, <3>1 DEF AtHome, Logged
      <3>3. pendingCompaction.state \in Plans(u)
        BY <2>4 DEF Plans
      <3>4. pendingCompaction.state.through < seq[u]
        BY <3>2, <3>3 DEF PlansFit
      <3>5. seq[u] < seq[t]
        BY <2>2 DEF ActiveFirst
      <3> QED BY <1>1, <2>1, <2>2, <2>4, <3>4, <3>5 DEF SeqNo
    <2>5. CASE ~(pendingCompaction.turn = u /\ SettledAs(u, k) = "completed")
      BY <1>2, <2>1, <2>3, <2>5
    <2> QED BY <2>4, <2>5
  <1>5. ASSUME NEW fault \in EnqueueFault, Enqueue(fault)
        PROVE  compaction'.through < seq'[t]
    <2> PICK new, here \in Turn : Joins(new, here, fault)
      BY <1>5, EnqueueHome DEF SessionInv, PlaceInv
    <2>1. compaction' = compaction /\ fault = "none"
      BY <1>5, WritesSucceed DEF Enqueue
    <2>2. /\ session' = here /\ seq' = [seq EXCEPT ![new] = nextSeq]
          /\ here = IF session = None THEN new ELSE session
          /\ \A u \in Turn : u # new => /\ phase'[u] = phase[u] /\ turnSession'[u] = turnSession[u]
                                        /\ log'[here].seq[u] = log[here].seq[u]
      BY <1>1, <2>1 DEF Joins
    <2>3. CASE t = new
      <3>1. seq'[t] = nextSeq
        BY <1>1, <2>2, <2>3
      <3>2. CASE session = None
        <4>1. compaction.through = -1
          BY <3>2 DEF SessionInv, PlaceInv, OwnSummary, NoSummary
        <4> QED BY <1>1, <2>1, <3>1, <4>1
      <3>3. CASE session # None
        <4>1. compaction = log[session].compaction /\ session \in Turn
          BY <1>1, <3>3 DEF SoundInv, RoundsLogged
        <4>2. compaction.through = -1 \/ \E u \in Turn : log[session].seq[u] = compaction.through
          BY <4>1 DEF SummariesFit, SumsOf, Sums
        <4>3. \A u \in Turn : log[session].seq[u] < nextSeq
          BY <3>3 DEF OrderInv, LogOrder
        <4> QED BY <1>1, <2>1, <3>1, <4>2, <4>3
      <3> QED BY <3>2, <3>3
    <2>4. CASE t # new
      <3>1. t \in Unsettled /\ seq'[t] = seq[t]
        BY <1>1, <2>2, <2>4 DEF Unsettled, Active, Pending
      <3>2. ~Adrift(t)
        BY <1>1, <2>2, <2>4 DEF Adrift, AtHome
      <3>3. AtHome(t)
        BY <3>1, <3>2 DEF SessionInv, PlaceInv, UnsettledAtHome
      <3> QED BY <1>2, <2>1, <3>1, <3>3
    <2> QED BY <2>3, <2>4
  <1>6. ASSUME NEW lost, Stop(lost) PROVE compaction'.through < seq'[t]
    <2>1. /\ UNCHANGED <<seq, session, compaction>>
          /\ phase' = [u \in Turn |-> IF u \in Pending THEN "absent" ELSE phase[u]]
          /\ turnSession' = [u \in Turn |-> IF u \in Pending THEN None ELSE turnSession[u]]
      BY <1>6 DEF Stop
    <2>2. t \in Unsettled /\ turnSession'[t] = turnSession[t]
      BY <1>1, <2>1 DEF Unsettled, Active, Pending
    <2>3. AtHome(t)
      BY <1>1, <1>6, <2>1, <2>2, StopLog DEF AtHome
    <2> QED BY <1>2, <2>1, <2>2, <2>3
  <1>7. ASSUME NEW logged, Clear(logged) PROVE compaction'.through < seq'[t]
    <2>1. compaction'.through = -1 /\ seq' = seq
      BY <1>7 DEF Clear, NoSummary
    <2> QED BY <1>1, <2>1 DEF AtHome, SeqNo
  <1>8. CASE ResumeSession
    BY <1>8, AttachesIdle
  <1>9. CASE Restart
    BY <1>9 DEF Restart, Unsettled, Active, Pending
  <1> QED BY <1>3, <1>4, <1>5, <1>6, <1>7, <1>8, <1>9, QuietPlace, ElsewherePlace, Steps

LEMMA SummariesStep ==
  ASSUME BackendInv, TypeOK', Sound, Sound', SummariesFit, PlansFit, [Next]_vars
  PROVE  SummariesFit'
  <1> USE DEF BackendInv
  <1>1. ASSUME NEW s \in Turn
        PROVE  Sums(log'[s].compaction, log'[s].seq, Rounds(s)')
    <2>1. log[s].compaction \in Summary /\ pendingCompaction.state \in Summary
      BY LogValues DEF TypeOK, LoopType
    <2>2. \A u \in Rounds(s)' \ Rounds(s) : /\ s = session /\ u \in Active /\ AtHome(u)
                                            /\ Logged(u, s) /\ log[s].seq[u] = seq[u]
      BY LogsGrow DEF AtHome, Logged
    <2>3. CASE log'[s].compaction = log[s].compaction
      <3>1. s = session => log[s].compaction = compaction
        BY ConversationAssumption DEF SoundInv, RoundsLogged
      <3>2. \A u \in Rounds(s)' \ Rounds(s) : log[s].compaction.through < log[s].seq[u]
        BY <2>2, <3>1 DEF SummariesFit, Unsettled
      <3> QED BY <2>1, <2>3, <3>2, SumsStay DEF SummariesFit
    <2>4. ASSUME s = session, pendingCompaction.turn \in Active, AtHome(pendingCompaction.turn),
                 log'[s].compaction = pendingCompaction.state
          PROVE  Sums(log'[s].compaction, log'[s].seq, Rounds(s)')
      <3>1. pendingCompaction.state \in Plans(pendingCompaction.turn)
        BY DEF Plans
      <3>2. Logged(pendingCompaction.turn, s)
        BY <2>4 DEF AtHome, Logged
      <3>3. /\ SumsOf(pendingCompaction.state, s)
            /\ pendingCompaction.state.through < log[s].seq[pendingCompaction.turn]
        BY <2>4, <3>1, <3>2 DEF PlansFit
      <3>4. \A u \in Rounds(s)' \ Rounds(s) : u = pendingCompaction.turn
        BY <2>2, <2>4 DEF CancelInv, OneActive
      <3> QED BY <2>1, <2>4, <3>3, <3>4, SumsStay
    <2> QED BY <2>3, <2>4, SummaryMoves
  <1>2. \A t \in Unsettled' : AtHome(t)' => compaction'.through < seq'[t]
    BY BoundaryStep
  <1> QED BY <1>1, <1>2 DEF SummariesFit, SumsOf

LEMMA PlansStep ==
  ASSUME BackendInv, BackendInv', Sound, Sound', NothingPlannedYet, SummariesFit, PlansFit,
         HistoriesFit, [Next]_vars
  PROVE  PlansFit'
  <1> USE DEF BackendInv
  <1> SUFFICES ASSUME NEW t \in Active', NEW s \in Turn, Logged(t, s)', NEW c \in Plans(t)'
               PROVE  Sums(c, log'[s].seq, Rounds(s)') /\ c.through < log'[s].seq[t]
    BY DEF PlansFit, SumsOf
  <1>1. /\ t \in Turn /\ TypeOK /\ PlaceInv
        /\ \A u \in Turn : log[s].seq[u] \in Int /\ log'[s].seq[u] \in Int
    BY DEF Active, SessionInv, TypeOK, DiskType, Log, SeqNo
  <1>2. CASE c = NoSummary
    <2>1. \A u \in Rounds(s)' : log'[s].seq[u] >= 0
      BY DEF SessionInv, PlaceInv, LogsAreSound, Logged, Rounds
    <2>2. \A u \in Rounds(s)' : u \in Turn
      BY DEF Rounds
    <2>3. Sums(NoSummary, log'[s].seq, Rounds(s)') /\ NoSummary.through = -1
      BY <1>1, <2>1, <2>2, NoSummarySums
    <2>4. log'[s].seq[t] >= 0
      BY DEF Logged
    <2> QED BY <1>1, <1>2, <2>3, <2>4
  <1>3. CASE t \in Active /\ Logged(t, s) /\ c \in Plans(t)
    <2>1. Rounds(s)' \ Rounds(s) = {}
      BY <1>3, LogsGrow DEF CancelInv, OneActive
    <2>2. SumsOf(c, s) /\ c.through < log[s].seq[t] /\ c \in Summary
      BY <1>1, <1>3, PlanValues DEF PlansFit
    <2>3. log'[s].seq[t] = log[s].seq[t]
      BY <1>1, <1>3, LogsGrow
    <2> QED BY <2>1, <2>2, <2>3, SumsStay
  <1>4. CASE c \in Plans(t)
    <2>1. ~Known(t) \/ t \in Pending => c = NoSummary
      BY <1>1, <1>4 DEF NothingPlannedYet, SessionInv, PlanInv, NothingPlanned
    <2>2. t \in Active \/ t \in Pending \/ ~Known(t)
      BY QueueMoves
    <2>3. Logged(t, s) \/ ~Known(t)
      BY <1>1, LoggedStays DEF SessionInv, PlaceInv
    <2> QED BY <1>2, <1>3, <1>4, <2>1, <2>2, <2>3
  <1>5. CASE PlansNothing
    BY <1>1, <1>4, <1>5, PlansShrink
  <1>6. ASSUME NEW u \in Turn, StartWorker(u)
        PROVE  Sums(c, log'[s].seq, Rounds(s)') /\ c.through < log'[s].seq[t]
    <2>1. /\ u \in Active /\ session \in Turn /\ AtHome(u) /\ log' = log
          /\ Plans(u)' \subseteq Plans(u) \cup {compaction, NoSummary}
          /\ u # t => Plans(t)' \subseteq Plans(t)
      BY <1>1, <1>6, StartWorkerEffect DEF PlaceInv
    <2>2. CASE u = t /\ c = compaction
      <3>1. s = session /\ log[session].seq[t] = seq[t]
        BY <1>1, <2>1, <2>2 DEF PlaceInv, LogsAreSound, AtHome, Logged
      <3>2. compaction = log[session].compaction
        BY <2>1 DEF SoundInv, RoundsLogged, AtHome
      <3>3. SumsOf(compaction, s)
        BY <3>1, <3>2 DEF SummariesFit
      <3>4. compaction.through < seq[t]
        BY <2>1, <2>2 DEF SummariesFit, Unsettled
      <3> QED BY <2>1, <2>2, <3>1, <3>3, <3>4 DEF SumsOf, Rounds
    <2> QED BY <1>2, <1>4, <2>1, <2>2
  <1>7. ASSUME NEW u \in Turn, StartFolding(u), Worker(u)
        PROVE  Sums(c, log'[s].seq, Rounds(s)') /\ c.through < log'[s].seq[t]
    <2>1. /\ worker[u] = "started" /\ log' = log
          /\ Plans(u)' \subseteq Plans(u) \cup {job'[u].folding}
          /\ u # t => Plans(t)' \subseteq Plans(t)
      BY <1>1, <1>7, StartFoldingEffect
    <2>2. CASE u = t /\ c = job'[t].folding
      <3>1. PICK cut \in job[t].history :
              c = [folded  |-> job[t].base.folded
                                 \cup {v \in job[t].history : seq[v] <= seq[cut]},
                   through |-> seq[cut]]
        BY <1>7, <2>2, StartFoldingEffect
      <3>2. HoldsTheRest(t, s)
        BY <1>1, <2>1, <2>2 DEF HistoriesFit, Live, Logged
      <3>3. /\ job[t].history = {v \in Rounds(s) : ~(log[s].seq[v] <= job[t].base.through)}
            /\ \A v \in job[t].history : seq[v] = log[s].seq[v] /\ seq[v] < log[s].seq[t]
        BY <3>2 DEF HoldsTheRest, Covers
      <3>4. t \in Active /\ job[t].base \in Plans(t) /\ Rounds(s) \subseteq Turn
        BY <1>1, <2>1, <2>2, LiveIsActive DEF Live, Plans, Rounds
      <3>5. Sums(job[t].base, log[s].seq, Rounds(s)) /\ job[t].base.through \in Int
        BY <1>1, <2>1, <3>4, PlanValues DEF PlansFit, SumsOf, Summary, SeqNo, Logged
      <3>6. cut \in Rounds(s) /\ cut \in Turn /\ ~(log[s].seq[cut] <= job[t].base.through)
            /\ seq[cut] = log[s].seq[cut]
        BY <3>3, <3>4
      <3>7. \A v \in Rounds(s) : v \in c.folded <=> log[s].seq[v] <= seq[cut]
        BY <1>1, <3>1, <3>3, <3>4, <3>5, <3>6 DEF Sums
      <3>8. c.folded \subseteq Rounds(s) /\ c.through = seq[cut]
        BY <3>1, <3>3, <3>5 DEF Sums
      <3>9. Sums(c, log[s].seq, Rounds(s))
        BY <3>6, <3>7, <3>8 DEF Sums
      <3> QED BY <2>1, <3>3, <3>8, <3>9 DEF Rounds
    <2> QED BY <1>4, <2>1, <2>2
  <1>8. CASE Restart
    BY <1>8 DEF Restart, Active
  <1> QED BY <1>5, <1>6, <1>7, <1>8, PlanSteps

\* A worker at work was at work on the same job, or has just started.
LEMMA JobsStay ==
  ASSUME TypeOK, [Next]_vars, NEW t \in Turn, worker'[t] \in Live,
         ~StartWorker(t), ~(StartFolding(t) /\ Worker(t))
  PROVE  worker[t] \in Live /\ job'[t] = job[t]
  <1>1. "off" \notin Live /\ "ending" \notin Live /\ "started" \in Live /\ "folding" \in Live
        /\ "folded" \in Live /\ "streaming" \in Live
    BY DEF Live
  <1>2. CASE Coordinator
    <2>1. UNCHANGED <<worker, job>> \/ \E u \in Turn : StartWorker(u)
      BY <1>2 DEF Coordinator, EnqueueIgnored, Enqueue, Settle, SettleStale, StartActive,
         Unconfigured, Delta, CompactedReported, CompactionStatus, SetSessionSummary, Cancel,
         Stop, Clear, QueryStatus, ResumeSession, Shutdown, workers
    <2>2. ASSUME NEW u \in Turn, StartWorker(u) PROVE worker'[t] = worker[t] /\ job'[t] = job[t]
      BY <2>2 DEF StartWorker, TypeOK, WorkersType
    <2> QED BY <2>1, <2>2
  <1>3. ASSUME NEW u \in Turn, Worker(u) PROVE worker[t] \in Live /\ job'[t] = job[t]
    <2>1. CASE u = t
      BY <1>1, <1>3, <2>1 DEF Worker, CallProvider, StopFolding, ReportCompaction, Stream,
         Complete, NoticeCancel, Fail, End, EndThread, TypeOK, WorkersType
    <2>2. CASE u # t
      BY <1>3, <2>2 DEF Worker, CallProvider, StartFolding, StopFolding, ReportCompaction,
         Stream, Complete, NoticeCancel, Fail, End, EndThread, TypeOK, WorkersType
    <2> QED BY <2>1, <2>2
  <1>4. CASE (\E j \in titling : TitleThread(j)) \/ Serve \/ ShutdownAndJoin \/ UNCHANGED vars
    BY <1>4 DEF TitleThread, Serve, ShutdownAndJoin, vars, workers
  <1>5. CASE Restart
    BY <1>1, <1>5 DEF Restart
  <1> QED BY <1>2, <1>3, <1>4, <1>5 DEF Next

\* The turns of the transcript keep their numbers, until another session is attached.
LEMMA NumbersKept ==
  ASSUME BackendInv, [Next]_vars, ~ResumeSession, ~Restart
  PROVE  \A u \in Turn : Known(u) => seq'[u] = seq[u]
  <1> USE DEF BackendInv
  <1>1. ASSUME NEW fault \in EnqueueFault, Enqueue(fault)
        PROVE  \A u \in Turn : Known(u) => seq'[u] = seq[u]
    BY <1>1, EnqueueHome DEF SessionInv, PlaceInv, Joins, TypeOK, TranscriptType
  <1>2. PlaceStays => seq' = seq
    BY DEF PlaceStays
  <1>3. (\E lost : Stop(lost)) \/ (\E logged : Clear(logged)) => seq' = seq
    BY DEF Stop, Clear
  <1> QED BY <1>1, <1>2, <1>3, SettleQueue, QuietPlace, ElsewherePlace, Steps

LEMMA HistoriesStep ==
  ASSUME BackendInv, BackendInv', Sound, Sound', SummariesFit, PlansFit, HistoriesFit,
         SettledFirst, [Next]_vars
  PROVE  HistoriesFit'
  <1> USE DEF BackendInv
  <1> SUFFICES ASSUME NEW t \in Turn, NEW s \in Turn, worker'[t] \in Live, Logged(t, s)'
               PROVE  HoldsTheRest(t, s)'
    BY DEF HistoriesFit
  <1>1. /\ TypeOK /\ PlaceInv
        /\ \A u \in Turn : log[s].seq[u] \in Int /\ log'[s].seq[u] \in Int /\ seq[u] \in Int
    BY DEF SessionInv, TypeOK, DiskType, TranscriptType, Log, SeqNo
  <1>2. CASE StartWorker(t)
    <2>1. /\ t \in Active /\ session \in Turn /\ AtHome(t) /\ session # None
          /\ UNCHANGED <<phase, seq, result, compaction, log>>
          /\ job'[t] = [history |-> CompletedHistory(phase, result, compaction),
                        base |-> compaction, folding |-> NoSummary]
      BY <1>1, <1>2, StartWorkerEffect DEF PlaceInv, AtHome
    <2>2. s = session /\ log[s].seq[t] = seq[t]
      BY <1>1, <2>1 DEF PlaceInv, LogsAreSound, AtHome, Logged
    <2>3. \A u \in Turn : phase[u] = "settled" /\ result[u] = "completed" <=> u \in Rounds(s)
      BY <2>1, <2>2 DEF SoundInv, RoundsLogged
    <2>4. \A u \in Rounds(s) : u \in Turn /\ seq[u] = log[s].seq[u] /\ seq[u] < seq[t]
      <3>1. \A u \in Rounds(s) : u \in Turn
        BY DEF Rounds
      <3>2. \A u \in Rounds(s) : seq[u] = log[s].seq[u]
        BY <1>1, <2>2, <2>3, <3>1 DEF PlaceInv, RoundsAtHome
      <3>3. \A u \in Rounds(s) : seq[u] < seq[t]
        BY <2>1, <2>3, <3>1 DEF SettledFirst, Unsettled
      <3> QED BY <3>1, <3>2, <3>3
    <2>5. job'[t].history = {u \in Rounds(s) : ~Covers(compaction, log[s].seq[u])}
      <3>1. job'[t].history = CompletedHistory(phase, result, compaction)
        BY <2>1
      <3>2. \A u \in Turn : u \in CompletedHistory(phase, result, compaction)
                            <=> u \in Rounds(s) /\ ~Covers(compaction, seq[u])
        BY <2>3 DEF CompletedHistory
      <3>3. CompletedHistory(phase, result, compaction) \subseteq Turn
        BY DEF CompletedHistory
      <3> QED BY <2>4, <3>1, <3>2, <3>3
    <2>6. job'[t].base = compaction /\ job'[t].folding = NoSummary
      BY <2>1
    <2>7. Rounds(s)' = Rounds(s) /\ log'[s] = log[s]
      BY <2>1 DEF Rounds
    <2> QED BY <2>1, <2>2, <2>4, <2>5, <2>6, <2>7 DEF HoldsTheRest
  <1>3. CASE StartFolding(t) /\ Worker(t)
    <2>1. /\ worker[t] = "started" /\ UNCHANGED <<seq, log>>
          /\ job'[t].history = job[t].history /\ job'[t].base = job[t].base
      BY <1>1, <1>3, StartFoldingEffect
    <2>2. PICK cut \in job[t].history :
            job'[t].folding =
              [folded  |-> job[t].base.folded \cup {u \in job[t].history : seq[u] <= seq[cut]},
               through |-> seq[cut]]
      BY <1>1, <1>3, StartFoldingEffect
    <2>3. HoldsTheRest(t, s)
      BY <2>1 DEF HistoriesFit, Live, Logged
    <2>4. job'[t].folding.through = seq[cut]
      BY <2>2
    <2>5. /\ ~(log[s].seq[cut] <= job[t].base.through) /\ seq[cut] = log[s].seq[cut]
          /\ cut \in Turn
      BY <2>3 DEF HoldsTheRest, Covers, Rounds
    <2>6. job[t].base.through \in Int
      BY DEF TypeOK, WorkersType, Job, Summary, SeqNo
    <2>7. job[t].base.through <= job'[t].folding.through
      BY <1>1, <2>4, <2>5, <2>6
    <2>8. Rounds(s)' = Rounds(s) /\ log'[s] = log[s]
      BY <2>1 DEF Rounds
    <2> QED BY <2>1, <2>3, <2>7, <2>8 DEF HoldsTheRest
  <1>4. CASE ~StartWorker(t) /\ ~(StartFolding(t) /\ Worker(t))
    <2>1. worker[t] \in Live /\ job'[t] = job[t]
      BY <1>1, <1>4, JobsStay
    <2>2. t \in Active /\ ~ResumeSession /\ ~Restart
      BY <2>1, LiveIsActive, AttachesIdle DEF Restart, Live
    <2>3. Logged(t, s)
      BY <1>1, <2>1, LoggedStays DEF PlaceInv, SessionInv, PlanInv, NothingPlanned, Live
    <2>4. HoldsTheRest(t, s)
      BY <2>1, <2>3 DEF HistoriesFit
    <2>5. Rounds(s)' = Rounds(s)
      BY <2>1, <2>2, LogsGrow DEF CancelInv, OneActive, Live
    <2>6. \A u \in Rounds(s) : /\ u \in Turn /\ log'[s].seq[u] = log[s].seq[u]
                               /\ seq'[u] = seq[u]
      BY <1>1, <2>2, LogsGrow, NumbersKept, RoundsAreLoggedTurns DEF Rounds
    <2>7. log'[s].seq[t] = log[s].seq[t]
      BY <2>3, LogsGrow
    <2>8. \A u \in job[t].history : u \in Rounds(s)
      BY <2>4 DEF HoldsTheRest
    <2>9. job'[t].history = {u \in Rounds(s)' : ~Covers(job'[t].base, log'[s].seq[u])}
      BY <2>1, <2>4, <2>5, <2>6 DEF HoldsTheRest
    <2>10. \A u \in job'[t].history :
             seq'[u] = log'[s].seq[u] /\ seq'[u] < log'[s].seq[t]
      BY <2>1, <2>4, <2>6, <2>7, <2>8 DEF HoldsTheRest
    <2>11. job'[t].folding # NoSummary => job'[t].base.through <= job'[t].folding.through
      BY <2>1, <2>4 DEF HoldsTheRest
    <2> QED BY <2>9, <2>10, <2>11 DEF HoldsTheRest
  <1> QED BY <1>2, <1>3, <1>4

LEMMA SettledFirstStep ==
  ASSUME BackendInv, Sound', SettledFirst, [Next]_vars
  PROVE  SettledFirst'
  <1> USE DEF BackendInv
  <1> SUFFICES ASSUME NEW u \in Turn, NEW t \in Unsettled', phase'[u] = "settled"
               PROVE  seq'[u] < seq'[t]
    BY DEF SettledFirst
  <1>1. t \in Turn /\ \A v \in Turn : v \in Unsettled => phase[v] # "settled"
    BY DEF Unsettled, Active, Pending
  <1>2. ASSUME t \in Unsettled, phase[u] = "settled", seq' = seq PROVE seq'[u] < seq'[t]
    BY <1>2 DEF SettledFirst
  <1>3. CASE PlaceStays
    BY <1>2, <1>3 DEF PlaceStays, Unsettled
  <1>4. ASSUME NEW v \in Active, NEW k \in Kind, NEW lost, SettleActive(v, k, lost)
        PROVE  seq'[u] < seq'[t]
    <2>1. /\ t \in Unsettled \ {v} /\ seq' = seq
          /\ u # v => (phase'[u] = "settled" <=> phase[u] = "settled")
      BY <1>4, SettleQueue
    <2>2. t \in Pending
      BY <2>1 DEF Unsettled, CancelInv, OneActive
    <2>3. CASE u = v
      BY <2>1, <2>2, <2>3 DEF ActiveFirst
    <2>4. CASE u # v
      BY <1>2, <2>1, <2>4
    <2> QED BY <2>3, <2>4
  <1>5. ASSUME NEW fault \in EnqueueFault, Enqueue(fault) PROVE seq'[u] < seq'[t]
    <2> PICK new, here \in Turn : Joins(new, here, fault)
      BY <1>5, EnqueueHome DEF SessionInv, PlaceInv
    <2>1. fault = "none" /\ phase'[new] \in {"active", "pending"}
      BY <1>5, WritesSucceed DEF Joins
    <2>2. /\ seq'[new] = nextSeq
          /\ \A v \in Turn : v # new => seq'[v] = seq[v] /\ phase'[v] = phase[v]
      BY DEF Joins, TypeOK, TranscriptType
    <2>3. u # new /\ phase[u] = "settled"
      BY <2>1, <2>2
    <2>4. CASE t = new
      <3>1. seq[u] < nextSeq
        BY <2>3 DEF OrderInv, TranscriptOrder
      <3> QED BY <2>2, <2>3, <2>4, <3>1
    <2>5. CASE t # new
      <3>1. t \in Unsettled
        BY <1>1, <2>2, <2>5 DEF Unsettled, Active, Pending
      <3> QED BY <1>1, <2>2, <2>3, <2>5, <3>1 DEF SettledFirst
    <2> QED BY <2>4, <2>5
  <1>6. ASSUME NEW lost, Stop(lost) PROVE seq'[u] < seq'[t]
    BY <1>2, <1>6 DEF Stop, Unsettled, Active, Pending
  <1>7. ASSUME NEW logged, Clear(logged) PROVE seq'[u] < seq'[t]
    BY <1>7 DEF Clear, KeptByClear, Active
  <1>8. CASE ResumeSession
    BY <1>8, AttachesIdle
  <1>9. CASE Restart
    BY <1>9 DEF Restart
  <1> QED BY <1>3, <1>4, <1>5, <1>6, <1>7, <1>8, <1>9, QuietPlace, ElsewherePlace, Steps

LEMMA ContextInvStep ==
  ASSUME BackendInv, BackendInv', ContextInv, [Next]_vars
  PROVE  ContextInv'
  <1>1. NothingPlannedYet'
    BY NothingPlannedYetStep DEF ContextInv
  <1>2. ASSUME Sound' PROVE SummariesFit' /\ PlansFit' /\ HistoriesFit' /\ SettledFirst'
    <2>1. TypeOK' /\ Sound
      BY <1>2, WasSound DEF BackendInv
    <2>2. NothingPlannedYet /\ SummariesFit /\ PlansFit /\ HistoriesFit /\ SettledFirst
      BY <2>1 DEF ContextInv
    <2> QED BY <1>2, <2>1, <2>2, SummariesStep, PlansStep, HistoriesStep, SettledFirstStep
  <1> QED BY <1>1, <1>2 DEF ContextInv

LEMMA ContextInvInit == Init => ContextInv
  <1> SUFFICES ASSUME Init
               PROVE  NothingPlannedYet /\ SummariesFit /\ PlansFit /\ HistoriesFit /\ SettledFirst
    BY DEF ContextInv
  <1>1. /\ phase = [t \in Turn |-> "absent"] /\ log = [s \in Turn |-> EmptyLog]
        /\ starting = None /\ worker = [t \in Turn |-> "off"] /\ None \notin Turn
    BY ConversationAssumption DEF Init
  <1>2. Unsettled = {} /\ Active = {} /\ Pending = {}
    BY <1>1 DEF Unsettled, Active, Pending
  <1>3. \A s \in Turn : Rounds(s) = {} /\ log[s].compaction = NoSummary
    BY <1>1 DEF Rounds, EmptyLog
  <1>4. \A s \in Turn : SumsOf(log[s].compaction, s)
    BY <1>3, NoSummarySums DEF SumsOf
  <1>5. "off" \notin Live
    BY DEF Live
  <1> QED BY <1>1, <1>2, <1>4, <1>5 DEF NothingPlannedYet, SummariesFit, PlansFit, HistoriesFit,
             SettledFirst

LEMMA BackendInvariant == Spec => []BackendInv
  <1>1. BackendInv <=> /\ TypeOK /\ CancelInv /\ ResumeInv /\ OrderInv /\ SessionInv
                       /\ NoIdleQueue /\ ActiveFirst /\ WorkerInv /\ SoundInv
    BY DEF BackendInv
  <1> QED BY <1>1, SoundInvariant, QueueNeverIdle, ActiveFirstInvariant, WorkerInvariant, PTL

LEMMA ContextInvariant == Spec => [](BackendInv /\ ContextInv)
  BY BackendInvariant, ContextInvInit, ContextInvStep, PTL DEF Spec

\* The context of a running turn is exactly the completed rounds of the session that logged
\* it, each once: verbatim or in the summary, before and after the worker's own compaction
\* of a head of them, as long as no write has failed; whether the session was built up, or
\* restored with a summary from its log (start_active and settle of state.rs,
\* run_compaction of chat/compaction.rs, restore_turns of sessions.rs).
THEOREM ContextsAreExact == Spec => []ContextExact
  <1>1. BackendInv /\ ContextInv => ContextExact
    <2> SUFFICES ASSUME BackendInv, ContextInv, Sound, NEW t \in Turn, NEW s \in Turn,
                        worker[t] \in Live, Logged(t, s)
                 PROVE  LET plan == job[t].folding
                            rest == {u \in job[t].history : ~Covers(plan, seq[u])}
                        IN  /\ job[t].history \cup job[t].base.folded = Rounds(s)
                            /\ job[t].history \cap job[t].base.folded = {}
                            /\ plan # NoSummary => /\ plan.folded \cup rest = Rounds(s)
                                                   /\ plan.folded \cap rest = {}
      BY DEF ContextExact, Sound, Logged, Rounds
    <2> DEFINE base == job[t].base
               plan == job[t].folding
               rest == {u \in job[t].history : ~Covers(plan, seq[u])}
    <2>1. t \in Active /\ base \in Plans(t) /\ plan \in Plans(t)
      BY LiveIsActive DEF BackendInv, Plans
    <2>2. Sums(base, log[s].seq, Rounds(s)) /\ Sums(plan, log[s].seq, Rounds(s))
      BY <2>1 DEF ContextInv, PlansFit, SumsOf
    <2>3. HoldsTheRest(t, s)
      BY DEF ContextInv, HistoriesFit
    <2>4. /\ base.through \in Int /\ plan.through \in Int
          /\ \A u \in Rounds(s) : log[s].seq[u] \in Int
      BY <2>1, PlanValues, LogValues DEF BackendInv, Summary, SeqNo, Rounds
    <2>5. job[t].history = {u \in Rounds(s) : ~(log[s].seq[u] <= base.through)}
      BY <2>3 DEF HoldsTheRest, Covers
    <2>6. base.folded = {u \in Rounds(s) : log[s].seq[u] <= base.through}
          /\ plan.folded = {u \in Rounds(s) : log[s].seq[u] <= plan.through}
      BY <2>2 DEF Sums
    <2>7. \A u \in Rounds(s) : u \in rest <=> /\ ~(log[s].seq[u] <= base.through)
                                              /\ ~(log[s].seq[u] <= plan.through)
      BY <2>3, <2>5 DEF HoldsTheRest, Covers
    <2>8. plan # NoSummary => base.through <= plan.through
      BY <2>3 DEF HoldsTheRest
    <2>9. rest \subseteq Rounds(s)
      BY <2>5
    <2> HIDE DEF rest, base, plan
    <2>10. plan # NoSummary => plan.folded \cup rest = Rounds(s) /\ plan.folded \cap rest = {}
      BY <2>4, <2>6, <2>7, <2>8, <2>9
    <2>11. job[t].history \cup base.folded = Rounds(s) /\ job[t].history \cap base.folded = {}
      BY <2>5, <2>6
    <2> QED BY <2>10, <2>11 DEF rest, base, plan
  <1> QED BY <1>1, ContextInvariant, PTL

=============================================================================
