------------------------------ MODULE TurnQueue ------------------------------
(***************************************************************************)
(* What the conversation backend promises about the turns it accepts, with *)
(* neither channel nor threads: they run one at a time, in the order they  *)
(* were accepted; each ends once, and for good; a turn told to stop never  *)
(* ends otherwise than cancelled; and a running turn does end.             *)
(*                                                                         *)
(* Conversation implements it: see ConversationProperties.                 *)
(***************************************************************************)
CONSTANT Turn

VARIABLES
  stage,      \* "new", "waiting", "running" or "over"
  ahead,      \* the unfinished turns accepted before each unfinished turn
  outcome,    \* how a turn ended, "none" while it has not, or if it was dropped
  condemned   \* the running turn that was told to stop, as a set

vars == <<stage, ahead, outcome, condemned>>

Outcome == {"completed", "needsConfiguration", "error", "cancelled"}

Waiting == {t \in Turn : stage[t] = "waiting"}
Running == {t \in Turn : stage[t] = "running"}

TypeOK ==
  /\ stage \in [Turn -> {"new", "waiting", "running", "over"}]
  /\ ahead \in [Turn -> SUBSET Turn]
  /\ outcome \in [Turn -> Outcome \cup {"none"}]
  /\ condemned \subseteq Turn

Init ==
  /\ stage = [t \in Turn |-> "new"]
  /\ ahead = [t \in Turn |-> {}]
  /\ outcome = [t \in Turn |-> "none"]
  /\ condemned = {}

\* A turn is accepted behind every unfinished one; it runs at once if there is none.
Accept(t) ==
  /\ stage[t] = "new"
  /\ ahead' = [ahead EXCEPT ![t] = Waiting \cup Running]
  /\ stage' = [stage EXCEPT ![t] = IF Waiting \cup Running = {} THEN "running" ELSE "waiting"]
  /\ UNCHANGED <<outcome, condemned>>

\* A turn that cannot be recorded is refused.
Refuse(t) ==
  /\ stage[t] = "new"
  /\ stage' = [stage EXCEPT ![t] = "over"]
  /\ outcome' = [outcome EXCEPT ![t] = "error"]
  /\ UNCHANGED <<ahead, condemned>>

\* The running turn ends and the one right behind it runs, if the queue goes on.
Finish(t) ==
  /\ stage[t] = "running"
  /\ \E o \in Outcome, goesOn \in BOOLEAN :
       LET next == {u \in Waiting : goesOn /\ ahead[u] = {t}}
       IN  /\ t \in condemned => o = "cancelled"
           /\ outcome' = [outcome EXCEPT ![t] = o]
           /\ stage' = [u \in Turn |-> IF u = t THEN "over"
                                       ELSE IF u \in next THEN "running" ELSE stage[u]]
  /\ ahead' = [u \in Turn |-> IF u = t THEN {} ELSE ahead[u] \ {t}]
  /\ condemned' = condemned \ {t}

\* Every waiting turn is dropped, and the running one may be told to stop.
Drop ==
  /\ stage' = [t \in Turn |-> IF t \in Waiting THEN "over" ELSE stage[t]]
  /\ ahead' = [t \in Turn |-> IF t \in Waiting THEN {} ELSE ahead[t]]
  /\ condemned' \in {condemned, Running}
  /\ UNCHANGED outcome

Condemn ==
  /\ condemned' = Running
  /\ UNCHANGED <<stage, ahead, outcome>>

\* The process dies: unfinished turns are over without an outcome.
Die ==
  /\ stage' = [t \in Turn |-> IF stage[t] = "new" THEN "new" ELSE "over"]
  /\ ahead' = [t \in Turn |-> {}]
  /\ condemned' = {}
  /\ UNCHANGED outcome

Next ==
  \/ \E t \in Turn : Accept(t) \/ Refuse(t) \/ Finish(t)
  \/ Drop \/ Condemn \/ Die

Spec == Init /\ [][Next]_vars

Fairness == \A t \in Turn : WF_vars(Finish(t))

FairSpec == Spec /\ Fairness
=============================================================================
