---------------------------- MODULE AtomicStore ----------------------------
(***************************************************************************)
(* What the store promises its callers: every call takes effect at one     *)
(* instant between the call and its answer, with all of its items or none  *)
(* of them, and the graph changes in no other way than by calls and by the *)
(* two rules of the sweep, each at one instant.  An error answer means     *)
(* nothing happened, except after purge and reset, whose vacuum runs once  *)
(* the deletion is done.  A caller that is cut off may never know.         *)
(***************************************************************************)
EXTENDS Naturals

CONSTANTS Callers, Requests, AbandonDays, RetentionDays, InitialGraphs, StartTime,
    NoRequest, NoAnswer, Done, Failed, Invalid,
    RequestOutcome(_, _, _),    \* the graph and the answer a request makes of a graph
    AbandonIdle(_, _, _),       \* the two rules of the sweep
    Purge(_, _, _)

VARIABLES db, now,
    phase,      \* of each caller: "idle", "pending", or "applied" but not answered
    ask,        \* its request
    reply       \* its answer

vars == <<db, now, phase, ask, reply>>

Init ==
    /\ db \in InitialGraphs
    /\ now = StartTime
    /\ phase = [c \in Callers |-> "idle"]
    /\ ask = [c \in Callers |-> NoRequest]
    /\ reply = [c \in Callers |-> NoAnswer]

----------------------------------------------------------------------------

Move(c, to, request, answer) ==
    /\ phase' = [phase EXCEPT ![c] = to]
    /\ ask'   = [ask EXCEPT ![c] = request]
    /\ reply' = [reply EXCEPT ![c] = answer]

Ask(c, r) ==
    /\ phase[c] = "idle"
    /\ Move(c, "pending", r, NoAnswer)
    /\ UNCHANGED <<db, now>>

\* Arguments may be refused at once
RefuseArguments(c) ==
    /\ phase[c] = "idle"
    /\ Move(c, "idle", NoRequest, Invalid)
    /\ UNCHANGED <<db, now>>

\* The instant the call takes effect; the answer may be lost
Perform(c) ==
    /\ phase[c] = "pending" /\ ask[c].op # "sweep"
    /\ LET o == RequestOutcome(db, ask[c], now)
       IN  /\ db' = o.graph
           /\ \/ \E answer \in {o.answer, NoAnswer} : Move(c, "idle", NoRequest, answer)
              \/ ask[c].op \in {"purge", "reset"} /\ Move(c, "applied", ask[c], NoAnswer)
    /\ UNCHANGED now

Refuse(c) ==
    /\ phase[c] = "pending"
    /\ Move(c, "idle", NoRequest, Failed)
    /\ UNCHANGED <<db, now>>

\* purge and reset, done but not yet answered
AnswerApplied(c) ==
    /\ phase[c] = "applied"
    /\ \E answer \in {Done, Failed} : Move(c, "idle", NoRequest, answer)
    /\ UNCHANGED <<db, now>>

\* The sweep a pending call owes, one rule at a time
AbandonRule == AbandonDays > 0 /\ db' = AbandonIdle(db, AbandonDays, now)
RetainRule  == RetentionDays > 0 /\ db' = Purge(db, RetentionDays, now)

Housekeep(c) ==
    /\ phase[c] = "pending"
    /\ AbandonRule \/ RetainRule
    /\ UNCHANGED <<now, phase, ask, reply>>

EndSweep(c) ==
    /\ phase[c] = "pending" /\ ask[c].op = "sweep"
    /\ RetainRule \/ UNCHANGED db
    /\ \E answer \in {Done, Failed} : Move(c, "idle", NoRequest, answer)
    /\ UNCHANGED now

\* Callers are cut off: what they asked for has happened by now or never will
CutOff(lost) ==
    /\ phase' = [c \in Callers |-> IF c \in lost THEN "idle" ELSE phase[c]]
    /\ ask'   = [c \in Callers |-> IF c \in lost THEN NoRequest ELSE ask[c]]
    /\ reply' = [c \in Callers |-> IF c \in lost THEN NoAnswer ELSE reply[c]]
    /\ UNCHANGED <<db, now>>

Tick == now' = now + 1 /\ UNCHANGED <<db, phase, ask, reply>>

Next ==
    \/ \E c \in Callers :
         \/ \E r \in Requests : Ask(c, r)
         \/ RefuseArguments(c)
         \/ Perform(c)
         \/ Refuse(c)
         \/ AnswerApplied(c)
         \/ Housekeep(c)
         \/ EndSweep(c)
    \/ \E lost \in SUBSET Callers : CutOff(lost)
    \/ Tick

Spec == Init /\ [][Next]_vars
=============================================================================
