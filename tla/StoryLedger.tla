----------------------------- MODULE StoryLedger -----------------------------
(***************************************************************************)
(* What the story runtime promises its users, without requests, sessions,  *)
(* heads or anchors: a ledger of turns.  Each turn is taken once, in       *)
(* order, on one branch.  A turn that wrote a segment may be adopted into  *)
(* the story; a cut takes everything younger than an adopted turn off one  *)
(* branch; and nothing that was adopted is lost in any other way, nothing  *)
(* that was cut returns.                                                   *)
(***************************************************************************)
EXTENDS Naturals

CONSTANTS Branches, Default, MaxTurns

VARIABLES turns, on, stage

vars == <<turns, on, stage>>

Turns == 1..MaxTurns

\* "spent" is a turn with nothing to adopt: a discussion or an acceptance.
Stage == {"free", "spent", "written", "adopted", "cut"}

Init ==
    /\ turns = 0
    /\ on = [t \in Turns |-> Default]
    /\ stage = [t \in Turns |-> "free"]

\* The next turn is taken on branch b.
Take(b) ==
    /\ turns < MaxTurns
    /\ turns' = turns + 1
    /\ on' = [on EXCEPT ![turns + 1] = b]

\* A turn leaves a segment to be reviewed.
Write(b) ==
    /\ Take(b)
    /\ stage' = [stage EXCEPT ![turns + 1] = "written"]

\* A turn leaves nothing behind.
Spend(b) ==
    /\ Take(b)
    /\ stage' = [stage EXCEPT ![turns + 1] = "spent"]

\* A turn adopts the segment of turn t, for good.
Adopt(b, t) ==
    /\ Take(b)
    /\ stage[t] \in {"written", "adopted"}
    /\ stage' = [stage EXCEPT ![turns + 1] = "spent", ![t] = "adopted"]

\* Everything on branch b that is younger than the adopted turn t goes.
Cut(b, t) ==
    /\ stage[t] = "adopted"
    /\ stage' = [u \in Turns |->
                   IF on[u] = b /\ t < u /\ stage[u] # "free"
                   THEN "cut" ELSE stage[u]]
    /\ UNCHANGED <<turns, on>>

Next ==
    \/ \E b \in Branches : Write(b) \/ Spend(b)
    \/ \E b \in Branches, t \in Turns : Adopt(b, t) \/ Cut(b, t)

Spec == Init /\ [][Next]_vars
=============================================================================
