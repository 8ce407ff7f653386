--------------------------- MODULE ConsentContract ---------------------------
(***************************************************************************)
(* What a user may rely on when a device asks to send: nothing is taken    *)
(* from it before the user was asked and accepted, what the user decided   *)
(* stays decided, and one acceptance is good for one transfer.             *)
(***************************************************************************)
CONSTANTS Asks, Transfers

VARIABLES
    answer,  \* per ask: "none" (not shown yet), "open", "accepted", "refused"
    uses     \* per ask: the transfers let in by it

Init == /\ answer = [a \in Asks |-> "none"]
        /\ uses = [a \in Asks |-> {}]

\* The user is asked.
Show(a) ==
    /\ answer[a] = "none"
    /\ answer' = [answer EXCEPT ![a] = "open"]
    /\ UNCHANGED uses

\* The user decides, or does not in time.
Settle(a) ==
    /\ answer[a] = "open"
    /\ \E verdict \in {"accepted", "refused"} : answer' = [answer EXCEPT ![a] = verdict]
    /\ UNCHANGED uses

\* A transfer is let in.
Use(a, t) ==
    /\ answer[a] = "accepted" /\ uses[a] = {}
    /\ \A b \in Asks : t \notin uses[b]
    /\ uses' = [uses EXCEPT ![a] = {t}]
    /\ UNCHANGED answer

Next == \E a \in Asks : Show(a) \/ Settle(a) \/ \E t \in Transfers : Use(a, t)

Spec == Init /\ [][Next]_<<answer, uses>>
=============================================================================
