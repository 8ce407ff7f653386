--------------------------- MODULE CommandContract ---------------------------
(***************************************************************************)
(* What a controller may rely on when it writes a control over its         *)
(* connection: the command runs at most once however often the write is    *)
(* repeated before it is answered, and an answer that says that it ran is  *)
(* the answer of a run of that very write.  A write whose connection ends  *)
(* before the answer may have run or not.                                  *)
(***************************************************************************)
EXTENDS Naturals

VARIABLES
    txn,  \* the controller's transaction: "none", "open", or its answer
    runs  \* how often the command of the open transaction has run

Init == txn = "none" /\ runs = 0

\* The controller writes; the last transaction was answered or given up.
Open == txn' = "open" /\ runs' = 0

Run == txn = "open" /\ runs = 0 /\ runs' = 1 /\ UNCHANGED txn

\* The controller reads that the command ran.
AnswerRan == txn = "open" /\ runs = 1 /\ txn' = "ran" /\ runs' = 0

\* The controller reads that the command was refused: it has not run.
AnswerRefused == txn = "open" /\ runs = 0 /\ txn' = "refused" /\ UNCHANGED runs

\* The connection ends.
Lose == txn' = "none" /\ runs' = 0

Next == Open \/ Run \/ AnswerRan \/ AnswerRefused \/ Lose

Spec == Init /\ [][Next]_<<txn, runs>>
=============================================================================
