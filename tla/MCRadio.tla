------------------------------- MODULE MCRadio -------------------------------
EXTENDS Radio

W(coexist, assume, monitor, probes, manager) ==
    [coexist |-> coexist, assume |-> assume, monitor |-> monitor, probes |-> probes,
     manager |-> manager]

MCWorlds == {W(FALSE, FALSE, TRUE, TRUE, TRUE), W(FALSE, FALSE, TRUE, FALSE, FALSE),
             W(FALSE, TRUE, TRUE, TRUE, FALSE), W(TRUE, FALSE, TRUE, TRUE, FALSE),
             W(FALSE, FALSE, FALSE, TRUE, FALSE), W(FALSE, FALSE, FALSE, FALSE, TRUE),
             W(TRUE, FALSE, TRUE, TRUE, TRUE)}

MCBudgets == {[commands |-> 1, faults |-> 1]}
=============================================================================
