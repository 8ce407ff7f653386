------------------------------ MODULE Luftlift ------------------------------
(***************************************************************************)
(* The receiver process as a whole: the threads that serve connections     *)
(* (Receiver) and those that keep the phone announced and list the devices *)
(* nearby (Discovery).  They meet in no state but the life of the process. *)
(* A behaviour is one of one side, the other rests.                        *)
(***************************************************************************)
EXTENDS Receiver, Discovery

VARIABLE side

luftliftVars == <<side, receiverVars, discoveryVars>>

Init ==
    /\ side \in {"serving", "announcing"}
    /\ ReceiverInit /\ DiscoveryInit
    /\ side = "serving" => ifaddr = None

Serving == side = "serving" /\ ReceiverNext /\ UNCHANGED <<side, discoveryVars>>

Announcing == side = "announcing" /\ DiscoveryNext /\ UNCHANGED <<side, receiverVars>>

Next == Serving \/ Announcing

\* The threads that announce go on (DiscoveryFairness) when they are the side that does;
\* nothing that ReceiverFairness is about can happen while nobody is connected.
Fairness ==
    /\ ReceiverFairness
    /\ WF_discoveryVars(side = "announcing" /\ Supervise)
    /\ \A k \in Sessions : /\ WF_discoveryVars(side = "announcing" /\ Repeat(k))
                           /\ WF_discoveryVars(side = "announcing" /\ (Begin(k) \/ Leave(k)))

Spec == Init /\ [][Next]_luftliftVars /\ Fairness
=============================================================================
