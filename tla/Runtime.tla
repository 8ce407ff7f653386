------------------------------ MODULE Runtime ------------------------------
(***************************************************************************)
(* The Bluetooth life of the accessory (HomeKitRuntime) besides its        *)
(* sessions: the start and the recovery of the GATT server (Probe) and the *)
(* advertised state number (StateNumber).  Each part has its own view of   *)
(* the connections and of the radio, at the grain that its steps need, so  *)
(* the parts share no variable: a behaviour is one of one part, the other  *)
(* rests.                                                                  *)
(***************************************************************************)
EXTENDS Probe, StateNumber

VARIABLE part

runtimeVars == <<part, probeVars, gsnVars>>

Init == part \in {"probe", "number"} /\ ProbeInit /\ NumberInit

Publishing == part = "probe"  /\ ProbeNext  /\ UNCHANGED <<part, gsnVars>>
Numbering  == part = "number" /\ NumberNext /\ UNCHANGED <<part, probeVars>>

Next == Publishing \/ Numbering

\* The fairness of each part (ProbeFairness, NumberFairness), while it is
\* the one that goes on.
Fairness ==
    /\ WF_probeVars(part = "probe" /\ Open)
    /\ WF_probeVars(part = "probe" /\ Callback)
    /\ WF_probeVars(part = "probe" /\ Recover)
    /\ WF_probeVars(part = "probe" /\ StartupExpires)
    /\ WF_probeVars(part = "probe" /\ HandshakeExpires)
    /\ WF_probeVars(part = "probe" /\ Reconcile)
    /\ WF_probeVars(part = "probe" /\ Deliver)
    /\ WF_probeVars(part = "probe" /\ Create)
    /\ \A k \in Kinds : WF_probeVars(part = "probe" /\ \E p \in posts : p.kind = k /\ Handle(p))
    /\ WF_probeVars(part = "probe" /\ \E a \in adding : StackAdds(a))
    /\ WF_probeVars(part = "probe" /\ StackAdvertises)
    /\ WF_probeVars(part = "probe" /\ link = "closing" /\ LinkEnds)
    /\ WF_gsnVars(part = "number" /\ Poll)
    /\ WF_gsnVars(part = "number" /\ NumberCallback)
    /\ WF_gsnVars(part = "number" /\ Publish)
    /\ WF_gsnVars(part = "number" /\ NumberOnAir)
    /\ WF_gsnVars(part = "number" /\ NumberRefresh)
    /\ WF_gsnVars(part = "number" /\ NumberReadvertise)
    /\ WF_gsnVars(part = "number" /\ HealthRestart)

Spec == Init /\ [][Next]_runtimeVars /\ Fairness

-----------------------------------------------------------------------------

\* The type invariant of the two parts; in particular the state number wraps
\* to 1 and is never 0.
TypeOK == ProbeTypeOK /\ NumberTypeOK

\* Recovers, where the publication goes on.
AccessoryRecovers == part = "probe" => Recovers
=============================================================================
