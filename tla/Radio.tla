-------------------------------- MODULE Radio --------------------------------
(***************************************************************************)
(* The two sides of the phone's AirDrop radio: the processes that bring it *)
(* up and give it back (Engine) and the daemon they start (Daemon).  To    *)
(* the one the other is a black box: Engine knows of a daemon only whether *)
(* it holds awdl0, Daemon knows of the rest only that links and cards come *)
(* and go.  A behaviour is one of one side, the other rests.               *)
(***************************************************************************)
EXTENDS Daemon, Engine

VARIABLE side

radioVars == <<side, daemonVars, engineVars>>

Init ==
    /\ side \in {"daemon", "engine"}
    /\ DaemonInit /\ EngineInit
    /\ side = "daemon" => ~enabled /\ budget = CHOOSE b \in Budgets : TRUE
    /\ side = "engine" => world = CHOOSE w \in Worlds : TRUE

Supervising == side = "daemon" /\ DaemonNext /\ UNCHANGED <<side, engineVars>>

Guarding == side = "engine" /\ EngineNext /\ UNCHANGED <<side, daemonVars>>

Next == Supervising \/ Guarding

\* Nothing that EngineFairness is about can happen while the engine rests.
Fairness == (side = "daemon" => DaemonFairness) /\ EngineFairness

Spec == Init /\ [][Next]_radioVars /\ Fairness
-----------------------------------------------------------------------------
(* Properties.                                                             *)

\* The daemon ends on the card that is there (Daemon!Recovers).
DaemonRecovers == side = "daemon" => Recovers
=============================================================================
