------------------------------- MODULE Codecs -------------------------------
(***************************************************************************)
(* The formats and small protocols at the edges of luftlift and filin,     *)
(* which share no state: uploads (Transfer), frames between nodes          *)
(* (Frames), the statuses of sent frames (TxStatus), the repeated          *)
(* announcement of the host (Replay), the timers (Cadence) and what the    *)
(* programs tell of themselves (Introspect).  A behaviour is one of one    *)
(* part, the others rest.                                                  *)
(***************************************************************************)
EXTENDS Transfer, Frames, TxStatus, Replay, Cadence, Introspect

VARIABLE part

codecsVars == <<part, transferVars, frameVars, txVars, replayVars, cadenceVars, introVars>>

Parts == {"transfer", "frames", "tx", "replay", "cadence", "introspect"}

Init ==
    /\ part \in Parts
    /\ TransferInit /\ FramesInit /\ TxInit /\ ReplayInit /\ CadenceInit /\ IntroInit
    /\ part # "transfer"   => upload[1] = Beside
    /\ part # "frames"     => state = CHOOSE s \in States : TRUE
    /\ part # "introspect" => program = "filin"

Uploading ==
    /\ part = "transfer" /\ TransferNext
    /\ UNCHANGED <<part, frameVars, txVars, replayVars, cadenceVars, introVars>>

OnAir ==
    /\ part = "frames" /\ FramesNext
    /\ UNCHANGED <<part, transferVars, txVars, replayVars, cadenceVars, introVars>>

Accounting ==
    /\ part = "tx" /\ TxNext
    /\ UNCHANGED <<part, transferVars, frameVars, replayVars, cadenceVars, introVars>>

Repeating ==
    /\ part = "replay" /\ ReplayNext
    /\ UNCHANGED <<part, transferVars, frameVars, txVars, cadenceVars, introVars>>

Timing ==
    /\ part = "cadence" /\ CadenceNext
    /\ UNCHANGED <<part, transferVars, frameVars, txVars, replayVars, introVars>>

Telling ==
    /\ part = "introspect" /\ IntroNext
    /\ UNCHANGED <<part, transferVars, frameVars, txVars, replayVars, cadenceVars>>

Next == Uploading \/ OnAir \/ Accounting \/ Repeating \/ Timing \/ Telling

Spec == Init /\ [][Next]_codecsVars

-----------------------------------------------------------------------------

\* What one node announces and carries is what the other has of it.
LinkIsFaithful == PeerSeesState /\ HostGetsItsOwn /\ ServicesAreOurs

\* What is repeated is repeated while it is true, and at its time.
RepeatsAreTimely == ReplaysAreLive /\ MifPerWindow

\* What the programs say of themselves has happened: to their announcement, to their log and
\* to the frames they sent.
TellsTheTruth == StatusIsWhole /\ TraceIsRecent /\ StatusesAreOurs
=============================================================================
