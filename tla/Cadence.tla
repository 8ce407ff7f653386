------------------------------ MODULE Cadence ------------------------------
(***************************************************************************)
(* The timers of the run loop (AnnounceScheduler of                        *)
(* native/airdrop/crates/filin-rs/src/lib.rs and its use in run): a master *)
(* indication frame in the middle of every window that has a channel, a    *)
(* synchronisation frame every 110 TU, the hop at every window, the        *)
(* clean-up of peers.  The loop sleeps until the earliest, is woken by     *)
(* traffic and may be held up; the master's clock may jump.  The unit is   *)
(* an availability window of 16 TU.                                        *)
(***************************************************************************)
EXTENDS Integers, Sequences, FiniteSets

CONSTANTS Eaw,          \* presence mode: availability windows of an extended one
          PsfInterval,  \* PSF_INTERVAL_TU
          CleanInterval,
          Slots,        \* the schedule: per extended window, whether it has a channel
          MaxHeldUp,    \* how long an iteration takes at most
          MaxTicks      \* bound on time

ASSUME CadenceAssumption ==
    /\ {Eaw, PsfInterval, CleanInterval} \subseteq Nat \ {0} /\ Eaw % 2 = 0
    /\ {MaxHeldUp, MaxTicks} \subseteq Nat
    /\ Slots \in Seq(BOOLEAN) /\ Slots # <<>>

VARIABLES ticks,        \* host_time_us
          origin,       \* SyncState.last_update_us: a window begins there
          next,         \* AnnounceScheduler: psf, mif, clean, switch
          sent,         \* history: the frames of this iteration
          mifs,         \* history: when a master indication frame was sent, per window
          steady        \* history: since when neither was the loop held up nor did the clock jump

cadenceVars == <<ticks, origin, next, sent, mifs, steady>>

SinceOrigin == IF ticks >= origin THEN ticks - origin ELSE 0
NextAw == Eaw - (SinceOrigin % Eaw)
Window == (ticks - origin) \div Eaw
SlotOf(w) == (w % Len(Slots)) + 1

\* next_mif_us: the middle of the next extended window.
NextMif == ticks + NextAw + Eaw \div 2

\* AnnounceScheduler::new.
CadenceInit ==
    /\ ticks = 0 /\ origin = 0
    /\ next = [psf |-> PsfInterval, mif |-> 0, clean |-> CleanInterval, switch |-> 0]
    /\ sent = {} /\ mifs = {} /\ steady = 0

\* Past now, by whole intervals.
CaughtUp(at, interval) ==
    IF ticks < at THEN at ELSE at + interval * ((ticks - at) \div interval + 1)

\* An iteration of run: switch_due, clean_due, due. The frames go where the hop leads.
Iterate ==
    LET mifDue == ticks >= next.mif
        psfDue == ticks >= next.psf
        hasChannel == Slots[SlotOf(Window)]
    IN /\ next' = [psf    |-> CaughtUp(next.psf, PsfInterval),
                   mif    |-> IF mifDue THEN NextMif ELSE next.mif,
                   clean  |-> CaughtUp(next.clean, CleanInterval),
                   switch |-> IF ticks >= next.switch THEN ticks + NextAw ELSE next.switch]
       /\ sent' = (IF mifDue /\ hasChannel THEN {"mif"} ELSE {}) \cup (IF psfDue THEN {"psf"} ELSE {})
       /\ mifs' = IF mifDue /\ hasChannel THEN mifs \cup {[window |-> Window, at |-> ticks]} ELSE mifs
       /\ UNCHANGED <<ticks, origin, steady>>

Due == \E t \in DOMAIN next : ticks >= next[t]

\* poll_timeout_ms: to the earliest timer, or less if something arrives.
Sleep ==
    /\ ~Due
    /\ ticks' = ticks + 1 /\ ticks' <= MaxTicks
    /\ sent' = {}
    /\ UNCHANGED <<origin, next, mifs, steady>>

\* The rest of an iteration takes long: a request to the driver, a full queue.
HeldUp ==
    /\ \E n \in 1..MaxHeldUp : ticks' = ticks + n /\ ticks' <= MaxTicks
    /\ steady' = ticks'
    /\ sent' = {}
    /\ UNCHANGED <<origin, next, mifs>>

\* The clock of another master is taken over, whose window began up to one before; what
\* was sent was of other windows.
Jump ==
    /\ origin' \in {ticks - ago : ago \in 0..IF ticks < Eaw THEN ticks ELSE Eaw}
    /\ origin' # origin
    /\ steady' = ticks /\ mifs' = {} /\ sent' = {}
    /\ UNCHANGED <<ticks, next>>

CadenceNext == Iterate \/ Sleep \/ HeldUp \/ Jump

-----------------------------------------------------------------------------

\* Every window that has a channel gets a master indication frame by its middle, once
\* the loop and the clock have been steady for a window, and from the one after in its
\* middle; no window gets two, no matter how the loop is held up or the clock jumps
\* (AnnounceScheduler::due).
MifPerWindow ==
    LET ofWindow(w) == {m \in mifs : m.window = w}
        middle(w) == origin + Eaw * w + Eaw \div 2
        steadyFrom == (steady - origin) \div Eaw + 2
    IN /\ \A m \in mifs : Cardinality(ofWindow(m.window)) = 1 /\ Slots[SlotOf(m.window)]
       /\ \A w \in steadyFrom..Window - 1 :
             Slots[SlotOf(w)] =>
                 \E m \in ofWindow(w) : m.at <= middle(w) /\ (w > steadyFrom => m.at = middle(w))
=============================================================================
