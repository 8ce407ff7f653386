------------------------------- MODULE Daemon -------------------------------
(***************************************************************************)
(* The AWDL daemon as a process (native/airdrop/crates/filin-rs/src:       *)
(* main.rs; lib.rs: open_links, the supervision in run, NeighborTable, the *)
(* netdev, packet, tun, nl80211 and rtnl calls).  It opens the host's tap  *)
(* awdl0 and the monitor interface, runs, and opens everything anew a      *)
(* second after anything failed, while the Wi-Fi card is unplugged and     *)
(* plugged in again, taken down, and taken back by NetworkManager.         *)
(*                                                                         *)
(* What the running daemon does with frames is module Node; here it keeps  *)
(* its peers' addresses in the kernel's neighbour table.                   *)
(***************************************************************************)
EXTENDS Naturals, FiniteSets

CONSTANTS Neighbors,
          Worlds,       \* [coexist, assume, monitor, probes, manager]
          Channels, Anchor,
          MaxErrors,    \* POLL_ERROR_FATAL_THRESHOLD
          MaxPlugs,     \* bound: how often the card is plugged in
          MaxCallFaults     \* bound: calls that fail though the device is there, errors of
                        \* sockets, and times the card is taken down

\* coexist: FILIN_TX_IFACE is set, the radio is the station's; assume: -N; monitor: the
\* driver has monitor mode; probes: it can be asked; manager: NetworkManager runs.
ASSUME WorldAssumption ==
    Worlds \subseteq [coexist: BOOLEAN, assume: BOOLEAN, monitor: BOOLEAN, probes: BOOLEAN,
                      manager: BOOLEAN]
ASSUME LossAssumption == {MaxErrors, MaxPlugs, MaxCallFaults} \subseteq Nat /\ Anchor \in Channels

VARIABLES world,
          card,       \* the monitor interface: NoCard or [index, mode, up, chan]
          managed,    \* NetworkManager manages it
              \* the daemon made a step since the card was pulled
          plugs, callFaults,
          pc,         \* the next call of open_links, or where the process is
          tap,        \* awdl0 exists
          socket,     \* index the packet socket is bound to, 0 for none
          expected,   \* monitor_ifindex
          errors,     \* consecutive_packet_errors
          swapped,    \* the card was exchanged while the links were being opened
          peers,      \* PeerTable
          table,      \* NeighborTable
          kernel,     \* permanent neighbours of awdl0 in the kernel
          http         \* "configured", "up" or "none"

device  == <<card, managed>>
bounds  == <<plugs, callFaults>>
links   == <<tap, socket, expected, errors, swapped>>
mapping == <<peers, table, kernel>>
daemonVars    == <<world, device, bounds, pc, links, mapping, http>>

NoCard == [index |-> 0]
Present == card # NoCard
Fresh(n) == [index |-> n, mode |-> "managed", up |-> FALSE, chan |-> 0]

DaemonInit ==
    /\ world \in Worlds
    /\ card = IF world.coexist \/ world.assume THEN [Fresh(1) EXCEPT !.mode = "monitor", !.up = TRUE]
              ELSE Fresh(1)
    /\ managed = world.manager
    /\ plugs = 1 /\ callFaults = 0
    /\ pc = "tap"
    /\ tap = FALSE /\ socket = 0 /\ expected = 0 /\ errors = 0 /\ swapped = FALSE
    /\ peers = {} /\ table = {} /\ kernel = {}
    /\ http = "configured"
-----------------------------------------------------------------------------
(* Opening the links.                                                      *)

\* probe_adapter and AdapterReport::is_unusable: certain only when the card is absent or
\* the driver answers that it has no monitor mode.
Unusable == ~Present \/ (world.probes /\ ~world.monitor)

\* A call fails although nothing stands against it.
Fault == callFaults < MaxCallFaults /\ callFaults' = callFaults + 1

\* The links are dropped: with its last descriptor awdl0 goes, and what the kernel knows
\* of it.
CloseLinks(where) ==
    /\ pc' = where
    /\ tap' = FALSE /\ socket' = 0 /\ kernel' = {} /\ swapped' = FALSE
    /\ UNCHANGED <<world, expected, errors, peers, table, http>>

\* The call at `here`: it succeeds (Does, and on to `next`) where Can holds; otherwise the
\* links are dropped, and the process ends where Final holds.
Call(here, Can, Final, Does, next) ==
    /\ pc = here
    /\ \/ /\ Can /\ Does
          /\ pc' = next
          /\ UNCHANGED <<world, bounds, mapping, expected, errors, swapped, http>>
       \/ /\ (~Can /\ UNCHANGED callFaults) \/ (Can /\ Fault)
          /\ UNCHANGED device
          /\ CloseLinks(IF Final THEN "exited" ELSE "asleep")
          /\ UNCHANGED plugs

\* awdl0 is made.
OpenTap ==
    Call("tap", TRUE, FALSE, tap' = TRUE /\ UNCHANGED <<device, socket>>, "address")

\* get_hwaddr of the card: a card that cannot be found ends the daemon.
ReadAddress ==
    Call("address", Present, Unusable, UNCHANGED <<device, tap, socket>>, "host")

\* Address, MTU and state of awdl0.  Whoever does not own the radio goes on with set_up.
ConfigureHost ==
    Call("host", TRUE, FALSE, UNCHANGED <<device, tap, socket>>,
         IF world.assume \/ world.coexist THEN "up" ELSE "release")

\* release_from_network_manager, as far as there is a card to release.
\* Whether nmcli works is not looked at.
Release ==
    /\ pc = "release"
    /\ pc' = "down"
    /\ \/ managed' = (managed /\ ~Present) /\ UNCHANGED callFaults
       \/ managed /\ Fault /\ UNCHANGED managed
    /\ UNCHANGED <<world, card, plugs, links, mapping, http>>

\* netdev::set_down; whether it works is not looked at.
TakeDown ==
    /\ pc = "down"
    /\ pc' = "monitor"
    /\ card' = IF Present THEN [card EXCEPT !.up = FALSE] ELSE card
    /\ UNCHANGED <<world, managed, bounds, links, mapping, http>>

\* nl80211::set_monitor: not on a card that is up.
SetMonitor ==
    Call("monitor", Present /\ world.monitor /\ (Present => ~card.up), Unusable,
         card' = [card EXCEPT !.mode = "monitor"] /\ UNCHANGED <<managed, tap, socket>>, "up")

\* netdev::set_up
BringUp ==
    Call("up", Present, FALSE,
         card' = [card EXCEPT !.up = TRUE] /\ UNCHANGED <<managed, tap, socket>>, "tune")

\* The channel of a radio of one's own: on a shared one it would take the station away.
Tuned(c) ==
    IF world.coexist THEN UNCHANGED card ELSE card' = [card EXCEPT !.chan = c]

\* nl80211::set_channel
Tune ==
    Call("tune", Present \/ world.coexist, FALSE, Tuned(Anchor) /\ UNCHANGED <<managed, tap, socket>>,
         "bind")

\* PacketSocket::open_bound
Bind ==
    Call("bind", Present, FALSE, socket' = card.index /\ UNCHANGED <<device, tap>>, "tx")

\* The sending side: a second packet socket, or the station's interface.
OpenTx ==
    Call("tx", Present \/ world.coexist, FALSE, UNCHANGED <<device, tap, socket>>, "start")

\* The first lines of run.  The address of the HTTP server is given to the first run only.
Launch ==
    /\ pc = "start"
    /\ pc' = "running"
    /\ expected' = card.index
    /\ errors' = 0
    /\ peers' = {} /\ table' = {}
    /\ \/ /\ http' = (IF http = "configured" THEN "up" ELSE http)
          /\ UNCHANGED callFaults
       \/ /\ http = "configured" /\ http' = "none" /\ Fault
    /\ UNCHANGED <<world, device, plugs, tap, socket, swapped, kernel>>

OpenLinks == OpenTap \/ ReadAddress \/ ConfigureHost \/ Release \/ TakeDown \/ SetMonitor \/ BringUp
        \/ Tune \/ Bind \/ OpenTx \/ Launch

\* main sleeps for a second and starts again.
WakeUp ==
    /\ pc = "asleep"
    /\ pc' = "tap"
    /\ UNCHANGED <<world, device, bounds, links, mapping, http>>
-----------------------------------------------------------------------------
(* Running.                                                                *)

Running == pc = "running"

\* Mutant: only whether the interface is up is looked at.
LooksUp == Present /\ card.up

\* ifindex and is_up: the interface the socket was opened on is there and up.
Healthy == Present /\ card.index = expected /\ card.up

\* Once a second.
CheckInterface ==
    /\ Running
    /\ ~Healthy
    /\ CloseLinks("asleep")
    /\ UNCHANGED <<device, bounds>>

\* A hop, or a parking place.
Hop(c) ==
    /\ Running /\ Present
    /\ Tuned(c)
    /\ UNCHANGED <<world, managed, bounds, pc, links, mapping, http>>

\* Mutant: the table does not keep in mind whom it knows.
Forgotten(p) == table

\* NeighborTable::note_peer_seen
Noted(p) == table \cup {p}

\* add_neighbor and remove_neighbor: a call that fails is logged and not repeated.
SetNeighbors(added, removed) ==
    \/ kernel' = (kernel \cup added) \ removed /\ UNCHANGED callFaults
    \/ added \cup removed # {} /\ Fault /\ UNCHANGED kernel

\* An action frame of p is received: the sender becomes a peer, and a neighbour if it was
\* not known.
Receive(p) ==
    /\ Running /\ Present
    /\ card.index = socket /\ card.up /\ card.mode = "monitor"
    /\ errors' = 0
    /\ peers' = peers \cup {p}
    /\ table' = Noted(p)
    /\ SetNeighbors({p} \ table, {})
    /\ UNCHANGED <<world, device, plugs, pc, tap, socket, expected, swapped, http>>

\* NeighborTable::evict_stale
Evicted(live) == table \ live

\* Peers not heard for their lease are dropped, and then their neighbour entries.
Clean(gone) ==
    /\ Running
    /\ peers' = peers \ gone
    /\ table' = table \ Evicted(peers')
    /\ SetNeighbors({}, Evicted(peers'))
    /\ UNCHANGED <<world, device, plugs, pc, links, http>>

\* The monitor socket reports an error: it is drained, and after too many in a row the
\* links are opened anew.
PollError ==
    /\ Running
    /\ Fault
    /\ \/ /\ errors + 1 < MaxErrors /\ errors' = errors + 1
          /\ UNCHANGED <<world, pc, tap, socket, expected, swapped, mapping, http>>
       \/ /\ errors + 1 >= MaxErrors /\ CloseLinks("asleep")
    /\ UNCHANGED <<device, plugs>>

\* awdl0 cannot be read or reports an error, or poll fails.
TapError ==
    /\ Running
    /\ Fault
    /\ CloseLinks("asleep")
    /\ UNCHANGED <<device, plugs>>

Run == \/ CheckInterface \/ PollError \/ TapError
       \/ \E c \in Channels : Hop(c)
       \/ \E p \in Neighbors : Receive(p)
       \/ \E gone \in SUBSET peers : Clean(gone)
-----------------------------------------------------------------------------
(* The card and its manager.                                               *)

Unplug ==
    /\ Present /\ plugs < MaxPlugs
    /\ card' = NoCard
    /\ UNCHANGED <<world, managed, bounds, pc, links, mapping, http>>

\* open_links has changed something of the card, or is about to, and what it read or bound
\* before is not looked at again.
Configuring == pc \in {"down", "monitor", "up", "tune", "bind", "tx", "start"}

\* The card comes back under its name with a new index, at any time after it was pulled.
Plug ==
    /\ ~Present
    /\ plugs' = plugs + 1
    /\ card' = Fresh(plugs + 1) /\ managed' = world.manager
    /\ swapped' = (swapped \/ Configuring)
    /\ UNCHANGED <<world, callFaults, pc, tap, socket, expected, errors, mapping, http>>

TakenDown ==
    /\ Present /\ card.up
    /\ Fault
    /\ card' = [card EXCEPT !.up = FALSE]
    /\ UNCHANGED <<world, managed, plugs, pc, links, mapping, http>>

\* NetworkManager makes a card it manages ready for itself.
Manage ==
    /\ Present /\ managed
    /\ card' = [card EXCEPT !.mode = "managed", !.up = TRUE]
    /\ UNCHANGED <<world, managed, bounds, pc, links, mapping, http>>

DaemonNext == OpenLinks \/ WakeUp \/ Run \/ Unplug \/ Plug \/ TakenDown \/ Manage

\* The process goes on; in particular the check of every second comes.
DaemonFairness ==
    WF_daemonVars(OpenLinks) /\ WF_daemonVars(WakeUp) /\ WF_daemonVars(CheckInterface)

DaemonSpec == DaemonInit /\ [][DaemonNext]_daemonVars /\ DaemonFairness
-----------------------------------------------------------------------------
(* Properties.                                                             *)

\* The daemon's socket is the one of the card that is there, which is up and (unless someone
\* else decides on the mode) in monitor mode.
Listening ==
    /\ Running /\ socket = card.index /\ card.up
    /\ ~(world.assume \/ world.coexist \/ managed) => card.mode = "monitor"

\* There is nothing to listen on, or the daemon has given up.
Hopeless == pc = "exited" \/ ~Present \/ (~Running /\ ~world.monitor)

\* "If the monitor is down, gone, or re-enumerated, return so main()'s retry loop re-runs
\* open_links": whatever was pulled, taken down or failed, the daemon ends listening.
AlwaysListens == <>[](Listening \/ Hopeless)

\* It does but for one case: a card exchanged while open_links was configuring it, which
\* then looks to CheckInterface like the one it opened.
Recovers == <>[](Listening \/ Hopeless \/ (Running /\ swapped /\ Healthy))

\* The kernel's neighbours of awdl0 are the daemon's peers, through reopened links, dropped
\* peers and peers that come back, unless a call of the kernel failed.
NeighborsArePeers == Running /\ callFaults = 0 => kernel = peers

\* "Rather than exit, retry open_links + run forever": the daemon only gives up on a card
\* that has no monitor mode.
GivesUpOnlyForGood == pc = "exited" => ~world.monitor
=============================================================================
