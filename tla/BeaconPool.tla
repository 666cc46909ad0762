----------------------------- MODULE BeaconPool -----------------------------
(***************************************************************************)
(* How the backend stays connected to the beacon of one Minecraft server:  *)
(* lib/hydroline-beacon (pool.service.ts, beacon.client.ts, beacon.lib.ts) *)
(* and the handlers of minecraft-server.service.ts that configure, connect *)
(* and disconnect it. The pool keeps one entry per server, and the entries *)
(* do not touch each other.                                                *)
(*                                                                         *)
(* A timer is armed or not; that it is due is left to chance. Client       *)
(* objects the pool has dropped are not followed: nothing reads them.      *)
(***************************************************************************)
EXTENDS Naturals, FiniteSets

CONSTANTS
  Endpoints,   \* the addresses the beacon can be reached at
  FirstEndpoint, \* the one it is configured with at first
  Budget       \* bound: how often something happens that need not happen: a
               \* failure, an administrator stepping in

ASSUME BeaconAssumption ==
  FirstEndpoint \in Endpoints /\ Budget \in Nat

VARIABLES
  config,  \* the endpoint in the server's row, Disabled without one
  up,      \* the beacon can be reached
  entry,   \* the pool's entry for the server
  spent    \* how much of Budget is used up

poolVars == <<config, up, entry, spent>>

-----------------------------------------------------------------------------
(***************************************************************************)
(* The client of an entry. connecting is a flag of its own, which a failed *)
(* attempt does not reset.                                                 *)
(***************************************************************************)
Disabled == "disabled"

NoEntry == [ pooled     |-> FALSE,
             endpoint   |-> Disabled,
             socket     |-> "none",
             connecting |-> FALSE,
             timer      |-> FALSE,
             byHand     |-> FALSE ] \* history: the attempt is connectBeacon's alone

Connected == entry.socket = "open"

\* forceReconnect: disconnect and ensureSocket.
ForceReconnect(e) ==
  [e EXCEPT !.socket = "opening", !.connecting = TRUE, !.byHand = FALSE]

Disconnected(e) ==
  IF e.socket = "none" THEN e
  ELSE [e EXCEPT !.socket = "none", !.connecting = FALSE, !.byHand = FALSE]

ScheduleNextAttempt(e) == [e EXCEPT !.timer = TRUE]

NewEntry(endpoint) ==
  ScheduleNextAttempt(ForceReconnect(
    [NoEntry EXCEPT !.pooled = TRUE, !.endpoint = endpoint]))

\* An entry for another endpoint is dropped.
GetOrCreate(endpoint) ==
  IF entry.pooled /\ entry.endpoint = endpoint THEN entry ELSE NewEntry(endpoint)

PoolInit ==
  /\ config = FirstEndpoint
  /\ up = TRUE
  /\ entry = NoEntry
  /\ spent = 0

Disturb == spent < Budget /\ spent' = spent + 1

-----------------------------------------------------------------------------
(***************************************************************************)
(* The beacon and the network.                                             *)
(***************************************************************************)
GoesDown ==
  /\ up /\ Disturb /\ up' = FALSE
  /\ UNCHANGED <<config, entry>>

ComesUp ==
  /\ ~up /\ up' = TRUE
  /\ UNCHANGED <<config, entry, spent>>

\* The handlers of connect, connect_error and disconnect.
OnConnect ==
  /\ entry.socket = "opening" /\ up
  /\ entry' = [entry EXCEPT !.socket = "open", !.connecting = FALSE,
                            !.byHand = FALSE]
  /\ UNCHANGED <<config, up, spent>>

OnConnectError ==
  /\ entry.socket = "opening" /\ ~up
  /\ entry' = [entry EXCEPT !.socket = "refused"]
  /\ UNCHANGED <<config, up, spent>>

OnDisconnect ==
  /\ Connected
  /\ \/ ~up /\ UNCHANGED spent
     \/ up /\ Disturb
  /\ entry' = [entry EXCEPT !.socket = "closed", !.connecting = FALSE]
  /\ UNCHANGED <<config, up>>

-----------------------------------------------------------------------------
(***************************************************************************)
(* The pool.                                                               *)
(***************************************************************************)
RetryTimer_Once ==
  /\ entry.timer
  /\ entry' = IF Connected THEN [entry EXCEPT !.timer = FALSE]
              ELSE ForceReconnect([entry EXCEPT !.timer = FALSE])
  /\ UNCHANGED <<config, up, spent>>

\* The chain of attempts ends when it finds the client connected.
RetryTimer ==
  /\ entry.timer
  /\ entry' = IF Connected THEN [entry EXCEPT !.timer = FALSE]
              ELSE ScheduleNextAttempt(ForceReconnect(entry))
  /\ UNCHANGED <<config, up, spent>>

HealthCheck_OnlyNew ==
  /\ entry.pooled /\ entry.socket = "none" /\ ~entry.timer
  /\ entry' = ScheduleNextAttempt(entry)
  /\ UNCHANGED <<config, up, spent>>

HealthCheck ==
  /\ entry.pooled /\ ~Connected /\ ~entry.connecting /\ ~entry.timer
  /\ entry' = ScheduleNextAttempt(entry)
  /\ UNCHANGED <<config, up, spent>>

\* refreshAll at start, refreshForServer after an update of the server, and
\* every request that needs the client.
UseClient ==
  /\ config # Disabled
  /\ entry' = GetOrCreate(config)
  /\ UNCHANGED <<config, up, spent>>

\* updateServer, which removes the entry when the beacon is disabled, but not when
\* its address is taken away; nor does deleteServer.
UpdateServer(endpoint) ==
  /\ Disturb
  /\ endpoint # config /\ config' = endpoint
  /\ \/ endpoint = Disabled /\ entry' = NoEntry
     \/ UNCHANGED entry
  /\ UNCHANGED up

\* connectBeacon reconnects the client behind the pool's back: nobody tries again
\* unless the pool was about to.
ConnectBeacon ==
  /\ Disturb
  /\ config # Disabled
  /\ LET e == GetOrCreate(config)
     IN  entry' = [ForceReconnect(e) EXCEPT !.byHand = ~e.timer]
  /\ UNCHANGED <<config, up>>

ReconnectBeacon ==
  /\ Disturb
  /\ config # Disabled /\ entry.pooled
  /\ entry' = ScheduleNextAttempt(ForceReconnect(entry))
  /\ UNCHANGED <<config, up>>

DisconnectBeacon ==
  /\ Disturb
  /\ config # Disabled /\ entry.pooled
  /\ entry' = Disconnected([entry EXCEPT !.timer = FALSE])
  /\ UNCHANGED <<config, up>>

Administer ==
  \/ \E endpoint \in Endpoints \cup {Disabled} : UpdateServer(endpoint)
  \/ ConnectBeacon
  \/ ReconnectBeacon
  \/ DisconnectBeacon

\* The pool does not outlive the server process.
RestartPool ==
  /\ Disturb
  /\ entry' = NoEntry
  /\ UNCHANGED <<config, up>>

Network  == GoesDown \/ ComesUp \/ OnConnect \/ OnConnectError \/ OnDisconnect
Pool     == RetryTimer \/ HealthCheck \/ UseClient
PoolNext == Network \/ Pool \/ Administer \/ RestartPool
PoolSpec == PoolInit /\ [][PoolNext]_poolVars

-----------------------------------------------------------------------------
(***************************************************************************)
(* Properties.                                                             *)
(***************************************************************************)
PoolTypeOK ==
  /\ config \in Endpoints \cup {Disabled}
  /\ up \in BOOLEAN
  /\ entry \in [ pooled     : BOOLEAN,
                 endpoint   : Endpoints \cup {Disabled},
                 socket     : {"none", "opening", "refused", "open", "closed"},
                 connecting : BOOLEAN,
                 timer      : BOOLEAN,
                 byHand     : BOOLEAN ]
  /\ spent \in 0 .. Budget

\* A client that says it is connecting is trying, or will try again: otherwise
\* the health check passes it over for good. frontend ServerStatusView.vue:121
\* shows such a client to the user as one that is being connected.
Trying == entry.socket = "opening" \/ entry.timer

ConnectingIsTrue == entry.connecting => Trying

\* The pool never loses sight of a client by its own doing, in whatever order
\* connections fail, timers fire, addresses change and clients are used: one that
\* is stuck was last connected by connectBeacon.
PoolWatches == entry.connecting => Trying \/ entry.byHand
=============================================================================
