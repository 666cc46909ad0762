-------------------------- MODULE BeaconPool_proofs --------------------------
(***************************************************************************)
(* What BeaconPool promises for every set of endpoints and every number of *)
(* failures. That PoolWatches is kept rests on PoolInv: an attempt under   *)
(* way has a timer behind it or is connectBeacon's, and a client that is   *)
(* connected, or was told to disconnect, does not claim to be connecting.  *)
(***************************************************************************)
EXTENDS BeaconPool, TLAPS

Sockets == {"none", "opening", "refused", "open", "closed"}

Entries == [ pooled     : BOOLEAN,
             endpoint   : Endpoints \cup {Disabled},
             socket     : Sockets,
             connecting : BOOLEAN,
             timer      : BOOLEAN,
             byHand     : BOOLEAN ]

\* An entry the pool has not lost sight of.
IsWatched(e) ==
  /\ e.socket = "opening" \/ e.connecting => e.timer \/ e.byHand
  /\ e.socket \in {"none", "open"} => ~e.connecting

PoolInv == PoolTypeOK /\ IsWatched(entry)

-----------------------------------------------------------------------------
(***************************************************************************)
(* The operations on an entry.                                             *)
(***************************************************************************)
LEMMA NewEntryIsWatched ==
  ASSUME NEW endpoint \in Endpoints \cup {Disabled}
  PROVE  NewEntry(endpoint) \in Entries /\ IsWatched(NewEntry(endpoint))
  BY DEF NewEntry, ScheduleNextAttempt, ForceReconnect, NoEntry, Entries, Sockets,
         IsWatched, Disabled

LEMMA GetOrCreateIsWatched ==
  ASSUME NEW endpoint \in Endpoints \cup {Disabled},
         entry \in Entries, IsWatched(entry)
  PROVE  GetOrCreate(endpoint) \in Entries /\ IsWatched(GetOrCreate(endpoint))
  BY NewEntryIsWatched DEF GetOrCreate

LEMMA ReconnectIsWatched ==
  ASSUME NEW e \in Entries
  PROVE  /\ ForceReconnect(e) \in Entries
         /\ ForceReconnect(e).timer = e.timer
         /\ ForceReconnect(e).socket = "opening"
         /\ e.timer => IsWatched(ForceReconnect(e))
         /\ ScheduleNextAttempt(e) \in Entries
         /\ ScheduleNextAttempt(ForceReconnect(e)) \in Entries
         /\ IsWatched(ScheduleNextAttempt(ForceReconnect(e)))
         /\ [ForceReconnect(e) EXCEPT !.byHand = ~e.timer] \in Entries
         /\ IsWatched([ForceReconnect(e) EXCEPT !.byHand = ~e.timer])
  BY DEF ForceReconnect, ScheduleNextAttempt, Entries, Sockets, IsWatched

LEMMA PoolStep ==
  ASSUME BeaconAssumption, PoolInv, PoolNext
  PROVE  PoolInv'
<1> USE DEF PoolInv, PoolTypeOK, Disturb
<1> entry \in Entries /\ IsWatched(entry)
  BY DEF Entries, Sockets
<1> SUFFICES /\ config' \in Endpoints \cup {Disabled} /\ up' \in BOOLEAN
             /\ spent' \in 0 .. Budget
             /\ entry' \in Entries /\ IsWatched(entry')
  BY DEF Entries, Sockets, IsWatched
<1>1. CASE GoesDown
  <2> spent' \in 0 .. Budget
    BY <1>1, BeaconAssumption DEF GoesDown, BeaconAssumption
  <2> QED BY <1>1, Zenon DEF GoesDown
<1>2. CASE ComesUp
  BY <1>2 DEF ComesUp
<1>3. CASE OnConnect
  BY <1>3 DEF OnConnect, Entries, Sockets, IsWatched
<1>4. CASE OnConnectError
  BY <1>4 DEF OnConnectError, Entries, Sockets, IsWatched
<1>5. CASE OnDisconnect
  <2>1. spent' \in 0 .. Budget
    BY <1>5, BeaconAssumption DEF OnDisconnect, BeaconAssumption
  <2>2. entry' \in Entries /\ IsWatched(entry')
    BY <1>5 DEF OnDisconnect, Connected, Entries, Sockets, IsWatched
  <2> QED BY <1>5, <2>1, <2>2 DEF OnDisconnect
<1>6. CASE RetryTimer
  <2>1. CASE Connected
    BY <1>6, <2>1 DEF RetryTimer, Connected, Entries, Sockets, IsWatched
  <2>2. CASE ~Connected
    BY <1>6, <2>2, ReconnectIsWatched DEF RetryTimer
  <2> QED BY <2>1, <2>2
<1>7. CASE HealthCheck
  BY <1>7 DEF HealthCheck, ScheduleNextAttempt, Entries, Sockets, IsWatched
<1>8. CASE UseClient
  BY <1>8, GetOrCreateIsWatched DEF UseClient
<1>9. CASE Administer
  <2> spent' \in 0 .. Budget
    BY <1>9, BeaconAssumption
    DEF Administer, UpdateServer, ConnectBeacon, ReconnectBeacon, DisconnectBeacon,
        BeaconAssumption
  <2>1. ASSUME NEW endpoint \in Endpoints \cup {Disabled}, UpdateServer(endpoint)
        PROVE  PoolInv'
    <3> NoEntry \in Entries /\ IsWatched(NoEntry)
      BY DEF NoEntry, Entries, Sockets, IsWatched
    <3> QED BY <2>1 DEF UpdateServer, Entries, Sockets
  <2>2. CASE ConnectBeacon
    BY <2>2, GetOrCreateIsWatched, ReconnectIsWatched DEF ConnectBeacon
  <2>3. CASE ReconnectBeacon
    BY <2>3, ReconnectIsWatched DEF ReconnectBeacon
  <2>4. CASE DisconnectBeacon
    BY <2>4 DEF DisconnectBeacon, Disconnected, Entries, Sockets, IsWatched
  <2> QED BY <1>9, <2>1, <2>2, <2>3, <2>4 DEF Administer, Entries, Sockets
<1>10. CASE RestartPool
  <2> NoEntry \in Entries /\ IsWatched(NoEntry)
    BY DEF NoEntry, Entries, Sockets, IsWatched
  <2> QED BY <1>10, BeaconAssumption DEF RestartPool, BeaconAssumption
<1> QED
  BY <1>1, <1>2, <1>3, <1>4, <1>5, <1>6, <1>7, <1>8, <1>9, <1>10
  DEF PoolNext, Network, Pool

LEMMA PoolStarts ==
  ASSUME BeaconAssumption, PoolInit
  PROVE  PoolInv
  BY DEF BeaconAssumption, PoolInit, PoolInv, PoolTypeOK, NoEntry, Disabled, IsWatched

-----------------------------------------------------------------------------
(***************************************************************************)
(* Theorems.                                                               *)
(***************************************************************************)
THEOREM PoolInvariant == PoolSpec => []PoolInv
<1>1. PoolInit => PoolInv
  BY BeaconAssumption, PoolStarts
<1>2. PoolInv /\ [PoolNext]_poolVars => PoolInv'
  <2>1. CASE PoolNext
    BY <2>1, BeaconAssumption, PoolStep
  <2>2. CASE UNCHANGED poolVars
    BY <2>2 DEF poolVars, PoolInv, PoolTypeOK, IsWatched
  <2> QED BY <2>1, <2>2
<1> QED BY <1>1, <1>2, PTL DEF PoolSpec

\* The pool never loses sight of a client by its own doing: whichever endpoints
\* there are and however often connections fail, addresses change and
\* administrators step in, a client that says it is connecting is trying, has a
\* timer, or was last connected by connectBeacon.
THEOREM PoolSpecWatches == PoolSpec => []PoolWatches
<1>1. PoolInv => PoolWatches
  BY DEF PoolInv, IsWatched, PoolWatches, Trying
<1> QED BY <1>1, PoolInvariant, PTL
=============================================================================
