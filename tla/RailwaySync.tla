----------------------------- MODULE RailwaySync -----------------------------
(***************************************************************************)
(* How the railway data of one Minecraft server is copied from its beacon  *)
(* into the database: transportation/railway/services/                     *)
(* railway-sync.service.ts, on top of the pool of beacon clients.          *)
(*                                                                         *)
(* Three processes copy: the scheduled synchronisation, which also runs    *)
(* when the server starts, a synchronisation job and a log job. Each has a *)
(* guard in memory against a second one of its kind, none against the      *)
(* others. A step is one request to the beacon or one database call, and   *)
(* any of them may fail; the server may stop between any two. The upserts  *)
(* of a batch run in parallel: when one fails the others go on, also after *)
(* the synchronisation is over.                                            *)
(*                                                                         *)
(* The scheduled synchronisation copies all servers in turn and gives up   *)
(* with the first that fails. This one has others before it in the list.   *)
(*                                                                         *)
(* One of the six categories stands for all, and some of its rows for the  *)
(* batches. Of a row's syncedAt matters which synchronisations under way   *)
(* would take it for stale: stale holds their names. (An equal syncedAt,   *)
(* of two in the same millisecond, is not modelled.)                       *)
(***************************************************************************)
EXTENDS BeaconPool, Sequences

CONSTANTS
  Entities,   \* what the beacon may know
  LogRows,    \* the log rows the beacon has
  Recent,     \* those within LOG_LOOKBACK_DAYS
  JobKinds,   \* the jobs that are enqueued: "sync", "diff", "full"
  MaxJobs     \* bound: how many jobs are enqueued

ASSUME SyncAssumption ==
  MaxJobs \in Nat /\ JobKinds \subseteq {"sync", "diff", "full"} /\ Recent \subseteq LogRows

VARIABLES
  world,     \* the beacon's entities, as a function to their versions
  active,    \* isActive in the server's row
  ahead,     \* one of the servers before it in the list cannot be copied
  table,     \* the rows of the category: version, stale
  logs,      \* the log rows in the database
  strays,    \* the writes to table under way for a synchronisation that failed
  logStrays, \* and those to logs
  syncing,   \* the guard of runSync
  jobs,      \* kind and status of the job rows
  queued,    \* the jobs that are about to be executed
  orphans,   \* history: the jobs that a restart cut off, or whose row could not
             \* be read or written
  run,       \* the local variables of the three processes
  newest     \* of two that overlap, the one that began last

outside  == <<world, active, ahead>>
tables   == <<table, logs, strays, logStrays>>
guards   == <<syncing, jobs, queued, orphans>>
syncVars == <<poolVars, outside, tables, guards, run, newest>>

Procs    == {"cron", "job", "log"}
NoRows   == [e \in {} |-> 0]
Versions == 0 .. Budget

Idle == [ pc       |-> "idle",
          job      |-> 0,        \* the job executed
          endpoint |-> Disabled, \* the server's row as it was read
          full     |-> FALSE,    \* the log is copied as a whole
          answer   |-> NoRows,   \* what the beacon answered
          todo     |-> {},       \* what of it has not been written yet
          late     |-> FALSE ]   \* another one was copying when this one began,
                                 \* or had left writes behind

Without(f, e) == [x \in DOMAIN f \ {e} |-> f[x]]
With(f, e, v) == [x \in DOMAIN f \cup {e} |-> IF x = e THEN v ELSE f[x]]

\* Between taking its marker and deleting stale rows.
Copying(p) == run[p].pc \in {"query", "upsert"}

\* To whom a row written by p is stale: to one that began after p did.
StaleTo(p) == {q \in Procs \ {p} : Copying(q) /\ newest = q}

\* Nothing is stale to a synchronisation that is over.
Forgotten(p) == [e \in DOMAIN table |-> [table[e] EXCEPT !.stale = @ \ {p}]]
ForgottenStrays(p) == {[s EXCEPT !.stale = @ \ {p}] : s \in strays}

Write(p, e) == [entity |-> e, version |-> run[p].answer[e], stale |-> StaleTo(p)]

Fails_KeepGuard(p, left) ==
  /\ run' = [run EXCEPT ![p] = IF p = "cron" THEN Idle
                               ELSE [Idle EXCEPT !.pc = "failed", !.job = run[p].job]]
  /\ table' = Forgotten(p)
  /\ strays' = ForgottenStrays(p)
                 \cup IF run[p].pc = "upsert" THEN {Write(p, e) : e \in left} ELSE {}
  /\ logStrays' = logStrays \cup IF run[p].pc = "logrows" THEN left ELSE {}
  /\ newest' = (IF Copying(p) THEN "cron" ELSE newest)
  /\ UNCHANGED <<logs, guards>>

\* A step of p throws. The scheduled synchronisation is over; a job has yet to
\* write that it failed. The writes in left are under way.
Fails(p, left) ==
  /\ run' = [run EXCEPT ![p] = IF p = "cron" THEN Idle
                               ELSE [Idle EXCEPT !.pc = "failed", !.job = run[p].job]]
  /\ syncing' = (p # "cron" /\ syncing)
  /\ table' = Forgotten(p)
  /\ strays' = ForgottenStrays(p)
                 \cup IF run[p].pc = "upsert" THEN {Write(p, e) : e \in left} ELSE {}
  /\ logStrays' = logStrays \cup IF run[p].pc = "logrows" THEN left ELSE {}
  /\ newest' = (IF Copying(p) THEN "cron" ELSE newest)
  /\ UNCHANGED <<logs, jobs, queued, orphans>>

SyncInit ==
  /\ PoolInit
  /\ world = [e \in Entities |-> 0]
  /\ active = TRUE
  /\ ahead = FALSE
  /\ table = NoRows
  /\ logs = {}
  /\ strays = {}
  /\ logStrays = {}
  /\ syncing = FALSE
  /\ jobs = << >>
  /\ queued = {}
  /\ orphans = {}
  /\ run = [p \in Procs |-> Idle]
  /\ newest = "cron"

-----------------------------------------------------------------------------
(***************************************************************************)
(* Starting: the cron job, the request that enqueues a job, executeSyncJob *)
(* and executeLogSyncJob.                                                  *)
(***************************************************************************)
HandleScheduledSync ==
  /\ ~syncing
  /\ syncing' = TRUE
  /\ run' = [run EXCEPT !["cron"] = [Idle EXCEPT !.pc = "servers"]]
  /\ UNCHANGED <<poolVars, outside, tables, jobs, queued, orphans, newest>>

EnqueueJob_OffByOne(kind) ==
  /\ Len(jobs) < MaxJobs
  /\ jobs' = Append(jobs, [kind |-> kind, status |-> "PENDING"])
  /\ queued' = queued \cup {Len(jobs)}
  /\ UNCHANGED <<poolVars, outside, tables, syncing, orphans, run, newest>>

EnqueueJob(kind) ==
  /\ Len(jobs) < MaxJobs
  /\ jobs' = Append(jobs, [kind |-> kind, status |-> "PENDING"])
  /\ queued' = queued \cup {Len(jobs) + 1}
  /\ UNCHANGED <<poolVars, outside, tables, syncing, orphans, run, newest>>

ProcessOf(kind) == IF kind = "sync" THEN "job" ELSE "log"

\* Behind the guard the job is RUNNING, or has failed to write so.
StartJob(j, p) ==
  /\ run[p].pc = "idle"
  /\ \/ /\ run' = [run EXCEPT ![p] = [Idle EXCEPT !.pc = "servers", !.job = j,
                                                 !.full = jobs[j].kind = "full"]]
        /\ jobs' = [jobs EXCEPT ![j].status = "RUNNING"]
        /\ UNCHANGED spent
     \/ /\ Disturb
        /\ run' = [run EXCEPT ![p] = [Idle EXCEPT !.pc = "failed", !.job = j]]
        /\ UNCHANGED jobs
  /\ UNCHANGED orphans

RefuseJob(j, p) ==
  /\ run[p].pc # "idle"
  /\ jobs' = [jobs EXCEPT ![j].status = "FAILED"]
  /\ UNCHANGED <<spent, run, orphans>>

\* The row cannot be read, or the refusal not be written: the caller logs it.
LoseJob(j) ==
  /\ Disturb
  /\ orphans' = orphans \cup {j}
  /\ UNCHANGED <<jobs, run>>

ExecuteJob(j) ==
  LET p == ProcessOf(jobs[j].kind)
  IN  /\ j \in queued
      /\ queued' = queued \ {j}
      /\ StartJob(j, p) \/ RefuseJob(j, p) \/ LoseJob(j)
      /\ UNCHANGED <<config, up, entry, outside, tables, syncing, newest>>

ListServers_LeaveRow(p) ==
  /\ run[p].pc = "servers"
  /\ IF config = Disabled \/ ~active
     THEN /\ run' = [run EXCEPT ![p] = Idle]
          /\ syncing' = (p # "cron" /\ syncing)
          /\ UNCHANGED <<poolVars, tables, jobs, queued, orphans>>
     ELSE /\ run' = [run EXCEPT ![p].pc = IF p = "log" THEN "logs" ELSE "begin",
                                ![p].endpoint = config]
          /\ entry' = GetOrCreate(config)
          /\ UNCHANGED <<config, up, spent, tables, guards>>
  /\ UNCHANGED <<outside, newest>>

\* listBeaconServers and ensureBeaconClient. waitForBeaconConnections, which goes
\* on as well when its time is over, is the time until the next step.
ListServers(p) ==
  /\ run[p].pc = "servers"
  /\ IF config = Disabled \/ ~active
     THEN Fails(p, {}) /\ UNCHANGED poolVars
     ELSE /\ run' = [run EXCEPT ![p].pc = IF p = "log" THEN "logs" ELSE "begin",
                                ![p].endpoint = config]
          /\ entry' = GetOrCreate(config)
          /\ UNCHANGED <<config, up, spent, tables, guards, newest>>
  /\ UNCHANGED outside

\* The round of runSync ends with the first server that fails.
ServerAheadFails(p) ==
  /\ p = "cron" /\ run[p].pc = "begin" /\ ahead
  /\ Fails(p, {})
  /\ UNCHANGED <<poolVars, outside>>

-----------------------------------------------------------------------------
(***************************************************************************)
(* syncServer and syncCategory.                                            *)
(***************************************************************************)
BeginSync(p) ==
  /\ run[p].pc = "begin"
  /\ p = "cron" => ~ahead
  /\ table' = [e \in DOMAIN table |-> [table[e] EXCEPT !.stale = @ \cup {p}]]
  /\ strays' = {[s EXCEPT !.stale = @ \cup {p}] : s \in strays}
  /\ LET late == strays # {} \/ \E q \in Procs \ {p} : Copying(q)
     IN  /\ run' = [run EXCEPT ![p].pc = "query", ![p].late = late]
         /\ newest' = IF late THEN p ELSE "cron"
  /\ UNCHANGED <<poolVars, outside, logs, logStrays, guards>>

\* emitBeacon takes the client for the endpoint read before, and throws without
\* a connection or when the answer does not come in time.
Emit(p) == entry' = GetOrCreate(run[p].endpoint)
Answers == entry'.socket = "open" /\ up

NoAnswer(p) ==
  /\ run[p].pc \in {"query", "logquery"}
  /\ Emit(p)
  /\ \/ ~Answers /\ UNCHANGED spent
     \/ Answers /\ Disturb
  /\ Fails(p, {})
  /\ UNCHANGED <<config, up, outside>>

\* An answer that reports an error has no rows, which is not told from a beacon
\* that has no entities.
QueryEntities(p) ==
  /\ run[p].pc = "query"
  /\ Emit(p) /\ Answers
  /\ \E rows \in {world, NoRows} :
       /\ rows # world => Disturb
       /\ rows = world => UNCHANGED spent
       /\ run' = [run EXCEPT ![p].pc = "upsert", ![p].answer = rows,
                             ![p].todo = DOMAIN rows]
  /\ UNCHANGED <<config, up, outside, tables, guards, newest>>

UpsertEntity_KeepMark(p) ==
  /\ run[p].pc = "upsert"
  /\ \E e \in run[p].todo :
       /\ table' = IF e \in DOMAIN table /\ table[e].version = run[p].answer[e]
                   THEN table
                   ELSE With(table, e, [version |-> run[p].answer[e],
                                        stale   |-> StaleTo(p)])
       /\ run' = [run EXCEPT ![p].todo = @ \ {e}]
  /\ UNCHANGED <<poolVars, outside, logs, strays, logStrays, guards, newest>>

\* The upserts of a batch run in parallel. A row that has not changed gets the
\* new syncedAt as well.
UpsertEntity(p) ==
  /\ run[p].pc = "upsert"
  /\ \E e \in run[p].todo :
       /\ table' = With(table, e, [version |-> run[p].answer[e],
                                   stale   |-> StaleTo(p)])
       /\ run' = [run EXCEPT ![p].todo = @ \ {e}]
  /\ UNCHANGED <<poolVars, outside, logs, strays, logStrays, guards, newest>>

DeleteStaleEntities(p) ==
  /\ run[p].pc = "upsert" /\ run[p].todo = {}
  /\ table' = [e \in {x \in DOMAIN table : p \notin table[x].stale} |-> table[e]]
  /\ strays' = ForgottenStrays(p)
  /\ run' = [run EXCEPT ![p].pc = "logs", ![p].answer = NoRows, ![p].late = FALSE]
  /\ newest' = "cron"
  /\ UNCHANGED <<poolVars, outside, logs, logStrays, guards>>

-----------------------------------------------------------------------------
(***************************************************************************)
(* syncLogs: a full copy deletes first. A synchronisation copies the log as*)
(* a whole when there is none yet, a log job as it was asked to.           *)
(***************************************************************************)
CheckLogs(p) ==
  LET full == run[p].full \/ (logs = {} /\ p # "log")
  IN  /\ run[p].pc = "logs"
      /\ logs' = IF full THEN {} ELSE logs
      /\ run' = [run EXCEPT ![p].pc = "logquery", ![p].full = full]
      /\ UNCHANGED <<poolVars, outside, table, strays, logStrays, guards, newest>>

QueryLogs(p) ==
  /\ run[p].pc = "logquery"
  /\ Emit(p) /\ Answers
  /\ run' = [run EXCEPT ![p] =
                [Idle EXCEPT !.pc = "logrows", !.job = run[p].job,
                             !.todo = IF run[p].full THEN LogRows ELSE Recent]]
  /\ UNCHANGED <<config, up, spent, outside, tables, guards, newest>>

UpsertLog(p) ==
  /\ run[p].pc = "logrows"
  /\ \E row \in run[p].todo :
       logs' = logs \cup {row} /\ run' = [run EXCEPT ![p].todo = @ \ {row}]
  /\ UNCHANGED <<poolVars, outside, table, strays, logStrays, guards, newest>>

\* The snapshots computed from the rows are not followed.
EndSync(p) ==
  /\ run[p].pc = "logrows" /\ run[p].todo = {}
  /\ run' = [run EXCEPT ![p] = Idle]
  /\ syncing' = (p # "cron" /\ syncing)
  /\ jobs' = IF p = "cron" THEN jobs
             ELSE [jobs EXCEPT ![run[p].job].status = "SUCCEEDED"]
  /\ UNCHANGED <<poolVars, outside, tables, queued, orphans, newest>>

-----------------------------------------------------------------------------
(***************************************************************************)
(* Failing.                                                                *)
(***************************************************************************)
\* A database call of p fails: when it lists the servers, writes, deletes stale
\* rows or those of the log, computes the snapshots or reports success. Of a batch
\* some upserts were still under way, and others never begin.
DatabaseFails(p) ==
  /\ run[p].pc \in {"servers", "upsert", "logs", "logrows"}
  /\ Disturb
  /\ \E left \in SUBSET run[p].todo : Fails(p, left)
  /\ UNCHANGED <<config, up, entry, outside>>

RecordFailure_OnlyRelease(p) ==
  /\ run[p].pc = "failed"
  /\ run' = [run EXCEPT ![p] = Idle]
  /\ UNCHANGED <<poolVars, outside, tables, guards, newest>>

\* The catch of a job writes that it failed, or fails as well; finally releases
\* the guard.
RecordFailure(p) ==
  /\ run[p].pc = "failed"
  /\ run' = [run EXCEPT ![p] = Idle]
  /\ \/ /\ jobs' = [jobs EXCEPT ![run[p].job].status = "FAILED"]
        /\ UNCHANGED <<spent, orphans>>
     \/ /\ Disturb
        /\ orphans' = orphans \cup {run[p].job}
        /\ UNCHANGED jobs
  /\ UNCHANGED <<config, up, entry, outside, tables, syncing, queued, newest>>

\* A write of a synchronisation that is over comes through.
StrayLands ==
  /\ \/ \E s \in strays :
          /\ table' = With(table, s.entity, [version |-> s.version, stale |-> s.stale])
          /\ strays' = strays \ {s}
          /\ UNCHANGED <<logs, logStrays>>
     \/ \E row \in logStrays :
          /\ logs' = logs \cup {row}
          /\ logStrays' = logStrays \ {row}
          /\ UNCHANGED <<table, strays>>
  /\ UNCHANGED <<poolVars, outside, guards, run, newest>>

-----------------------------------------------------------------------------
Sync(p) ==
  \/ ListServers(p)
  \/ ServerAheadFails(p)
  \/ BeginSync(p)
  \/ NoAnswer(p)
  \/ QueryEntities(p)
  \/ UpsertEntity(p)
  \/ DeleteStaleEntities(p)
  \/ CheckLogs(p)
  \/ QueryLogs(p)
  \/ UpsertLog(p)
  \/ EndSync(p)
  \/ DatabaseFails(p)
  \/ RecordFailure(p)

\* Somebody builds or demolishes something in the game.
EditWorld ==
  /\ Disturb
  /\ \E e \in Entities : world' \in {With(world, e, spent'), Without(world, e)}
  /\ world' # world
  /\ UNCHANGED <<config, up, entry, active, ahead, tables, guards, run, newest>>

\* updateServer changes isActive, of which the pool takes no notice.
Activate ==
  /\ Disturb
  /\ active' = ~active
  /\ UNCHANGED <<config, up, entry, world, ahead, tables, guards, run, newest>>

\* A server before this one in the list stops to answer, or answers again.
ServerAhead ==
  /\ \/ ~ahead /\ Disturb
     \/ ahead /\ UNCHANGED spent
  /\ ahead' = ~ahead
  /\ UNCHANGED <<config, up, entry, world, active, tables, guards, run, newest>>

Unfinished == {j \in DOMAIN jobs : jobs[j].status \in {"PENDING", "RUNNING"}}

\* The server stops and starts again: what is in memory is lost.
Restart ==
  /\ RestartPool
  /\ syncing' = FALSE
  /\ queued' = {}
  /\ orphans' = orphans \cup Unfinished
  /\ run' = [p \in Procs |-> Idle]
  /\ table' = [e \in DOMAIN table |-> [table[e] EXCEPT !.stale = {}]]
  /\ strays' = {}
  /\ logStrays' = {}
  /\ newest' = "cron"
  /\ UNCHANGED <<outside, logs, jobs>>

Steady == UNCHANGED <<outside, tables, guards, run, newest>>

Next ==
  \/ (Network \/ Pool \/ Administer) /\ Steady
  \/ HandleScheduledSync
  \/ \E kind \in JobKinds : EnqueueJob(kind)
  \/ \E j \in queued : ExecuteJob(j)
  \/ \E p \in Procs : Sync(p)
  \/ StrayLands
  \/ EditWorld
  \/ Activate
  \/ ServerAhead
  \/ Restart

Spec == SyncInit /\ [][Next]_syncVars

(***************************************************************************)
(* Fairness: timers fire, the cron job comes round, awaited calls return,  *)
(* the beacon comes back. An attempt to connect may be cut off by the next *)
(* one, but not for ever: from the third on the timer leaves it more time  *)
(* (30 s, 60 s) than it may take (10 s unless configured otherwise).       *)
(* That the servers before this one answer again is not assumed.           *)
(***************************************************************************)
Fairness ==
  /\ WF_syncVars(ComesUp /\ Steady)
  /\ SF_syncVars(OnConnect /\ Steady)
  /\ WF_syncVars(~up /\ (OnConnectError \/ OnDisconnect) /\ Steady)
  /\ WF_syncVars((RetryTimer \/ HealthCheck) /\ Steady)
  /\ WF_syncVars(UseClient /\ Steady)
  /\ WF_syncVars(HandleScheduledSync)
  /\ \A j \in 1 .. MaxJobs : WF_syncVars(ExecuteJob(j))
  /\ \A p \in Procs : WF_syncVars(Sync(p))
  /\ WF_syncVars(StrayLands)

FairSpec == Spec /\ Fairness

-----------------------------------------------------------------------------
(***************************************************************************)
(* Properties.                                                             *)
(***************************************************************************)
Contents(V) == UNION {[S -> V] : S \in SUBSET Entities}

Rows == [version : Versions, stale : SUBSET Procs]

Strays == [entity : Entities, version : Versions, stale : SUBSET Procs]

Locals == [ pc       : {"idle", "servers", "begin", "query", "upsert", "logs",
                        "logquery", "logrows", "failed"},
            job      : 0 .. MaxJobs,
            endpoint : Endpoints \cup {Disabled},
            full     : BOOLEAN,
            answer   : Contents(Versions),
            todo     : SUBSET (Entities \cup LogRows),
            late     : BOOLEAN ]

JobRows == [ kind   : JobKinds,
             status : {"PENDING", "RUNNING", "SUCCEEDED", "FAILED"} ]

SyncTypeOK ==
  /\ world \in Contents(Versions)
  /\ active \in BOOLEAN /\ ahead \in BOOLEAN
  /\ table \in Contents(Rows)
  /\ logs \subseteq LogRows
  /\ strays \subseteq Strays /\ logStrays \subseteq LogRows
  /\ syncing \in BOOLEAN
  /\ jobs \in Seq(JobRows) /\ Len(jobs) <= MaxJobs
  /\ queued \subseteq DOMAIN jobs /\ orphans \subseteq DOMAIN jobs
  /\ run \in [Procs -> Locals]
  /\ newest \in Procs

TypeOK == PoolTypeOK /\ SyncTypeOK

\* A job that is not over is waiting, is the one its guard lets run, was cut off
\* by a restart, or is one whose row could not be read or written: the guards are
\* in memory, the rows are not.
JobsAreAccountedFor ==
  Unfinished \subseteq queued \cup orphans \cup {run[p].job : p \in {"job", "log"}}

\* A synchronisation deletes a row the beacon has just told it of only when an
\* older mark reached the row after its own: that of another one which was copying
\* when it began, or of one that had failed by then and left writes behind. What
\* begins, fails and leaves writes behind later does it no harm.
KeepsWhatItSaw ==
  [][\A p \in Procs :
       run[p].pc = "upsert" /\ run'[p].pc = "logs" /\ ~run[p].late
         => DOMAIN run[p].answer \cap DOMAIN table \subseteq DOMAIN table'
    ]_syncVars

\* Whatever failed, was restarted, overlapped or was reconfigured before: once
\* that is over, the table comes to be what the beacon has, and the recent log is
\* there. Not so for a server without a beacon, out of use, behind one that keeps
\* failing, or with the client connectBeacon leaves behind.
InSync ==
  /\ DOMAIN table = DOMAIN world
  /\ \A e \in DOMAIN world : table[e].version = world[e]
  /\ Recent \subseteq logs

Converges ==
  <>[](config = Disabled \/ ~active \/ ahead \/ entry.byHand \/ InSync)

\* The client of a server that keeps its beacon is connected in the end, but for
\* the one connectBeacon leaves behind.
StaysConnected == <>[](config = Disabled \/ Connected \/ entry.byHand)

\* Every job comes to an end, unless the server is restarted under it or its row
\* cannot be read or written. (Only so many are enqueued.)
JobsEnd == <>[](Unfinished \subseteq orphans)
=============================================================================
