------------------------- MODULE RailwaySync_proofs -------------------------
(***************************************************************************)
(* What RailwaySync promises for all entities, log rows and endpoints, any *)
(* number of jobs and any number of failures.                              *)
(*                                                                         *)
(* KeepsWhatItSaw rests on four facts. Log jobs do not copy the category,  *)
(* so two synchronisations at most do. Of two that overlap the one that    *)
(* began first is not the newest. No write left behind by one that failed  *)
(* makes a row stale to one that found none such when it began             *)
(* (StraysAreFresh). So no row that a synchronisation which began alone    *)
(* has written becomes stale to it again, even when another one writes the *)
(* row once more (SeenIsFresh).                                            *)
(***************************************************************************)
EXTENDS RailwaySync, BeaconPool_proofs

\* What is still to be written is of the answer, or of the log.
TodoFits ==
  \A p \in Procs :
    /\ run[p].pc = "upsert" => run[p].todo \subseteq DOMAIN run[p].answer
    /\ run[p].pc = "logrows" => run[p].todo \subseteq LogRows

IdleHasNoJob == \A p \in Procs : run[p].pc = "idle" => run[p].job = 0

\* Only jobs write that they failed, each in its own row.
RunsItsJob ==
  /\ run["cron"].pc # "failed"
  /\ \A p \in {"job", "log"} : run[p].pc # "idle" => run[p].job \in DOMAIN jobs

LogJobsDoNotCopy == run["log"].pc \notin {"begin", "query", "upsert"}

NewestBeganLast ==
  \A p, q \in Procs : Copying(p) /\ Copying(q) /\ p # q /\ ~run[p].late => newest = q

SeenIsFresh ==
  \A p \in Procs : run[p].pc = "upsert" /\ ~run[p].late =>
    \A e \in (DOMAIN run[p].answer \ run[p].todo) \cap DOMAIN table :
      p \notin table[e].stale

StraysAreFresh ==
  \A p \in Procs : Copying(p) /\ ~run[p].late => \A s \in strays : p \notin s.stale

Overlap == TodoFits /\ LogJobsDoNotCopy /\ NewestBeganLast /\ SeenIsFresh /\ StraysAreFresh

Jobs == IdleHasNoJob /\ RunsItsJob /\ JobsAreAccountedFor

-----------------------------------------------------------------------------
(***************************************************************************)
(* Functions over some of the entities.                                    *)
(***************************************************************************)
LEMMA ContentsOf ==
  ASSUME NEW V, NEW f
  PROVE  f \in Contents(V) <=> DOMAIN f \subseteq Entities /\ f \in [DOMAIN f -> V]
  BY DEF Contents

LEMMA WithIsContents ==
  ASSUME NEW V, NEW f \in Contents(V), NEW e \in Entities, NEW v \in V
  PROVE  With(f, e, v) \in Contents(V)
  BY ContentsOf DEF With

LEMMA WithoutIsContents ==
  ASSUME NEW V, NEW f \in Contents(V), NEW e
  PROVE  Without(f, e) \in Contents(V)
  BY ContentsOf DEF Without

LEMMA NoRowsIsContents ==
  ASSUME NEW V
  PROVE  NoRows \in Contents(V)
  BY ContentsOf DEF NoRows

LEMMA ForgottenIsContents ==
  ASSUME table \in Contents(Rows), NEW p
  PROVE  /\ Forgotten(p) \in Contents(Rows)
         /\ DOMAIN Forgotten(p) = DOMAIN table
         /\ \A e \in DOMAIN table : Forgotten(p)[e].stale = table[e].stale \ {p}
<1>1. table \in [DOMAIN table -> Rows] /\ DOMAIN table \subseteq Entities
  BY ContentsOf
<1>2. \A e \in DOMAIN table : [table[e] EXCEPT !.stale = @ \ {p}] \in Rows
  BY <1>1 DEF Rows
<1>3. Forgotten(p) \in [DOMAIN table -> Rows]
  BY <1>2 DEF Forgotten
<1>4. \A e \in DOMAIN table : Forgotten(p)[e].stale = table[e].stale \ {p}
  BY <1>1 DEF Forgotten, Rows
<1> QED BY <1>1, <1>3, <1>4, ContentsOf

LEMMA IdleIsLocals ==
  ASSUME BeaconAssumption, SyncAssumption
  PROVE  Idle \in Locals
  BY NoRowsIsContents DEF SyncAssumption, Idle, Locals, Disabled

-----------------------------------------------------------------------------
(***************************************************************************)
(* Types.                                                                  *)
(***************************************************************************)
LEMMA Overwritten ==
  ASSUME NEW S, NEW s \in Seq(S), NEW j, NEW v, j \in DOMAIN s => v \in S
  PROVE  /\ [s EXCEPT ![j] = v] \in Seq(S)
         /\ Len([s EXCEPT ![j] = v]) = Len(s)
         /\ DOMAIN [s EXCEPT ![j] = v] = DOMAIN s
<1> DEFINE t == [s EXCEPT ![j] = v]
<1>1. DOMAIN t = 1 .. Len(s) /\ \A i \in 1 .. Len(s) : t[i] \in S
  OBVIOUS
<1>2. t \in Seq(S) /\ Len(t) = Len(s)
  <2>1. Len(s) \in Nat
    OBVIOUS
  <2>2. t = [i \in 1 .. Len(s) |-> t[i]]
    BY <1>1
  <2> HIDE DEF t
  <2> QED BY <1>1, <2>1, <2>2
<1> QED BY <1>1, <1>2

\* p goes on with other values of its variables.
LEMMA LocalsChange ==
  ASSUME run \in [Procs -> Locals], NEW p \in Procs, NEW l \in Locals
  PROVE  [run EXCEPT ![p] = l] \in [Procs -> Locals]
  OBVIOUS

\* A status is written into the row of a job.
LEMMA StatusWritten ==
  ASSUME jobs \in Seq(JobRows), NEW j,
         NEW status \in {"RUNNING", "SUCCEEDED", "FAILED"},
         jobs' = [jobs EXCEPT ![j].status = status]
  PROVE  jobs' \in Seq(JobRows) /\ Len(jobs') = Len(jobs) /\ DOMAIN jobs' = DOMAIN jobs
<1> DEFINE row == [jobs[j] EXCEPT !.status = status]
<1>1. j \in DOMAIN jobs => row \in JobRows
  <2> SUFFICES ASSUME j \in DOMAIN jobs PROVE row \in JobRows
    OBVIOUS
  <2>1. jobs[j] \in JobRows
    OBVIOUS
  <2> QED BY <2>1 DEF JobRows
<1>2. jobs' = [jobs EXCEPT ![j] = row]
  OBVIOUS
<1> HIDE DEF row
<1> QED BY <1>1, <1>2, Overwritten

LEMMA StraysForget ==
  ASSUME strays \subseteq Strays, NEW p
  PROVE  /\ ForgottenStrays(p) \subseteq Strays
         /\ \A s \in ForgottenStrays(p) : \E t \in strays : s.stale = t.stale \ {p}
<1>1. \A t \in strays : /\ [t EXCEPT !.stale = @ \ {p}] \in Strays
                        /\ [t EXCEPT !.stale = @ \ {p}].stale = t.stale \ {p}
  BY DEF Strays
<1> QED BY <1>1 DEF ForgottenStrays

LEMMA WriteIsStray ==
  ASSUME SyncTypeOK, TodoFits, NEW p \in Procs, run[p].pc = "upsert",
         NEW e \in run[p].todo
  PROVE  /\ Write(p, e) \in Strays
         /\ [version |-> run[p].answer[e], stale |-> StaleTo(p)] \in Rows
         /\ e \in Entities
<1>1. run[p].answer \in Contents(Versions)
  BY DEF SyncTypeOK, Locals
<1>2. /\ run[p].answer \in [DOMAIN run[p].answer -> Versions]
      /\ DOMAIN run[p].answer \subseteq Entities
  BY <1>1, ContentsOf
<1>3. e \in DOMAIN run[p].answer
  BY DEF TodoFits
<1>4. StaleTo(p) \in SUBSET Procs
  BY DEF StaleTo
<1> QED BY <1>2, <1>3, <1>4 DEF Write, Strays, Rows

LEMMA FailsTypes ==
  ASSUME BeaconAssumption, SyncAssumption, SyncTypeOK, TodoFits,
         NEW p \in Procs, NEW left \in SUBSET run[p].todo,
         Fails(p, left), UNCHANGED outside
  PROVE  SyncTypeOK'
<1> USE DEF SyncTypeOK
<1>1. run' \in [Procs -> Locals]
  <2>1. run[p].job \in 0 .. MaxJobs
    BY DEF Locals
  <2>2. [Idle EXCEPT !.pc = "failed", !.job = run[p].job] \in Locals
    BY <2>1, IdleIsLocals DEF Locals
  <2> QED BY <2>2, IdleIsLocals DEF Fails
<1>2. table' \in Contents(Rows)
  BY ForgottenIsContents DEF Fails
<1>3. strays' \subseteq Strays
  <2>1. run[p].pc = "upsert" => {Write(p, e) : e \in left} \subseteq Strays
    BY WriteIsStray
  <2>2. ForgottenStrays(p) \subseteq Strays
    BY StraysForget
  <2> QED BY <2>1, <2>2 DEF Fails
<1>4. logStrays' \subseteq LogRows
  BY DEF Fails, TodoFits
<1>5. syncing' \in BOOLEAN /\ newest' \in Procs
  BY DEF Fails, Procs
<1> QED BY <1>1, <1>2, <1>3, <1>4, <1>5 DEF Fails, outside

PoolTypes == PoolTypeOK /\ IsWatched(entry)

LEMMA EntryChange ==
  ASSUME BeaconAssumption, PoolTypes,
         NEW endpoint \in Endpoints \cup {Disabled},
         entry' = GetOrCreate(endpoint), UNCHANGED <<config, up>>,
         spent' = spent \/ Disturb
  PROVE  PoolTypes'
<1>1. entry \in Entries
  BY DEF PoolTypes, PoolTypeOK, Entries, Sockets
<1>2. entry' \in Entries /\ IsWatched(entry')
  BY <1>1, GetOrCreateIsWatched DEF PoolTypes
<1>3. spent' \in 0 .. Budget
  BY DEF PoolTypes, PoolTypeOK, Disturb, BeaconAssumption
<1> QED
  BY <1>2, <1>3 DEF PoolTypes, PoolTypeOK, Entries, Sockets, IsWatched

LEMMA SpentChange ==
  ASSUME BeaconAssumption, PoolTypes,
         UNCHANGED <<config, up, entry>>, spent' = spent \/ Disturb
  PROVE  PoolTypes'
<1>1. spent' \in 0 .. Budget
  BY DEF PoolTypes, PoolTypeOK, Disturb, BeaconAssumption
<1> QED
  BY <1>1 DEF PoolTypes, PoolTypeOK, IsWatched

LEMMA SyncTypeStep ==
  ASSUME BeaconAssumption, SyncAssumption, PoolTypes, SyncTypeOK, TodoFits, RunsItsJob,
         NEW p \in Procs, Sync(p)
  PROVE  PoolTypes' /\ SyncTypeOK'
<1> USE DEF SyncTypeOK
<1>a. PoolTypes /\ SyncTypeOK
  OBVIOUS
<1>b. run[p] \in Locals /\ run[p].endpoint \in Endpoints \cup {Disabled}
  BY DEF Locals
<1>1. CASE ListServers(p)
  <2>1. CASE config = Disabled \/ ~active
    <3>1. Fails(p, {}) /\ UNCHANGED <<poolVars, outside>>
      BY <1>1, <2>1 DEF ListServers
    <3>2. PoolTypes'
      BY <3>1, SpentChange DEF poolVars
    <3> QED BY <3>1, <3>2, FailsTypes
  <2>2. CASE ~(config = Disabled \/ ~active)
    <3> DEFINE l == [run[p] EXCEPT !.pc = IF p = "log" THEN "logs" ELSE "begin",
                                   !.endpoint = config]
    <3>1. /\ run' = [run EXCEPT ![p] = l]
          /\ entry' = GetOrCreate(config)
          /\ UNCHANGED <<config, up, spent, tables, guards, outside, newest>>
      BY <1>1, <2>2 DEF ListServers
    <3>2. config \in Endpoints \cup {Disabled}
      BY DEF PoolTypes, PoolTypeOK
    <3>3. l \in Locals
      BY <1>b, <3>2 DEF Locals
    <3>4. PoolTypes'
      BY <3>1, <3>2, EntryChange
    <3> HIDE DEF l
    <3> QED BY <3>1, <3>3, <3>4, LocalsChange DEF tables, guards, outside
  <2> QED BY <2>1, <2>2
<1>2. CASE ServerAheadFails(p)
  <2>1. Fails(p, {}) /\ UNCHANGED <<poolVars, outside>>
    BY <1>2 DEF ServerAheadFails
  <2>2. PoolTypes'
    BY <2>1, SpentChange DEF poolVars
  <2> QED BY <2>1, <2>2, FailsTypes
<1>3. CASE BeginSync(p)
  <2> DEFINE late == strays # {} \/ \E q \in Procs \ {p} : Copying(q)
             l == [run[p] EXCEPT !.pc = "query", !.late = late]
  <2>1. /\ run' = [run EXCEPT ![p] = l]
        /\ newest' = IF late THEN p ELSE "cron"
        /\ table' = [e \in DOMAIN table |-> [table[e] EXCEPT !.stale = @ \cup {p}]]
        /\ strays' = {[s EXCEPT !.stale = @ \cup {p}] : s \in strays}
        /\ UNCHANGED <<poolVars, outside, logs, logStrays, guards>>
    BY <1>3 DEF BeginSync
  <2>2. l \in Locals
    <3> late \in BOOLEAN
      OBVIOUS
    <3> HIDE DEF late
    <3> QED BY <1>b DEF Locals
  <2>3. table' \in Contents(Rows)
    <3>1. table \in [DOMAIN table -> Rows] /\ DOMAIN table \subseteq Entities
      BY ContentsOf
    <3>2. \A e \in DOMAIN table : [table[e] EXCEPT !.stale = @ \cup {p}] \in Rows
      BY <3>1 DEF Rows
    <3>3. table' \in [DOMAIN table -> Rows]
      BY <2>1, <3>2
    <3> QED BY <3>1, <3>3, ContentsOf
  <2>4. strays' \subseteq Strays
    <3>1. \A s \in strays : [s EXCEPT !.stale = @ \cup {p}] \in Strays
      BY DEF Strays
    <3> QED BY <2>1, <3>1
  <2>5. PoolTypes'
    BY <2>1, SpentChange DEF poolVars
  <2>6. newest' \in Procs
    BY <2>1 DEF Procs
  <2> HIDE DEF l
  <2> QED BY <2>1, <2>2, <2>3, <2>4, <2>5, <2>6, LocalsChange DEF guards, outside
<1>4. CASE NoAnswer(p)
  <2>1. /\ entry' = GetOrCreate(run[p].endpoint)
        /\ Fails(p, {})
        /\ UNCHANGED <<config, up, outside>>
        /\ spent' = spent \/ Disturb
    BY <1>4 DEF NoAnswer, Emit
  <2>2. PoolTypes'
    BY <2>1, <1>b, EntryChange
  <2> QED BY <2>1, <2>2, FailsTypes
<1>5. CASE QueryEntities(p)
  <2>1. PICK rows \in {world, NoRows} :
          /\ spent' = spent \/ Disturb
          /\ run' = [run EXCEPT ![p] = [run[p] EXCEPT !.pc = "upsert",
                                 !.answer = rows, !.todo = DOMAIN rows]]
    BY <1>5 DEF QueryEntities
  <2> DEFINE l == [run[p] EXCEPT !.pc = "upsert", !.answer = rows, !.todo = DOMAIN rows]
  <2>2. /\ entry' = GetOrCreate(run[p].endpoint)
        /\ UNCHANGED <<config, up, outside, tables, guards, newest>>
    BY <1>5 DEF QueryEntities, Emit
  <2>3. rows \in Contents(Versions) /\ DOMAIN rows \subseteq Entities
    BY NoRowsIsContents, ContentsOf
  <2>4. l \in Locals
    BY <1>b, <2>3 DEF Locals
  <2>5. PoolTypes'
    BY <2>1, <2>2, <1>b, EntryChange
  <2>6. run' \in [Procs -> Locals]
    BY <2>1, <2>4
  <2> QED BY <2>2, <2>5, <2>6 DEF tables, guards, outside
<1>6. CASE UpsertEntity(p)
  <2>1. PICK e \in run[p].todo :
          /\ table' = With(table, e, [version |-> run[p].answer[e], stale |-> StaleTo(p)])
          /\ run' = [run EXCEPT ![p] = [run[p] EXCEPT !.todo = @ \ {e}]]
    BY <1>6 DEF UpsertEntity
  <2>2. /\ UNCHANGED <<poolVars, outside, logs, strays, logStrays, guards, newest>>
        /\ run[p].pc = "upsert"
    BY <1>6 DEF UpsertEntity
  <2>3. PoolTypes'
    BY <2>2, SpentChange DEF poolVars
  <2>4. run' \in [Procs -> Locals]
    BY <2>1, <1>b DEF Locals
  <2>5. table' \in Contents(Rows)
    BY <2>1, <2>2, WriteIsStray, WithIsContents
  <2> QED BY <2>2, <2>3, <2>4, <2>5 DEF guards, outside
<1>7. CASE DeleteStaleEntities(p)
  <2>1. /\ table' = [e \in {x \in DOMAIN table : p \notin table[x].stale} |-> table[e]]
        /\ strays' = ForgottenStrays(p)
        /\ run' = [run EXCEPT ![p] = [run[p] EXCEPT !.pc = "logs", !.answer = NoRows,
                                                   !.late = FALSE]]
        /\ newest' = "cron"
        /\ UNCHANGED <<poolVars, outside, logs, logStrays, guards>>
    BY <1>7 DEF DeleteStaleEntities
  <2>2. PoolTypes'
    BY <2>1, SpentChange DEF poolVars
  <2>3. run' \in [Procs -> Locals]
    <3>1. NoRows \in Contents(Versions)
      BY NoRowsIsContents
    <3> QED BY <2>1, <3>1, <1>b DEF Locals
  <2>4. table' \in Contents(Rows)
    <3>1. table \in [DOMAIN table -> Rows] /\ DOMAIN table \subseteq Entities
      BY ContentsOf
    <3> QED BY <2>1, <3>1, ContentsOf
  <2>5. strays' \subseteq Strays /\ newest' \in Procs
    BY <2>1, StraysForget DEF Procs
  <2> QED BY <2>1, <2>2, <2>3, <2>4, <2>5 DEF guards, outside
<1>8. CASE CheckLogs(p)
  <2>1. PICK full \in BOOLEAN :
          /\ logs' = IF full THEN {} ELSE logs
          /\ run' = [run EXCEPT ![p] = [run[p] EXCEPT !.pc = "logquery", !.full = full]]
          /\ UNCHANGED <<poolVars, outside, table, strays, logStrays, guards, newest>>
    <3> DEFINE full == run[p].full \/ (logs = {} /\ p # "log")
    <3>1. full \in BOOLEAN
      BY <1>b DEF Locals
    <3> QED BY <1>8, <3>1 DEF CheckLogs
  <2>2. PoolTypes'
    BY <2>1, SpentChange DEF poolVars
  <2>3. run' \in [Procs -> Locals]
    BY <2>1, <1>b DEF Locals
  <2> QED BY <2>1, <2>2, <2>3 DEF guards, outside
<1>9. CASE QueryLogs(p)
  <2> DEFINE rows == IF run[p].full THEN LogRows ELSE Recent
             l == [Idle EXCEPT !.pc = "logrows", !.job = run[p].job, !.todo = rows]
  <2>1. /\ entry' = GetOrCreate(run[p].endpoint)
        /\ run' = [run EXCEPT ![p] = l]
        /\ UNCHANGED <<config, up, spent, outside, tables, guards, newest>>
    BY <1>9 DEF QueryLogs, Emit
  <2>2. PoolTypes'
    BY <2>1, <1>b, EntryChange
  <2>3. l \in Locals
    <3>1. rows \subseteq LogRows
      BY DEF SyncAssumption
    <3> HIDE DEF rows
    <3>2. run[p].job \in 0 .. MaxJobs
      BY <1>b DEF Locals
    <3> QED BY <3>1, <3>2, IdleIsLocals DEF Locals
  <2> HIDE DEF l
  <2> QED BY <2>1, <2>2, <2>3, LocalsChange DEF tables, guards, outside
<1>10. CASE UpsertLog(p)
  <2>1. PICK row \in run[p].todo :
          /\ logs' = logs \cup {row}
          /\ run' = [run EXCEPT ![p] = [run[p] EXCEPT !.todo = @ \ {row}]]
          /\ row \in LogRows
    BY <1>10 DEF UpsertLog, TodoFits
  <2>2. UNCHANGED <<poolVars, outside, table, strays, logStrays, guards, newest>>
    BY <1>10 DEF UpsertLog
  <2>3. PoolTypes'
    BY <2>2, SpentChange DEF poolVars
  <2>4. run' \in [Procs -> Locals]
    BY <2>1, <1>b DEF Locals
  <2> QED BY <2>1, <2>2, <2>3, <2>4 DEF guards, outside
<1>11. CASE EndSync(p)
  <2>1. /\ run' = [run EXCEPT ![p] = Idle]
        /\ syncing' = (p # "cron" /\ syncing)
        /\ \/ jobs' = jobs
           \/ jobs' = [jobs EXCEPT ![run[p].job].status = "SUCCEEDED"]
        /\ UNCHANGED <<poolVars, outside, tables, queued, orphans, newest>>
    BY <1>11 DEF EndSync
  <2>2. PoolTypes'
    BY <2>1, SpentChange DEF poolVars
  <2>3. run' \in [Procs -> Locals] /\ syncing' \in BOOLEAN
    BY <2>1, IdleIsLocals
  <2>4. jobs' \in Seq(JobRows) /\ Len(jobs') = Len(jobs) /\ DOMAIN jobs' = DOMAIN jobs
    <3>1. CASE jobs' = jobs
      BY <3>1
    <3>2. CASE jobs' = [jobs EXCEPT ![run[p].job].status = "SUCCEEDED"]
      BY <3>2, StatusWritten
    <3> QED BY <2>1, <3>1, <3>2
  <2> QED BY <2>1, <2>2, <2>3, <2>4 DEF tables, outside
<1>12. CASE DatabaseFails(p)
  <2>1. PICK left \in SUBSET run[p].todo : Fails(p, left)
    BY <1>12 DEF DatabaseFails
  <2>2. UNCHANGED <<config, up, entry, outside>> /\ Disturb
    BY <1>12 DEF DatabaseFails
  <2>3. PoolTypes'
    BY <2>2, SpentChange
  <2> QED BY <2>1, <2>2, <2>3, FailsTypes
<1>13. CASE RecordFailure(p)
  <2>1. /\ run[p].pc = "failed"
        /\ run' = [run EXCEPT ![p] = Idle]
        /\ UNCHANGED <<config, up, entry, outside, tables, syncing, queued, newest>>
        /\ \/ /\ jobs' = [jobs EXCEPT ![run[p].job].status = "FAILED"]
              /\ UNCHANGED <<spent, orphans>>
           \/ Disturb /\ orphans' = orphans \cup {run[p].job} /\ UNCHANGED jobs
    BY <1>13 DEF RecordFailure
  <2>2. PoolTypes'
    BY <2>1, SpentChange
  <2>3. run' \in [Procs -> Locals]
    BY <2>1, IdleIsLocals
  <2>4. run[p].job \in DOMAIN jobs
    BY <2>1 DEF RunsItsJob, Procs
  <2>5. /\ jobs' \in Seq(JobRows) /\ Len(jobs') = Len(jobs) /\ DOMAIN jobs' = DOMAIN jobs
        /\ orphans' \subseteq DOMAIN jobs
    <3>1. CASE jobs' = [jobs EXCEPT ![run[p].job].status = "FAILED"] /\ UNCHANGED orphans
      <4>1. jobs' \in Seq(JobRows) /\ Len(jobs') = Len(jobs) /\ DOMAIN jobs' = DOMAIN jobs
        BY <3>1, StatusWritten
      <4> QED BY <4>1, <3>1
    <3>2. CASE orphans' = orphans \cup {run[p].job} /\ UNCHANGED jobs
      BY <3>2, <2>4
    <3> QED BY <2>1, <3>1, <3>2
  <2> QED BY <2>1, <2>2, <2>3, <2>5 DEF tables, outside
<1> QED
  BY <1>1, <1>2, <1>3, <1>4, <1>5, <1>6, <1>7, <1>8, <1>9, <1>10, <1>11, <1>12, <1>13
  DEF Sync

LEMMA RestartTypes ==
  ASSUME BeaconAssumption, SyncAssumption, PoolTypes, SyncTypeOK, Restart
  PROVE  PoolTypes' /\ SyncTypeOK'
<1>1. PoolTypes'
  <2>1. PoolNext
    BY DEF Restart, PoolNext
  <2> QED BY <2>1, PoolStep DEF PoolTypes, PoolInv
<1>2. table' \in Contents(Rows)
  <2>1. table \in [DOMAIN table -> Rows] /\ DOMAIN table \subseteq Entities
    BY ContentsOf DEF SyncTypeOK
  <2>2. \A e \in DOMAIN table : [table[e] EXCEPT !.stale = {}] \in Rows
    BY <2>1 DEF Rows
  <2>3. table' \in [DOMAIN table -> Rows]
    BY <2>2 DEF Restart
  <2> QED BY <2>1, <2>3, ContentsOf
<1>3. run' \in [Procs -> Locals]
  BY IdleIsLocals DEF Restart
<1>4. queued' \subseteq DOMAIN jobs' /\ orphans' \subseteq DOMAIN jobs'
  BY DEF Restart, SyncTypeOK, Unfinished
<1> QED BY <1>1, <1>2, <1>3, <1>4 DEF Restart, SyncTypeOK, outside, Procs

\* What becomes of a job that is executed: it starts, or fails to write that it is
\* RUNNING; it is refused; or its row is left as it was.
LEMMA ExecuteCases ==
  ASSUME NEW j, ExecuteJob(j)
  PROVE  LET p == ProcessOf(jobs[j].kind)
             l == [Idle EXCEPT !.pc = "servers", !.job = j, !.full = jobs[j].kind = "full"]
             k == [Idle EXCEPT !.pc = "failed", !.job = j]
         IN  /\ \/ /\ run[p].pc = "idle" /\ run' = [run EXCEPT ![p] = l]
                   /\ jobs' = [jobs EXCEPT ![j].status = "RUNNING"]
                   /\ orphans' = orphans
                \/ /\ run[p].pc = "idle" /\ run' = [run EXCEPT ![p] = k]
                   /\ jobs' = jobs /\ orphans' = orphans
                \/ /\ run[p].pc # "idle" /\ run' = run
                   /\ jobs' = [jobs EXCEPT ![j].status = "FAILED"]
                   /\ orphans' = orphans
                \/ run' = run /\ jobs' = jobs /\ orphans' = orphans \cup {j}
             /\ spent' = spent \/ Disturb
             /\ j \in queued /\ queued' = queued \ {j}
             /\ UNCHANGED <<config, up, entry, outside, tables, syncing, newest>>
<1> DEFINE p == ProcessOf(jobs[j].kind)
<1>1. CASE StartJob(j, p)
  BY <1>1 DEF ExecuteJob, StartJob, Idle
<1>2. CASE RefuseJob(j, p)
  BY <1>2 DEF ExecuteJob, RefuseJob
<1>3. CASE LoseJob(j)
  BY <1>3 DEF ExecuteJob, LoseJob
<1> QED BY <1>1, <1>2, <1>3 DEF ExecuteJob

LEMMA JobTypes ==
  ASSUME BeaconAssumption, SyncAssumption, SyncTypeOK
  PROVE  /\ \A kind \in JobKinds : EnqueueJob(kind) => SyncTypeOK'
         /\ \A j \in queued : ExecuteJob(j) => SyncTypeOK'
<1> USE DEF SyncTypeOK
<1>1. ASSUME NEW kind \in JobKinds, EnqueueJob(kind)
      PROVE  SyncTypeOK'
  <2>1. [kind |-> kind, status |-> "PENDING"] \in JobRows
    BY DEF JobRows
  <2>2. /\ jobs' = Append(jobs, [kind |-> kind, status |-> "PENDING"])
        /\ queued' = queued \cup {Len(jobs) + 1}
        /\ Len(jobs) < MaxJobs
        /\ UNCHANGED <<outside, tables, syncing, orphans, run, newest>>
    BY <1>1 DEF EnqueueJob
  <2>3. jobs' \in Seq(JobRows) /\ Len(jobs') = Len(jobs) + 1
    BY <2>1, <2>2
  <2>4. DOMAIN jobs = 1 .. Len(jobs) /\ DOMAIN jobs' = 1 .. (Len(jobs) + 1)
    BY <2>3
  <2>5. queued' \subseteq DOMAIN jobs' /\ orphans' \subseteq DOMAIN jobs'
    BY <2>2, <2>4
  <2>6. Len(jobs') <= MaxJobs
    BY <2>2, <2>3 DEF SyncAssumption
  <2> HIDE DEF SyncTypeOK
  <2> QED BY <2>2, <2>3, <2>5, <2>6 DEF tables, outside, SyncTypeOK
<1>2. ASSUME NEW j \in queued, ExecuteJob(j)
      PROVE  SyncTypeOK'
  <2> DEFINE p == ProcessOf(jobs[j].kind)
             l == [Idle EXCEPT !.pc = "servers", !.job = j, !.full = jobs[j].kind = "full"]
             k == [Idle EXCEPT !.pc = "failed", !.job = j]
  <2>1. p \in Procs
    BY DEF ProcessOf, Procs
  <2>2. j \in DOMAIN jobs /\ j \in 0 .. MaxJobs
    <3>1. j \in DOMAIN jobs /\ DOMAIN jobs = 1 .. Len(jobs) /\ Len(jobs) \in Nat
      OBVIOUS
    <3> QED BY <3>1 DEF SyncAssumption
  <2>3. l \in Locals /\ k \in Locals
    BY <2>2, IdleIsLocals DEF Locals
  <2>4. /\ run' = run \/ run' = [run EXCEPT ![p] = l] \/ run' = [run EXCEPT ![p] = k]
        /\ \/ jobs' = jobs
           \/ jobs' = [jobs EXCEPT ![j].status = "FAILED"]
           \/ jobs' = [jobs EXCEPT ![j].status = "RUNNING"]
        /\ orphans' = orphans \/ orphans' = orphans \cup {j}
        /\ queued' = queued \ {j}
        /\ UNCHANGED <<outside, tables, syncing, newest>>
    BY <1>2, ExecuteCases
  <2> HIDE DEF p, l, k
  <2>5. jobs' \in Seq(JobRows) /\ Len(jobs') = Len(jobs) /\ DOMAIN jobs' = DOMAIN jobs
    <3>1. CASE jobs' = jobs
      BY <3>1
    <3>2. CASE jobs' = [jobs EXCEPT ![j].status = "FAILED"]
      BY <3>2, StatusWritten
    <3>3. CASE jobs' = [jobs EXCEPT ![j].status = "RUNNING"]
      BY <3>3, StatusWritten
    <3> QED BY <2>4, <3>1, <3>2, <3>3
  <2>6. run' \in [Procs -> Locals]
    BY <2>1, <2>3, <2>4
  <2>7. orphans' \subseteq DOMAIN jobs
    BY <2>2, <2>4
  <2> QED BY <2>4, <2>5, <2>6, <2>7 DEF tables, outside
<1> QED BY <1>1, <1>2

LEMMA OtherTypes ==
  ASSUME BeaconAssumption, SyncAssumption, PoolTypes, SyncTypeOK,
         \/ HandleScheduledSync
         \/ StrayLands
         \/ EditWorld \/ Activate \/ ServerAhead
         \/ (Network \/ Pool \/ Administer) /\ Steady
  PROVE  PoolTypes' /\ SyncTypeOK'
<1>1. CASE HandleScheduledSync
  <2>1. [Idle EXCEPT !.pc = "servers"] \in Locals /\ "cron" \in Procs
    BY IdleIsLocals DEF Locals, Procs
  <2>2. run' \in [Procs -> Locals]
    BY <1>1, <2>1 DEF HandleScheduledSync, SyncTypeOK
  <2>3. PoolTypes'
    BY <1>1, SpentChange DEF HandleScheduledSync, poolVars
  <2> QED BY <1>1, <2>2, <2>3 DEF HandleScheduledSync, SyncTypeOK, tables, outside
<1>2. CASE EditWorld
  <2>1. PoolTypes' /\ spent' \in 0 .. Budget
    <3>1. PoolTypes'
      BY <1>2, SpentChange DEF EditWorld
    <3> QED BY <3>1 DEF PoolTypes, PoolTypeOK
  <2>2. world' \in Contents(Versions)
    BY <1>2, <2>1, WithIsContents, WithoutIsContents DEF EditWorld, Versions, SyncTypeOK
  <2> QED BY <1>2, <2>1, <2>2 DEF EditWorld, SyncTypeOK, tables, guards
<1>3. CASE (Network \/ Pool \/ Administer) /\ Steady
  <2>1. PoolTypes'
    BY <1>3, PoolStep DEF PoolTypes, PoolInv, PoolNext
  <2> QED BY <1>3, <2>1 DEF Steady, SyncTypeOK, tables, guards, outside
<1>4. CASE Activate \/ ServerAhead
  <2>1. PoolTypes'
    BY <1>4, SpentChange DEF Activate, ServerAhead
  <2> QED BY <1>4, <2>1 DEF Activate, ServerAhead, SyncTypeOK, tables, guards
<1>5. CASE StrayLands
  <2>1. PoolTypes'
    BY <1>5, SpentChange DEF StrayLands, poolVars
  <2>2. CASE \E s \in strays :
               /\ table' = With(table, s.entity, [version |-> s.version, stale |-> s.stale])
               /\ strays' = strays \ {s} /\ UNCHANGED <<logs, logStrays>>
    <3> PICK s \in strays :
               /\ table' = With(table, s.entity, [version |-> s.version, stale |-> s.stale])
               /\ strays' = strays \ {s} /\ UNCHANGED <<logs, logStrays>>
      BY <2>2
    <3>1. s.entity \in Entities /\ [version |-> s.version, stale |-> s.stale] \in Rows
      BY DEF SyncTypeOK, Strays, Rows
    <3>2. table' \in Contents(Rows)
      BY <3>1, WithIsContents DEF SyncTypeOK
    <3> QED BY <1>5, <2>1, <3>2 DEF StrayLands, SyncTypeOK, guards, outside
  <2>3. CASE \E row \in logStrays :
               /\ logs' = logs \cup {row} /\ logStrays' = logStrays \ {row}
               /\ UNCHANGED <<table, strays>>
    BY <1>5, <2>1, <2>3 DEF StrayLands, SyncTypeOK, guards, outside
  <2> QED BY <1>5, <2>2, <2>3 DEF StrayLands
<1> QED BY <1>1, <1>2, <1>3, <1>4, <1>5

-----------------------------------------------------------------------------
(***************************************************************************)
(* What a step of one process does to the variables of the processes.      *)
(***************************************************************************)
\* A step that throws leaves the job, if it is one, with its row to write.
LEMMA FailsLocals ==
  ASSUME SyncTypeOK, NEW p \in Procs, NEW left, Fails(p, left)
  PROVE  /\ \A q \in Procs \ {p} : run'[q] = run[q]
         /\ p = "cron" => run'[p] = Idle
         /\ p # "cron" => run'[p].pc = "failed" /\ run'[p].job = run[p].job
         /\ run'[p].pc \in {"idle", "failed"} /\ run'[p].todo = {} /\ ~run'[p].late
         /\ UNCHANGED <<jobs, queued, orphans>>
  BY DEF Fails, SyncTypeOK, Idle

\* The steps of a process: one that ends it writes the row of its job, unless that
\* fails; every other keeps to its job and leaves the rows alone.
LEMMA SyncCases ==
  ASSUME SyncAssumption, SyncTypeOK, NEW p \in Procs, Sync(p)
  PROVE  \/ /\ EndSync(p) \/ RecordFailure(p)
            /\ run' = [run EXCEPT ![p] = Idle]
         \/ \E left \in SUBSET run[p].todo : run[p].pc # "idle" /\ Fails(p, left)
         \/ /\ run[p].pc # "idle" /\ run'[p].pc \notin {"idle", "failed"}
            /\ \A q \in Procs \ {p} : run'[q] = run[q]
            /\ run'[p].job = run[p].job
            /\ UNCHANGED guards
<1> USE DEF SyncTypeOK
<1>a. run[p] \in Locals
  OBVIOUS
<1>1. CASE ListServers(p)
  <2>1. CASE config = Disabled \/ ~active
    BY <1>1, <2>1 DEF ListServers
  <2>2. CASE ~(config = Disabled \/ ~active)
    BY <1>1, <1>a, <2>2 DEF ListServers, Locals
  <2> QED BY <2>1, <2>2
<1>2. CASE ServerAheadFails(p) \/ NoAnswer(p) \/ DatabaseFails(p)
  BY <1>2 DEF ServerAheadFails, NoAnswer, DatabaseFails
<1>3. CASE BeginSync(p)
  BY <1>3, <1>a DEF BeginSync, Locals
<1>4. CASE QueryEntities(p)
  BY <1>4, <1>a DEF QueryEntities, Locals
<1>5. CASE UpsertEntity(p)
  BY <1>5, <1>a DEF UpsertEntity, Locals
<1>6. CASE DeleteStaleEntities(p)
  BY <1>6, <1>a DEF DeleteStaleEntities, Locals
<1>7. CASE CheckLogs(p)
  BY <1>7, <1>a DEF CheckLogs, Locals
<1>8. CASE QueryLogs(p)
  BY <1>8, <1>a DEF QueryLogs, Locals, Idle
<1>9. CASE UpsertLog(p)
  BY <1>9, <1>a DEF UpsertLog, Locals
<1>10. CASE EndSync(p) \/ RecordFailure(p)
  BY <1>10 DEF EndSync, RecordFailure
<1> QED
  BY <1>1, <1>2, <1>3, <1>4, <1>5, <1>6, <1>7, <1>8, <1>9, <1>10 DEF Sync

-----------------------------------------------------------------------------
(***************************************************************************)
(* Jobs.                                                                   *)
(***************************************************************************)
\* Nothing but the row of j may be finished by it.
LEMMA OneRowWritten ==
  ASSUME jobs \in Seq(JobRows), NEW j, NEW status \in {"RUNNING", "SUCCEEDED", "FAILED"},
         jobs' = [jobs EXCEPT ![j].status = status]
  PROVE  /\ DOMAIN jobs' = DOMAIN jobs
         /\ Unfinished' \subseteq Unfinished \cup {j}
         /\ status # "RUNNING" => Unfinished' \subseteq Unfinished \ {j}
<1>1. DOMAIN jobs' = DOMAIN jobs
  OBVIOUS
<1>2. \A i \in DOMAIN jobs : i # j => jobs'[i] = jobs[i]
  OBVIOUS
<1>3. j \in DOMAIN jobs => jobs'[j].status = status
  <2> SUFFICES ASSUME j \in DOMAIN jobs PROVE jobs'[j].status = status
    OBVIOUS
  <2>1. jobs[j] \in JobRows
    OBVIOUS
  <2> QED BY <2>1 DEF JobRows
<1> QED BY <1>1, <1>2, <1>3 DEF Unfinished

LEMMA JobStep ==
  ASSUME SyncAssumption, SyncTypeOK, Jobs, Next
  PROVE  Jobs'
<1> USE DEF SyncTypeOK
<1>a. /\ Procs = {"cron", "job", "log"}
      /\ \A j \in DOMAIN jobs : j \in Nat \ {0}
      /\ DOMAIN jobs = 1 .. Len(jobs) /\ Len(jobs) \in Nat
      /\ jobs \in Seq(JobRows)
  BY DEF Procs
<1>b. /\ Unfinished \subseteq queued \cup orphans \cup {run["job"].job, run["log"].job}
      /\ Unfinished \subseteq DOMAIN jobs
  BY DEF Jobs, JobsAreAccountedFor, Unfinished
<1>c. IdleHasNoJob /\ RunsItsJob
  BY DEF Jobs
<1> SUFFICES /\ IdleHasNoJob' /\ RunsItsJob'
             /\ Unfinished' \subseteq
                  queued' \cup orphans' \cup {run'["job"].job, run'["log"].job}
  BY DEF Jobs, JobsAreAccountedFor
<1>1. CASE \E p \in Procs : Sync(p)
  <2> PICK p \in Procs : Sync(p)
    BY <1>1
  <2>1. CASE /\ run[p].pc # "idle" /\ run'[p].pc \notin {"idle", "failed"}
             /\ \A q \in Procs \ {p} : run'[q] = run[q]
             /\ run'[p].job = run[p].job
             /\ UNCHANGED guards
    <3>1. \A q \in Procs : run'[q].job = run[q].job
      BY <2>1
    <3>2. Unfinished' = Unfinished
      BY <2>1 DEF guards, Unfinished
    <3>3. IdleHasNoJob' /\ RunsItsJob'
      BY <2>1, <1>a, <1>c DEF IdleHasNoJob, RunsItsJob, guards
    <3> QED BY <3>1, <3>2, <3>3, <2>1, <1>a, <1>b DEF guards
  <2>2. CASE \E left \in SUBSET run[p].todo : run[p].pc # "idle" /\ Fails(p, left)
    <3> PICK left \in SUBSET run[p].todo : run[p].pc # "idle" /\ Fails(p, left)
      BY <2>2
    <3>1. /\ \A q \in Procs \ {p} : run'[q] = run[q]
          /\ p = "cron" => run'[p] = Idle
          /\ p # "cron" => run'[p].pc = "failed" /\ run'[p].job = run[p].job
          /\ UNCHANGED <<jobs, queued, orphans>>
      BY FailsLocals
    <3>2. IdleHasNoJob'
      BY <3>1, <1>a, <1>c DEF IdleHasNoJob, Idle
    <3>3. RunsItsJob'
      BY <3>1, <1>a, <1>c DEF RunsItsJob, Idle
    <3>4. Unfinished' = Unfinished
      BY <3>1 DEF Unfinished
    <3>5. run'["job"].job = run["job"].job /\ run'["log"].job = run["log"].job
      BY <3>1, <1>a
    <3> QED BY <3>1, <3>2, <3>3, <3>4, <3>5, <1>b
  <2>3. CASE /\ EndSync(p) \/ RecordFailure(p)
             /\ run' = [run EXCEPT ![p] = Idle]
    <3>1. run'[p] = Idle /\ \A q \in Procs \ {p} : run'[q] = run[q]
      BY <2>3
    <3>2. /\ queued' = queued /\ orphans \subseteq orphans'
          /\ DOMAIN jobs' = DOMAIN jobs
          /\ Unfinished' \subseteq Unfinished
          /\ p # "cron" /\ run[p].job \in Unfinished' => run[p].job \in orphans'
      <4>1. CASE p = "cron" /\ EndSync(p)
        BY <4>1 DEF EndSync, Unfinished
      <4>2. CASE p # "cron" /\ EndSync(p)
        <5>1. jobs' = [jobs EXCEPT ![run[p].job].status = "SUCCEEDED"]
              /\ UNCHANGED <<queued, orphans>>
          BY <4>2 DEF EndSync
        <5>2. /\ DOMAIN jobs' = DOMAIN jobs
              /\ Unfinished' \subseteq Unfinished \ {run[p].job}
          BY <5>1, <1>a, OneRowWritten
        <5> QED BY <5>1, <5>2
      <4>3. CASE RecordFailure(p)
        <5>1. CASE jobs' = [jobs EXCEPT ![run[p].job].status = "FAILED"] /\ UNCHANGED orphans
          <6>1. queued' = queued
            BY <4>3 DEF RecordFailure
          <6>2. /\ DOMAIN jobs' = DOMAIN jobs
                /\ Unfinished' \subseteq Unfinished \ {run[p].job}
            BY <5>1, <1>a, OneRowWritten
          <6> QED BY <5>1, <6>1, <6>2
        <5>2. CASE orphans' = orphans \cup {run[p].job} /\ UNCHANGED jobs
          BY <4>3, <5>2 DEF RecordFailure, Unfinished
        <5> QED BY <4>3, <5>1, <5>2 DEF RecordFailure
      <4> QED BY <2>3, <4>1, <4>2, <4>3
    <3>3. IdleHasNoJob'
      BY <3>1, <1>c DEF IdleHasNoJob, Idle
    <3>4. RunsItsJob'
      BY <3>1, <3>2, <1>a, <1>c DEF RunsItsJob, Idle
    <3>5. \A j \in Unfinished' : j \in queued \cup orphans'
                                 \/ \E q \in {"job", "log"} \ {p} : j = run'[q].job
      BY <3>1, <3>2, <1>a, <1>b
    <3> QED BY <3>2, <3>3, <3>4, <3>5
  <2> QED BY <2>1, <2>2, <2>3, SyncCases
<1>2. CASE HandleScheduledSync
  <2>1. /\ run' = [run EXCEPT !["cron"] = [Idle EXCEPT !.pc = "servers"]]
        /\ UNCHANGED <<jobs, queued, orphans>>
    BY <1>2 DEF HandleScheduledSync
  <2>2. run'["job"] = run["job"] /\ run'["log"] = run["log"] /\ run'["cron"].pc = "servers"
    BY <2>1, <1>a DEF Idle
  <2>3. IdleHasNoJob' /\ RunsItsJob'
    BY <2>1, <2>2, <1>a, <1>c DEF IdleHasNoJob, RunsItsJob
  <2> QED BY <2>1, <2>2, <2>3, <1>b DEF Unfinished
<1>3. CASE \E kind \in JobKinds : EnqueueJob(kind)
  <2> PICK kind \in JobKinds : EnqueueJob(kind)
    BY <1>3
  <2>1. /\ jobs' = Append(jobs, [kind |-> kind, status |-> "PENDING"])
        /\ queued' = queued \cup {Len(jobs) + 1}
        /\ UNCHANGED <<orphans, run>>
    BY DEF EnqueueJob
  <2>2. /\ DOMAIN jobs' = 1 .. (Len(jobs) + 1)
        /\ \A j \in DOMAIN jobs : jobs'[j] = jobs[j]
    BY <2>1
  <2>3. Unfinished' \subseteq Unfinished \cup {Len(jobs) + 1}
    BY <2>2, <1>a DEF Unfinished
  <2>4. IdleHasNoJob' /\ RunsItsJob'
    BY <2>1, <2>2, <1>a, <1>c DEF IdleHasNoJob, RunsItsJob
  <2> QED BY <2>1, <2>3, <2>4, <1>b
<1>4. CASE \E j \in queued : ExecuteJob(j)
  <2> PICK j \in queued : ExecuteJob(j)
    BY <1>4
  <2> DEFINE p == ProcessOf(jobs[j].kind)
             l == [Idle EXCEPT !.pc = "servers", !.job = j, !.full = jobs[j].kind = "full"]
             k == [Idle EXCEPT !.pc = "failed", !.job = j]
  <2>1. p \in {"job", "log"}
    BY DEF ProcessOf
  <2>2. queued' = queued \ {j} /\ j \in DOMAIN jobs
    BY ExecuteCases
  <2>3. /\ l.job = j /\ k.job = j /\ l.pc = "servers" /\ k.pc = "failed"
    BY DEF Idle
  <2>4. \/ /\ run[p].pc = "idle" /\ run' = [run EXCEPT ![p] = l]
           /\ jobs' = [jobs EXCEPT ![j].status = "RUNNING"] /\ orphans' = orphans
        \/ /\ run[p].pc = "idle" /\ run' = [run EXCEPT ![p] = k]
           /\ jobs' = jobs /\ orphans' = orphans
        \/ /\ run' = run /\ orphans' = orphans
           /\ jobs' = [jobs EXCEPT ![j].status = "FAILED"]
        \/ run' = run /\ jobs' = jobs /\ orphans' = orphans \cup {j}
    BY ExecuteCases
  <2> HIDE DEF p, l, k
  <2>5. CASE run' = run /\ orphans' = orphans /\ jobs' = [jobs EXCEPT ![j].status = "FAILED"]
    <3>1. DOMAIN jobs' = DOMAIN jobs /\ Unfinished' \subseteq Unfinished \ {j}
      BY <2>5, <1>a, OneRowWritten
    <3> QED BY <3>1, <2>2, <2>5, <1>b, <1>c DEF IdleHasNoJob, RunsItsJob
  <2>6. CASE run' = run /\ jobs' = jobs /\ orphans' = orphans \cup {j}
    <3>1. Unfinished' = Unfinished
      BY <2>6 DEF Unfinished
    <3> QED BY <3>1, <2>2, <2>6, <1>b, <1>c DEF IdleHasNoJob, RunsItsJob
  <2>7. ASSUME run[p].pc = "idle", orphans' = orphans,
               NEW r \in {l, k}, run' = [run EXCEPT ![p] = r],
               Unfinished' \subseteq Unfinished \cup {j}, DOMAIN jobs' = DOMAIN jobs
        PROVE  /\ IdleHasNoJob' /\ RunsItsJob'
               /\ Unfinished' \subseteq
                    queued' \cup orphans' \cup {run'["job"].job, run'["log"].job}
    <3>1. run[p].job = 0 /\ 0 \notin Unfinished
      BY <2>1, <2>7, <1>a, <1>b, <1>c DEF IdleHasNoJob
    <3>2. /\ run'[p].job = j /\ run'[p].pc # "idle"
          /\ \A q \in Procs \ {p} : run'[q] = run[q]
      BY <2>1, <2>3, <2>7, <1>a
    <3>3. IdleHasNoJob'
      BY <3>2, <1>c DEF IdleHasNoJob
    <3>4. RunsItsJob'
      BY <3>2, <2>1, <2>2, <2>7, <1>a, <1>c DEF RunsItsJob
    <3>5. CASE p = "job"
      BY <3>1, <3>2, <3>3, <3>4, <3>5, <2>2, <2>7, <1>a, <1>b
    <3>6. CASE p = "log"
      BY <3>1, <3>2, <3>3, <3>4, <3>6, <2>2, <2>7, <1>a, <1>b
    <3> QED BY <3>5, <3>6, <2>1
  <2>8. CASE /\ run[p].pc = "idle" /\ run' = [run EXCEPT ![p] = l]
             /\ jobs' = [jobs EXCEPT ![j].status = "RUNNING"] /\ orphans' = orphans
    <3>1. DOMAIN jobs' = DOMAIN jobs /\ Unfinished' \subseteq Unfinished \cup {j}
      BY <2>8, <1>a, OneRowWritten
    <3> QED BY <3>1, <2>7, <2>8
  <2>9. CASE /\ run[p].pc = "idle" /\ run' = [run EXCEPT ![p] = k]
             /\ jobs' = jobs /\ orphans' = orphans
    <3>1. Unfinished' = Unfinished
      BY <2>9 DEF Unfinished
    <3> QED BY <3>1, <2>7, <2>9
  <2> QED BY <2>4, <2>5, <2>6, <2>8, <2>9
<1>5. CASE Restart
  <2>1. /\ jobs' = jobs /\ orphans' = orphans \cup Unfinished
        /\ run' = [p \in Procs |-> Idle]
    BY <1>5 DEF Restart
  <2>2. Unfinished' = Unfinished
    BY <2>1 DEF Unfinished
  <2>3. IdleHasNoJob' /\ RunsItsJob'
    BY <2>1, <1>a DEF IdleHasNoJob, RunsItsJob, Idle
  <2> QED BY <2>1, <2>2, <2>3
<1>6. CASE \/ StrayLands \/ EditWorld \/ Activate \/ ServerAhead
           \/ (Network \/ Pool \/ Administer) /\ Steady
  <2>1. UNCHANGED <<jobs, queued, orphans, run>>
    BY <1>6 DEF StrayLands, EditWorld, Activate, ServerAhead, Steady, guards
  <2> QED BY <2>1, <1>b, <1>c DEF IdleHasNoJob, RunsItsJob, Unfinished
<1> QED BY <1>1, <1>2, <1>3, <1>4, <1>5, <1>6 DEF Next

-----------------------------------------------------------------------------
(***************************************************************************)
(* Overlapping synchronisations.                                           *)
(***************************************************************************)

\* p goes on with something that is not copying, and no row becomes stale to
\* anybody, nor is a write left behind that would make it so.
LEMMA OverlapFrame ==
  ASSUME SyncTypeOK, Overlap, NEW p \in Procs,
         \A q \in Procs \ {p} : run'[q] = run[q],
         run'[p].pc \notin {"begin", "query", "upsert"}
           \/ (p # "log" /\ run'[p].pc = "begin"),
         run'[p].pc = "logrows" => run'[p].todo \subseteq LogRows,
         newest' = newest \/ Copying(p),
         DOMAIN table' \subseteq DOMAIN table,
         \A e \in DOMAIN table' : table'[e].stale \subseteq table[e].stale,
         \A s \in strays' : \/ \E t \in strays : s.stale \subseteq t.stale
                            \/ Copying(p) /\ s.stale = StaleTo(p)
  PROVE  Overlap'
<1>1. TodoFits'
  BY DEF Overlap, TodoFits
<1>2. LogJobsDoNotCopy'
  BY DEF Overlap, LogJobsDoNotCopy, Procs
<1>3. ~Copying(p)' /\ \A q \in Procs \ {p} : Copying(q)' <=> Copying(q)
  BY DEF Copying
<1>4. NewestBeganLast'
  <2> SUFFICES ASSUME NEW q \in Procs, NEW r \in Procs, Copying(q)', Copying(r)', q # r,
                      ~run'[q].late
               PROVE  newest' = r
    BY DEF NewestBeganLast
  <2>1. q # p /\ r # p /\ Copying(q) /\ Copying(r) /\ ~run[q].late
    BY <1>3
  <2>2. q # "log" /\ r # "log"
    BY <2>1 DEF Overlap, LogJobsDoNotCopy, Copying
  <2>3. ~Copying(p)
    BY <2>1, <2>2 DEF Overlap, LogJobsDoNotCopy, Copying, Procs
  <2> QED BY <2>1, <2>3 DEF Overlap, NewestBeganLast
<1>5. SeenIsFresh'
  BY DEF Overlap, SeenIsFresh
<1>6. StraysAreFresh'
  <2> SUFFICES ASSUME NEW q \in Procs, Copying(q)', ~run'[q].late, NEW s \in strays'
               PROVE  q \notin s.stale
    BY DEF StraysAreFresh
  <2>1. q # p /\ Copying(q) /\ ~run[q].late
    BY <1>3
  <2>2. CASE \E t \in strays : s.stale \subseteq t.stale
    BY <2>1, <2>2 DEF Overlap, StraysAreFresh
  <2>3. CASE Copying(p) /\ s.stale = StaleTo(p)
    <3>1. newest = p
      BY <2>1, <2>3 DEF Overlap, NewestBeganLast
    <3> QED BY <2>1, <2>3, <3>1 DEF StaleTo
  <2> QED BY <2>2, <2>3
<1> QED BY <1>1, <1>2, <1>4, <1>5, <1>6 DEF Overlap

LEMMA OverlapStep ==
  ASSUME SyncAssumption, SyncTypeOK, Overlap, NEW p \in Procs, Sync(p)
  PROVE  Overlap'
<1> USE DEF SyncTypeOK
<1>a. run[p] \in Locals
  OBVIOUS
<1>b. \A s \in strays : s.stale \subseteq s.stale
  OBVIOUS
<1>1. ASSUME NEW left \in SUBSET run[p].todo, Fails(p, left)
      PROVE  Overlap'
  <2>1. /\ \A q \in Procs \ {p} : run'[q] = run[q]
        /\ run'[p].pc \in {"idle", "failed"}
    BY <1>1, FailsLocals
  <2>2. /\ DOMAIN table' = DOMAIN table
        /\ \A e \in DOMAIN table' : table'[e].stale \subseteq table[e].stale
    BY <1>1, ForgottenIsContents DEF Fails
  <2>3. newest' = newest \/ Copying(p)
    BY <1>1 DEF Fails
  <2>4. ASSUME NEW s \in strays'
        PROVE  \/ \E t \in strays : s.stale \subseteq t.stale
               \/ Copying(p) /\ s.stale = StaleTo(p)
    <3>1. CASE s \in ForgottenStrays(p)
      BY <3>1, StraysForget
    <3>2. CASE s \notin ForgottenStrays(p)
      <4>1. run[p].pc = "upsert" /\ s \in {Write(p, e) : e \in left}
        BY <1>1, <3>2 DEF Fails
      <4> QED BY <4>1 DEF Copying, Write
    <3> QED BY <3>1, <3>2
  <2> QED BY <2>1, <2>2, <2>3, <2>4, OverlapFrame
<1>2. CASE ListServers(p)
  <2>1. CASE config = Disabled \/ ~active
    BY <1>1, <1>2, <2>1 DEF ListServers
  <2>2. CASE ~(config = Disabled \/ ~active)
    <3>1. /\ \A q \in Procs \ {p} : run'[q] = run[q]
          /\ run'[p].pc = IF p = "log" THEN "logs" ELSE "begin"
          /\ newest' = newest /\ table' = table /\ strays' = strays
      BY <1>2, <2>2, <1>a DEF ListServers, Locals, tables
    <3> QED BY <3>1, <1>b, OverlapFrame
  <2> QED BY <2>1, <2>2
<1>3. CASE ServerAheadFails(p) \/ NoAnswer(p) \/ DatabaseFails(p)
  BY <1>1, <1>3 DEF ServerAheadFails, NoAnswer, DatabaseFails
<1>4. CASE BeginSync(p)
  <2> DEFINE late == strays # {} \/ \E q \in Procs \ {p} : Copying(q)
  <2>1. /\ \A q \in Procs \ {p} : run'[q] = run[q]
        /\ run'[p].pc = "query" /\ (run'[p].late <=> late)
        /\ newest' = IF late THEN p ELSE "cron"
        /\ DOMAIN table' = DOMAIN table
        /\ \A e \in DOMAIN table : table'[e].stale = table[e].stale \cup {p}
        /\ \A s \in strays' : \E t \in strays : s.stale = t.stale \cup {p}
    <3>1. table \in [DOMAIN table -> Rows]
      BY ContentsOf
    <3>2. \A e \in DOMAIN table :
            [table[e] EXCEPT !.stale = @ \cup {p}].stale = table[e].stale \cup {p}
      BY <3>1 DEF Rows
    <3>3. \A t \in strays : [t EXCEPT !.stale = @ \cup {p}].stale = t.stale \cup {p}
      BY DEF Strays
    <3>4. /\ table' = [e \in DOMAIN table |-> [table[e] EXCEPT !.stale = @ \cup {p}]]
          /\ strays' = {[s EXCEPT !.stale = @ \cup {p}] : s \in strays}
          /\ run' = [run EXCEPT ![p] = [run[p] EXCEPT !.pc = "query", !.late = late]]
          /\ newest' = IF late THEN p ELSE "cron"
      BY <1>4 DEF BeginSync
    <3>5. \A s \in strays' : \E t \in strays : s.stale = t.stale \cup {p}
      BY <3>3, <3>4
    <3> HIDE DEF late
    <3> QED BY <3>2, <3>4, <3>5, <1>a DEF Locals
  <2>2. p # "log" /\ run[p].pc = "begin"
    BY <1>4 DEF BeginSync, Overlap, LogJobsDoNotCopy
  <2>3. TodoFits'
    BY <2>1 DEF Overlap, TodoFits
  <2>4. LogJobsDoNotCopy'
    BY <2>1, <2>2 DEF Overlap, LogJobsDoNotCopy, Procs
  <2>5. \A q \in Procs \ {p} : Copying(q)' <=> Copying(q)
    BY <2>1 DEF Copying
  <2>6. ASSUME NEW q \in Procs, NEW r \in Procs, Copying(q)', Copying(r)', q # r,
               ~run'[q].late
        PROVE  newest' = r
    <3>1. q # "log" /\ r # "log"
      BY <2>4, <2>6 DEF LogJobsDoNotCopy, Copying
    <3>2. CASE r = p
      BY <2>1, <2>5, <2>6, <3>2
    <3>3. CASE q = p
      BY <2>1, <2>5, <2>6, <3>3
    <3> QED BY <2>2, <2>6, <3>1, <3>2, <3>3 DEF Procs
  <2>7. NewestBeganLast'
    BY <2>6 DEF NewestBeganLast
  <2>8. SeenIsFresh'
    BY <2>1 DEF Overlap, SeenIsFresh
  <2>9. StraysAreFresh'
    <3> SUFFICES ASSUME NEW q \in Procs, Copying(q)', ~run'[q].late, NEW s \in strays'
                 PROVE  q \notin s.stale
      BY DEF StraysAreFresh
    <3>1. PICK t \in strays : s.stale = t.stale \cup {p}
      BY <2>1
    <3>2. q # p
      BY <2>1, <3>1
    <3> QED BY <2>1, <2>5, <3>1, <3>2 DEF Overlap, StraysAreFresh
  <2> QED BY <2>3, <2>4, <2>7, <2>8, <2>9 DEF Overlap
<1>5. CASE QueryEntities(p)
  <2>1. /\ \A q \in Procs \ {p} : run'[q] = run[q]
        /\ run'[p].pc = "upsert" /\ run'[p].late = run[p].late
        /\ run'[p].todo = DOMAIN run'[p].answer
        /\ newest' = newest /\ table' = table /\ strays' = strays
        /\ run[p].pc = "query"
    BY <1>5, <1>a DEF QueryEntities, Locals, tables
  <2>2. TodoFits' /\ LogJobsDoNotCopy'
    BY <2>1 DEF Overlap, TodoFits, LogJobsDoNotCopy, Procs
  <2>3. NewestBeganLast'
    BY <2>1 DEF Overlap, NewestBeganLast, Copying
  <2>4. SeenIsFresh'
    BY <2>1 DEF Overlap, SeenIsFresh
  <2>5. StraysAreFresh'
    BY <2>1 DEF Overlap, StraysAreFresh, Copying
  <2> QED BY <2>2, <2>3, <2>4, <2>5 DEF Overlap
<1>6. CASE UpsertEntity(p)
  <2>1. PICK e \in run[p].todo :
          /\ table' = With(table, e, [version |-> run[p].answer[e], stale |-> StaleTo(p)])
          /\ run' = [run EXCEPT ![p] = [run[p] EXCEPT !.todo = @ \ {e}]]
    BY <1>6 DEF UpsertEntity
  <2>2. /\ \A q \in Procs \ {p} : run'[q] = run[q]
        /\ run'[p].pc = "upsert" /\ run'[p].late = run[p].late
        /\ run'[p].answer = run[p].answer /\ run'[p].todo = run[p].todo \ {e}
        /\ newest' = newest /\ strays' = strays /\ run[p].pc = "upsert"
    BY <1>6, <1>a, <2>1 DEF UpsertEntity, Locals
  <2>3. /\ DOMAIN table' = DOMAIN table \cup {e}
        /\ table'[e].stale = StaleTo(p)
        /\ \A x \in DOMAIN table \ {e} : table'[x] = table[x]
    BY <2>1 DEF With
  <2>4. TodoFits' /\ LogJobsDoNotCopy'
    <3>1. TodoFits'
      BY <2>2 DEF Overlap, TodoFits
    <3>2. p # "log"
      BY <2>2 DEF Overlap, LogJobsDoNotCopy
    <3>3. LogJobsDoNotCopy'
      BY <2>2, <3>2 DEF Overlap, LogJobsDoNotCopy, Procs
    <3> QED BY <3>1, <3>3
  <2>5. NewestBeganLast' /\ StraysAreFresh'
    BY <2>2 DEF Overlap, NewestBeganLast, StraysAreFresh, Copying
  <2>6. ASSUME NEW q \in Procs, run'[q].pc = "upsert", ~run'[q].late,
               NEW x \in (DOMAIN run'[q].answer \ run'[q].todo) \cap DOMAIN table'
        PROVE  q \notin table'[x].stale
    <3>1. q \notin StaleTo(p)
      <4>1. CASE q = p
        BY <4>1 DEF StaleTo
      <4>2. CASE q # p
        <5>1. Copying(q) /\ Copying(p) /\ ~run[q].late
          BY <2>2, <2>6, <4>2 DEF Copying
        <5>2. newest = p
          BY <5>1, <4>2 DEF Overlap, NewestBeganLast
        <5> QED BY <5>2, <4>2 DEF StaleTo
      <4> QED BY <4>1, <4>2
    <3>2. CASE x = e
      BY <3>1, <3>2, <2>3
    <3>3. CASE x # e
      BY <2>2, <2>3, <2>6, <3>3 DEF Overlap, SeenIsFresh
    <3> QED BY <3>2, <3>3
  <2>7. SeenIsFresh'
    BY <2>6 DEF SeenIsFresh
  <2> QED BY <2>4, <2>5, <2>7 DEF Overlap
<1>7. CASE DeleteStaleEntities(p)
  <2>1. /\ \A q \in Procs \ {p} : run'[q] = run[q]
        /\ run'[p].pc = "logs" /\ Copying(p)
        /\ strays' = ForgottenStrays(p)
        /\ DOMAIN table' \subseteq DOMAIN table
        /\ \A e \in DOMAIN table' : table'[e] = table[e]
    BY <1>7, <1>a DEF DeleteStaleEntities, Locals, Copying
  <2>2. \A s \in strays' : \E t \in strays : s.stale \subseteq t.stale
    BY <2>1, StraysForget
  <2> QED BY <2>1, <2>2, OverlapFrame
<1>8. CASE CheckLogs(p)
  <2>1. /\ \A q \in Procs \ {p} : run'[q] = run[q]
        /\ run'[p].pc = "logquery" /\ newest' = newest /\ table' = table /\ strays' = strays
    BY <1>8, <1>a DEF CheckLogs, Locals
  <2> QED BY <2>1, <1>b, OverlapFrame
<1>9. CASE QueryLogs(p)
  <2>1. /\ \A q \in Procs \ {p} : run'[q] = run[q]
        /\ run'[p].pc = "logrows" /\ newest' = newest /\ table' = table /\ strays' = strays
        /\ run'[p].todo = IF run[p].full THEN LogRows ELSE Recent
    BY <1>9, <1>a DEF QueryLogs, Locals, tables, Idle
  <2> QED BY <2>1, <1>b, OverlapFrame DEF SyncAssumption
<1>10. CASE UpsertLog(p)
  <2>1. /\ \A q \in Procs \ {p} : run'[q] = run[q]
        /\ run'[p].pc = "logrows" /\ newest' = newest /\ table' = table /\ strays' = strays
        /\ run'[p].todo \subseteq run[p].todo /\ run[p].pc = "logrows"
    BY <1>10, <1>a DEF UpsertLog, Locals
  <2>2. run[p].todo \subseteq LogRows
    BY <2>1 DEF Overlap, TodoFits
  <2> QED BY <2>1, <2>2, <1>b, OverlapFrame
<1>11. CASE EndSync(p) \/ RecordFailure(p)
  <2>1. /\ \A q \in Procs \ {p} : run'[q] = run[q]
        /\ run'[p].pc = "idle" /\ newest' = newest /\ table' = table /\ strays' = strays
    BY <1>11 DEF EndSync, RecordFailure, tables, Idle
  <2> QED BY <2>1, <1>b, OverlapFrame
<1> QED
  BY <1>2, <1>3, <1>4, <1>5, <1>6, <1>7, <1>8, <1>9, <1>10, <1>11 DEF Sync

LEMMA OverlapStays ==
  ASSUME Overlap, UNCHANGED <<table, strays, run, newest>>
  PROVE  Overlap'
  BY DEF Overlap, TodoFits, LogJobsDoNotCopy, NewestBeganLast, SeenIsFresh,
         StraysAreFresh, Copying

\* p goes from idle to its first step, or to the failure to take it.
LEMMA OverlapStarts ==
  ASSUME SyncTypeOK, Overlap, NEW p \in Procs, NEW l,
         table' = table, strays' = strays, newest' = newest,
         run' = [run EXCEPT ![p] = l], l.pc \in {"servers", "failed"}
  PROVE  Overlap'
<1>1. run'[p].pc \in {"servers", "failed"} /\ \A q \in Procs \ {p} : run'[q] = run[q]
  BY DEF SyncTypeOK
<1>2. \A s \in strays : s.stale \subseteq s.stale
  OBVIOUS
<1> QED BY <1>1, <1>2, OverlapFrame

\* A write left behind lands with the mark it was sent with.
LEMMA OverlapLands ==
  ASSUME SyncTypeOK, Overlap, StrayLands
  PROVE  Overlap'
<1>1. UNCHANGED <<run, newest>> /\ strays' \subseteq strays
  BY DEF StrayLands
<1>2. TodoFits' /\ LogJobsDoNotCopy' /\ NewestBeganLast' /\ StraysAreFresh'
  BY <1>1 DEF Overlap, TodoFits, LogJobsDoNotCopy, NewestBeganLast, StraysAreFresh, Copying
<1>3. SeenIsFresh'
  <2>1. CASE table' = table
    BY <1>1, <2>1 DEF Overlap, SeenIsFresh
  <2>2. CASE \E s \in strays :
               table' = With(table, s.entity, [version |-> s.version, stale |-> s.stale])
    <3> PICK s \in strays :
               table' = With(table, s.entity, [version |-> s.version, stale |-> s.stale])
      BY <2>2
    <3>1. /\ DOMAIN table' = DOMAIN table \cup {s.entity}
          /\ table'[s.entity].stale = s.stale
          /\ \A x \in DOMAIN table \ {s.entity} : table'[x] = table[x]
      BY DEF With
    <3> SUFFICES ASSUME NEW q \in Procs, run[q].pc = "upsert", ~run[q].late,
                        NEW x \in (DOMAIN run[q].answer \ run[q].todo) \cap DOMAIN table'
                 PROVE  q \notin table'[x].stale
      BY <1>1 DEF SeenIsFresh
    <3>2. CASE x = s.entity
      BY <3>1, <3>2 DEF Overlap, StraysAreFresh, Copying
    <3>3. CASE x # s.entity
      BY <3>1, <3>3 DEF Overlap, SeenIsFresh
    <3> QED BY <3>2, <3>3
  <2> QED BY <2>1, <2>2 DEF StrayLands
<1> QED BY <1>2, <1>3 DEF Overlap

-----------------------------------------------------------------------------
(***************************************************************************)
(* The invariant.                                                          *)
(***************************************************************************)
SyncInv == PoolTypes /\ SyncTypeOK /\ Jobs /\ Overlap

LEMMA SyncStarts ==
  ASSUME BeaconAssumption, SyncAssumption, SyncInit
  PROVE  SyncInv
<1>1. PoolTypes
  BY PoolStarts DEF SyncInit, PoolTypes, PoolInv
<1>2. SyncTypeOK
  <2>1. world \in Contents(Versions)
    BY ContentsOf DEF SyncInit, Versions, BeaconAssumption
  <2>2. table \in Contents(Rows)
    BY NoRowsIsContents DEF SyncInit
  <2>3. run \in [Procs -> Locals]
    BY IdleIsLocals DEF SyncInit
  <2>4. jobs \in Seq(JobRows) /\ Len(jobs) <= MaxJobs
    BY DEF SyncInit, SyncAssumption
  <2> QED BY <2>1, <2>2, <2>3, <2>4 DEF SyncInit, SyncTypeOK, Procs
<1>3. \A p \in Procs : run[p] = Idle
  BY DEF SyncInit
<1>4. Jobs
  BY <1>3 DEF Jobs, IdleHasNoJob, RunsItsJob, Idle, JobsAreAccountedFor, Unfinished,
              SyncInit, Procs
<1>5. Overlap
  BY <1>3 DEF Overlap, TodoFits, LogJobsDoNotCopy, NewestBeganLast, SeenIsFresh,
              StraysAreFresh, Copying, Idle, Procs
<1> QED BY <1>1, <1>2, <1>4, <1>5 DEF SyncInv

LEMMA SyncInvStep ==
  ASSUME BeaconAssumption, SyncAssumption, SyncInv, Next
  PROVE  SyncInv'
<1> USE DEF SyncInv
<1>1. Jobs'
  BY JobStep
<1>2. CASE \E p \in Procs : Sync(p)
  <2>1. TodoFits /\ RunsItsJob
    BY DEF Overlap, Jobs
  <2> QED BY <1>1, <1>2, <2>1, SyncTypeStep, OverlapStep
<1>3. CASE HandleScheduledSync
  <2> DEFINE l == [Idle EXCEPT !.pc = "servers"]
  <2>1. /\ run' = [run EXCEPT !["cron"] = l] /\ l.pc = "servers"
        /\ table' = table /\ strays' = strays /\ newest' = newest /\ "cron" \in Procs
    BY <1>3 DEF HandleScheduledSync, tables, Procs, Idle
  <2> HIDE DEF l
  <2>2. Overlap'
    BY <2>1, OverlapStarts
  <2> QED BY <1>1, <1>3, <2>2, OtherTypes
<1>4. CASE \E kind \in JobKinds : EnqueueJob(kind)
  <2> PICK kind \in JobKinds : EnqueueJob(kind)
    BY <1>4
  <2>1. UNCHANGED <<poolVars, tables, run, newest>>
    BY DEF EnqueueJob
  <2>2. Overlap' /\ PoolTypes'
    BY <2>1, OverlapStays, SpentChange DEF tables, poolVars
  <2> QED BY <1>1, <2>2, JobTypes
<1>5. CASE \E j \in queued : ExecuteJob(j)
  <2> PICK j \in queued : ExecuteJob(j)
    BY <1>5
  <2> DEFINE p == ProcessOf(jobs[j].kind)
             l == [Idle EXCEPT !.pc = "servers", !.job = j, !.full = jobs[j].kind = "full"]
             k == [Idle EXCEPT !.pc = "failed", !.job = j]
  <2>1. p \in Procs /\ l.pc = "servers" /\ k.pc = "failed"
    BY DEF ProcessOf, Procs, Idle
  <2>2. /\ run' = run \/ run' = [run EXCEPT ![p] = l] \/ run' = [run EXCEPT ![p] = k]
        /\ spent' = spent \/ Disturb
        /\ UNCHANGED <<config, up, entry, tables, newest>>
    BY ExecuteCases
  <2> HIDE DEF p, l, k
  <2>3. PoolTypes'
    BY <2>2, SpentChange
  <2>4. table' = table /\ strays' = strays
    BY <2>2 DEF tables
  <2>5. CASE run' = run
    BY <2>2, <2>4, <2>5, OverlapStays, <1>1, <2>3, JobTypes
  <2>6. CASE run' = [run EXCEPT ![p] = l]
    <3>1. Overlap'
      BY <2>1, <2>2, <2>4, <2>6, OverlapStarts
    <3> QED BY <3>1, <1>1, <2>3, JobTypes
  <2>7. CASE run' = [run EXCEPT ![p] = k]
    <3>1. Overlap'
      BY <2>1, <2>2, <2>4, <2>7, OverlapStarts
    <3> QED BY <3>1, <1>1, <2>3, JobTypes
  <2> QED BY <2>2, <2>5, <2>6, <2>7
<1>6. CASE Restart
  <2>1. \A p \in Procs : run'[p] = Idle
    BY <1>6 DEF Restart
  <2>2. Overlap'
    BY <2>1 DEF Overlap, TodoFits, LogJobsDoNotCopy, NewestBeganLast, SeenIsFresh,
                StraysAreFresh, Copying, Idle, Procs
  <2> QED BY <1>1, <1>6, <2>2, RestartTypes
<1>7. CASE EditWorld \/ Activate \/ ServerAhead \/ ((Network \/ Pool \/ Administer) /\ Steady)
  <2>1. UNCHANGED <<tables, run, newest>>
    BY <1>7 DEF EditWorld, Activate, ServerAhead, Steady
  <2>2. Overlap'
    BY <2>1, OverlapStays DEF tables
  <2> QED BY <1>1, <1>7, <2>2, OtherTypes
<1>8. CASE StrayLands
  BY <1>1, <1>8, OverlapLands, OtherTypes
<1> QED BY <1>2, <1>3, <1>4, <1>5, <1>6, <1>7, <1>8 DEF Next

THEOREM SyncInvariant == Spec => []SyncInv
<1>1. SyncInit => SyncInv
  BY BeaconAssumption, SyncAssumption, SyncStarts
<1>2. SyncInv /\ [Next]_syncVars => SyncInv'
  <2>1. CASE Next
    BY <2>1, BeaconAssumption, SyncAssumption, SyncInvStep
  <2>2. CASE UNCHANGED syncVars
    <3> UNCHANGED <<config, up, entry, spent, world, active, ahead, table, logs, strays,
                    logStrays, syncing, jobs, queued, orphans, run, newest>>
      BY <2>2 DEF syncVars, poolVars, outside, tables, guards
    <3> QED
      BY DEF SyncInv, PoolTypes, PoolTypeOK, IsWatched, SyncTypeOK, Jobs, IdleHasNoJob,
             RunsItsJob, JobsAreAccountedFor, Unfinished, Overlap, TodoFits,
             LogJobsDoNotCopy, NewestBeganLast, SeenIsFresh, StraysAreFresh, Copying
  <2> QED BY <2>1, <2>2
<1> QED BY <1>1, <1>2, PTL DEF Spec

-----------------------------------------------------------------------------
(***************************************************************************)
(* Theorems.                                                               *)
(***************************************************************************)
\* The tables, the guards in memory and the variables of the three processes keep
\* to their types, for any number of jobs and failures.
THEOREM SyncTypeSafe == Spec => []TypeOK
<1>1. SyncInv => TypeOK
  BY DEF SyncInv, PoolTypes, TypeOK
<1> QED BY <1>1, SyncInvariant, PTL

\* A job row that is not over is waiting, is the one that runs, was cut off by a
\* restart or could not be read or written, in whatever order jobs are enqueued,
\* refused, fail and are reported.
THEOREM NoJobIsForgotten == Spec => []JobsAreAccountedFor
<1>1. SyncInv => JobsAreAccountedFor
  BY DEF SyncInv, Jobs
<1> QED BY <1>1, SyncInvariant, PTL

\* The pool watches its clients under the synchronisation as well, which takes
\* clients for endpoints it has read before.
THEOREM SyncKeepsPoolWatching == Spec => []PoolWatches
<1>1. SyncInv => PoolWatches
  BY DEF SyncInv, PoolTypes, IsWatched, PoolWatches, Trying
<1> QED BY <1>1, SyncInvariant, PTL

\* A synchronisation that began while no other one was copying, nor had left writes
\* behind, deletes no row the beacon has just told it of, whoever else copies, fails
\* and leaves writes behind meanwhile.
THEOREM NothingSeenIsDeleted == Spec => KeepsWhatItSaw
<1> DEFINE Kept(p) ==
      run[p].pc = "upsert" /\ run'[p].pc = "logs" /\ ~run[p].late
        => DOMAIN run[p].answer \cap DOMAIN table \subseteq DOMAIN table'
<1>1. SyncInv /\ [Next]_syncVars => \A p \in Procs : Kept(p)
  <2> SUFFICES ASSUME SyncInv, [Next]_syncVars, NEW p \in Procs,
                      run[p].pc = "upsert", run'[p].pc = "logs", ~run[p].late
               PROVE  DOMAIN run[p].answer \cap DOMAIN table \subseteq DOMAIN table'
    OBVIOUS
  <2>a. SyncTypeOK /\ SyncAssumption /\ run[p] \in Locals
    BY SyncAssumption DEF SyncInv, SyncTypeOK
  <2>1. DeleteStaleEntities(p)
    <3>1. ASSUME NEW q \in Procs, Sync(q)
          PROVE  DeleteStaleEntities(p)
      <4>1. q = p
        BY <3>1, <2>a, SyncCases, FailsLocals DEF SyncTypeOK
      <4>2. \A left : ~Fails(p, left)
        BY <2>a, FailsLocals
      <4>3. ~ServerAheadFails(p) /\ ~NoAnswer(p) /\ ~DatabaseFails(p)
        BY <4>2 DEF ServerAheadFails, NoAnswer, DatabaseFails
      <4>4. ~UpsertEntity(p)
        <5> SUFFICES ASSUME UpsertEntity(p) PROVE FALSE
          OBVIOUS
        <5>1. PICK e \in run[p].todo :
                run' = [run EXCEPT ![p] = [run[p] EXCEPT !.todo = @ \ {e}]]
          BY DEF UpsertEntity
        <5>2. run'[p].pc = "upsert"
          BY <5>1, <2>a DEF Locals, SyncTypeOK
        <5> QED BY <5>2
      <4>5. ~ListServers(p) /\ ~BeginSync(p) /\ ~QueryEntities(p) /\ ~CheckLogs(p)
            /\ ~QueryLogs(p) /\ ~UpsertLog(p) /\ ~EndSync(p) /\ ~RecordFailure(p)
        BY DEF ListServers, BeginSync, QueryEntities, CheckLogs, QueryLogs, UpsertLog,
               EndSync, RecordFailure
      <4> QED BY <3>1, <4>1, <4>3, <4>4, <4>5 DEF Sync
    <3>2. ~HandleScheduledSync
      BY <2>a DEF HandleScheduledSync, Idle, SyncTypeOK
    <3>3. ASSUME NEW j \in queued, ExecuteJob(j)
          PROVE  FALSE
      <4> DEFINE q == ProcessOf(jobs[j].kind)
                 l == [Idle EXCEPT !.pc = "servers", !.job = j,
                                   !.full = jobs[j].kind = "full"]
                 k == [Idle EXCEPT !.pc = "failed", !.job = j]
      <4>1. \/ run' = run
            \/ run' = [run EXCEPT ![q] = l]
            \/ run' = [run EXCEPT ![q] = k]
        BY <3>3, ExecuteCases
      <4>2. l.pc = "servers" /\ k.pc = "failed"
        BY DEF Idle
      <4> HIDE DEF q, l, k
      <4> QED BY <4>1, <4>2, <2>a DEF SyncTypeOK
    <3>4. ~Restart
      BY DEF Restart, Idle
    <3>5. run' # run
      OBVIOUS
    <3>6. /\ ~EditWorld /\ ~Activate /\ ~ServerAhead /\ ~StrayLands
          /\ ~((Network \/ Pool \/ Administer) /\ Steady)
          /\ \A kind \in JobKinds : ~EnqueueJob(kind)
          /\ ~UNCHANGED syncVars
      BY <3>5 DEF EditWorld, Activate, ServerAhead, StrayLands, Steady, EnqueueJob, syncVars
    <3> QED BY <3>1, <3>2, <3>3, <3>4, <3>6 DEF Next
  <2>2. run[p].todo = {}
    BY <2>1 DEF DeleteStaleEntities
  <2>3. \A e \in DOMAIN run[p].answer \cap DOMAIN table : p \notin table[e].stale
    BY <2>2 DEF SyncInv, Overlap, SeenIsFresh
  <2> QED BY <2>1, <2>3 DEF DeleteStaleEntities
<1> QED BY <1>1, SyncInvariant, PTL DEF Spec, KeepsWhatItSaw
=============================================================================
