---------------------------- MODULE MCRailwaySync ----------------------------
(***************************************************************************)
(* Values for the run of RailwaySync: one entity, which may be demolished  *)
(* and built again, one recent log row, a beacon that may move.            *)
(***************************************************************************)
EXTENDS RailwaySync

CONSTANTS station, new

\* Bounds: the second job is enqueued while the first runs, is of its kind, and
\* leaves room for one disturbance instead of two. They only keep out steps that
\* enqueue a job or spend something of the budget, and of the fair actions each
\* that is enabled has a step that does neither.
FewJobs ==
  Len(jobs') = 2 =>
    /\ spent' < Budget
    /\ jobs'[1].kind = jobs'[2].kind
    /\ Len(jobs) = 1 => jobs[1].status = "RUNNING"
=============================================================================
