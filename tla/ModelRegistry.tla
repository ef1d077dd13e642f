---------------------------- MODULE ModelRegistry ----------------------------
(***************************************************************************)
(* The registry of served models (llm/registry.rs), with the guards its    *)
(* operations hold on the entries of its DashMaps, and the requests that   *)
(* read it (agents/inference_router.rs, api.rs, p2p.rs).                   *)
(*                                                                         *)
(* A task is one HTTP handler, peer message or router call.  The guard on  *)
(* a model's entry is a lock on the shard the model hashes to, read by     *)
(* `get` and written by `get_mut` and `insert`; it lives as long as the    *)
(* variable that holds it.  The guards on stage entries never outlive one  *)
(* statement, so that operations on stages are single steps.               *)
(*                                                                         *)
(* The latest heartbeat of each stage is stored and never read: left out.  *)
(***************************************************************************)
EXTENDS Integers, Sequences, FiniteSets

CONSTANTS
    Tasks,
    ModelIds,
    ShardOf,        \* the shard of each model's entry
    StageNodes,     \* nodes that serve stages
    StageCounts     \* pipeline_stages of the models that are registered

ASSUME RegistryAssumption ==
    /\ DOMAIN ShardOf = ModelIds
    /\ StageCounts \subseteq Nat
    \* pipeline_stages is a u32: there is a largest one.
    /\ StageCounts # {} => \E n \in StageCounts : \A k \in StageCounts : k <= n

VARIABLES
    models,    \* models: model_id -> [pipeline_stages, status]
    stages,    \* stages: model_id, stage_index -> [node_address, loaded]
    task,      \* task[t]: the operation t is in, and how far
    readers,   \* readers[s]: tasks that hold a read guard of shard s
    writer,    \* writer[s]: tasks (at most one) that hold its write guard
    answers    \* the routes and readiness answers given so far

registryVars == <<models, stages, task, readers, writer, answers>>

NoModel == [pipeline_stages |-> 0, status |-> "none"]
NoStage == [node_address |-> "none", loaded |-> FALSE]
Idle == [op |-> "idle"]

Shards == {ShardOf[m] : m \in ModelIds}
StageIndexes == 0..(IF StageCounts = {} THEN 0
                    ELSE CHOOSE n \in StageCounts : \A k \in StageCounts : k <= n)

RegistryInit ==
    /\ models = [m \in ModelIds |-> NoModel]
    /\ stages = [m \in ModelIds |-> [i \in StageIndexes |-> NoStage]]
    /\ task = [t \in Tasks |-> Idle]
    /\ readers = [s \in Shards |-> {}]
    /\ writer = [s \in Shards |-> {}]
    /\ answers = {}

\* DashMap's shard lock: readers pass a writer that only waits.
MayRead(m) == writer[ShardOf[m]] = {}
MayWrite(m) == writer[ShardOf[m]] = {} /\ readers[ShardOf[m]] = {}

TakeRead(t, m) == readers' = [readers EXCEPT ![ShardOf[m]] = @ \cup {t}]
LeaveRead(t, m) == readers' = [readers EXCEPT ![ShardOf[m]] = @ \ {t}]

\* register_model: the insert waits for the shard and replaces the entry.  Its
\* caller asks first and waits in the queue of the lock.
BeginRegister(t, m, n) ==
    /\ task[t] = Idle
    /\ task' = [task EXCEPT ![t] = [op |-> "register", model |-> m, count |-> n]]
    /\ UNCHANGED <<models, stages, readers, writer, answers>>

InsertModel(t) ==
    /\ task[t].op = "register"
    /\ MayWrite(task[t].model)
    /\ models' = [models EXCEPT ![task[t].model] =
                    [pipeline_stages |-> task[t].count, status |-> "Registered"]]
    /\ task' = [task EXCEPT ![t] = Idle]
    /\ UNCHANGED <<stages, readers, writer, answers>>

-----------------------------------------------------------------------------
(* Claims.                                                                 *)

\* claim_stage: the model is looked up, and its guard is kept to the end.
BeginClaim(t, m, i, n, loaded) ==
    /\ task[t] = Idle
    /\ MayRead(m)
    /\ models[m] # NoModel /\ i < models[m].pipeline_stages
    /\ TakeRead(t, m)
    /\ task' = [task EXCEPT ![t] = [op |-> "claim", model |-> m, stage |-> i,
                                    assignment |-> [node_address |-> n, loaded |-> loaded]]]
    /\ UNCHANGED <<models, stages, writer, answers>>

InsertStage(t) ==
    /\ task[t].op = "claim"
    /\ stages' = [stages EXCEPT ![task[t].model][task[t].stage] = task[t].assignment]
    /\ task' = [task EXCEPT ![t] = [op |-> "update", model |-> task[t].model, holds |-> TRUE]]
    /\ UNCHANGED <<models, readers, writer, answers>>

\* mark_stage_ready holds no guard of the model when it asks for the update.
mark_stage_ready(t, m, i) ==
    /\ task[t] = Idle
    /\ stages' = IF stages[m][i] = NoStage THEN stages
                 ELSE [stages EXCEPT ![m][i].loaded = TRUE]
    /\ task' = [task EXCEPT ![t] = [op |-> "update", model |-> m, holds |-> FALSE]]
    /\ UNCHANGED <<models, readers, writer, answers>>

\* Mutant of LockForUpdate: the status is updated without the entry's guard.
UpdateUnlocked(t) ==
    /\ task[t].op = "update"
    /\ task' = [task EXCEPT ![t] =
         IF models[task[t].model] = NoModel THEN Idle
         ELSE [op |-> "count", model |-> task[t].model, next |-> 0, ready |-> 0, holds |-> task[t].holds]]
    /\ UNCHANGED <<models, stages, readers, writer, answers>>

\* update_model_status: models.get_mut waits for every reader of the shard, the
\* task's own guard included.
LockForUpdate(t) ==
    /\ task[t].op = "update"
    /\ MayWrite(task[t].model)
    /\ IF models[task[t].model] = NoModel
       THEN /\ task' = [task EXCEPT ![t] = Idle]
            /\ UNCHANGED writer
       ELSE /\ writer' = [writer EXCEPT ![ShardOf[task[t].model]] = {t}]
            /\ task' = [task EXCEPT ![t] = [op |-> "count", model |-> task[t].model,
                                            next |-> 0, ready |-> 0, holds |-> task[t].holds]]
    /\ UNCHANGED <<models, stages, readers, answers>>

\* The loaded stages are counted one by one, then the status is set and the
\* guards go.
CountStage(t) ==
    /\ task[t].op = "count"
    /\ task[t].next < models[task[t].model].pipeline_stages
    /\ task' = [task EXCEPT ![t].next = @ + 1,
                            ![t].ready = @ + IF stages[task[t].model][task[t].next].loaded
                                             THEN 1 ELSE 0]
    /\ UNCHANGED <<models, stages, readers, writer, answers>>

SetStatus(t) ==
    /\ task[t].op = "count"
    /\ LET m == task[t].model
           total == models[m].pipeline_stages
           assigned == \E i \in 0..(total - 1) : stages[m][i] # NoStage
       IN  /\ task[t].next = total
           /\ models' = [models EXCEPT ![m].status =
                           CASE task[t].ready = total -> "FullyServed"
                             [] task[t].ready # total /\ assigned -> "PartiallyServed"
                             [] OTHER -> "Registered"]
           /\ writer' = [writer EXCEPT ![ShardOf[m]] = @ \ {t}]
           /\ LeaveRead(t, m)
    /\ task' = [task EXCEPT ![t] = Idle]
    /\ UNCHANGED <<stages, answers>>

\* record_heartbeat: whoever sends it, the assignment takes its loaded flag.  A
\* peer's StageHeartbeat says TRUE.
record_heartbeat(m, i, loaded) ==
    /\ stages[m][i] # NoStage
    /\ stages' = [stages EXCEPT ![m][i].loaded = loaded]
    /\ UNCHANGED <<models, task, readers, writer, answers>>

-----------------------------------------------------------------------------
(* Readers: get_pipeline_route, and is_model_ready for submit_request, the *)
(* inference endpoint and the router's monitor.                            *)

\* Mutant of BeginScan: the entry is copied and its guard released.
BeginScanUnguarded(t, m) ==
    /\ task[t] = Idle
    /\ MayRead(m)
    /\ models[m] # NoModel
    /\ task' = [task EXCEPT ![t] = [op |-> "scan", model |-> m, route |-> <<>>,
                                    count |-> models[m].pipeline_stages]]
    /\ UNCHANGED <<models, stages, readers, writer, answers>>

BeginScan(t, m) ==
    /\ task[t] = Idle
    /\ MayRead(m)
    /\ models[m] # NoModel
    /\ TakeRead(t, m)
    /\ task' = [task EXCEPT ![t] = [op |-> "scan", model |-> m, route |-> <<>>,
                                    count |-> models[m].pipeline_stages]]
    /\ UNCHANGED <<models, stages, writer, answers>>

\* The next stage is looked at; one that is not assigned or not loaded ends the
\* scan with an error, or with the answer that the model is not ready.
ScanStage(t) ==
    /\ task[t].op = "scan"
    /\ Len(task[t].route) < task[t].count
    /\ LET s == stages[task[t].model][Len(task[t].route)] IN
       IF s.loaded
       THEN /\ task' = [task EXCEPT ![t].route = Append(@, s.node_address)]
            /\ UNCHANGED readers
       ELSE /\ task' = [task EXCEPT ![t] = Idle]
            /\ LeaveRead(t, task[t].model)
    /\ UNCHANGED <<models, stages, writer, answers>>

\* The scan ends well: the route is returned, the request queued.
EndScan(t) ==
    /\ task[t].op = "scan"
    /\ Len(task[t].route) = task[t].count
    /\ answers' = answers \cup {[model |-> task[t].model, route |-> task[t].route,
                                 entry |-> models[task[t].model]]}
    /\ task' = [task EXCEPT ![t] = Idle]
    /\ LeaveRead(t, task[t].model)
    /\ UNCHANGED <<models, stages, writer>>

TaskStep(t) ==
    \/ InsertModel(t) \/ InsertStage(t) \/ LockForUpdate(t) \/ CountStage(t)
    \/ SetStatus(t) \/ ScanStage(t) \/ EndScan(t)

RegistryNext ==
    \/ \E t \in Tasks, m \in ModelIds, n \in StageCounts : BeginRegister(t, m, n)
    \/ \E t \in Tasks, m \in ModelIds, i \in StageIndexes, n \in StageNodes, l \in BOOLEAN :
         BeginClaim(t, m, i, n, l)
    \/ \E t \in Tasks, m \in ModelIds, i \in StageIndexes : mark_stage_ready(t, m, i)
    \/ \E m \in ModelIds, i \in StageIndexes, l \in BOOLEAN : record_heartbeat(m, i, l)
    \/ \E t \in Tasks, m \in ModelIds : BeginScan(t, m)
    \/ \E t \in Tasks : TaskStep(t)

RegistrySpec == RegistryInit /\ [][RegistryNext]_registryVars

\* A task that can go on does.
RegistryFairness == \A t \in Tasks : WF_registryVars(TaskStep(t))

RegistryFairSpec == RegistrySpec /\ RegistryFairness

-----------------------------------------------------------------------------
(* Properties.                                                             *)

\* A route has one node for every stage of the model as it is registered when
\* the route is returned, although the stages were read one by one and the model
\* may be registered anew at any time.
RouteCoversModel ==
    \A a \in answers : Len(a.route) = a.entry.pipeline_stages

\* The status is set under the entry's guard: nobody reads or replaces the entry
\* of a model while its stages are being counted.
CountsExclusively ==
    \A t \in Tasks : task[t].op = "count" =>
        /\ task[t].next <= models[task[t].model].pipeline_stages
        /\ \A u \in Tasks \ {t} : task[u].op \in {"scan", "count"}
                                    => ShardOf[task[u].model] # ShardOf[task[t].model]

\* A node that claims a pipeline stage is answered.
ClaimAnswered ==
    \A t \in Tasks : (task[t].op = "claim") ~> (task[t] = Idle)

\* Routes and counts, each read stage by stage, belong to the model entry they are
\* answered for, although others register and claim meanwhile.
RegistryConsistent ==
    /\ RouteCoversModel
    /\ CountsExclusively

=============================================================================
