-------------------------- MODULE OpenClawBindings --------------------------
(***************************************************************************)
(* Bindings of employees to master wallets (api.rs, store.rs), and the     *)
(* orchestration summary that joins them with the agents' heartbeats.      *)
(*                                                                         *)
(* A bind request upserts one binding after another.  Each upsert reads    *)
(* the stored binding, refuses when another master holds it and force is   *)
(* not set, keeps what the request does not give, and writes; nothing      *)
(* locks the binding between the read and the write.  An error ends the    *)
(* request and leaves the bindings that it has written.                    *)
(*                                                                         *)
(* The optional fields that are merged alike (name, role, division,        *)
(* status, source, tags, profile, metadata) are one, role.                 *)
(***************************************************************************)
EXTENDS Integers, Sequences, FiniteSets

CONSTANTS
    Binds,          \* bind requests
    BindRequest,    \* BindRequest[r]: [master, employees (a sequence), force, role, wallet]
    Employees,
    Masters,
    HEARTBEAT_TIMEOUT,
    Seen,           \* bound: the employee wallets that send heartbeats
    MaxBeatTime     \* bound: time

NotGiven == "not given"

VARIABLES
    binding,    \* autonomo_openclaw_bindings: employee -> binding, or Unbound
    bind,       \* bind[r]: the request's step, the employee it is at, what it has read
    beat,       \* heartbeats: employee wallet -> last_seen, or NeverSeen
    beatTime,   \* the time
    summary     \* the last orchestration summary

bindingVars == <<binding, bind, beat, beatTime, summary>>

Unbound == [id |-> "none"]
NeverSeen == -1

derive_openclaw_employee_wallet(master, employee) == <<master, employee>>

\* The wallets that an employee may come to have.
EmployeeWallets ==
    {derive_openclaw_employee_wallet(m, e) : m \in Masters, e \in Employees}

\* A bulk request without employees is refused by the handler.
ASSUME BindingsAssumption ==
    /\ HEARTBEAT_TIMEOUT \in Nat
    /\ Seen \subseteq EmployeeWallets
    /\ \A r \in Binds :
         LET q == BindRequest[r] IN
         /\ q.master \in Masters
         /\ q.employees \in Seq(Employees) /\ q.employees # <<>>
         /\ q.wallet = NotGiven \/ q.wallet \in EmployeeWallets

BindingsInit ==
    /\ binding = [e \in Employees |-> Unbound]
    /\ bind = [r \in Binds |-> [at |-> "idle", i |-> 1, existing |-> Unbound]]
    /\ beat = [w \in EmployeeWallets |-> NeverSeen]
    /\ beatTime = 0
    /\ summary = [master |-> NotGiven, time |-> 0, bound |-> 0, online |-> 0, stale |-> 0]

Target(r) == BindRequest[r].employees[bind[r].i]

\* Mutant of Conflict: any request may take an employee over.
ConflictNever(r, existing) == FALSE

\* Another master holds the employee.
Conflict(r, existing) ==
    /\ existing # Unbound
    /\ existing.master # BindRequest[r].master
    /\ ~BindRequest[r].force

\* upsert_openclaw_binding, first half: the stored binding is read and checked.
get_openclaw_binding(r) ==
    /\ bind[r].at \in {"idle", "read"}
    /\ LET existing == binding[Target(r)]
       IN  bind' = [bind EXCEPT ![r].existing = existing,
                                ![r].at = IF Conflict(r, existing) THEN "refused" ELSE "write"]
    /\ UNCHANGED <<binding, beat, beatTime, summary>>

\* Mutant of Merged: what the request does not give is set to its default.
MergedDefaults(r, existing) ==
    LET q == BindRequest[r] IN
    [id |-> <<r, bind[r].i>>, bound_at |-> beatTime, master |-> q.master,
     wallet |-> derive_openclaw_employee_wallet(q.master, Target(r)),
     role |-> IF q.role = NotGiven THEN "Unassigned" ELSE q.role]

\* The binding that is written: id and time of the first binding stay, and every
\* field that the request does not give.  The wallet stays as well when a forced
\* request changes the master that it was derived from.
Merged(r, existing) ==
    LET q == BindRequest[r]
        Old(field, default) == IF existing = Unbound THEN default ELSE existing[field]
    IN  [id       |-> Old("id", <<r, bind[r].i>>),
         bound_at |-> Old("bound_at", beatTime),
         master   |-> q.master,
         wallet   |-> IF q.wallet # NotGiven THEN q.wallet
                      ELSE Old("wallet", derive_openclaw_employee_wallet(q.master, Target(r))),
         role     |-> IF q.role # NotGiven THEN q.role ELSE Old("role", "Unassigned")]

\* Second half: the merged binding is written; a bulk request goes on to its
\* next employee.
put_openclaw_binding(r) ==
    /\ bind[r].at = "write"
    /\ binding' = [binding EXCEPT ![Target(r)] = Merged(r, bind[r].existing)]
    /\ bind' = IF bind[r].i = Len(BindRequest[r].employees)
               THEN [bind EXCEPT ![r].at = "done"]
               ELSE [bind EXCEPT ![r].at = "read", ![r].i = @ + 1]
    /\ UNCHANGED <<beat, beatTime, summary>>

EmployeeHeartbeat(w) ==
    /\ beat' = [beat EXCEPT ![w] = beatTime]
    /\ UNCHANGED <<binding, bind, beatTime, summary>>

BeatTick ==
    /\ beatTime < MaxBeatTime
    /\ beatTime' = beatTime + 1
    /\ UNCHANGED <<binding, bind, beat, summary>>

\* list_openclaw_bindings_for_master, or all of them.
BindingsOf(master) ==
    {e \in Employees : binding[e] # Unbound /\ master \in {NotGiven, binding[e].master}}

\* Mutant of HeartbeatStale: an employee that was never seen is not stale.
StaleIfSeen(wallet) == beat[wallet] # NeverSeen /\ beatTime - beat[wallet] > HEARTBEAT_TIMEOUT

HeartbeatStale(wallet) ==
    beat[wallet] = NeverSeen \/ beatTime - beat[wallet] > HEARTBEAT_TIMEOUT

autonomo_openclaw_orchestration_context(master) ==
    /\ LET mine == BindingsOf(master)
           stale == {e \in mine : HeartbeatStale(binding[e].wallet)}
       IN  summary' = [master |-> master, time |-> beatTime, bound |-> Cardinality(mine),
                       stale |-> Cardinality(stale), online |-> Cardinality(mine \ stale)]
    /\ UNCHANGED <<binding, bind, beat, beatTime>>

BindingsNext ==
    \/ \E r \in Binds : get_openclaw_binding(r) \/ put_openclaw_binding(r)
    \/ \E w \in Seen : EmployeeHeartbeat(w)
    \/ BeatTick
    \/ \E m \in Masters \cup {NotGiven} : autonomo_openclaw_orchestration_context(m)

BindingsSpec == BindingsInit /\ [][BindingsNext]_bindingVars

-----------------------------------------------------------------------------
(* Properties.                                                             *)

\* A write over the binding that its request has seen keeps the binding's
\* identity and what the request does not give, and changes its master only by
\* force.  What it has not seen, because another request wrote in between, it
\* may replace.
SeenBindingKept ==
    [][\A e \in Employees :
         LET old == binding[e]
             new == binding'[e]
         IN  (old # Unbound /\ new # old) =>
               \E r \in Binds :
                 /\ bind[r].at = "write"
                 /\ Target(r) = e
                 /\ bind[r].existing = old =>
                      /\ new.id = old.id /\ new.bound_at = old.bound_at
                      /\ BindRequest[r].force \/ new.master = old.master
                      /\ BindRequest[r].role = NotGiven => new.role = old.role
                      /\ BindRequest[r].wallet = NotGiven => new.wallet = old.wallet]_bindingVars

\* The summary counts an employee as online only on a heartbeat of its wallet
\* that was recent enough, so that an employee nobody has seen is never online.
OnlineWasSeen ==
    summary.online > 0 =>
        \E w \in EmployeeWallets :
            /\ beat[w] # NeverSeen
            /\ summary.time - beat[w] <= HEARTBEAT_TIMEOUT

\* A bind request changes of a binding it has seen only what it may, and the
\* summary of the bindings counts as online only who was seen in time.
BindingsSound ==
    /\ SeenBindingKept
    /\ []OnlineWasSeen

=============================================================================
