---------------------------- MODULE ToolExecutor ----------------------------
(***************************************************************************)
(* The tool executor (agents/tool_executor.rs) and its orchestration       *)
(* endpoint (api.rs): runtime policy, shell commands, code run from a      *)
(* temporary file, and the agents' knowledge base.                         *)
(*                                                                         *)
(* Requests run concurrently; the jobs of one request run one after        *)
(* another.  Code goes to a file named by the millisecond, which the       *)
(* interpreter reads later; the file is removed when the run ends or times *)
(* out.  A process that times out is not killed.                           *)
(*                                                                         *)
(* A file's content is the request and job that wrote it.  Output, the     *)
(* deny list's words and the tools that only fetch or convert a document   *)
(* are left out.                                                           *)
(***************************************************************************)
EXTENDS Integers, Sequences, FiniteSets

CONSTANTS
    Orders,         \* requests of tools_orchestrate (tools_execute: one job)
    Jobs,           \* Jobs[o]: [tool, dir, denied, key] in order
    StopOnError,    \* StopOnError[o]
    WalletOf,       \* WalletOf[o]: agent_wallet
    Environments,   \* [venv_only, venvs (candidate paths, in order), inside (what the
                    \*  virtual environment contains), roots, cwd]
    Existing,       \* the paths that exist
    Ancestors,      \* Ancestors[p]: p and the directories above it
    KnowledgeKeys,
    MaxToolMillis   \* bound: time

\* tools_orchestrate refuses a request without jobs.
ASSUME ToolsAssumption ==
    /\ MaxToolMillis \in Nat
    /\ \A o \in Orders :
         /\ Len(Jobs[o]) \in Nat \ {0} /\ DOMAIN Jobs[o] = 1..Len(Jobs[o])
         /\ \A i \in DOMAIN Jobs[o] : Jobs[o][i].key \in KnowledgeKeys
         /\ StopOnError[o] \in BOOLEAN

VARIABLES
    policy,     \* ToolRuntimePolicy with its paths, as load_runtime_policy made it
    order,      \* order[o]: the job it is at, its step, file, and its summary
    temp,       \* temporary files: <<millisecond, extension>> -> writer, or NoFile
    written,    \* history: [order, job, ext, at] of every file that was written
    ran,        \* history: [order, job, code] of every program that was started
    orphans,    \* processes whose request has timed out
    kb,         \* agent_kb_<wallet>: wallet -> key -> writer, or NoFile
    found,      \* the last answer of knowledge_query
    toolMillis

toolVars == <<policy, order, temp, written, ran, orphans, kb, found, toolMillis>>

NoFile == <<>>
NoPath == "no path"
Extensions == {"py", "js"}
Wallets == {WalletOf[o] : o \in Orders}

-----------------------------------------------------------------------------
(* Runtime policy.                                                         *)

\* A variable that is not set gives the default; any value but these is false.
read_env_bool(value, default) ==
    IF value = "unset" THEN default ELSE value \in {"1", "true", "yes", "on"}

\* The configured environment, VIRTUAL_ENV, .venv and venv, in this order: the
\* first that exists.
venv_root(e) ==
    LET there == {i \in DOMAIN e.venvs : e.venvs[i] \in Existing}
    IN  IF there = {} THEN NoPath ELSE e.venvs[CHOOSE i \in there : \A j \in there : i <= j]

\* The configured roots that exist, and the current directory.
allowed_roots(e) == (e.roots \cap Existing) \cup {e.cwd}

load_runtime_policy(e) ==
    [venv_only |-> read_env_bool(e.venv_only, TRUE), venv |-> venv_root(e),
     inside |-> e.inside, roots |-> allowed_roots(e),
     home |-> IF e.roots \cap Existing = {} THEN e.cwd
              ELSE CHOOSE p \in e.roots \cap Existing : TRUE]

ToolsInit ==
    /\ \E e \in Environments : policy = load_runtime_policy(e)
    /\ order = [o \in Orders |-> [at |-> "next", job |-> 1, file |-> <<0, "py">>,
                                  succeeded |-> 0, failed |-> 0]]
    /\ temp = [f \in (0..MaxToolMillis) \X Extensions |-> NoFile]
    /\ written = {}
    /\ ran = {}
    /\ orphans = {}
    /\ kb = [w \in Wallets |-> [k \in KnowledgeKeys |-> NoFile]]
    /\ found = [wallet |-> CHOOSE w \in Wallets : TRUE, chunks |-> {}]
    /\ toolMillis = 0

\* A working directory has to exist and to lie under an allowed root.
resolve_working_dir(dir) ==
    LET base == IF dir = NoPath THEN policy.home ELSE dir
    IN  base \in Existing /\ Ancestors[base] \cap policy.roots # {}

resolve_venv_bin_dir == policy.venv # NoPath /\ "bin" \in policy.inside

\* The interpreter that the policy asks for is there.
python_program == policy.venv_only => resolve_venv_bin_dir /\ "python" \in policy.inside

\* The environment that the policy asks for is there.
apply_runtime_env == policy.venv_only => resolve_venv_bin_dir

-----------------------------------------------------------------------------
(* Jobs.                                                                   *)

Job(o) == Jobs[o][order[o].job]

\* Mutant of AfterJob: a failure never ends a request.
GoOn(o, success) ==
    IF order[o].job = Len(Jobs[o]) THEN "answered" ELSE "next"

\* What follows a job: the next one, or the answer, after the last one and after
\* a failure when the request asks to stop.
AfterJob(o, success) ==
    IF order[o].job = Len(Jobs[o]) \/ (StopOnError[o] /\ ~success) THEN "answered" ELSE "next"

\* The job's result is counted and recorded.
Completed(o, success) ==
    order' = [order EXCEPT
                ![o].at = AfterJob(o, success),
                ![o].job = IF AfterJob(o, success) = "next" THEN @ + 1 ELSE @,
                ![o].succeeded = IF success THEN @ + 1 ELSE @,
                ![o].failed = IF success THEN @ ELSE @ + 1]

\* A job without a tool name, or with one that is not known.
NoSuchTool(o) ==
    /\ order[o].at = "next"
    /\ Job(o).tool = "unknown"
    /\ Completed(o, FALSE)
    /\ UNCHANGED <<policy, temp, written, ran, orphans, kb, found, toolMillis>>

\* exec_shell, up to the spawn.
exec_shell(o) ==
    /\ order[o].at = "next"
    /\ Job(o).tool = "shell"
    /\ IF resolve_working_dir(Job(o).dir) /\ ~Job(o).denied /\ apply_runtime_env
       THEN /\ order' = [order EXCEPT ![o].at = "running"]
            /\ ran' = ran \cup {[order |-> o, job |-> order[o].job,
                                 code |-> <<o, order[o].job>>]}
       ELSE Completed(o, FALSE) /\ UNCHANGED ran
    /\ UNCHANGED <<policy, temp, written, orphans, kb, found, toolMillis>>

\* Mutant of TempFile: every run of a language uses the same name.
OneTempFile(ext) == <<0, ext>>

TempFile(ext) == <<toolMillis, ext>>

\* exec_code: the working directory and the interpreter are checked, the file is
\* written.
WriteCode(o) ==
    /\ order[o].at = "next"
    /\ Job(o).tool \in Extensions
    /\ IF resolve_working_dir(Job(o).dir) /\ (Job(o).tool = "py" => python_program)
       THEN LET f == TempFile(Job(o).tool) IN
            /\ temp' = [temp EXCEPT ![f] = <<o, order[o].job>>]
            /\ written' = written \cup {[order |-> o, job |-> order[o].job,
                                         ext |-> Job(o).tool, at |-> toolMillis]}
            /\ order' = [order EXCEPT ![o].at = "spawn", ![o].file = f]
       ELSE Completed(o, FALSE) /\ UNCHANGED <<temp, written>>
    /\ UNCHANGED <<policy, ran, orphans, kb, found, toolMillis>>

\* The policy's environment is applied, which may fail and leaves the file; the
\* interpreter starts and reads what the file then holds.
SpawnCode(o) ==
    /\ order[o].at = "spawn"
    /\ IF apply_runtime_env
       THEN /\ order' = [order EXCEPT ![o].at = "running"]
            /\ ran' = ran \cup {[order |-> o, job |-> order[o].job,
                                 code |-> temp[order[o].file]]}
       ELSE Completed(o, FALSE) /\ UNCHANGED ran
    /\ UNCHANGED <<policy, temp, written, orphans, kb, found, toolMillis>>

\* The run ends, with or without success, or times out; the process of a run
\* that timed out goes on.
RunEnds(o, outcome) ==
    /\ order[o].at = "running"
    /\ order' = [order EXCEPT ![o].at = IF outcome = "done" THEN "clean" ELSE "clean after error"]
    /\ orphans' = IF outcome = "timeout" THEN orphans \cup {<<o, order[o].job>>} ELSE orphans
    /\ UNCHANGED <<policy, temp, written, ran, kb, found, toolMillis>>

\* Mutant of Clean: the file is removed after a run that ended in time only.
CleanAfterSuccess(o) ==
    /\ order[o].at \in {"clean", "clean after error"}
    /\ temp' = IF Job(o).tool \in Extensions /\ order[o].at = "clean"
               THEN [temp EXCEPT ![order[o].file] = NoFile] ELSE temp
    /\ Completed(o, order[o].at = "clean")
    /\ UNCHANGED <<policy, written, ran, orphans, kb, found, toolMillis>>

\* The file of a code run is removed, and the result is recorded.
Clean(o) ==
    /\ order[o].at \in {"clean", "clean after error"}
    /\ temp' = IF Job(o).tool \in Extensions
               THEN [temp EXCEPT ![order[o].file] = NoFile] ELSE temp
    /\ Completed(o, order[o].at = "clean")
    /\ UNCHANGED <<policy, written, ran, orphans, kb, found, toolMillis>>

\* The orphan of a timed-out run ends by itself.
OrphanEnds ==
    /\ \E p \in orphans : orphans' = orphans \ {p}
    /\ UNCHANGED <<policy, order, temp, written, ran, kb, found, toolMillis>>

-----------------------------------------------------------------------------
(* The knowledge base.                                                     *)

\* Mutant of KnowledgeTree: one tree for all agents.
OneTree(w) == CHOOSE v \in Wallets : TRUE

KnowledgeTree(w) == w

\* An error of the store is logged and the job succeeds all the same.
knowledge_store(o, works) ==
    /\ order[o].at = "next"
    /\ Job(o).tool = "store"
    /\ kb' = IF works THEN [kb EXCEPT ![KnowledgeTree(WalletOf[o])][Job(o).key] =
                              <<o, order[o].job>>]
             ELSE kb
    /\ Completed(o, TRUE)
    /\ UNCHANGED <<policy, temp, written, ran, orphans, found, toolMillis>>

\* The chunks whose key starts with the query or, without any, those that
\* contain it; here a query is a key.
knowledge_query(o) ==
    /\ order[o].at = "next"
    /\ Job(o).tool = "query"
    /\ LET tree == kb[KnowledgeTree(WalletOf[o])] IN
       found' = [wallet |-> WalletOf[o],
                 chunks |-> {tree[Job(o).key]} \ {NoFile}]
    /\ Completed(o, TRUE)
    /\ UNCHANGED <<policy, temp, written, ran, orphans, kb, toolMillis>>

ToolTick ==
    /\ toolMillis < MaxToolMillis
    /\ toolMillis' = toolMillis + 1
    /\ UNCHANGED <<policy, order, temp, written, ran, orphans, kb, found>>

ToolsNext ==
    \/ \E o \in Orders :
         \/ NoSuchTool(o)
         \/ exec_shell(o)
         \/ WriteCode(o)
         \/ SpawnCode(o)
         \/ \E outcome \in {"done", "error", "timeout"} : RunEnds(o, outcome)
         \/ Clean(o)
         \/ \E works \in BOOLEAN : knowledge_store(o, works)
         \/ knowledge_query(o)
    \/ OrphanEnds
    \/ ToolTick

ToolsSpec == ToolsInit /\ [][ToolsNext]_toolVars

-----------------------------------------------------------------------------
(* Properties.                                                             *)

\* A program that is started is the job's own code, unless another request has
\* written code of the same language in the same millisecond: then it may be the
\* other's, or none.
RunsOwnCode ==
    \A r \in ran :
        \/ r.code = <<r.order, r.job>>
        \/ \E own, other \in written :
             /\ <<own.order, own.job>> = <<r.order, r.job>>
             /\ other.order # r.order
             /\ other.ext = own.ext /\ other.at = own.at

\* Once every request is answered no temporary file is left, unless the policy
\* asks for a virtual environment that is not there: the JavaScript file of such
\* a run stays.
NoTempLeft ==
    (\A o \in Orders : order[o].at = "answered")
        => \A f \in DOMAIN temp :
             temp[f] # NoFile => f[2] = "js" /\ ~apply_runtime_env

\* The summary of an answered request accounts for its jobs: without
\* stop_on_error all of them; with it, all up to and with the first that failed.
SummaryAccounts ==
    \A o \in Orders :
        LET s == order[o] IN
        s.at = "answered" =>
            /\ s.succeeded + s.failed = s.job
            /\ StopOnError[o] => s.failed <= 1
            /\ (~StopOnError[o] \/ s.failed = 0) => s.job = Len(Jobs[o])

\* A query answers with chunks that its own agent has stored, and only those.
KnowledgeOwn ==
    \A c \in found.chunks : WalletOf[c[1]] = found.wallet

\* Concurrent requests are kept apart and accounted for: each runs its own code
\* and reads its own knowledge, answers for all its jobs and leaves no file.
RequestsAccounted ==
    /\ RunsOwnCode
    /\ NoTempLeft
    /\ SummaryAccounts
    /\ KnowledgeOwn

=============================================================================
