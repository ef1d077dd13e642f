----------------------------- MODULE MCServices -----------------------------
(* The services of a running node, for TLC: the compute marketplace, the model  *)
(* registry, decoding, the agents' secure memory, bindings, relay and tools,    *)
(* and the API gate.  They share no state and no lock, so each behaviour runs   *)
(* one of them.                                                                 *)
EXTENDS ComputeMarket, ModelRegistry, Decoding, SecureMemory,
        OpenClawBindings, AgentRelay, ToolExecutor, ApiGate

CONSTANTS n1, n2, j1, s1, s2, h1, h2, t1, t2, t3, m1

VARIABLE part   \* the service that runs

-----------------------------------------------------------------------------
(* Compute marketplace: jobs that need a GPU and an average reputation, to be    *)
(* run once or twice.                                                           *)
MarketRequirements ==
    [redundancy: {1, 2}, cores: {1}, requires_gpu: {TRUE}, vram: {1}, reputation: {50}]

MarketCapabilities ==
    {[cores |-> 1, gpu |-> FALSE, vram |-> 0, reputation |-> 50],
     [cores |-> 2, gpu |-> TRUE, vram |-> 1, reputation |-> 50]}

(* Model registry: every entry in one shard of the map.                         *)
OneShard == [m \in ModelIds |-> "s"]

(* Decoding: no stop sequence, one, a repeated one, and one beside an empty one. *)
StopSequences == {{}, {<<1>>}, {<<1, 1>>}, {<<2, 1>>, <<>>}}

(* Secure memory: two devices' tokens, for the first and for a later pairing.   *)
PairingHeaders ==
    [c \in Callers |->
        IF c = "first" THEN [token |-> <<"w", "d", 1>>, device |-> "d",
                             clearance |-> "mission_control"]
                       ELSE [token |-> <<"w", "d", 2>>, device |-> "d",
                             clearance |-> "internal"]]

(* Bindings: a new one, a bulk request by another master, a forced one, and one  *)
(* that names another employee's wallet.                                        *)
BindRequests ==
    [r \in Binds |-> CASE
       r = "new"    -> [master |-> "m1", employees |-> <<"e1">>, force |-> FALSE,
                        role |-> "pilot", wallet |-> NotGiven]
    [] r = "bulk"   -> [master |-> "m2", employees |-> <<"e2", "e1">>, force |-> FALSE,
                        role |-> NotGiven, wallet |-> NotGiven]
    [] r = "forced" -> [master |-> "m2", employees |-> <<"e1">>, force |-> TRUE,
                        role |-> NotGiven, wallet |-> NotGiven]
    [] r = "named"  -> [master |-> "m1", employees |-> <<"e1">>, force |-> FALSE,
                        role |-> NotGiven, wallet |-> <<"m2", "e1">>]]

WalletsSeen == {<<"m1", "e1">>}

(* Relay: two envelopes of one moment, and one that another wallet has signed.  *)
RelayEnvelopes ==
    {[created |-> 0, sender |-> "a", signer |-> "a", content |-> "x"],
     [created |-> 0, sender |-> "a", signer |-> "a", content |-> "y"],
     [created |-> 0, sender |-> "a", signer |-> "b", content |-> "x"]}

(* Tools: two requests; with a virtual environment, without one, and with the    *)
(* sandboxing switched off.                                                      *)
ToolJob(tool, dir, denied) == [tool |-> tool, dir |-> dir, denied |-> denied, key |-> 1]

ToolJobs ==
    [o \in Orders |->
        IF o = "o1"
        THEN <<ToolJob("store", NoPath, FALSE), ToolJob("js", NoPath, FALSE),
               ToolJob("shell", NoPath, FALSE), ToolJob("unknown", NoPath, FALSE),
               ToolJob("store", NoPath, FALSE)>>
        ELSE <<ToolJob("js", "/home/x", FALSE), ToolJob("shell", "/etc", FALSE),
               ToolJob("shell", NoPath, TRUE), ToolJob("py", NoPath, FALSE),
               ToolJob("query", NoPath, FALSE)>>]

FirstStops == [o \in Orders |-> o = "o1"]

TwoWallets == [o \in Orders |-> IF o = "o1" THEN "w1" ELSE "w2"]

ToolEnvironments ==
    {[venv_only |-> "unset", venvs |-> <<"/v">>, inside |-> {"bin", "python"},
      roots |-> {"/home"}, cwd |-> "/srv"],
     [venv_only |-> "unset", venvs |-> <<"/v">>, inside |-> {"bin"}, roots |-> {},
      cwd |-> "/home"],
     [venv_only |-> "unset", venvs |-> <<"/nope", "/also">>, inside |-> {}, roots |-> {"/none"},
      cwd |-> "/home"],
     [venv_only |-> "off", venvs |-> <<>>, inside |-> {}, roots |-> {}, cwd |-> "/home"]}

ToolPaths == {"/v", "/home", "/srv", "/home/x", "/etc"}

ToolAncestors == [p \in ToolPaths |-> IF p = "/home/x" THEN {"/home", "/home/x"} ELSE {p}]

(* The API gate: a public route and another through a tunnel, a direct local     *)
(* request, and a preflight with a token.                                        *)
GateRequest(options, public, forwarded, localHost, token) ==
    [options |-> options, public |-> public, loopback |-> TRUE, forwarded |-> forwarded,
     localHost |-> localHost, token |-> token]

GateRequests ==
    {GateRequest(FALSE, TRUE, TRUE, FALSE, FALSE), GateRequest(FALSE, FALSE, TRUE, FALSE, FALSE),
     GateRequest(FALSE, FALSE, FALSE, TRUE, FALSE), GateRequest(TRUE, FALSE, TRUE, FALSE, TRUE)}

-----------------------------------------------------------------------------
\* Only the service p may change.
Only(p) ==
    /\ UNCHANGED part
    /\ IF p = "market" THEN TRUE ELSE UNCHANGED marketVars
    /\ IF p = "registry" THEN TRUE ELSE UNCHANGED registryVars
    /\ IF p = "decoding" THEN TRUE ELSE UNCHANGED decodingVars
    /\ IF p = "memory" THEN TRUE ELSE UNCHANGED memoryVars
    /\ IF p = "bindings" THEN TRUE ELSE UNCHANGED bindingVars
    /\ IF p = "relay" THEN TRUE ELSE UNCHANGED relayVars
    /\ IF p = "tools" THEN TRUE ELSE UNCHANGED toolVars
    /\ IF p = "gate" THEN TRUE ELSE UNCHANGED gateVars

ServicesInit ==
    /\ part \in {"market", "registry", "decoding", "memory", "bindings",
                "relay", "tools", "gate"}
    /\ MarketInit
    /\ RegistryInit
    /\ DecodingInit
    /\ MemoryInit
    /\ BindingsInit
    /\ RelayInit
    /\ ToolsInit
    /\ GateInit
    /\ part # "memory" => knowledge = [s \in Slots |-> NoNote]
    /\ part # "tools" => policy = load_runtime_policy(CHOOSE e \in Environments : TRUE)

ServicesNext ==
    \/ part = "market" /\ MarketNext /\ Only("market")
    \/ part = "registry" /\ RegistryNext /\ Only("registry")
    \/ part = "decoding" /\ DecodingNext /\ Only("decoding")
    \/ part = "memory" /\ MemoryNext /\ Only("memory")
    \/ part = "bindings" /\ BindingsNext /\ Only("bindings")
    \/ part = "relay" /\ RelayNext /\ Only("relay")
    \/ part = "tools" /\ ToolsNext /\ Only("tools")
    \/ part = "gate" /\ GateNext /\ Only("gate")

ServicesSpec == ServicesInit /\ [][ServicesNext]_<<part, marketVars, registryVars,
    decodingVars, memoryVars, bindingVars, relayVars, toolVars, gateVars>>

=============================================================================
