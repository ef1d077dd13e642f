---------------------------- MODULE SecureMemory ----------------------------
(***************************************************************************)
(* The agents' vault (api.rs): access registration, which pairs a wallet   *)
(* with a device and an access code; memories, encrypted when they are     *)
(* ingested and decrypted when they are recalled; the context endpoint;    *)
(* and the chat proxy, which puts a memory before the messages it forwards *)
(* to a language model.                                                    *)
(*                                                                         *)
(* The store locks one key at a time.  A handler reads the access profile, *)
(* reads or writes the memory and, in the chat proxy, reads the profile    *)
(* again, while registrations and other requests replace both.             *)
(*                                                                         *)
(* A pairing hash is the triple it hashes and a ciphertext the pair of its *)
(* key material and its plain text: it opens with equal material only (the *)
(* decompression refuses anything else).  Knowledge records are the        *)
(* vault's plain predecessor.  White space around names is left out.       *)
(***************************************************************************)
EXTENDS Integers, Sequences, FiniteSets

CONSTANTS
    Callers,        \* clients; Headers[c]: what c's requests carry
    Headers,        \* [token: a pairing or NoToken, device, clearance]
    MemoryWallets,
    MemoryKeys,
    Codes,          \* access codes
    Devices,
    MemoryValues,
    MaxCalls        \* bound: requests of each kind of handler in a behaviour

NoToken == <<>>
NoNote == "no note"
NoProfile == [pairing |-> <<>>]
NoEnvelope == [sensitivity |-> "none"]

VARIABLES
    profile,    \* access_profiles: wallet -> profile, or NoProfile
    vault,      \* secure_memory: <<wallet, key>> -> envelope, or NoEnvelope
    knowledge,  \* the knowledge tree: <<wallet, key>> -> value, or NoNote
    call,       \* call[c]: the request of c that is being handled
    answer,     \* the last answer: what it discloses, and to which token
    granted,    \* history: pairings that were given mission control, per wallet
    calls       \* number of requests

memoryVars == <<profile, vault, knowledge, call, answer, granted, calls>>

Slots == MemoryWallets \X MemoryKeys
Resting == [at |-> "rest"]
Silent == [kind |-> "none"]

MemoryInit ==
    /\ profile = [w \in MemoryWallets |-> NoProfile]
    /\ vault = [s \in Slots |-> NoEnvelope]
    /\ knowledge \in [Slots -> {NoNote} \cup MemoryValues]
    /\ call = [c \in Callers |-> Resting]
    /\ answer = Silent
    /\ granted = [w \in MemoryWallets |-> {}]
    /\ calls = 0

-----------------------------------------------------------------------------
(* Access.                                                                 *)

compute_pairing_hash(wallet, device, code) == <<wallet, device, code>>

\* Mutant of is_mission_control_authorized: the token is not compared.
AuthorizedByDevice(c, wallet) ==
    /\ profile[wallet] # NoProfile
    /\ profile[wallet].mission_control
    /\ profile[wallet].gov_portal_onboarded
    /\ profile[wallet].device = Headers[c].device

is_mission_control_authorized(c, wallet) ==
    /\ profile[wallet] # NoProfile
    /\ profile[wallet].mission_control
    /\ profile[wallet].gov_portal_onboarded
    /\ profile[wallet].pairing = Headers[c].token
    /\ profile[wallet].device = Headers[c].device

\* A request may ask for mission control itself, with the onboarding it needs,
\* or name it as its clearance, without.
autonomo_register_access(wallet, device, code, clearance, mission, onboarded) ==
    /\ calls < MaxCalls
    /\ mission => onboarded
    /\ LET control == mission \/ clearance = "mission_control"
           pairing == compute_pairing_hash(wallet, device, code)
       IN  /\ profile' = [profile EXCEPT ![wallet] =
                            [device |-> device, pairing |-> pairing,
                             clearance |-> IF control THEN "mission_control" ELSE clearance,
                             mission_control |-> control,
                             gov_portal_onboarded |-> onboarded]]
           /\ granted' = IF control /\ onboarded
                         THEN [granted EXCEPT ![wallet] = @ \cup {pairing}]
                         ELSE granted
    /\ calls' = calls + 1
    /\ UNCHANGED <<vault, knowledge, call, answer>>

-----------------------------------------------------------------------------
(* Memories.                                                               *)

\* Mutants of derive_memory_key_material: the token is left out, or put in for
\* every sensitivity.
MaterialWithoutToken(slot, sensitivity, token) == <<slot, sensitivity, "shared">>
MaterialWithToken(slot, sensitivity, token) == <<slot, sensitivity, token>>

derive_memory_key_material(slot, sensitivity, token) ==
    <<slot, sensitivity, IF sensitivity = "sensitive" THEN token ELSE "shared">>

encrypt_memory_payload(value, material) == [under |-> material, plain |-> value]

Opens(envelope, material) == envelope.cipher.under = material

\* autonomo_memory_ingest, up to its access check.
IngestCheck(c, slot, sensitivity, value) ==
    /\ call[c] = Resting
    /\ calls < MaxCalls
    /\ IF sensitivity = "sensitive" /\ ~is_mission_control_authorized(c, slot[1])
       THEN /\ answer' = [kind |-> "forbidden"]
            /\ UNCHANGED call
       ELSE /\ call' = [call EXCEPT ![c] = [at |-> "put", slot |-> slot,
                                            sensitivity |-> sensitivity, value |-> value]]
            /\ UNCHANGED answer
    /\ calls' = calls + 1
    /\ UNCHANGED <<profile, vault, knowledge, granted>>

\* The rest of it: whatever the slot held is replaced.
put_secure_memory(c) ==
    /\ call[c].at = "put"
    /\ LET r == call[c]
           material == derive_memory_key_material(r.slot, r.sensitivity, Headers[c].token)
       IN  vault' = [vault EXCEPT ![r.slot] =
                       [sensitivity |-> r.sensitivity, token |-> Headers[c].token,
                        cipher |-> encrypt_memory_payload(r.value, material)]]
    /\ answer' = [kind |-> "stored"]
    /\ call' = [call EXCEPT ![c] = Resting]
    /\ UNCHANGED <<profile, knowledge, granted, calls>>

\* autonomo_memory_recall reads the slot; without a memory it answers from the
\* knowledge records.
get_secure_memory(c, slot) ==
    /\ call[c] = Resting
    /\ calls < MaxCalls
    /\ IF vault[slot] = NoEnvelope
       THEN /\ answer' = IF knowledge[slot] = NoNote THEN [kind |-> "not found"]
                         ELSE [kind |-> "legacy", value |-> knowledge[slot]]
            /\ UNCHANGED call
       ELSE /\ call' = [call EXCEPT ![c] = [at |-> "open", slot |-> slot,
                                            envelope |-> vault[slot]]]
            /\ UNCHANGED answer
    /\ calls' = calls + 1
    /\ UNCHANGED <<profile, vault, knowledge, granted>>

\* What opening an envelope for c gives: a refusal, an error, or its value.
Opened(c, slot, envelope) ==
    LET material == derive_memory_key_material(slot, envelope.sensitivity, Headers[c].token)
    IN  IF envelope.sensitivity = "sensitive" /\ ~is_mission_control_authorized(c, slot[1])
        THEN "forbidden"
        ELSE IF Opens(envelope, material) THEN "value" ELSE "undecryptable"

autonomo_memory_recall(c) ==
    /\ call[c].at = "open"
    /\ LET r == call[c] IN
       answer' = [kind |-> Opened(c, r.slot, r.envelope), slot |-> r.slot,
                  envelope |-> r.envelope, token |-> Headers[c].token]
    /\ call' = [call EXCEPT ![c] = Resting]
    /\ UNCHANGED <<profile, vault, knowledge, granted, calls>>

\* autonomo_giru_context: the sensitive part is shown or withheld.
autonomo_giru_context(c, wallet, scope) ==
    /\ calls < MaxCalls
    /\ answer' = [kind |-> "context", token |-> Headers[c].token, wallet |-> wallet,
                  unsealed |-> /\ scope \in {"all", "sensitive"}
                               /\ is_mission_control_authorized(c, wallet)]
    /\ calls' = calls + 1
    /\ UNCHANGED <<profile, vault, knowledge, call, granted>>

\* put_knowledge: the plain record of a wallet's key.
put_knowledge(slot, value) ==
    /\ calls < MaxCalls
    /\ knowledge' = [knowledge EXCEPT ![slot] = value]
    /\ calls' = calls + 1
    /\ UNCHANGED <<profile, vault, call, answer, granted>>

-----------------------------------------------------------------------------
(* The chat proxy.                                                         *)

Providers == {"openai", "claude"}

\* The context note, when it was asked for.
ChatBegin(c, slot, provider, giru, requested) ==
    /\ call[c] = Resting
    /\ calls < MaxCalls
    /\ call' = [call EXCEPT ![c] =
                  [at |-> "memory", slot |-> slot, provider |-> provider,
                   requested |-> requested,
                   system |-> IF giru THEN <<"context">> ELSE <<>>]]
    /\ calls' = calls + 1
    /\ UNCHANGED <<profile, vault, knowledge, answer, granted>>

\* The memory: a sensitive one that the caller may not read is left out, one
\* that does not open ends the request with an error.
ChatMemory(c) ==
    /\ call[c].at = "memory"
    /\ LET r == call[c]
           e == vault[r.slot]
           With(text) == [call EXCEPT ![c].at = "forward", ![c].system = @ \o text]
       IN  \/ /\ e # NoEnvelope
              /\ Opened(c, r.slot, e) = "undecryptable"
              /\ answer' = [kind |-> "undecryptable", slot |-> r.slot, envelope |-> e,
                            token |-> Headers[c].token]
              /\ call' = [call EXCEPT ![c] = Resting]
           \/ /\ e # NoEnvelope
              /\ Opened(c, r.slot, e) # "undecryptable"
              /\ call' = With(IF Opened(c, r.slot, e) = "value" THEN <<"memory">> ELSE <<>>)
              /\ answer' = [kind |-> Opened(c, r.slot, e), slot |-> r.slot, envelope |-> e,
                            token |-> Headers[c].token]
           \/ /\ e = NoEnvelope
              /\ call' = With(IF knowledge[r.slot] = NoNote THEN <<>> ELSE <<"memory">>)
              /\ UNCHANGED answer
    /\ UNCHANGED <<profile, vault, knowledge, granted, calls>>

\* resolve_ability_profile: what was asked for, or else the clearance header;
\* layer 00 only for the paired caller.
resolve_ability_profile(c) ==
    LET allowed == is_mission_control_authorized(c, call[c].slot[1])
        wanted == IF call[c].requested = "none" THEN Headers[c].clearance
                  ELSE call[c].requested
    IN  CASE wanted = "mission_control" /\ allowed -> "00"
          [] wanted = "public"                     -> "public"
          [] OTHER                                 -> "internal"

\* Mutant of Forwarded: the first system message only, for every provider.
ForwardedFirst(provider, system) == {system[i] : i \in DOMAIN system \cap {1}}

\* The system messages that reach the provider: all of them, or the first one,
\* as the field that holds it has room for one.
Forwarded(provider, system) ==
    {system[i] : i \in IF provider = "openai" THEN DOMAIN system ELSE DOMAIN system \cap {1}}

\* The profile is resolved, the request is forwarded, and the provider's text
\* goes back with the trace.
llm_chat_proxy(c) ==
    /\ call[c].at = "forward"
    /\ answer' = [kind |-> "chat", token |-> Headers[c].token, wallet |-> call[c].slot[1],
                  profile |-> resolve_ability_profile(c),
                  provider |-> call[c].provider,
                  trace |-> {call[c].system[i] : i \in DOMAIN call[c].system},
                  sent |-> Forwarded(call[c].provider, call[c].system)]
    /\ call' = [call EXCEPT ![c] = Resting]
    /\ UNCHANGED <<profile, vault, knowledge, granted, calls>>

\* The provider cannot be reached or answers with an error, or is not one of
\* those the proxy knows.
ProviderFails(c) ==
    /\ call[c].at = "forward"
    /\ answer' = [kind |-> "bad gateway"]
    /\ call' = [call EXCEPT ![c] = Resting]
    /\ UNCHANGED <<profile, vault, knowledge, granted, calls>>

MemoryNext ==
    \/ \E w \in MemoryWallets, d \in Devices, k \in Codes, mission, onboarded \in BOOLEAN,
          clearance \in {"internal", "mission_control"} :
         autonomo_register_access(w, d, k, clearance, mission, onboarded)
    \/ \E slot \in Slots, v \in MemoryValues : put_knowledge(slot, v)
    \/ \E c \in Callers :
         \/ \E slot \in Slots, v \in MemoryValues, s \in {"internal", "sensitive"} :
              IngestCheck(c, slot, s, v)
         \/ put_secure_memory(c)
         \/ \E slot \in Slots : get_secure_memory(c, slot)
         \/ autonomo_memory_recall(c)
         \/ \E w \in MemoryWallets, scope \in {"all", "public"} :
              autonomo_giru_context(c, w, scope)
         \/ \E slot \in Slots, p \in Providers, g \in BOOLEAN,
               r \in {"none", "mission_control", "public"} : ChatBegin(c, slot, p, g, r)
         \/ ChatMemory(c)
         \/ llm_chat_proxy(c)
         \/ ProviderFails(c)

MemorySpec == MemoryInit /\ [][MemoryNext]_memoryVars

-----------------------------------------------------------------------------
(* Properties.                                                             *)

\* A sensitive memory is written only under a pairing that was given mission
\* control for its wallet, and is disclosed, by a recall or to a language model,
\* only under the pairing it was written with: not under one that replaced it,
\* whenever the registrations fall between the checks and the reads.
SensitiveUnderItsPairing ==
    /\ \A s \in Slots :
         (vault[s] # NoEnvelope /\ vault[s].sensitivity = "sensitive")
             => vault[s].token \in granted[s[1]]
    /\ (answer.kind = "value" /\ answer.envelope.sensitivity = "sensitive")
           => answer.token = answer.envelope.token

\* Layer 00 is opened, in the context endpoint and in a chat, only to a pairing
\* that was given mission control for the wallet named.
Layer00Granted ==
    /\ (answer.kind = "context" /\ answer.unsealed) => answer.token \in granted[answer.wallet]
    /\ (answer.kind = "chat" /\ answer.profile = "00") => answer.token \in granted[answer.wallet]

\* A memory that its reader may see but cannot decrypt is a sensitive one whose
\* wallet was paired anew since: every other memory stays readable.
LostOnlyByPairing ==
    answer.kind = "undecryptable" =>
        /\ answer.envelope.sensitivity = "sensitive"
        /\ \E t \in granted[answer.slot[1]] : t # answer.envelope.token

\* What the trace of a chat says was included did reach the model, except a
\* memory that follows the context note to a provider with one system field.
TraceForwarded ==
    answer.kind = "chat" =>
        \/ answer.trace \subseteq answer.sent
        \/ /\ answer.provider = "claude"
           /\ answer.trace \ answer.sent = {"memory"}
           /\ "context" \in answer.sent

\* What is sealed opens only to its pairing: sensitive memories to the one they
\* were written with, layer 00 to one that was given mission control.
PairingGuards ==
    /\ SensitiveUnderItsPairing
    /\ Layer00Granted

\* What was ingested reaches its reader: it can be decrypted unless its wallet was
\* paired anew, and what a chat claims to have included was sent.
RecallReaches ==
    /\ LostOnlyByPairing
    /\ TraceForwarded

=============================================================================
