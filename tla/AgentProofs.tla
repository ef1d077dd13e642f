----------------------------- MODULE AgentProofs -----------------------------
(***************************************************************************)
(* Proofs about what agents use of a node: secure memory, employee         *)
(* bindings, the relay of heartbeats, chat and envelopes, the tool         *)
(* executor, and the gate in front of them. They share no state; each has  *)
(* its own inductive invariant, for every value of its constants that its  *)
(* assumption admits.                                                      *)
(***************************************************************************)
EXTENDS SecureMemory, OpenClawBindings, AgentRelay, ToolExecutor, ApiGate,
        DataLemmas

-----------------------------------------------------------------------------
(* Secure memory.  A handler checks the access profile, lets go of it, and acts *)
(* later.  What stays true meanwhile is said with the history of the pairings   *)
(* that were given mission control, which only grows: a check that passed stays *)
(* a statement about that history, whatever profile has replaced the one read.  *)

Sensitivities == {"internal", "sensitive"}

Tokens == {Headers[c].token : c \in Callers}

SealedBy(s, sensitivity, token, value) ==
    [sensitivity |-> sensitivity, token |-> token,
     cipher |-> encrypt_memory_payload(value, derive_memory_key_material(s, sensitivity, token))]

Sealings == {SealedBy(s, x, t, v) : s \in Slots, x \in Sensitivities, t \in Tokens, v \in MemoryValues}

\* An envelope of slot s: sealed with the material of the slot and of the token it
\* names, which for a sensitive one had been given mission control.
Sealed(s, e) ==
    /\ e \in Sealings
    /\ e.sensitivity \in Sensitivities
    /\ e.cipher.under = derive_memory_key_material(s, e.sensitivity, e.token)
    /\ e.sensitivity = "sensitive" => e.token \in granted[s[1]]

Systems == {<<>>, <<"context">>, <<"memory">>, <<"context", "memory">>}

MemoryRequests == {"none", "mission_control", "public"}

\* What the request of caller c has checked or read holds of it still.
CallSound(c, r) ==
    \/ r = Resting
    \/ /\ r \in [at : {"put"}, slot : Slots, sensitivity : Sensitivities, value : MemoryValues]
       /\ r.sensitivity = "sensitive" => Headers[c].token \in granted[r.slot[1]]
    \/ /\ r \in [at : {"open"}, slot : Slots, envelope : Sealings]
       /\ Sealed(r.slot, r.envelope)
    \/ r \in [at : {"memory"}, slot : Slots, provider : Providers, requested : MemoryRequests,
              system : {<<>>, <<"context">>}]
    \/ r \in [at : {"forward"}, slot : Slots, provider : Providers, requested : MemoryRequests,
              system : Systems]

\* A profile that opens layer 00 has a pairing that was given it.
ProfileSound(w, p) ==
    (p # NoProfile /\ p.mission_control /\ p.gov_portal_onboarded) => p.pairing \in granted[w]

\* The answer satisfies PairingGuards and RecallReaches.
AnswerSound(a) ==
    /\ (a.kind = "value" /\ a.envelope.sensitivity = "sensitive") => a.token = a.envelope.token
    /\ a.kind \in {"context", "chat"} => a.wallet \in MemoryWallets
    /\ (a.kind = "context" /\ a.unsealed) => a.token \in granted[a.wallet]
    /\ (a.kind = "chat" /\ a.profile = "00") => a.token \in granted[a.wallet]
    /\ a.kind = "undecryptable" =>
         /\ a.slot \in Slots
         /\ a.envelope.sensitivity = "sensitive"
         /\ \E t \in granted[a.slot[1]] : t # a.envelope.token
    /\ a.kind = "chat" =>
         \/ a.trace \subseteq a.sent
         \/ a.provider = "claude" /\ a.trace \ a.sent = {"memory"} /\ "context" \in a.sent

\* The tables have the domains of their keys.
MemoryTypeOK ==
    /\ profile = [w \in MemoryWallets |-> profile[w]]
    /\ vault \in [Slots -> Sealings \cup {NoEnvelope}]
    /\ call = [c \in Callers |-> call[c]]
    /\ granted = [w \in MemoryWallets |-> granted[w]]

MemoryInv ==
    /\ MemoryTypeOK
    /\ \A w \in MemoryWallets : ProfileSound(w, profile[w])
    /\ \A s \in Slots : vault[s] = NoEnvelope \/ Sealed(s, vault[s])
    /\ \A c \in Callers : CallSound(c, call[c])
    /\ AnswerSound(answer)

\* No pairing that was given mission control is forgotten.
GrantsKept == \A w \in MemoryWallets : granted[w] \subseteq granted'[w]

LEMMA SlotWallet == \A s \in Slots : s[1] \in MemoryWallets
    BY DEF Slots

LEMMA SealedStays ==
    ASSUME NEW s \in Slots, NEW e, Sealed(s, e), GrantsKept
    PROVE  Sealed(s, e)'
    BY SlotWallet DEF Sealed, GrantsKept

LEMMA CallStays ==
    ASSUME NEW c \in Callers, NEW r, CallSound(c, r), GrantsKept
    PROVE  CallSound(c, r)'
<1>1. r \in [at : {"put"}, slot : Slots, sensitivity : Sensitivities, value : MemoryValues]
         => r.slot[1] \in MemoryWallets
    BY SlotWallet
<1>2. r \in [at : {"open"}, slot : Slots, envelope : Sealings] => r.slot \in Slots
    OBVIOUS
<1>3. QED
    BY <1>1, <1>2, SealedStays DEF CallSound, GrantsKept

LEMMA AnswerStays ==
    ASSUME NEW a, AnswerSound(a), GrantsKept
    PROVE  AnswerSound(a)'
    BY SlotWallet DEF AnswerSound, GrantsKept

\* The access check says that the caller's token was given mission control.
LEMMA AuthorizedGranted ==
    ASSUME MemoryInv, NEW c \in Callers, NEW w \in MemoryWallets,
           is_mission_control_authorized(c, w)
    PROVE  Headers[c].token \in granted[w]
    BY DEF MemoryInv, ProfileSound, is_mission_control_authorized

\* Opening an envelope of its slot: the value of a sensitive one is had with its
\* own token only, and one that does not open is sensitive and was sealed with
\* another token than the caller's, which was given mission control.
LEMMA OpenedSound ==
    ASSUME MemoryInv, NEW c \in Callers, NEW s \in Slots, NEW e, Sealed(s, e)
    PROVE  /\ Opened(c, s, e) \in {"forbidden", "undecryptable", "value"}
           /\ (Opened(c, s, e) = "value" /\ e.sensitivity = "sensitive")
                 => Headers[c].token = e.token
           /\ Opened(c, s, e) = "undecryptable" =>
                /\ e.sensitivity = "sensitive"
                /\ Headers[c].token \in granted[s[1]]
                /\ Headers[c].token # e.token
<1> DEFINE token == Headers[c].token
           material == derive_memory_key_material(s, e.sensitivity, token)
           allowed == is_mission_control_authorized(c, s[1])
<1>1. /\ e.sensitivity = "sensitive" => (Opens(e, material) <=> e.token = token)
      /\ e.sensitivity = "internal" => Opens(e, material)
    BY DEF Opens, Sealed, derive_memory_key_material
<1>2. allowed => token \in granted[s[1]]
    BY AuthorizedGranted, SlotWallet
<1>3. Opened(c, s, e) =
         IF e.sensitivity = "sensitive" /\ ~allowed THEN "forbidden"
         ELSE IF Opens(e, material) THEN "value" ELSE "undecryptable"
    BY DEF Opened
<1>4. e.sensitivity \in {"internal", "sensitive"}
    BY DEF Sealed, Sensitivities
<1> HIDE DEF material, allowed
<1>5. CASE e.sensitivity = "sensitive" /\ ~allowed
    BY <1>3, <1>5
<1>6. CASE e.sensitivity = "sensitive" /\ allowed /\ Opens(e, material)
    BY <1>1, <1>3, <1>6
<1>7. CASE e.sensitivity = "sensitive" /\ allowed /\ ~Opens(e, material)
    BY <1>1, <1>2, <1>3, <1>7
<1>8. CASE e.sensitivity = "internal"
    BY <1>1, <1>3, <1>8
<1>9. QED
    BY <1>4, <1>5, <1>6, <1>7, <1>8

LEMMA MemoryInitInv == MemoryInit => MemoryInv
<1> SUFFICES ASSUME MemoryInit PROVE MemoryInv
    OBVIOUS
<1>1. MemoryTypeOK
    BY DEF MemoryInit, MemoryTypeOK
<1>2. \A w \in MemoryWallets : ProfileSound(w, profile[w])
    BY DEF MemoryInit, ProfileSound
<1>3. (\A s \in Slots : vault[s] = NoEnvelope) /\ \A c \in Callers : CallSound(c, call[c])
    BY DEF MemoryInit, CallSound
<1>4. AnswerSound(answer)
    BY DEF MemoryInit, AnswerSound, Silent
<1>5. QED
    BY <1>1, <1>2, <1>3, <1>4 DEF MemoryInv

\* A step of caller c's request: only its own call changes, and the answer.
LEMMA CallMoves ==
    ASSUME MemoryInv, NEW c \in Callers, NEW r, call' = [call EXCEPT ![c] = r],
           CallSound(c, r)', AnswerSound(answer'), UNCHANGED <<profile, vault, granted>>
    PROVE  MemoryInv'
<1>1. GrantsKept
    BY DEF GrantsKept
<1>2. MemoryTypeOK'
    BY DEF MemoryInv, MemoryTypeOK
<1>3. \A w \in MemoryWallets : ProfileSound(w, profile[w])'
    BY DEF MemoryInv, ProfileSound
<1>4. \A s \in Slots : (vault[s] = NoEnvelope \/ Sealed(s, vault[s]))'
    BY DEF MemoryInv, Sealed
<1>5. \A d \in Callers : CallSound(d, call[d])'
  <2> SUFFICES ASSUME NEW d \in Callers PROVE CallSound(d, call[d])'
    OBVIOUS
  <2>1. CASE d = c
    <3>1. call'[d] = r
      BY <2>1 DEF MemoryInv, MemoryTypeOK
    <3>2. QED
      BY <2>1, <3>1 DEF CallSound, Sealed
  <2>2. CASE d # c
    <3>1. call'[d] = call[d]
      BY <2>2 DEF MemoryInv, MemoryTypeOK
    <3>2. CallSound(d, call[d])
      BY DEF MemoryInv
    <3>3. QED
      BY <3>1, <3>2 DEF CallSound, Sealed
  <2>3. QED
    BY <2>1, <2>2
<1>6. AnswerSound(answer)'
    BY DEF AnswerSound
<1>7. QED
    BY <1>2, <1>3, <1>4, <1>5, <1>6 DEF MemoryInv

LEMMA MemoryStep ==
    ASSUME MemoryInv, [MemoryNext]_memoryVars
    PROVE  MemoryInv'
<1>same. ASSUME UNCHANGED granted
         PROVE  /\ \A c \in Callers : \A r : CallSound(c, r) => CallSound(c, r)'
                /\ \A a : AnswerSound(a) => AnswerSound(a)'
    BY <1>same DEF CallSound, Sealed, AnswerSound
<1>calls. \A c \in Callers : CallSound(c, call[c])
    BY DEF MemoryInv
<1>answer. AnswerSound(answer)
    BY DEF MemoryInv
<1>quiet. \A k \in {"forbidden", "stored", "not found", "bad gateway"} : AnswerSound([kind |-> k])
    BY DEF AnswerSound
<1>1. CASE UNCHANGED memoryVars
  <2>1. UNCHANGED <<profile, vault, call, answer, granted>>
    BY <1>1 DEF memoryVars
  <2>2. QED
    BY <2>1 DEF MemoryInv, MemoryTypeOK, ProfileSound, Sealed, CallSound, AnswerSound
<1>2. ASSUME NEW w \in MemoryWallets, NEW d \in Devices, NEW k \in Codes,
             NEW mission \in BOOLEAN, NEW onboarded \in BOOLEAN,
             NEW clearance \in {"internal", "mission_control"},
             autonomo_register_access(w, d, k, clearance, mission, onboarded)
      PROVE  MemoryInv'
  <2> PICK control \in BOOLEAN : control = (mission \/ clearance = "mission_control")
    OBVIOUS
  <2> PICK pairing : pairing = compute_pairing_hash(w, d, k)
    OBVIOUS
  <2> PICK name : name = IF control THEN "mission_control" ELSE clearance
    OBVIOUS
  <2> DEFINE new == [device |-> d, pairing |-> pairing, clearance |-> name,
                     mission_control |-> control, gov_portal_onboarded |-> onboarded]
  <2>1. /\ profile' = [profile EXCEPT ![w] = new]
        /\ granted' = IF control /\ onboarded THEN [granted EXCEPT ![w] = @ \cup {pairing}]
                      ELSE granted
        /\ UNCHANGED <<vault, call, answer>>
    BY <1>2 DEF autonomo_register_access
  <2>2. GrantsKept
    BY <2>1 DEF GrantsKept, MemoryInv, MemoryTypeOK
  <2>3. ProfileSound(w, new)'
    <3>1. new.mission_control = control /\ new.gov_portal_onboarded = onboarded /\ new.pairing = pairing
      OBVIOUS
    <3>2. CASE control /\ onboarded
      <4>1. pairing \in granted'[w]
        BY <2>1, <3>2 DEF MemoryInv, MemoryTypeOK
      <4>2. QED
        BY <3>1, <4>1 DEF ProfileSound
    <3>3. CASE ~(control /\ onboarded)
      BY <3>1, <3>3 DEF ProfileSound
    <3>4. QED
      BY <3>2, <3>3
  <2> HIDE DEF new
  <2>4. MemoryTypeOK'
    BY <2>1 DEF MemoryInv, MemoryTypeOK
  <2>5. \A v \in MemoryWallets : ProfileSound(v, profile[v])'
    <3> SUFFICES ASSUME NEW v \in MemoryWallets PROVE ProfileSound(v, profile[v])'
      OBVIOUS
    <3>1. CASE v = w
      <4>1. profile'[v] = new
        BY <2>1, <3>1 DEF MemoryInv, MemoryTypeOK
      <4>2. QED
        BY <2>3, <3>1, <4>1 DEF ProfileSound
    <3>2. CASE v # w
      <4>1. profile'[v] = profile[v]
        BY <2>1, <3>2 DEF MemoryInv, MemoryTypeOK
      <4>2. QED
        BY <2>2, <4>1 DEF ProfileSound, MemoryInv, GrantsKept
    <3>3. QED
      BY <3>1, <3>2
  <2>6. \A s \in Slots : (vault[s] = NoEnvelope \/ Sealed(s, vault[s]))'
    <3> SUFFICES ASSUME NEW s \in Slots, vault[s] # NoEnvelope PROVE Sealed(s, vault[s])'
      BY <2>1 DEF Sealed
    <3>1. Sealed(s, vault[s])
      BY DEF MemoryInv
    <3>2. QED
      BY <2>1, <2>2, <3>1, SlotWallet DEF Sealed, GrantsKept
  <2>7. \A c \in Callers : CallSound(c, call[c])'
    <3> SUFFICES ASSUME NEW c \in Callers PROVE CallSound(c, call[c])'
      OBVIOUS
    <3> PICK r : r = call[c]
      OBVIOUS
    <3>1. CallSound(c, r)'
      BY <1>calls, <2>2, CallStays
    <3>2. r = call'[c]
      BY <2>1
    <3>3. QED
      BY <3>1, <3>2 DEF CallSound, Sealed
  <2>8. AnswerSound(answer)'
    <3> PICK a : a = answer
      OBVIOUS
    <3>1. AnswerSound(a)'
      BY <1>answer, <2>2, AnswerStays
    <3>2. a = answer'
      BY <2>1
    <3>3. QED
      BY <3>1, <3>2 DEF AnswerSound
  <2>9. QED
    BY <2>4, <2>5, <2>6, <2>7, <2>8 DEF MemoryInv
<1>3. ASSUME NEW s \in Slots, NEW v \in MemoryValues, put_knowledge(s, v)
      PROVE  MemoryInv'
  <2>1. UNCHANGED <<profile, vault, call, answer, granted>>
    BY <1>3 DEF put_knowledge
  <2>2. QED
    BY <2>1 DEF MemoryInv, MemoryTypeOK, ProfileSound, Sealed, CallSound, AnswerSound
<1>calm. ASSUME NEW c \in Callers, UNCHANGED call
         PROVE  call' = [call EXCEPT ![c] = call[c]]
  <2>1. call = [d \in Callers |-> call[d]]
    BY DEF MemoryInv, MemoryTypeOK
  <2>2. QED
    BY <1>calm, <2>1
<1>4. ASSUME NEW c \in Callers, NEW s \in Slots, NEW v \in MemoryValues,
             NEW x \in {"internal", "sensitive"}, IngestCheck(c, s, x, v)
      PROVE  MemoryInv'
  <2>0. UNCHANGED <<profile, vault, granted>>
    BY <1>4 DEF IngestCheck
  <2>1. CASE x = "sensitive" /\ ~is_mission_control_authorized(c, s[1])
    <3>1. answer' = [kind |-> "forbidden"] /\ UNCHANGED call
      BY <1>4, <2>1 DEF IngestCheck
    <3>2. AnswerSound(answer')
      BY <1>quiet, <3>1
    <3>3. CallSound(c, call[c])'
      BY <1>calls, <2>0, <3>1 DEF CallSound, Sealed
    <3> PICK r : r = call[c]
      OBVIOUS
    <3>4. call' = [call EXCEPT ![c] = r] /\ CallSound(c, r)'
      BY <1>calls, <1>same, <1>calm, <2>0, <3>1
    <3>5. QED
      BY <2>0, <3>2, <3>4, CallMoves
  <2>2. CASE ~(x = "sensitive" /\ ~is_mission_control_authorized(c, s[1]))
    <3> DEFINE r == [at |-> "put", slot |-> s, sensitivity |-> x, value |-> v]
    <3>1. call' = [call EXCEPT ![c] = r] /\ UNCHANGED answer
      BY <1>4, <2>2 DEF IngestCheck
    <3>2. /\ r \in [at : {"put"}, slot : Slots, sensitivity : Sensitivities, value : MemoryValues]
          /\ r.sensitivity = x /\ r.slot = s
      BY DEF Sensitivities
    <3> HIDE DEF r
    <3>3. x = "sensitive" => Headers[c].token \in granted[s[1]]
      BY <2>2, AuthorizedGranted, SlotWallet
    <3>4. CallSound(c, r)'
      BY <2>0, <3>2, <3>3 DEF CallSound
    <3>5. QED
      BY <1>answer, <2>0, <3>1, <3>4, CallMoves
  <2>3. QED
    BY <2>1, <2>2
<1>rest. \A c \in Callers : CallSound(c, Resting)'
    BY DEF CallSound
<1>fields. ASSUME NEW c \in Callers
           PROVE  /\ call[c].at = "put" =>
                       /\ call[c] \in [at : {"put"}, slot : Slots, sensitivity : Sensitivities,
                                       value : MemoryValues]
                       /\ call[c].sensitivity = "sensitive" => Headers[c].token \in granted[call[c].slot[1]]
                  /\ call[c].at = "open" => call[c].slot \in Slots /\ Sealed(call[c].slot, call[c].envelope)
                  /\ call[c].at = "memory" =>
                       call[c] \in [at : {"memory"}, slot : Slots, provider : Providers,
                                    requested : MemoryRequests, system : {<<>>, <<"context">>}]
                  /\ call[c].at = "forward" =>
                       call[c] \in [at : {"forward"}, slot : Slots, provider : Providers,
                                    requested : MemoryRequests, system : Systems]
  <2>1. Resting.at = "rest"
    BY DEF Resting
  <2>2. CallSound(c, call[c])
    BY <1>calls
  <2>3. QED
    BY <2>1, <2>2 DEF CallSound
<1>5. ASSUME NEW c \in Callers, put_secure_memory(c)
      PROVE  MemoryInv'
  <2> PICK r : r = call[c]
    OBVIOUS
  <2> PICK token : token = Headers[c].token
    OBVIOUS
  <2>1. /\ r.slot \in Slots /\ r.sensitivity \in Sensitivities /\ r.value \in MemoryValues
        /\ r.sensitivity = "sensitive" => token \in granted[r.slot[1]]
    BY <1>5, <1>fields DEF put_secure_memory
  <2> PICK e : e = SealedBy(r.slot, r.sensitivity, token, r.value)
    OBVIOUS
  <2>2. /\ vault' = [vault EXCEPT ![r.slot] = e]
        /\ answer' = [kind |-> "stored"] /\ call' = [call EXCEPT ![c] = Resting]
        /\ UNCHANGED <<profile, granted>>
    BY <1>5 DEF put_secure_memory, SealedBy
  <2>3. e \in Sealings
    <3>1. token \in Tokens
      BY DEF Tokens
    <3>2. QED
      BY <2>1, <3>1 DEF Sealings
  <2>4. /\ e.sensitivity = r.sensitivity /\ e.token = token
        /\ e.cipher.under = derive_memory_key_material(r.slot, r.sensitivity, token)
    BY DEF SealedBy, encrypt_memory_payload
  <2>5. Sealed(r.slot, e)
    BY <2>1, <2>3, <2>4 DEF Sealed
  <2>6. MemoryTypeOK'
    BY <2>1, <2>2, <2>3 DEF MemoryInv, MemoryTypeOK
  <2>7. \A w \in MemoryWallets : ProfileSound(w, profile[w])'
    BY <2>2 DEF MemoryInv, ProfileSound
  <2>8. \A s \in Slots : (vault[s] = NoEnvelope \/ Sealed(s, vault[s]))'
    BY <2>1, <2>2, <2>5 DEF MemoryInv, MemoryTypeOK, Sealed
  <2>9. \A d \in Callers : CallSound(d, call[d])'
    <3> SUFFICES ASSUME NEW d \in Callers PROVE CallSound(d, call[d])'
      OBVIOUS
    <3>1. call'[d] = call[d] \/ call'[d] = Resting
      BY <2>2 DEF MemoryInv, MemoryTypeOK
    <3>2. CallSound(d, call[d])
      BY <1>calls
    <3>3. QED
      BY <2>2, <3>1, <3>2 DEF CallSound, Sealed
  <2>10. AnswerSound(answer)'
    BY <2>2 DEF AnswerSound
  <2>11. QED
    BY <2>6, <2>7, <2>8, <2>9, <2>10 DEF MemoryInv
<1>6. ASSUME NEW c \in Callers, NEW s \in Slots, get_secure_memory(c, s)
      PROVE  MemoryInv'
  <2>0. UNCHANGED <<profile, vault, granted>>
    BY <1>6 DEF get_secure_memory
  <2>1. CASE vault[s] = NoEnvelope
    <3>1. answer' \in {[kind |-> "not found"], [kind |-> "legacy", value |-> knowledge[s]]} /\ UNCHANGED call
      BY <1>6, <2>1 DEF get_secure_memory
    <3>2. AnswerSound(answer')
      <4>1. answer'.kind \in {"not found", "legacy"}
        <5>1. [kind |-> "legacy", value |-> knowledge[s]].kind = "legacy"
          OBVIOUS
        <5>2. [kind |-> "not found"].kind = "not found"
          OBVIOUS
        <5>3. QED
          BY <3>1, <5>1, <5>2
      <4>2. QED
        BY <4>1 DEF AnswerSound
    <3> PICK r : r = call[c]
      OBVIOUS
    <3>4. call' = [call EXCEPT ![c] = r] /\ CallSound(c, r)'
      BY <1>calls, <1>same, <1>calm, <2>0, <3>1
    <3>5. QED
      BY <2>0, <3>2, <3>4, CallMoves
  <2>2. CASE vault[s] # NoEnvelope
    <3> PICK e : e = vault[s]
      OBVIOUS
    <3> DEFINE r == [at |-> "open", slot |-> s, envelope |-> e]
    <3>1. call' = [call EXCEPT ![c] = r] /\ UNCHANGED answer
      BY <1>6, <2>2 DEF get_secure_memory
    <3>2. Sealed(s, e)
      BY <2>2 DEF MemoryInv
    <3>3. r \in [at : {"open"}, slot : Slots, envelope : Sealings] /\ r.slot = s /\ r.envelope = e
      BY <3>2 DEF Sealed
    <3> HIDE DEF r
    <3>4. CallSound(c, r)'
      BY <2>0, <3>2, <3>3 DEF CallSound, Sealed
    <3>5. QED
      BY <1>answer, <2>0, <3>1, <3>4, CallMoves
  <2>3. QED
    BY <2>1, <2>2
\* The answer that opening an envelope gives, in a recall and in a chat.
<1>7. ASSUME NEW c \in Callers, NEW s \in Slots, NEW e, Sealed(s, e)
      PROVE  AnswerSound([kind |-> Opened(c, s, e), slot |-> s, envelope |-> e,
                          token |-> Headers[c].token])
  <2> PICK k : k = Opened(c, s, e)
    OBVIOUS
  <2> PICK token : token = Headers[c].token
    OBVIOUS
  <2> DEFINE a == [kind |-> k, slot |-> s, envelope |-> e, token |-> token]
  <2>1. /\ k \in {"forbidden", "undecryptable", "value"}
        /\ (k = "value" /\ e.sensitivity = "sensitive") => token = e.token
        /\ k = "undecryptable" =>
             e.sensitivity = "sensitive" /\ token \in granted[s[1]] /\ token # e.token
    BY <1>7, OpenedSound
  <2>2. a.kind = k /\ a.slot = s /\ a.envelope = e /\ a.token = token
    OBVIOUS
  <2> HIDE DEF a
  <2>3. AnswerSound(a)
    BY <2>1, <2>2 DEF AnswerSound
  <2>4. QED
    BY <2>3 DEF a
<1>8. ASSUME NEW c \in Callers, autonomo_memory_recall(c)
      PROVE  MemoryInv'
  <2>1. call[c].slot \in Slots /\ Sealed(call[c].slot, call[c].envelope)
    BY <1>8, <1>fields DEF autonomo_memory_recall
  <2>2. /\ answer' = [kind |-> Opened(c, call[c].slot, call[c].envelope), slot |-> call[c].slot,
                      envelope |-> call[c].envelope, token |-> Headers[c].token]
        /\ call' = [call EXCEPT ![c] = Resting] /\ UNCHANGED <<profile, vault, granted>>
    BY <1>8 DEF autonomo_memory_recall
  <2>3. AnswerSound(answer')
    BY <1>7, <2>1, <2>2
  <2>4. QED
    BY <1>rest, <2>2, <2>3, CallMoves
<1>9. ASSUME NEW c \in Callers, NEW w \in MemoryWallets, NEW scope \in {"all", "public"},
             autonomo_giru_context(c, w, scope)
      PROVE  MemoryInv'
  <2> PICK shown \in BOOLEAN : shown = (scope \in {"all", "sensitive"} /\ is_mission_control_authorized(c, w))
    OBVIOUS
  <2>0. UNCHANGED <<profile, vault, granted, call>>
    BY <1>9 DEF autonomo_giru_context
  <2>1. answer' = [kind |-> "context", token |-> Headers[c].token, wallet |-> w, unsealed |-> shown]
    BY <1>9 DEF autonomo_giru_context
  <2>2. shown => Headers[c].token \in granted[w]
    BY AuthorizedGranted
  <2>3. AnswerSound(answer')
    BY <2>1, <2>2 DEF AnswerSound
  <2> PICK r : r = call[c]
    OBVIOUS
  <2>4. call' = [call EXCEPT ![c] = r] /\ CallSound(c, r)'
    BY <1>calls, <1>same, <1>calm, <2>0
  <2>5. QED
    BY <2>0, <2>3, <2>4, CallMoves
<1>10. ASSUME NEW c \in Callers, NEW s \in Slots, NEW p \in Providers, NEW g \in BOOLEAN,
              NEW q \in {"none", "mission_control", "public"}, ChatBegin(c, s, p, g, q)
       PROVE  MemoryInv'
  <2> PICK notes : notes = IF g THEN <<"context">> ELSE <<>>
    OBVIOUS
  <2> DEFINE r == [at |-> "memory", slot |-> s, provider |-> p, requested |-> q, system |-> notes]
  <2>1. /\ call' = [call EXCEPT ![c] = r] /\ UNCHANGED <<profile, vault, granted, answer>>
    BY <1>10 DEF ChatBegin
  <2>2. r \in [at : {"memory"}, slot : Slots, provider : Providers, requested : MemoryRequests,
               system : {<<>>, <<"context">>}]
    BY DEF MemoryRequests
  <2> HIDE DEF r
  <2>3. CallSound(c, r)'
    BY <2>2 DEF CallSound
  <2>4. QED
    BY <1>answer, <2>1, <2>3, CallMoves
<1>11. ASSUME NEW c \in Callers, ChatMemory(c)
       PROVE  MemoryInv'
  <2> PICK r : r = call[c]
    OBVIOUS
  <2> PICK e : e = vault[r.slot]
    OBVIOUS
  <2>0. UNCHANGED <<profile, vault, granted>>
    BY <1>11 DEF ChatMemory
  <2>1. r \in [at : {"memory"}, slot : Slots, provider : Providers, requested : MemoryRequests,
               system : {<<>>, <<"context">>}]
    BY <1>11, <1>fields DEF ChatMemory
  <2>2. r.slot \in Slots /\ r.system \in {<<>>, <<"context">>}
    BY <2>1
  <2>3. e # NoEnvelope => Sealed(r.slot, e)
    BY <2>2 DEF MemoryInv
  <2> DEFINE opening == [kind |-> Opened(c, r.slot, e), slot |-> r.slot, envelope |-> e,
                         token |-> Headers[c].token]
  <2>4. e # NoEnvelope => AnswerSound(opening)
    BY <1>7, <2>2, <2>3
  <2>5. CASE e # NoEnvelope /\ Opened(c, r.slot, e) = "undecryptable" /\ call' = [call EXCEPT ![c] = Resting]
    <3>1. answer' = [kind |-> "undecryptable", slot |-> r.slot, envelope |-> e, token |-> Headers[c].token]
      BY <1>11, <2>5 DEF ChatMemory
    <3>2. AnswerSound(answer')
      BY <2>4, <2>5, <3>1
    <3>3. QED
      BY <1>rest, <2>0, <2>5, <3>2, CallMoves
  <2>6. ASSUME NEW text \in {<<>>, <<"memory">>},
               call' = [call EXCEPT ![c].at = "forward", ![c].system = @ \o text],
               AnswerSound(answer')
        PROVE  MemoryInv'
    <3> PICK notes : notes = r.system \o text
      OBVIOUS
    <3>1. notes \in Systems
      <4>1. r.system = <<>> /\ text = <<>> => notes = <<>>
        OBVIOUS
      <4>2. r.system = <<>> /\ text = <<"memory">> => notes = <<"memory">>
        OBVIOUS
      <4>3. r.system = <<"context">> /\ text = <<>> => notes = <<"context">>
        OBVIOUS
      <4>4. r.system = <<"context">> /\ text = <<"memory">> => notes = <<"context", "memory">>
        <5> SUFFICES ASSUME notes = <<"context">> \o <<"memory">> PROVE notes = <<"context", "memory">>
          OBVIOUS
        <5> PICK N : N = {"context", "memory"}
          OBVIOUS
        <5> PICK both : both = <<"context", "memory">>
          OBVIOUS
        <5>1. <<"context">> \in Seq(N) /\ <<"memory">> \in Seq(N)
          OBVIOUS
        <5>2. notes \in Seq(N) /\ Len(notes) = 2
          BY <5>1
        <5>3. notes[1] = "context" /\ notes[2] = "memory"
          BY <5>1
        <5>4. both \in Seq(N) /\ Len(both) = 2 /\ both[1] = "context" /\ both[2] = "memory"
          OBVIOUS
        <5>5. \A i \in 1..Len(notes) : notes[i] = both[i]
          BY <5>2, <5>3, <5>4
        <5>6. notes = both
          BY <5>2, <5>4, <5>5, SeqEqual
        <5>7. QED
          BY <5>6
      <4>5. QED
        BY <2>2, <2>6, <4>1, <4>2, <4>3, <4>4 DEF Systems
    <3> DEFINE n == [[r EXCEPT !.at = "forward"] EXCEPT !.system = notes]
    <3>2. n \in [at : {"forward"}, slot : Slots, provider : Providers, requested : MemoryRequests,
                 system : Systems]
      BY <2>1, <3>1
    <3>3. [r EXCEPT !.at = "forward"].system = r.system
      BY <2>1
    <3>4. call' = [call EXCEPT ![c] = n]
      BY <2>6, <3>3 DEF MemoryInv, MemoryTypeOK
    <3> HIDE DEF n
    <3>5. CallSound(c, n)'
      BY <3>2 DEF CallSound
    <3>6. QED
      BY <2>0, <2>6, <3>4, <3>5, CallMoves
  <2>7. CASE e # NoEnvelope /\ Opened(c, r.slot, e) # "undecryptable"
    <3>1. /\ answer' = opening
          /\ call' = [call EXCEPT ![c].at = "forward", ![c].system = @ \o
                        IF Opened(c, r.slot, e) = "value" THEN <<"memory">> ELSE <<>>]
      BY <1>11, <2>7 DEF ChatMemory
    <3>2. AnswerSound(answer')
      BY <2>4, <2>7, <3>1
    <3> HIDE DEF opening
    <3>3. QED
      BY <2>6, <3>1, <3>2
  <2>8. CASE e = NoEnvelope
    <3>1. /\ UNCHANGED answer
          /\ call' = [call EXCEPT ![c].at = "forward", ![c].system = @ \o
                        IF knowledge[r.slot] = NoNote THEN <<>> ELSE <<"memory">>]
      BY <1>11, <2>8 DEF ChatMemory
    <3>2. QED
      BY <1>answer, <2>6, <3>1
  <2>9. QED
    BY <1>11, <2>5, <2>7, <2>8 DEF ChatMemory
<1>12. ASSUME NEW c \in Callers, llm_chat_proxy(c)
       PROVE  MemoryInv'
  <2> PICK r : r = call[c]
    OBVIOUS
  <2>1. r \in [at : {"forward"}, slot : Slots, provider : Providers, requested : MemoryRequests,
               system : Systems]
    BY <1>12, <1>fields DEF llm_chat_proxy
  <2> PICK trace, sent, layer, provider, w :
         /\ trace = {r.system[i] : i \in DOMAIN r.system}
         /\ sent = Forwarded(r.provider, r.system)
         /\ layer = resolve_ability_profile(c)
         /\ provider = r.provider
         /\ w = r.slot[1]
    OBVIOUS
  <2>2. /\ answer' = [kind |-> "chat", token |-> Headers[c].token, wallet |-> w,
                      profile |-> layer, provider |-> provider, trace |-> trace, sent |-> sent]
        /\ call' = [call EXCEPT ![c] = Resting] /\ UNCHANGED <<profile, vault, granted>>
    BY <1>12 DEF llm_chat_proxy
  <2>3. w \in MemoryWallets /\ r.provider \in Providers /\ r.system \in Systems
    BY <2>1, SlotWallet
  <2>4. layer = "00" => Headers[c].token \in granted[w]
    <3>1. layer = "00" => is_mission_control_authorized(c, w)
      BY DEF resolve_ability_profile
    <3>2. QED
      BY <2>3, <3>1, AuthorizedGranted
  <2>5. \/ trace \subseteq sent
        \/ provider = "claude" /\ trace \ sent = {"memory"} /\ "context" \in sent
    <3>1. CASE r.provider = "openai"
      BY <3>1 DEF Forwarded
    <3>2. CASE r.provider = "claude" /\ r.system = <<>>
      BY <3>2
    <3>3. CASE r.provider = "claude" /\ r.system = <<"context">>
      BY <3>3 DEF Forwarded
    <3>4. CASE r.provider = "claude" /\ r.system = <<"memory">>
      BY <3>4 DEF Forwarded
    <3>5. CASE r.provider = "claude" /\ r.system = <<"context", "memory">>
      <4>1. trace = {"context", "memory"}
        BY <3>5
      <4>2. sent = {"context"}
        BY <3>5 DEF Forwarded
      <4>3. QED
        BY <3>5, <4>1, <4>2
    <3>6. QED
      BY <2>3, <3>1, <3>2, <3>3, <3>4, <3>5 DEF Providers, Systems
  <2>6. AnswerSound(answer')
    BY <2>2, <2>3, <2>4, <2>5 DEF AnswerSound
  <2>7. QED
    BY <1>rest, <2>2, <2>6, CallMoves
<1>13. ASSUME NEW c \in Callers, ProviderFails(c)
       PROVE  MemoryInv'
  <2>1. /\ answer' = [kind |-> "bad gateway"] /\ call' = [call EXCEPT ![c] = Resting]
        /\ UNCHANGED <<profile, vault, granted>>
    BY <1>13 DEF ProviderFails
  <2>2. QED
    BY <1>rest, <1>quiet, <2>1, CallMoves
<1>14. QED
    BY <1>1, <1>2, <1>3, <1>4, <1>5, <1>6, <1>8, <1>9, <1>10, <1>11, <1>12, <1>13 DEF MemoryNext

\* The vault's envelopes, the requests under way and the last answer stay true to
\* the history of the pairings that were given mission control.
THEOREM MemoryInvariance == MemorySpec => []MemoryInv
<1>1. QED
    BY MemoryInitInv, MemoryStep, PTL DEF MemorySpec

\* Registrations may replace a profile between any two steps of an ingest, a recall
\* or a chat: what is sealed opens to its own pairing only.
THEOREM PairingAlwaysGuards == MemorySpec => []PairingGuards
<1>1. MemoryInv => PairingGuards
    BY DEF MemoryInv, Sealed, AnswerSound, PairingGuards, SensitiveUnderItsPairing, Layer00Granted
<1>2. QED
    BY <1>1, MemoryInvariance, PTL

\* A memory that does not open was lost to a later pairing, and the trace of a chat
\* names only what was sent, but for the memory a provider has no field for.
THEOREM RecallAlwaysReaches == MemorySpec => []RecallReaches
<1>1. MemoryInv => RecallReaches
    BY DEF MemoryInv, AnswerSound, RecallReaches, LostOnlyByPairing, TraceForwarded
<1>2. QED
    BY <1>1, MemoryInvariance, PTL


-----------------------------------------------------------------------------
(* Employee bindings.  Between the read and the write of an upsert the stored   *)
(* binding may change; what the request keeps is what it has read and that it   *)
(* did not conflict, and the write is judged by that.                           *)

BindingRecords ==
    [id : Binds \X Nat, bound_at : Nat, master : Masters, wallet : EmployeeWallets,
     role : {BindRequest[r].role : r \in Binds} \cup {"Unassigned"}]

MaybeBound == BindingRecords \cup {Unbound}

BindSteps == {"idle", "read", "write", "refused", "done"}

BindingsTypeOK ==
    /\ binding \in [Employees -> MaybeBound]
    /\ bind \in [Binds -> [at : BindSteps, i : Nat, existing : MaybeBound]]
    /\ beat \in [EmployeeWallets -> Nat \cup {NeverSeen}]
    /\ beatTime \in Nat
    /\ summary.time \in Nat

\* A request is at one of its employees, and writes over nothing that it should
\* have refused.
BindsChecked ==
    \A r \in Binds :
        /\ bind[r].i \in 1..Len(BindRequest[r].employees)
        /\ bind[r].at = "write" => ~Conflict(r, bind[r].existing)

BindingsInv == BindingsTypeOK /\ BindsChecked /\ summary.time <= beatTime /\ OnlineWasSeen

LEMMA BindingsInitInv == BindingsInit => BindingsInv
<1> SUFFICES ASSUME BindingsInit PROVE BindingsInv
    OBVIOUS
<1>1. /\ summary.time = 0 /\ summary.online = 0 /\ beatTime = 0
      /\ binding = [e \in Employees |-> Unbound]
      /\ beat = [w \in EmployeeWallets |-> NeverSeen]
    BY DEF BindingsInit
<1>2. Unbound \in MaybeBound /\ "idle" \in BindSteps
    BY DEF MaybeBound, BindSteps
<1>3. bind \in [Binds -> [at : BindSteps, i : Nat, existing : MaybeBound]]
    BY <1>2 DEF BindingsInit
<1>4. \A r \in Binds : bind[r].at = "idle" /\ bind[r].i = 1
    BY DEF BindingsInit
<1>5. \A r \in Binds : 1 \in 1..Len(BindRequest[r].employees)
    BY BindingsAssumption
<1>6. QED
    BY <1>1, <1>2, <1>3, <1>4, <1>5 DEF BindingsInv, BindingsTypeOK, BindsChecked, OnlineWasSeen

\* The employee a request is at, and what it writes there.
LEMMA TargetTyped ==
    ASSUME BindingsInv, NEW r \in Binds
    PROVE  /\ Target(r) \in Employees
           /\ bind[r].existing \in MaybeBound
           /\ Merged(r, bind[r].existing) \in BindingRecords
<1> PICK old : old = bind[r].existing
    OBVIOUS
<1> PICK e : e = Target(r)
    OBVIOUS
<1> PICK q : q = BindRequest[r]
    OBVIOUS
<1>1. bind[r].i \in 1..Len(q.employees) /\ bind[r].i \in Nat /\ old \in MaybeBound
    BY DEF BindingsInv, BindsChecked, BindingsTypeOK
<1>2. e \in Employees
    BY <1>1, BindingsAssumption DEF Target
<1>3. /\ q.master \in Masters
      /\ q.wallet = NotGiven \/ q.wallet \in EmployeeWallets
      /\ derive_openclaw_employee_wallet(q.master, e) \in EmployeeWallets
    BY <1>2, BindingsAssumption DEF EmployeeWallets
<1>4. ASSUME old = Unbound
      PROVE  Merged(r, old) \in BindingRecords
  <2>1. Merged(r, old) =
          [id |-> <<r, bind[r].i>>, bound_at |-> beatTime, master |-> q.master,
           wallet |-> IF q.wallet # NotGiven THEN q.wallet
                      ELSE derive_openclaw_employee_wallet(q.master, e),
           role |-> IF q.role # NotGiven THEN q.role ELSE "Unassigned"]
    BY <1>4 DEF Merged
  <2>2. QED
    BY <1>1, <1>2, <1>3, <2>1 DEF BindingRecords, BindingsInv, BindingsTypeOK
<1>5. ASSUME old # Unbound
      PROVE  Merged(r, old) \in BindingRecords
  <2>1. /\ old.id \in Binds \X Nat /\ old.bound_at \in Nat /\ old.wallet \in EmployeeWallets
        /\ old.role \in {BindRequest[x].role : x \in Binds} \cup {"Unassigned"}
    BY <1>1, <1>5 DEF MaybeBound, BindingRecords
  <2>2. Merged(r, old) =
          [id |-> old.id, bound_at |-> old.bound_at, master |-> q.master,
           wallet |-> IF q.wallet # NotGiven THEN q.wallet ELSE old.wallet,
           role |-> IF q.role # NotGiven THEN q.role ELSE old.role]
    BY <1>5 DEF Merged
  <2>3. QED
    BY <1>3, <2>1, <2>2 DEF BindingRecords
<1>6. QED
    BY <1>1, <1>2, <1>4, <1>5

LEMMA BindingsStep ==
    ASSUME BindingsInv, [BindingsNext]_bindingVars
    PROVE  BindingsInv'
<1> USE DEF BindingsInv
<1>1. CASE UNCHANGED bindingVars
    BY <1>1 DEF bindingVars, BindingsTypeOK, BindsChecked, OnlineWasSeen
<1>2. ASSUME NEW r \in Binds, get_openclaw_binding(r)
      PROVE  BindingsInv'
  <2> PICK old : old = binding[Target(r)]
    OBVIOUS
  <2> PICK at : at = IF Conflict(r, old) THEN "refused" ELSE "write"
    OBVIOUS
  <2> DEFINE new == [[bind[r] EXCEPT !.existing = old] EXCEPT !.at = at]
  <2>1. old \in MaybeBound /\ at \in BindSteps
    BY TargetTyped DEF BindingsTypeOK, BindSteps
  <2>2. bind' = [bind EXCEPT ![r] = new] /\ UNCHANGED <<binding, beat, beatTime, summary>>
    BY <1>2 DEF get_openclaw_binding, BindingsTypeOK
  <2>3. bind[r] \in [at : BindSteps, i : Nat, existing : MaybeBound]
    BY DEF BindingsTypeOK
  <2>4. /\ new \in [at : BindSteps, i : Nat, existing : MaybeBound]
        /\ new.at = at /\ new.i = bind[r].i /\ new.existing = old
    BY <2>1, <2>3
  <2> HIDE DEF new
  <2>5. BindingsTypeOK'
    BY <2>2, <2>4 DEF BindingsTypeOK
  <2>6. at = "write" => ~Conflict(r, old)
    OBVIOUS
  <2>7. BindsChecked'
    BY <2>2, <2>4, <2>6 DEF BindingsTypeOK, BindsChecked, Conflict
  <2>8. QED
    BY <2>2, <2>5, <2>7 DEF OnlineWasSeen
<1>3. ASSUME NEW r \in Binds, put_openclaw_binding(r)
      PROVE  BindingsInv'
  <2>1. bind[r] \in [at : BindSteps, i : Nat, existing : MaybeBound] /\ bind[r].i \in 1..Len(BindRequest[r].employees)
    BY DEF BindingsTypeOK, BindsChecked
  <2> PICK n : n = Len(BindRequest[r].employees)
    OBVIOUS
  <2> DEFINE last == bind[r].i = n
  <2> PICK at, i : at = (IF last THEN "done" ELSE "read") /\ i = (IF last THEN bind[r].i ELSE bind[r].i + 1)
    OBVIOUS
  <2>n. n \in Nat
    BY BindingsAssumption
  <2>2. at \in BindSteps /\ at # "write" /\ i \in Nat /\ i \in 1..n
    <3>1. CASE last
      BY <2>1, <3>1 DEF BindSteps
    <3>2. CASE ~last
      <4>1. bind[r].i \in Nat /\ bind[r].i >= 1 /\ bind[r].i <= n /\ bind[r].i # n
        BY <2>1, <2>n, <3>2
      <4>2. QED
        BY <2>n, <3>2, <4>1 DEF BindSteps
    <3>3. QED
      BY <3>1, <3>2
  <2> PICK new : new \in [at : BindSteps, i : Nat, existing : MaybeBound]
                 /\ new.at = at /\ new.i = i /\ bind' = [bind EXCEPT ![r] = new]
    <3>1. CASE last
      <4> DEFINE m == [bind[r] EXCEPT !.at = "done"]
      <4>1. bind' = [bind EXCEPT ![r] = m]
        BY <1>3, <3>1 DEF put_openclaw_binding, BindingsTypeOK
      <4>2. m \in [at : BindSteps, i : Nat, existing : MaybeBound] /\ m.at = at /\ m.i = i
        BY <2>1, <2>2, <3>1
      <4>3. QED
        BY <4>1, <4>2
    <3>2. CASE ~last
      <4> DEFINE m == [[bind[r] EXCEPT !.at = "read"] EXCEPT !.i = i]
      <4>1. [bind[r] EXCEPT !.at = "read"].i = bind[r].i
        BY <2>1
      <4>2. bind' = [bind EXCEPT ![r] = m]
        BY <1>3, <3>2, <4>1 DEF put_openclaw_binding, BindingsTypeOK
      <4>3. m \in [at : BindSteps, i : Nat, existing : MaybeBound] /\ m.at = at /\ m.i = i
        BY <2>1, <2>2, <3>2
      <4>4. QED
        BY <4>2, <4>3
    <3>3. QED
      BY <3>1, <3>2
  <2>3. /\ binding' = [binding EXCEPT ![Target(r)] = Merged(r, bind[r].existing)]
        /\ UNCHANGED <<beat, beatTime, summary>>
    BY <1>3 DEF put_openclaw_binding
  <2>4. Merged(r, bind[r].existing) \in MaybeBound
    BY TargetTyped DEF MaybeBound
  <2>5. BindingsTypeOK'
    BY <2>3, <2>4 DEF BindingsTypeOK
  <2>6. BindsChecked'
    BY <2>2 DEF BindingsTypeOK, BindsChecked, Conflict
  <2>7. QED
    BY <2>3, <2>5, <2>6 DEF OnlineWasSeen
<1>4. ASSUME NEW w \in Seen, EmployeeHeartbeat(w)
      PROVE  BindingsInv'
  <2>1. w \in EmployeeWallets /\ HEARTBEAT_TIMEOUT \in Nat
    BY BindingsAssumption
  <2>2. beat' = [beat EXCEPT ![w] = beatTime] /\ UNCHANGED <<binding, bind, beatTime, summary>>
    BY <1>4 DEF EmployeeHeartbeat
  <2>3. BindingsTypeOK' /\ BindsChecked'
    BY <2>1, <2>2 DEF BindingsTypeOK, BindsChecked
  <2>4. beat'[w] # NeverSeen /\ summary'.time - beat'[w] <= HEARTBEAT_TIMEOUT
    BY <2>1, <2>2 DEF BindingsTypeOK, NeverSeen
  <2>5. OnlineWasSeen'
    BY <2>1, <2>4 DEF OnlineWasSeen
  <2>6. QED
    BY <2>2, <2>3, <2>5
<1>5. CASE BeatTick
  <2>1. beatTime' = beatTime + 1 /\ UNCHANGED <<binding, bind, beat, summary>>
    BY <1>5 DEF BeatTick
  <2>2. QED
    BY <2>1 DEF BindingsTypeOK, BindsChecked, OnlineWasSeen
<1>6. ASSUME NEW m \in Masters \cup {NotGiven}, autonomo_openclaw_orchestration_context(m)
      PROVE  BindingsInv'
  <2> DEFINE mine == BindingsOf(m)
             stale == {e \in mine : HeartbeatStale(binding[e].wallet)}
  <2>1. /\ summary'.time = beatTime /\ summary'.online = Cardinality(mine \ stale)
        /\ UNCHANGED <<binding, bind, beat, beatTime>>
    BY <1>6 DEF autonomo_openclaw_orchestration_context
  <2>2. BindingsTypeOK' /\ BindsChecked'
    BY <2>1 DEF BindingsTypeOK, BindsChecked
  <2>3. OnlineWasSeen'
    <3> SUFFICES ASSUME summary'.online > 0
                 PROVE  \E w \in EmployeeWallets :
                          beat[w] # NeverSeen /\ beatTime - beat[w] <= HEARTBEAT_TIMEOUT
      BY <2>1 DEF OnlineWasSeen
    <3>1. mine \ stale # {}
      BY <2>1, FS_EmptySet
    <3>2. PICK e \in mine : ~HeartbeatStale(binding[e].wallet)
      BY <3>1
    <3>3. binding[e] \in BindingRecords
      BY DEF BindingsOf, BindingsTypeOK, MaybeBound
    <3>4. binding[e].wallet \in EmployeeWallets
      BY <3>3 DEF BindingRecords
    <3>5. beat[binding[e].wallet] \in Nat /\ HEARTBEAT_TIMEOUT \in Nat
      BY <3>2, <3>4, BindingsAssumption DEF HeartbeatStale, BindingsTypeOK
    <3>6. QED
      BY <3>2, <3>4, <3>5 DEF HeartbeatStale, BindingsTypeOK
  <2>4. QED
    BY <2>1, <2>2, <2>3 DEF BindingsTypeOK
<1>7. QED
    BY <1>1, <1>2, <1>3, <1>4, <1>5, <1>6 DEF BindingsNext

\* The bindings keep their shape, a write its check, and the summary its evidence.
THEOREM BindingsInvariance == BindingsSpec => []BindingsInv
<1>1. QED
    BY BindingsInitInv, BindingsStep, PTL DEF BindingsSpec

\* upsert_openclaw_binding keeps what it should of the binding it has read, and the
\* orchestration summary counts as online only employees seen in time.
THEOREM BindingsAlwaysSound == BindingsSpec => BindingsSound
<1> DEFINE Kept ==
      \A e \in Employees :
         LET old == binding[e]
             new == binding'[e]
         IN  (old # Unbound /\ new # old) =>
               \E r \in Binds :
                 /\ bind[r].at = "write"
                 /\ Target(r) = e
                 /\ bind[r].existing = old =>
                      /\ new.id = old.id /\ new.bound_at = old.bound_at
                      /\ BindRequest[r].force \/ new.master = old.master
                      /\ BindRequest[r].role = NotGiven => new.role = old.role
                      /\ BindRequest[r].wallet = NotGiven => new.wallet = old.wallet
<1>1. ASSUME BindingsInv, [BindingsNext]_bindingVars
      PROVE  [Kept]_bindingVars
  <2>1. CASE UNCHANGED binding
    BY <2>1
  <2>2. ASSUME NEW r \in Binds, put_openclaw_binding(r), NEW e \in Employees,
               binding[e] # Unbound, binding'[e] # binding[e]
        PROVE  /\ bind[r].at = "write" /\ Target(r) = e
               /\ bind[r].existing = binding[e] =>
                    /\ binding'[e].id = binding[e].id /\ binding'[e].bound_at = binding[e].bound_at
                    /\ BindRequest[r].force \/ binding'[e].master = binding[e].master
                    /\ BindRequest[r].role = NotGiven => binding'[e].role = binding[e].role
                    /\ BindRequest[r].wallet = NotGiven => binding'[e].wallet = binding[e].wallet
    <3> PICK old : old = binding[e]
      OBVIOUS
    <3> PICK new : new = binding'[e]
      OBVIOUS
    <3>1. bind[r].at = "write" /\ binding' = [binding EXCEPT ![Target(r)] = Merged(r, bind[r].existing)]
      BY <2>2 DEF put_openclaw_binding
    <3>2. Target(r) = e
      BY <2>2, <3>1, <1>1 DEF BindingsInv, BindingsTypeOK
    <3>3. ASSUME bind[r].existing = old
          PROVE  /\ new.id = old.id /\ new.bound_at = old.bound_at
                 /\ BindRequest[r].force \/ new.master = old.master
                 /\ BindRequest[r].role = NotGiven => new.role = old.role
                 /\ BindRequest[r].wallet = NotGiven => new.wallet = old.wallet
      <4>1. new = Merged(r, old)
        BY <3>1, <3>2, <3>3, <1>1 DEF BindingsInv, BindingsTypeOK
      <4>2. ~Conflict(r, old) /\ old # Unbound
        BY <2>2, <3>1, <3>3, <1>1 DEF BindingsInv, BindsChecked
      <4>3. BindRequest[r].force \/ BindRequest[r].master = old.master
        BY <4>2 DEF Conflict
      <4>4. QED
        BY <4>1, <4>2, <4>3 DEF Merged
    <3>4. QED
      BY <3>1, <3>2, <3>3
  <2>3. CASE \E r \in Binds : put_openclaw_binding(r)
    BY <2>2, <2>3
  <2>4. QED
    BY <1>1, <2>1, <2>3 DEF BindingsNext, bindingVars, get_openclaw_binding, EmployeeHeartbeat,
         BeatTick, autonomo_openclaw_orchestration_context
<1>2. BindingsInv => OnlineWasSeen
    BY DEF BindingsInv
<1>3. BindingsSpec => [][Kept]_bindingVars
    BY <1>1, BindingsInvariance, PTL DEF BindingsSpec
<1>4. BindingsSpec => SeenBindingKept
    BY <1>3 DEF SeenBindingKept
<1>5. BindingsSpec => []OnlineWasSeen
    BY <1>2, BindingsInvariance, PTL
<1>6. QED
    BY <1>4, <1>5 DEF BindingsSound


-----------------------------------------------------------------------------
(* Agent relay.  What a connection still carries was posted on the node it      *)
(* comes from, so that a delivery, however late or repeated, stores only what   *)
(* was acknowledged there, and never on the node that acknowledged it.          *)

Messages == [from : Agents, text : Texts]

\* The gossip of node n that a request to n accounts for.
PostedGossip(n) ==
    {[kind |-> "beat", wallet |-> p.wallet] : p \in {x \in posted : x.kind = "beat" /\ x.node = n}}
    \cup {[kind |-> "chat", message |-> p.message] : p \in {x \in posted : x.kind = "chat" /\ x.node = n}}
    \cup {[kind |-> "relay", envelope |-> p.envelope] : p \in {x \in posted : x.kind = "relay" /\ x.node = n}}

Posts ==
    [kind : {"beat"}, node : Peers2, wallet : Agents, room : RoomIds, at : 0..MaxMillis]
    \cup [kind : {"chat"}, node : Peers2, message : Messages, at : 0..MaxMillis]
    \cup [kind : {"relay"}, node : Peers2, envelope : Envelopes]

RelayTypeOK ==
    /\ presence \in [Peers2 -> [Agents -> [room : RoomIds \cup {"none"}, seen : Int]]]
    /\ chats \in [Peers2 -> [ChatKeys -> Messages \cup {NoText}]]
    /\ relays \in [Peers2 -> [RelayIds -> Envelopes \cup {NoEnvelopeHere}]]
    /\ millis \in 0..MaxMillis
    /\ posted \subseteq Posts

\* What the connections carry was posted on the node that it comes from.
WireBacked ==
    /\ wire = [l \in Links |-> [n \in Peers2 |-> wire[l][n]]]
    /\ \A l \in Links, n \in Peers2 : wire[l][n] \in Seq(PostedGossip(n))

\* An envelope is stored under its own name and was accepted somewhere; one that
\* was accepted is there.
RelaysBacked ==
    /\ \A n \in Peers2, i \in RelayIds : relays[n][i] # NoEnvelopeHere =>
         /\ i = message_id(relays[n][i])
         /\ \E p \in posted : p.kind = "relay" /\ p.envelope = relays[n][i]
    /\ \A p \in posted : p.kind = "relay" => relays[p.node][message_id(p.envelope)] = p.envelope

RelayInv == RelayTypeOK /\ WireBacked /\ RelaysBacked /\ ChatKept /\ RoomKnown

LEMMA OtherNode ==
    ASSUME NEW n \in Peers2
    PROVE  Other(n) \in Peers2 /\ Other(n) # n
<1>1. \E m \in Peers2 : m # n
    BY RelayAssumption
<1>2. QED
    BY <1>1 DEF Other

\* What one request posts takes nothing of what was posted from the wires.
LEMMA GossipGrows ==
    ASSUME NEW n, posted \subseteq posted'
    PROVE  PostedGossip(n) \subseteq PostedGossip(n)'
    BY DEF PostedGossip

LEMMA SeqGrows ==
    ASSUME NEW S, NEW T, S \subseteq T, NEW q \in Seq(S)
    PROVE  q \in Seq(T)
<1>1. /\ Len(q) \in Nat /\ q = [i \in 1..Len(q) |-> q[i]] /\ \A i \in 1..Len(q) : q[i] \in S
    OBVIOUS
<1>2. \A i \in 1..Len(q) : q[i] \in T
    BY <1>1
<1>3. QED
    BY <1>1, <1>2

LEMMA RelayInitInv == RelayInit => RelayInv
<1> SUFFICES ASSUME RelayInit PROVE RelayInv
    OBVIOUS
<1>1. posted = {} /\ millis = 0 /\ 0 \in 0..MaxMillis
    BY RelayAssumption DEF RelayInit
<1>2. RelayTypeOK
    BY <1>1 DEF RelayInit, RelayTypeOK, Absent
<1>3. WireBacked
  <2>1. \A n \in Peers2 : <<>> \in Seq(PostedGossip(n))
    OBVIOUS
  <2>2. wire = [l \in Links |-> [n \in Peers2 |-> <<>>]]
    BY DEF RelayInit
  <2>3. QED
    BY <2>1, <2>2 DEF WireBacked
<1>4. RelaysBacked
    BY <1>1 DEF RelayInit, RelaysBacked
<1>5. ChatKept /\ RoomKnown
    BY <1>1 DEF ChatKept, RoomKnown
<1>6. QED
    BY <1>2, <1>3, <1>4, <1>5 DEF RelayInv

LEMMA WireKept ==
    ASSUME WireBacked, posted \subseteq posted', wire' = wire
    PROVE  WireBacked'
<1> SUFFICES ASSUME NEW l \in Links, NEW n \in Peers2
             PROVE  wire[l][n] \in Seq(PostedGossip(n)')
    BY DEF WireBacked
<1>1. wire[l][n] \in Seq(PostedGossip(n))
    BY DEF WireBacked
<1>2. QED
    BY <1>1, GossipGrows, SeqGrows

\* A broadcast of node n, which may push the oldest message out of a full queue.
LEMMA BroadcastBacked ==
    ASSUME WireBacked, posted \subseteq posted', NEW n \in Peers2, NEW msg,
           msg \in PostedGossip(n)', wire' = Broadcast(n, msg)
    PROVE  WireBacked'
<1>1. ASSUME NEW l \in Links, NEW m \in Peers2
      PROVE  wire'[l][m] \in Seq(PostedGossip(m)')
  <2> PICK q : q = wire[l][m]
    OBVIOUS
  <2> PICK S : S = PostedGossip(m)'
    OBVIOUS
  <2>1. q \in Seq(S)
    <3>1. q \in Seq(PostedGossip(m))
      BY DEF WireBacked
    <3>2. QED
      BY <3>1, GossipGrows, SeqGrows
  <2>2. CASE l \in open /\ m = n
    <3> PICK longer : longer = Append(q, msg)
      OBVIOUS
    <3>1. longer \in Seq(S) /\ Len(longer) = Len(q) + 1 /\ longer # <<>>
      BY <2>1, <2>2, AppendProperties
    <3>2. Tail(longer) \in Seq(S)
      BY <3>1, HeadTailProperties
    <3>3. wire'[l] = [wire[l] EXCEPT ![n] = IF Len(longer) > GossipCapacity THEN Tail(longer) ELSE longer]
      BY <2>2 DEF Broadcast
    <3>4. wire'[l][m] = IF Len(longer) > GossipCapacity THEN Tail(longer) ELSE longer
      BY <2>2, <3>3 DEF WireBacked
    <3>5. QED
      BY <3>1, <3>2, <3>4
  <2>3. CASE ~(l \in open /\ m = n)
    <3>1. wire'[l][m] = q
      BY <2>3 DEF Broadcast, WireBacked
    <3>2. QED
      BY <2>1, <3>1
  <2>4. QED
    BY <2>2, <2>3
<1>2. wire' = [l \in Links |-> [m \in Peers2 |-> wire'[l][m]]]
    BY DEF Broadcast, WireBacked
<1>3. QED
    BY <1>1, <1>2 DEF WireBacked

LEMMA RelaysKept ==
    ASSUME RelaysBacked, relays' = relays, posted \subseteq posted',
           \A p \in posted' : p.kind = "relay" => p \in posted
    PROVE  RelaysBacked'
    BY DEF RelaysBacked

LEMMA ChatsKept ==
    ASSUME ChatKept, chats' = chats, posted \subseteq posted',
           \A p \in posted' : p.kind = "chat" => p \in posted
    PROVE  ChatKept'
    BY DEF ChatKept

LEMMA RoomsKept ==
    ASSUME RoomKnown, presence' = presence, posted \subseteq posted',
           \A p \in posted' : p.kind = "beat" => p \in posted
    PROVE  RoomKnown'
<1>1. \A w : {p \in posted' : p.kind = "beat" /\ p.wallet = w} = {p \in posted : p.kind = "beat" /\ p.wallet = w}
    OBVIOUS
<1>2. QED
    BY <1>1 DEF RoomKnown

\* A chat message that somebody posted is stored on node n, under the time and its
\* sender, by a request to n or by gossip.
LEMMA ChatStored ==
    ASSUME RelayTypeOK, ChatKept, NEW n \in Peers2, NEW m \in Messages,
           chats' = [chats EXCEPT ![n][<<millis, m.from>>] = m], posted \subseteq posted',
           \E q \in posted' : q.kind = "chat" /\ q.message = m,
           \A p \in posted' : p.kind = "chat" => \/ p \in posted
                                                 \/ p.node = n /\ p.message = m /\ p.at = millis
    PROVE  ChatKept' /\ chats' \in [Peers2 -> [ChatKeys -> Messages \cup {NoText}]]
<1> PICK k : k = <<millis, m.from>>
    OBVIOUS
<1>0. m.from \in Agents /\ millis \in 0..MaxMillis
    BY DEF Messages, RelayTypeOK
<1>1. k \in ChatKeys
    BY <1>0 DEF ChatKeys
<1>2. chats' \in [Peers2 -> [ChatKeys -> Messages \cup {NoText}]] /\ chats'[n][k] = m
    BY <1>1 DEF RelayTypeOK
<1>3. \A a \in Peers2, j \in ChatKeys : (a # n \/ j # k) => chats'[a][j] = chats[a][j]
    BY <1>1 DEF RelayTypeOK
<1>4. ASSUME NEW p \in posted', p.kind = "chat"
      PROVE  \/ chats'[p.node][<<p.at, p.message.from>>] = p.message
             \/ /\ chats'[p.node][<<p.at, p.message.from>>].from = p.message.from
                /\ \E q \in posted' \ {p} : q.kind = "chat" /\ q.message.from = p.message.from
  <2>1. CASE p \notin posted
    BY <1>2, <1>4, <2>1
  <2>2. CASE p \in posted
    <3>1. p.node \in Peers2 /\ p.message.from \in Agents /\ p.at \in 0..MaxMillis
      BY <1>4, <2>2 DEF RelayTypeOK, Posts, Messages
    <3> PICK j : j = <<p.at, p.message.from>>
      OBVIOUS
    <3>2. j \in ChatKeys
      BY <3>1 DEF ChatKeys
    <3>3. \/ chats[p.node][j] = p.message
          \/ /\ chats[p.node][j].from = p.message.from
             /\ \E q \in posted \ {p} : q.kind = "chat" /\ q.message.from = p.message.from
      BY <1>4, <2>2 DEF ChatKept
    <3>4. CASE p.node # n \/ j # k
      BY <1>3, <3>1, <3>2, <3>3, <3>4
    <3>5. CASE p.node = n /\ j = k
      <4>1. p.message.from = m.from
        BY <3>5
      <4>2. chats'[p.node][j] = m
        BY <1>2, <3>5
      <4>3. PICK q \in posted' : q.kind = "chat" /\ q.message = m
        OBVIOUS
      <4>4. CASE q = p
        BY <4>2, <4>3, <4>4
      <4>5. CASE q # p
        BY <4>1, <4>2, <4>3, <4>5
      <4>6. QED
        BY <4>4, <4>5
    <3>6. QED
      BY <3>4, <3>5
  <2>3. QED
    BY <2>1, <2>2
<1>5. QED
    BY <1>2, <1>4 DEF ChatKept

\* An envelope that was accepted is stored on node n under its name.
LEMMA RelayStored ==
    ASSUME RelayTypeOK, RelaysBacked, NEW n \in Peers2, NEW e \in Envelopes,
           relays' = [relays EXCEPT ![n][message_id(e)] = e], posted \subseteq posted',
           \E q \in posted' : q.kind = "relay" /\ q.envelope = e,
           \A p \in posted' : p.kind = "relay" => p \in posted \/ (p.node = n /\ p.envelope = e)
    PROVE  RelaysBacked' /\ relays' \in [Peers2 -> [RelayIds -> Envelopes \cup {NoEnvelopeHere}]]
<1> PICK k : k = message_id(e)
    OBVIOUS
<1>1. k \in RelayIds
    BY DEF RelayIds
<1>2. /\ relays' \in [Peers2 -> [RelayIds -> Envelopes \cup {NoEnvelopeHere}]]
      /\ relays'[n][k] = e
    BY <1>1 DEF RelayTypeOK
<1>3. \A a \in Peers2, i \in RelayIds : (a # n \/ i # k) => relays'[a][i] = relays[a][i]
    BY <1>1 DEF RelayTypeOK
<1>4. ASSUME NEW a \in Peers2, NEW i \in RelayIds, relays'[a][i] # NoEnvelopeHere
      PROVE  /\ i = message_id(relays'[a][i])
             /\ \E p \in posted' : p.kind = "relay" /\ p.envelope = relays'[a][i]
  <2>1. CASE a = n /\ i = k
    BY <1>2, <2>1
  <2>2. CASE a # n \/ i # k
    BY <1>3, <1>4, <2>2 DEF RelaysBacked
  <2>3. QED
    BY <2>1, <2>2
<1>5. ASSUME NEW p \in posted', p.kind = "relay"
      PROVE  relays'[p.node][message_id(p.envelope)] = p.envelope
  <2>1. CASE p.node = n /\ p.envelope = e
    BY <1>2, <2>1
  <2>2. CASE p \in posted /\ ~(p.node = n /\ p.envelope = e)
    <3>1. p.node \in Peers2 /\ p.envelope \in Envelopes
      BY <1>5, <2>2 DEF RelayTypeOK, Posts
    <3>2. message_id(p.envelope) \in RelayIds
      BY <3>1 DEF RelayIds
    <3>3. p.node # n \/ message_id(p.envelope) # k
      BY <2>2 DEF message_id
    <3>4. QED
      BY <1>3, <1>5, <2>2, <3>1, <3>2, <3>3 DEF RelaysBacked
  <2>3. QED
    BY <1>5, <2>1, <2>2
<1>6. QED
    BY <1>2, <1>4, <1>5 DEF RelaysBacked

\* Connection l hands its next message to node n.
LEMMA DeliverStep ==
    ASSUME RelayInv, NEW l \in Links, NEW n \in Peers2, Deliver(l, n)
    PROVE  RelayInv'
<1> USE DEF RelayInv
<1> PICK o : o = Other(n)
    OBVIOUS
<1> PICK q : q = wire[l][o]
    OBVIOUS
<1> PICK msg : msg = Head(q)
    OBVIOUS
<1>0. o \in Peers2 /\ o # n
    BY OtherNode
<1>1. q \in Seq(PostedGossip(o)) /\ q # <<>>
    BY <1>0 DEF WireBacked, Deliver
<1>2. msg \in PostedGossip(o) /\ Tail(q) \in Seq(PostedGossip(o))
    BY <1>1, HeadTailProperties
<1>3. /\ \/ AutonomoHeartbeatGossip(n, msg)
         \/ AutonomoChatGossip(n, msg)
         \/ AutonomoSecureRelayGossip(n, msg)
      /\ wire' = [wire EXCEPT ![l][o] = Tail(q)]
      /\ UNCHANGED <<open, millis, sends, posted>>
    BY DEF Deliver
<1>4. WireBacked'
  <2>1. ASSUME NEW k \in Links, NEW m \in Peers2
        PROVE  wire'[k][m] \in Seq(PostedGossip(m))
    <3>1. CASE k = l /\ m = o
      <4>1. wire'[k][m] = Tail(q)
        BY <1>0, <1>3, <3>1 DEF WireBacked
      <4>2. QED
        BY <1>2, <3>1, <4>1
    <3>2. CASE k # l \/ m # o
      <4>1. wire'[k][m] = wire[k][m]
        BY <1>0, <1>3, <3>2 DEF WireBacked
      <4>2. QED
        BY <4>1 DEF WireBacked
    <3>3. QED
      BY <3>1, <3>2
  <2>2. wire' = [k \in Links |-> [m \in Peers2 |-> wire'[k][m]]]
    BY <1>3 DEF WireBacked
  <2>3. \A m \in Peers2 : PostedGossip(m)' = PostedGossip(m)
    BY <1>3 DEF PostedGossip
  <2>4. QED
    BY <2>1, <2>2, <2>3 DEF WireBacked
<1>posted. posted' = posted /\ millis' = millis
    BY <1>3
<1>5. CASE AutonomoHeartbeatGossip(n, msg)
  <2>1. /\ msg.kind = "beat" /\ UNCHANGED <<chats, relays>>
        /\ presence' = [presence EXCEPT ![n][msg.wallet] = [room |-> "none", seen |-> millis]]
    BY <1>5 DEF AutonomoHeartbeatGossip
  <2>2. PICK p \in posted : p.kind = "beat" /\ p.node = o /\ p.wallet = msg.wallet
    BY <1>2, <2>1 DEF PostedGossip
  <2>3. p.wallet \in Agents
    BY <2>2 DEF RelayTypeOK, Posts
  <2> PICK w : w = msg.wallet
    OBVIOUS
  <2>4. w \in Agents
    BY <2>2, <2>3
  <2> PICK rec : rec = [room |-> "none", seen |-> millis]
    OBVIOUS
  <2>5. rec \in [room : RoomIds \cup {"none"}, seen : Int]
    BY DEF RelayTypeOK
  <2>6. presence' = [presence EXCEPT ![n][w] = rec]
    BY <2>1
  <2>7. RelayTypeOK'
    BY <1>posted, <2>1, <2>4, <2>5, <2>6 DEF RelayTypeOK
  <2>8. RoomKnown'
    <3> SUFFICES ASSUME NEW a \in Peers2, NEW v \in Agents,
                        {x \in posted : x.kind = "beat" /\ x.wallet = v} # {},
                        \A x \in {x \in posted : x.kind = "beat" /\ x.wallet = v} : x.node = a
                 PROVE  presence'[a][v].room # "none"
      BY <1>posted DEF RoomKnown
    <3>1. presence[a][v].room # "none"
      BY DEF RoomKnown
    <3>2. a # n \/ v # w
      BY <1>0, <2>2
    <3>3. presence'[a][v] = presence[a][v]
      BY <2>4, <2>6, <3>2 DEF RelayTypeOK
    <3>4. QED
      BY <3>1, <3>3
  <2>9. QED
    BY <1>4, <1>posted, <2>1, <2>7, <2>8, RelaysKept, ChatsKept
<1>6. CASE AutonomoChatGossip(n, msg)
  <2>1. /\ msg.kind = "chat" /\ UNCHANGED <<presence, relays>>
        /\ chats' = [chats EXCEPT ![n][<<millis, msg.message.from>>] = msg.message]
    BY <1>6 DEF AutonomoChatGossip, ChatKey
  <2>2. PICK p \in posted : p.kind = "chat" /\ p.node = o /\ p.message = msg.message
    BY <1>2, <2>1 DEF PostedGossip
  <2>3. p.message \in Messages
    BY <2>2 DEF RelayTypeOK, Posts
  <2> PICK m : m = msg.message
    OBVIOUS
  <2>4. m \in Messages /\ chats' = [chats EXCEPT ![n][<<millis, m.from>>] = m]
    BY <2>1, <2>2, <2>3
  <2>5. ChatKept' /\ chats' \in [Peers2 -> [ChatKeys -> Messages \cup {NoText}]]
    BY <1>posted, <2>2, <2>4, ChatStored
  <2>6. RelayTypeOK'
    BY <1>posted, <2>1, <2>5 DEF RelayTypeOK
  <2>7. QED
    BY <1>4, <1>posted, <2>1, <2>5, <2>6, RelaysKept, RoomsKept
<1>7. CASE AutonomoSecureRelayGossip(n, msg)
  <2>1. /\ msg.kind = "relay" /\ UNCHANGED <<presence, chats>>
        /\ relays' = [relays EXCEPT ![n][message_id(msg.envelope)] = msg.envelope]
    BY <1>7 DEF AutonomoSecureRelayGossip
  <2>2. PICK p \in posted : p.kind = "relay" /\ p.node = o /\ p.envelope = msg.envelope
    BY <1>2, <2>1 DEF PostedGossip
  <2>3. p.envelope \in Envelopes
    BY <2>2 DEF RelayTypeOK, Posts
  <2> PICK e : e = msg.envelope
    OBVIOUS
  <2>4. e \in Envelopes /\ relays' = [relays EXCEPT ![n][message_id(e)] = e]
    BY <2>1, <2>2, <2>3
  <2>5. RelaysBacked' /\ relays' \in [Peers2 -> [RelayIds -> Envelopes \cup {NoEnvelopeHere}]]
    BY <1>posted, <2>2, <2>4, RelayStored
  <2>6. RelayTypeOK'
    BY <1>posted, <2>1, <2>5 DEF RelayTypeOK
  <2>7. QED
    BY <1>4, <1>posted, <2>1, <2>5, <2>6, ChatsKept, RoomsKept
<1>8. QED
    BY <1>3, <1>5, <1>6, <1>7

LEMMA RelayStep ==
    ASSUME RelayInv, [RelayNext]_relayVars
    PROVE  RelayInv'
<1> USE DEF RelayInv
<1>quiet. ASSUME UNCHANGED <<presence, chats, relays, posted>>, millis' \in 0..MaxMillis, WireBacked'
          PROVE  RelayInv'
  <2>1. RelayTypeOK'
    BY <1>quiet DEF RelayTypeOK
  <2>2. QED
    BY <1>quiet, <2>1, RelaysKept, ChatsKept, RoomsKept
<1>1. CASE UNCHANGED relayVars
  <2>1. UNCHANGED <<presence, chats, relays, wire, millis, posted>>
    BY <1>1 DEF relayVars
  <2>2. millis' \in 0..MaxMillis
    BY <2>1 DEF RelayTypeOK
  <2>3. QED
    BY <1>quiet, <2>1, <2>2, WireKept
<1>2. ASSUME NEW n \in Peers2, NEW w \in Agents, NEW room \in RoomIds, NEW payload \in BOOLEAN,
             autonomo_heartbeat(n, w, room, payload)
      PROVE  RelayInv'
  <2> PICK p : p = [kind |-> "beat", node |-> n, wallet |-> w, room |-> room, at |-> millis]
    OBVIOUS
  <2>1. /\ posted' = posted \cup {p} /\ UNCHANGED <<chats, relays, millis>>
        /\ wire' = IF payload THEN Broadcast(n, [kind |-> "beat", wallet |-> w]) ELSE wire
        /\ presence' = [presence EXCEPT ![n][w] = [room |-> room, seen |-> millis]]
    BY <1>2 DEF autonomo_heartbeat
  <2>2. p.kind = "beat" /\ p.node = n /\ p.wallet = w /\ p \in Posts
    BY DEF Posts, RelayTypeOK
  <2> PICK rec : rec = [room |-> room, seen |-> millis]
    OBVIOUS
  <2>3. rec \in [room : RoomIds \cup {"none"}, seen : Int] /\ rec.room # "none"
    BY RelayAssumption DEF RelayTypeOK
  <2>4. presence' = [presence EXCEPT ![n][w] = rec]
    BY <2>1
  <2>5. RelayTypeOK'
    BY <2>1, <2>2, <2>3, <2>4 DEF RelayTypeOK
  <2>6. WireBacked'
    <3> PICK msg : msg = [kind |-> "beat", wallet |-> w]
      OBVIOUS
    <3>1. msg \in PostedGossip(n)'
      BY <2>1, <2>2 DEF PostedGossip
    <3>2. posted \subseteq posted'
      BY <2>1
    <3>3. CASE payload
      BY <2>1, <3>1, <3>2, <3>3, BroadcastBacked
    <3>4. CASE ~payload
      BY <2>1, <3>2, <3>4, WireKept
    <3>5. QED
      BY <3>3, <3>4
  <2>7. RelaysBacked' /\ ChatKept'
    BY <2>1, <2>2, RelaysKept, ChatsKept
  <2>8. RoomKnown'
    <3> SUFFICES ASSUME NEW a \in Peers2, NEW v \in Agents,
                        {x \in posted' : x.kind = "beat" /\ x.wallet = v} # {},
                        \A x \in {x \in posted' : x.kind = "beat" /\ x.wallet = v} : x.node = a
                 PROVE  presence'[a][v].room # "none"
      BY DEF RoomKnown
    <3>1. CASE v = w
      <4>1. a = n
        BY <2>1, <2>2, <3>1
      <4>2. QED
        BY <2>3, <2>4, <3>1, <4>1 DEF RelayTypeOK
    <3>2. CASE v # w
      <4>1. {x \in posted' : x.kind = "beat" /\ x.wallet = v} = {x \in posted : x.kind = "beat" /\ x.wallet = v}
        BY <2>1, <2>2, <3>2
      <4>2. presence[a][v].room # "none"
        BY <4>1 DEF RoomKnown
      <4>3. presence'[a][v] = presence[a][v]
        BY <2>4, <3>2 DEF RelayTypeOK
      <4>4. QED
        BY <4>2, <4>3
    <3>3. QED
      BY <3>1, <3>2
  <2>9. QED
    BY <2>5, <2>6, <2>7, <2>8
<1>3. ASSUME NEW n \in Peers2, NEW w \in Agents, NEW text \in Texts, autonomo_agent_message(n, w, text)
      PROVE  RelayInv'
  <2> PICK m : m = [from |-> w, text |-> text]
    OBVIOUS
  <2> PICK p : p = [kind |-> "chat", node |-> n, message |-> m, at |-> millis]
    OBVIOUS
  <2>1. /\ posted' = posted \cup {p} /\ UNCHANGED <<presence, relays, millis>>
        /\ wire' = Broadcast(n, [kind |-> "chat", message |-> m])
        /\ chats' = [chats EXCEPT ![n][<<millis, w>>] = m]
    BY <1>3 DEF autonomo_agent_message, ChatKey
  <2>2. m \in Messages /\ m.from = w
    BY DEF Messages
  <2>3. /\ p.kind = "chat" /\ p.node = n /\ p.message = m /\ p.at = millis /\ p \in Posts
    BY <2>2 DEF Posts, RelayTypeOK
  <2>4. posted \subseteq posted' /\ p \in posted'
    BY <2>1
  <2>5. ChatKept' /\ chats' \in [Peers2 -> [ChatKeys -> Messages \cup {NoText}]]
    <3>1. chats' = [chats EXCEPT ![n][<<millis, m.from>>] = m]
      BY <2>1, <2>2
    <3>2. \A x \in posted' : x.kind = "chat" => \/ x \in posted
                                                \/ x.node = n /\ x.message = m /\ x.at = millis
      BY <2>1, <2>3
    <3>3. \E x \in posted' : x.kind = "chat" /\ x.message = m
      BY <2>3, <2>4
    <3>4. QED
      BY <2>2, <2>4, <3>1, <3>2, <3>3, ChatStored
  <2>6. WireBacked'
    <3> PICK msg : msg = [kind |-> "chat", message |-> m]
      OBVIOUS
    <3>1. msg \in PostedGossip(n)'
      BY <2>3, <2>4 DEF PostedGossip
    <3>2. QED
      BY <2>1, <2>4, <3>1, BroadcastBacked
  <2>7. RelayTypeOK'
    BY <2>1, <2>3, <2>5 DEF RelayTypeOK
  <2>8. QED
    BY <2>1, <2>3, <2>5, <2>6, <2>7, RelaysKept, RoomsKept
<1>4. ASSUME NEW n \in Peers2, NEW e \in Envelopes, autonomo_secure_relay_send(n, e)
      PROVE  RelayInv'
  <2>0. UNCHANGED <<presence, chats, millis>>
    BY <1>4 DEF autonomo_secure_relay_send
  <2>1. CASE e.signer # e.sender
    <3>1. UNCHANGED <<relays, wire, posted>>
      BY <1>4, <2>1 DEF autonomo_secure_relay_send
    <3>2. millis' \in 0..MaxMillis
      BY <2>0 DEF RelayTypeOK
    <3>3. QED
      BY <1>quiet, <2>0, <3>1, <3>2, WireKept
  <2>2. CASE e.signer = e.sender
    <3> PICK p : p = [kind |-> "relay", node |-> n, envelope |-> e]
      OBVIOUS
    <3>1. /\ posted' = posted \cup {p}
          /\ wire' = Broadcast(n, [kind |-> "relay", envelope |-> e])
          /\ relays' = [relays EXCEPT ![n] = [@ EXCEPT ![message_id(e)] = e]]
      BY <1>4, <2>2 DEF autonomo_secure_relay_send
    <3>2. p.kind = "relay" /\ p.node = n /\ p.envelope = e /\ p \in Posts
      BY DEF Posts
    <3>3. posted \subseteq posted' /\ p \in posted'
      BY <3>1
    <3>4. RelaysBacked' /\ relays' \in [Peers2 -> [RelayIds -> Envelopes \cup {NoEnvelopeHere}]]
      <4>1. relays' = [relays EXCEPT ![n][message_id(e)] = e]
        BY <3>1
      <4>2. \A x \in posted' : x.kind = "relay" => x \in posted \/ (x.node = n /\ x.envelope = e)
        BY <3>1, <3>2
      <4>3. \E x \in posted' : x.kind = "relay" /\ x.envelope = e
        BY <3>2, <3>3
      <4>4. QED
        BY <3>3, <4>1, <4>2, <4>3, RelayStored
    <3>5. WireBacked'
      <4> PICK msg : msg = [kind |-> "relay", envelope |-> e]
        OBVIOUS
      <4>1. msg \in PostedGossip(n)'
        BY <3>2, <3>3 DEF PostedGossip
      <4>2. QED
        BY <3>1, <3>3, <4>1, BroadcastBacked
    <3>6. RelayTypeOK'
      BY <2>0, <3>1, <3>2, <3>4 DEF RelayTypeOK
    <3>7. QED
      BY <2>0, <3>1, <3>2, <3>4, <3>5, <3>6, ChatsKept, RoomsKept
  <2>3. QED
    BY <2>1, <2>2
<1>5. ASSUME NEW l \in Links, CloseLink(l)
      PROVE  RelayInv'
  <2>1. /\ wire' = [wire EXCEPT ![l] = [n \in Peers2 |-> <<>>]]
        /\ UNCHANGED <<presence, chats, relays, millis, posted>>
    BY <1>5 DEF CloseLink
  <2>2. millis' \in 0..MaxMillis
    BY <2>1 DEF RelayTypeOK
  <2>3. \A k \in Links, n \in Peers2 : wire'[k][n] \in {<<>>, wire[k][n]}
    BY <2>1 DEF WireBacked
  <2>4. \A k \in Links, n \in Peers2 : wire'[k][n] \in Seq(PostedGossip(n))
    <3>1. \A k \in Links, n \in Peers2 : wire[k][n] \in Seq(PostedGossip(n))
      BY DEF WireBacked
    <3>2. \A n \in Peers2 : <<>> \in Seq(PostedGossip(n))
      OBVIOUS
    <3>3. QED
      BY <2>3, <3>1, <3>2
  <2>5. wire' = [k \in Links |-> [n \in Peers2 |-> wire'[k][n]]]
    BY <2>1 DEF WireBacked
  <2>6. \A n \in Peers2 : PostedGossip(n)' = PostedGossip(n)
    BY <2>1 DEF PostedGossip
  <2>7. WireBacked'
    BY <2>4, <2>5, <2>6 DEF WireBacked
  <2>8. QED
    BY <1>quiet, <2>1, <2>2, <2>7
<1>6. ASSUME NEW l \in Links, OpenLink(l)
      PROVE  RelayInv'
  <2>1. UNCHANGED <<presence, chats, relays, wire, millis, posted>>
    BY <1>6 DEF OpenLink
  <2>2. millis' \in 0..MaxMillis
    BY <2>1 DEF RelayTypeOK
  <2>3. QED
    BY <1>quiet, <2>1, <2>2, WireKept
<1>7. CASE Millisecond
  <2>1. UNCHANGED <<presence, chats, relays, wire, posted>>
    BY <1>7 DEF Millisecond
  <2>2. millis' \in 0..MaxMillis
    BY <1>7, RelayAssumption DEF Millisecond, RelayTypeOK
  <2>3. QED
    BY <1>quiet, <2>1, <2>2, WireKept
<1>8. QED
    BY <1>1, <1>2, <1>3, <1>4, <1>5, <1>6, <1>7, DeliverStep DEF RelayNext

\* What the nodes store and the connections carry was posted where it says.
THEOREM RelayInvariance == RelaySpec => []RelayInv
<1>1. QED
    BY RelayInitInv, RelayStep, PTL DEF RelaySpec

\* What autonomo_secure_relay_send, autonomo_agent_message and autonomo_heartbeat
\* have acknowledged stays on its node, once, through gossip that is lost, late or
\* delivered twice.
THEOREM AcknowledgedAlwaysKept == RelaySpec => []AcknowledgedKept
<1>1. RelayInv => AcknowledgedKept
  <2> SUFFICES ASSUME RelayInv PROVE RelayedOnce
    BY DEF RelayInv, AcknowledgedKept
  <2>1. ASSUME NEW p \in posted, p.kind = "relay"
        PROVE  Cardinality({i \in RelayIds : relays[p.node][i] = p.envelope}) = 1
    <3>1. p.node \in Peers2 /\ p.envelope \in Envelopes
      BY <2>1 DEF RelayInv, RelayTypeOK, Posts
    <3>2. message_id(p.envelope) \in RelayIds
      BY <3>1 DEF RelayIds
    <3>3. relays[p.node][message_id(p.envelope)] = p.envelope
      BY <2>1 DEF RelayInv, RelaysBacked
    <3>4. \A i \in RelayIds : relays[p.node][i] = p.envelope => i = message_id(p.envelope)
      BY <3>1, RelayAssumption DEF RelayInv, RelaysBacked
    <3>5. {i \in RelayIds : relays[p.node][i] = p.envelope} = {message_id(p.envelope)}
      BY <3>2, <3>3, <3>4
    <3>6. QED
      BY <3>5, FS_Singleton
  <2>2. \A n \in Peers2, i \in RelayIds :
           relays[n][i] # NoEnvelopeHere => \E p \in posted : p.kind = "relay" /\ p.envelope = relays[n][i]
    BY DEF RelayInv, RelaysBacked
  <2>3. QED
    BY <2>1, <2>2 DEF RelayedOnce
<1>2. QED
    BY <1>1, RelayInvariance, PTL


-----------------------------------------------------------------------------
(* The tool executor.  A request that has written its code and not yet removed  *)
(* it accounts for its file; what the file holds when the interpreter reads it  *)
(* is its own code, or else another request wrote a file of that name.          *)

ToolFiles == (0..MaxToolMillis) \X Extensions

Contents == {NoFile} \cup (Orders \X Nat)

OrderSteps == {"next", "spawn", "running", "clean", "clean after error", "answered"}

OrderRecords ==
    [at : OrderSteps, job : Nat, file : ToolFiles, succeeded : Nat, failed : Nat]

ToolTypeOK ==
    /\ order \in [Orders -> OrderRecords]
    /\ temp \in [ToolFiles -> Contents]
    /\ written \subseteq [order : Orders, job : Nat, ext : Extensions, at : 0..MaxToolMillis]
    /\ kb \in [Wallets -> [KnowledgeKeys -> Contents]]
    /\ toolMillis \in 0..MaxToolMillis

\* A request's step s counts its jobs: those before the current one while it goes
\* on, all up to the last one or the first failure when it is answered.
Counted(o, s) ==
    /\ s.job \in 1..Len(Jobs[o])
    /\ s.at # "answered" => /\ s.succeeded + s.failed = s.job - 1
                            /\ StopOnError[o] => s.failed = 0
    /\ s.at = "answered" => /\ s.succeeded + s.failed = s.job
                            /\ StopOnError[o] => s.failed <= 1
                            /\ (~StopOnError[o] \/ s.failed = 0) => s.job = Len(Jobs[o])

\* The request has a file of code that it has still to remove.
HasFile(o, s) ==
    /\ s.at \in {"spawn", "running", "clean", "clean after error"}
    /\ Jobs[o][s.job].tool \in Extensions

\* It has written it itself, in Python only when there is an interpreter to start.
FileWritten(o, s) ==
    HasFile(o, s) =>
        \E x \in written :
            /\ x.order = o /\ x.job = s.job
            /\ s.file = <<x.at, x.ext>>
            /\ x.ext = "py" => apply_runtime_env

\* Another request has written a file of the same name.
Shadowed(o, file) == \E y \in written : y.order # o /\ file = <<y.at, y.ext>>

SpawnReads(o, s) ==
    s.at = "spawn" => /\ HasFile(o, s)
                      /\ temp[s.file] = <<o, s.job>> \/ Shadowed(o, s.file)

\* A file that is there is somebody's to remove, or was left without an environment.
FileOwned(f) ==
    temp[f] # NoFile => \/ f[2] = "js" /\ ~apply_runtime_env
                        \/ \E o \in Orders : HasFile(o, order[o]) /\ order[o].file = f

\* What an agent's knowledge base holds was stored by a request of this agent.
KnowledgeStored ==
    \A w \in Wallets, k \in KnowledgeKeys :
        kb[w][k] # NoFile => WalletOf[kb[w][k][1]] = w

ToolInv ==
    /\ ToolTypeOK
    /\ \A o \in Orders : Counted(o, order[o])
    /\ \A o \in Orders : FileWritten(o, order[o]) /\ SpawnReads(o, order[o])
    /\ \A f \in ToolFiles : FileOwned(f)
    /\ KnowledgeStored
    /\ RunsOwnCode
    /\ KnowledgeOwn

LEMMA ToolInitInv == ToolsInit => ToolInv
<1> SUFFICES ASSUME ToolsInit PROVE ToolInv
    OBVIOUS
<1>1. /\ order = [o \in Orders |-> [at |-> "next", job |-> 1, file |-> <<0, "py">>,
                                    succeeded |-> 0, failed |-> 0]]
      /\ temp = [f \in ToolFiles |-> NoFile]
      /\ written = {} /\ ran = {} /\ toolMillis = 0
      /\ kb = [w \in Wallets |-> [k \in KnowledgeKeys |-> NoFile]]
      /\ found.chunks = {}
    BY DEF ToolsInit, ToolFiles
<1>2. NoFile \in Contents /\ <<0, "py">> \in ToolFiles /\ "next" \in OrderSteps /\ 0 \in 0..MaxToolMillis
    BY ToolsAssumption DEF Contents, ToolFiles, Extensions, OrderSteps
<1>3. ToolTypeOK
    BY <1>1, <1>2 DEF ToolTypeOK, OrderRecords
<1>4. \A o \in Orders : /\ order[o].at = "next" /\ order[o].job = 1
                        /\ order[o].succeeded = 0 /\ order[o].failed = 0
    BY <1>1
<1>5. \A o \in Orders : Counted(o, order[o])
    BY <1>4, ToolsAssumption DEF Counted
<1>6. \A o \in Orders : FileWritten(o, order[o]) /\ SpawnReads(o, order[o])
    BY <1>4 DEF FileWritten, SpawnReads, HasFile
<1>7. (\A f \in ToolFiles : FileOwned(f)) /\ KnowledgeStored /\ RunsOwnCode /\ KnowledgeOwn
    BY <1>1 DEF FileOwned, KnowledgeStored, RunsOwnCode, KnowledgeOwn
<1>8. QED
    BY <1>3, <1>5, <1>6, <1>7 DEF ToolInv

\* A job of request o ends: the request goes on or is answered, the other requests
\* stay where they are.
LEMMA JobEnds ==
    ASSUME ToolInv, NEW o \in Orders, order[o].at # "answered", NEW success \in BOOLEAN,
           Completed(o, success)
    PROVE  /\ order' \in [Orders -> OrderRecords]
           /\ \A x \in Orders \ {o} : order'[x] = order[x]
           /\ order'[o].at \in {"next", "answered"}
           /\ Counted(o, order'[o])
<1> PICK s : s = order[o]
    OBVIOUS
<1> PICK n : n = Len(Jobs[o])
    OBVIOUS
<1> PICK at : at = AfterJob(o, success)
    OBVIOUS
<1> PICK job, good, bad :
       /\ job = (IF at = "next" THEN s.job + 1 ELSE s.job)
       /\ good = (IF success THEN s.succeeded + 1 ELSE s.succeeded)
       /\ bad = (IF success THEN s.failed ELSE s.failed + 1)
    OBVIOUS
<1>1. s \in OrderRecords /\ Counted(o, s) /\ s.at # "answered"
    BY DEF ToolInv, ToolTypeOK
<1>2. /\ s.job \in Nat /\ s.succeeded \in Nat /\ s.failed \in Nat /\ s.job >= 1 /\ s.job <= n
      /\ s.succeeded + s.failed = s.job - 1 /\ (StopOnError[o] => s.failed = 0)
    BY <1>1 DEF OrderRecords, Counted
<1>3. n \in Nat /\ StopOnError[o] \in BOOLEAN
    BY ToolsAssumption
<1>4. at = IF s.job = n \/ (StopOnError[o] /\ ~success) THEN "answered" ELSE "next"
    BY DEF AfterJob
<1>5. at \in OrderSteps /\ job \in Nat /\ good \in Nat /\ bad \in Nat
    BY SMTT(30), <1>2, <1>4 DEF OrderSteps
<1> DEFINE new == [[[[s EXCEPT !.at = at] EXCEPT !.job = job] EXCEPT !.succeeded = good]
                      EXCEPT !.failed = bad]
<1>6. /\ new \in OrderRecords /\ new.at = at /\ new.job = job
      /\ new.succeeded = good /\ new.failed = bad
    BY <1>1, <1>5 DEF OrderRecords
<1>7. order' = [order EXCEPT ![o] = new]
  <2>1. order' = [order EXCEPT ![o].at = at,
                     ![o].job = IF at = "next" THEN @ + 1 ELSE @,
                     ![o].succeeded = IF success THEN @ + 1 ELSE @,
                     ![o].failed = IF success THEN @ ELSE @ + 1]
    BY DEF Completed
  <2>2. [s EXCEPT !.at = at].job = s.job
    BY <1>1 DEF OrderRecords
  <2>3. [[s EXCEPT !.at = at] EXCEPT !.job = job].succeeded = s.succeeded
    BY <1>1 DEF OrderRecords
  <2>4. [[[s EXCEPT !.at = at] EXCEPT !.job = job] EXCEPT !.succeeded = good].failed = s.failed
    BY <1>1 DEF OrderRecords
  <2>5. QED
    BY <2>1, <2>2, <2>3, <2>4 DEF ToolInv, ToolTypeOK
<1> HIDE DEF new
<1>8. order' \in [Orders -> OrderRecords] /\ order'[o] = new /\ \A x \in Orders \ {o} : order'[x] = order[x]
    BY <1>6, <1>7 DEF ToolInv, ToolTypeOK
<1>sum. good + bad = s.succeeded + s.failed + 1 /\ good \in Nat /\ bad \in Nat
  <2> PICK g \in Nat, b \in Nat : g = s.succeeded /\ b = s.failed
    BY <1>2
  <2>1. CASE success
    <3>1. good = g + 1 /\ bad = b
      BY <2>1
    <3>2. QED
      BY SMTT(30), <3>1
  <2>2. CASE ~success
    <3>1. good = g /\ bad = b + 1
      BY <2>2
    <3>2. good + bad = g + b + 1
      BY SMTT(30), <3>1
    <3>3. QED
      BY SMTT(30), <3>1, <3>2
  <2>3. QED
    BY <2>1, <2>2
<1>bad. StopOnError[o] => bad <= 1 /\ (success => bad = 0) /\ (~success => bad = 1)
    BY <1>2
<1>9. Counted(o, new)
  <2>1. ASSUME s.job = n \/ (StopOnError[o] /\ ~success)
        PROVE  Counted(o, new)
    <3>1. at = "answered" /\ job = s.job
      BY <1>4, <2>1
    <3>2. good + bad = job /\ job \in 1..n
      BY <1>2, <1>3, <1>sum, <3>1
    <3>3. (~StopOnError[o] \/ bad = 0) => job = n
      <4>1. CASE s.job = n
        BY <3>1, <4>1
      <4>2. CASE StopOnError[o] /\ ~success
        BY <1>bad, <4>2
      <4>3. QED
        BY <2>1, <4>1, <4>2
    <3>4. QED
      BY <1>6, <1>bad, <3>1, <3>2, <3>3 DEF Counted
  <2>2. ASSUME s.job # n, ~(StopOnError[o] /\ ~success)
        PROVE  Counted(o, new)
    <3>1. at = "next" /\ job = s.job + 1
      BY <1>4, <2>2
    <3>2. good + bad = job - 1 /\ job \in 1..n
      <4> PICK j \in Nat : j = s.job
        BY <1>2
      <4>1. j >= 1 /\ j <= n /\ j # n /\ job = j + 1 /\ good + bad = j
        BY <1>2, <1>sum, <2>2, <3>1
      <4>2. QED
        BY <1>3, <4>1
    <3>3. StopOnError[o] => bad = 0
      BY <1>bad, <2>2
    <3>4. QED
      BY <1>6, <3>1, <3>2, <3>3 DEF Counted
  <2>3. QED
    BY <2>1, <2>2
<1>10. QED
    BY <1>4, <1>6, <1>8, <1>9

\* The part of the invariant about the requests and their files.
FilesInv ==
    /\ order \in [Orders -> OrderRecords] /\ temp \in [ToolFiles -> Contents]
    /\ \A o \in Orders : Counted(o, order[o])
    /\ \A o \in Orders : FileWritten(o, order[o]) /\ SpawnReads(o, order[o])
    /\ \A f \in ToolFiles : FileOwned(f)

\* Request o leaves a step in which it has no file.
LEMMA EndsWithoutFile ==
    ASSUME ToolInv, NEW o \in Orders, order[o].at = "next", NEW success \in BOOLEAN,
           Completed(o, success), UNCHANGED <<policy, temp, written>>
    PROVE  FilesInv'
<1>1. /\ order' \in [Orders -> OrderRecords]
      /\ \A x \in Orders \ {o} : order'[x] = order[x]
      /\ order'[o].at \in {"next", "answered"}
      /\ Counted(o, order'[o])
    BY JobEnds
<1>2. ~HasFile(o, order[o]) /\ ~HasFile(o, order'[o]) /\ order'[o].at # "spawn"
    BY <1>1 DEF HasFile
<1>3. \A x \in Orders : Counted(x, order'[x])
    BY <1>1 DEF ToolInv
<1>4. apply_runtime_env' = apply_runtime_env
    BY DEF apply_runtime_env, resolve_venv_bin_dir
<1>5. ASSUME NEW x \in Orders
      PROVE  FileWritten(x, order[x])' /\ SpawnReads(x, order[x])'
  <2>1. CASE x = o
    BY <1>2, <2>1 DEF FileWritten, SpawnReads
  <2>2. CASE x # o
    <3>1. order'[x] = order[x] /\ FileWritten(x, order[x]) /\ SpawnReads(x, order[x])
      BY <1>1, <2>2 DEF ToolInv
    <3>2. QED
      BY <1>4, <3>1 DEF FileWritten, SpawnReads, Shadowed
  <2>3. QED
    BY <2>1, <2>2
<1>6. ASSUME NEW f \in ToolFiles
      PROVE  FileOwned(f)'
  <2>1. FileOwned(f)
    BY DEF ToolInv
  <2>2. \A x \in Orders : HasFile(x, order[x]) => order'[x] = order[x]
    BY <1>1, <1>2
  <2>3. QED
    BY <1>4, <2>1, <2>2 DEF FileOwned
<1>7. QED
    BY <1>1, <1>3, <1>5, <1>6 DEF FilesInv, ToolInv, ToolTypeOK, Counted

\* Request o goes on with the job and the file it has.
LEMMA OrderMoves ==
    ASSUME ToolInv, NEW o \in Orders, order[o].at # "answered",
           NEW at \in {"running", "clean", "clean after error"},
           order' = [order EXCEPT ![o].at = at],
           Jobs[o][order[o].job].tool \in Extensions => order[o].at # "next",
           UNCHANGED <<policy, temp, written>>
    PROVE  FilesInv'
<1> PICK s : s = order[o]
    OBVIOUS
<1> DEFINE new == [s EXCEPT !.at = at]
<1>1. s \in OrderRecords /\ at \in OrderSteps
    BY DEF ToolInv, ToolTypeOK, OrderSteps
<1>2. /\ new \in OrderRecords /\ new.at = at /\ new.job = s.job /\ new.file = s.file
      /\ new.succeeded = s.succeeded /\ new.failed = s.failed
    BY <1>1 DEF OrderRecords
<1>3. order' = [order EXCEPT ![o] = new]
    BY DEF ToolInv, ToolTypeOK
<1> HIDE DEF new
<1>4. /\ order' \in [Orders -> OrderRecords] /\ order'[o] = new
      /\ \A x \in Orders \ {o} : order'[x] = order[x]
    BY <1>2, <1>3 DEF ToolInv, ToolTypeOK
<1>5. HasFile(o, new) <=> HasFile(o, s)
  <2>1. s.at \in OrderSteps
    BY <1>1 DEF OrderRecords
  <2>2. QED
    BY <1>2, <2>1 DEF HasFile, OrderSteps
<1>6. Counted(o, new)
  <2>1. Counted(o, s)
    BY DEF ToolInv
  <2>2. QED
    BY <1>2, <2>1 DEF Counted
<1>7. apply_runtime_env' = apply_runtime_env
    BY DEF apply_runtime_env, resolve_venv_bin_dir
<1>8. ASSUME NEW x \in Orders
      PROVE  FileWritten(x, order[x])' /\ SpawnReads(x, order[x])' /\ Counted(x, order[x])'
  <2>0. FileWritten(x, order[x]) /\ SpawnReads(x, order[x]) /\ Counted(x, order[x])
    BY DEF ToolInv
  <2>1. CASE x = o
    <3>1. FileWritten(o, s)
      BY <2>0, <2>1
    <3>2. FileWritten(o, new)'
      BY <1>2, <1>5, <1>7, <3>1 DEF FileWritten
    <3>3. QED
      BY <1>2, <1>4, <1>6, <2>1, <3>2 DEF FileWritten, SpawnReads, Counted
  <2>2. CASE x # o
    <3>1. order'[x] = order[x]
      BY <1>4, <2>2
    <3>2. QED
      BY <1>7, <2>0, <3>1 DEF FileWritten, SpawnReads, Shadowed, Counted
  <2>3. QED
    BY <2>1, <2>2
<1>9. ASSUME NEW f \in ToolFiles
      PROVE  FileOwned(f)'
  <2>1. FileOwned(f)
    BY DEF ToolInv
  <2>2. ASSUME NEW x \in Orders, HasFile(x, order[x]), order[x].file = f
        PROVE  HasFile(x, order'[x]) /\ order'[x].file = f
    BY <1>2, <1>4, <1>5, <2>2
  <2>3. QED
    BY <1>7, <2>1, <2>2 DEF FileOwned
<1>10. QED
    BY <1>4, <1>8, <1>9 DEF FilesInv, ToolInv, ToolTypeOK

\* Request o leaves its file: removed by Clean, or not spawned for want of an
\* environment.
LEMMA FileLeft ==
    ASSUME ToolInv, NEW o \in Orders, order[o].at # "answered", NEW success \in BOOLEAN,
           Completed(o, success), UNCHANGED <<policy, written>>,
           \/ /\ HasFile(o, order[o])
              /\ temp' = [temp EXCEPT ![order[o].file] = NoFile]
           \/ HasFile(o, order[o]) /\ ~apply_runtime_env /\ UNCHANGED temp
           \/ ~HasFile(o, order[o]) /\ UNCHANGED temp
    PROVE  FilesInv'
<1> PICK s : s = order[o]
    OBVIOUS
<1>1. /\ order' \in [Orders -> OrderRecords]
      /\ \A x \in Orders \ {o} : order'[x] = order[x]
      /\ order'[o].at \in {"next", "answered"}
      /\ Counted(o, order'[o])
    BY JobEnds
<1>2. ~HasFile(o, order'[o]) /\ order'[o].at # "spawn"
    BY <1>1 DEF HasFile
<1>3. \A x \in Orders : Counted(x, order'[x])
    BY <1>1 DEF ToolInv
<1>4. apply_runtime_env' = apply_runtime_env
    BY DEF apply_runtime_env, resolve_venv_bin_dir
<1>5. s.file \in ToolFiles
    BY DEF ToolInv, ToolTypeOK, OrderRecords
<1>6. temp' \in [ToolFiles -> Contents] /\ \A f \in ToolFiles \ {s.file} : temp'[f] = temp[f]
    BY <1>5 DEF ToolInv, ToolTypeOK, Contents
<1>7. HasFile(o, s) => \E x \in written : /\ x.order = o /\ s.file = <<x.at, x.ext>>
                                          /\ x.ext = "py" => apply_runtime_env
    BY DEF ToolInv, FileWritten
<1>8. ASSUME NEW x \in Orders
      PROVE  FileWritten(x, order[x])' /\ SpawnReads(x, order[x])'
  <2>1. CASE x = o
    BY <1>2, <2>1 DEF FileWritten, SpawnReads
  <2>2. CASE x # o
    <3>0. order'[x] = order[x] /\ FileWritten(x, order[x]) /\ SpawnReads(x, order[x])
      BY <1>1, <2>2 DEF ToolInv
    <3>1. FileWritten(x, order[x])'
      BY <1>4, <3>0 DEF FileWritten
    <3>2. CASE temp' = temp
      BY <3>0, <3>1, <3>2 DEF SpawnReads, Shadowed
    <3>3. CASE order[x].file # s.file
      <4>1. order[x].file \in ToolFiles
        BY DEF ToolInv, ToolTypeOK, OrderRecords
      <4>2. temp'[order[x].file] = temp[order[x].file]
        BY <1>6, <3>3, <4>1
      <4>3. QED
        BY <3>0, <3>1, <4>2 DEF SpawnReads, Shadowed
    <3>4. CASE order[x].file = s.file /\ HasFile(o, s)
      <4>1. Shadowed(x, order[x].file)
        BY <1>7, <2>2, <3>4 DEF Shadowed
      <4>2. QED
        BY <3>0, <3>1, <4>1 DEF SpawnReads, Shadowed
    <3>5. QED
      BY <3>2, <3>3, <3>4
  <2>3. QED
    BY <2>1, <2>2
<1>9. ASSUME NEW f \in ToolFiles, temp'[f] # NoFile
      PROVE  \/ f[2] = "js" /\ ~apply_runtime_env
             \/ \E x \in Orders : HasFile(x, order'[x]) /\ order'[x].file = f
  <2>1. temp'[f] = temp[f]
    BY <1>5, <1>6, <1>9 DEF ToolInv, ToolTypeOK
  <2>2. \/ f[2] = "js" /\ ~apply_runtime_env
        \/ \E x \in Orders : HasFile(x, order[x]) /\ order[x].file = f
    BY <1>9, <2>1 DEF ToolInv, FileOwned
  <2>3. ASSUME NEW x \in Orders, HasFile(x, order[x]), order[x].file = f
        PROVE  \/ f[2] = "js" /\ ~apply_runtime_env
               \/ \E y \in Orders : HasFile(y, order'[y]) /\ order'[y].file = f
    <3>1. CASE x # o
      BY <1>1, <2>3, <3>1
    <3>2. CASE x = o
      <4>1. HasFile(o, s) /\ s.file = f
        BY <2>3, <3>2
      <4>2. temp' # [temp EXCEPT ![s.file] = NoFile]
        BY <1>5, <1>9, <4>1 DEF ToolInv, ToolTypeOK
      <4>3. ~apply_runtime_env
        BY <4>1, <4>2
      <4>4. PICK y \in written : f = <<y.at, y.ext>> /\ y.ext # "py"
        BY <1>7, <4>1, <4>3
      <4>5. y.ext \in {"py", "js"}
        BY DEF ToolInv, ToolTypeOK, Extensions
      <4>6. QED
        BY <4>3, <4>4, <4>5
    <3>3. QED
      BY <3>1, <3>2
  <2>4. QED
    BY <2>2, <2>3
<1>10. \A f \in ToolFiles : FileOwned(f)'
    BY <1>4, <1>9 DEF FileOwned
<1>11. QED
    BY <1>1, <1>3, <1>6, <1>8, <1>10 DEF FilesInv, Counted

\* exec_code writes the file of request o: the file is o's own, and a request that
\* has written one of the same name is shadowed by o.
LEMMA CodeWritten ==
    ASSUME ToolInv, NEW o \in Orders, order[o].at = "next", Job(o).tool \in Extensions,
           Job(o).tool = "py" => python_program,
           temp' = [temp EXCEPT ![TempFile(Job(o).tool)] = <<o, order[o].job>>],
           written' = written \cup {[order |-> o, job |-> order[o].job,
                                     ext |-> Job(o).tool, at |-> toolMillis]},
           order' = [order EXCEPT ![o].at = "spawn", ![o].file = TempFile(Job(o).tool)],
           UNCHANGED policy
    PROVE  /\ FilesInv'
           /\ written' \subseteq [order : Orders, job : Nat, ext : Extensions, at : 0..MaxToolMillis]
<1> PICK s : s = order[o]
    OBVIOUS
<1> PICK ext : ext = Job(o).tool
    OBVIOUS
<1> PICK f : f = <<toolMillis, ext>>
    OBVIOUS
<1> PICK w : w = [order |-> o, job |-> s.job, ext |-> ext, at |-> toolMillis]
    OBVIOUS
<1> DEFINE new == [[s EXCEPT !.at = "spawn"] EXCEPT !.file = f]
<1>1. /\ s \in OrderRecords /\ s.job \in Nat /\ s.at = "next" /\ ext \in Extensions
      /\ toolMillis \in 0..MaxToolMillis /\ f \in ToolFiles /\ ext = Jobs[o][s.job].tool
    BY DEF ToolInv, ToolTypeOK, OrderRecords, ToolFiles, Job
<1>2. /\ new \in OrderRecords /\ new.at = "spawn" /\ new.job = s.job /\ new.file = f
      /\ new.succeeded = s.succeeded /\ new.failed = s.failed
    BY <1>1 DEF OrderRecords, OrderSteps
<1>3. order' = [order EXCEPT ![o] = new]
  <2>1. f = TempFile(Job(o).tool)
    BY DEF TempFile
  <2>2. QED
    BY <2>1 DEF ToolInv, ToolTypeOK
<1> HIDE DEF new
<1>4. /\ order' \in [Orders -> OrderRecords] /\ order'[o] = new
      /\ \A x \in Orders \ {o} : order'[x] = order[x]
    BY <1>2, <1>3 DEF ToolInv, ToolTypeOK
<1>5. /\ temp' = [temp EXCEPT ![f] = <<o, s.job>>]
      /\ written' = written \cup {w}
    BY DEF TempFile
<1>6. /\ temp' \in [ToolFiles -> Contents] /\ temp'[f] = <<o, s.job>>
      /\ \A g \in ToolFiles \ {f} : temp'[g] = temp[g]
  <2> PICK c : c = <<o, s.job>>
    OBVIOUS
  <2>1. c \in Contents /\ temp' = [temp EXCEPT ![f] = c] /\ temp \in [ToolFiles -> Contents]
    BY <1>1, <1>5 DEF ToolInv, ToolTypeOK, Contents
  <2>2. QED
    BY <1>1, <2>1
<1>7. /\ w \in [order : Orders, job : Nat, ext : Extensions, at : 0..MaxToolMillis]
      /\ w.order = o /\ w.job = s.job /\ f = <<w.at, w.ext>> /\ w.ext = ext
    BY <1>1
<1>8. apply_runtime_env' = apply_runtime_env /\ (ext = "py" => apply_runtime_env)
    BY DEF apply_runtime_env, resolve_venv_bin_dir, python_program
<1>9. HasFile(o, new) /\ ~HasFile(o, s)
    BY <1>1, <1>2 DEF HasFile
<1>10. Counted(o, new)
  <2>1. Counted(o, s)
    BY DEF ToolInv
  <2>2. QED
    BY <1>1, <1>2, <2>1 DEF Counted
<1>11. ASSUME NEW x \in Orders
       PROVE  FileWritten(x, order[x])' /\ SpawnReads(x, order[x])' /\ Counted(x, order[x])'
  <2>1. CASE x = o
    <3>1. FileWritten(o, new)'
      BY <1>2, <1>5, <1>7, <1>8 DEF FileWritten
    <3>2. SpawnReads(o, new)'
      BY <1>2, <1>6, <1>9 DEF SpawnReads
    <3>3. QED
      BY <1>4, <1>10, <2>1, <3>1, <3>2 DEF FileWritten, SpawnReads, Counted
  <2>2. CASE x # o
    <3>0. /\ order'[x] = order[x]
          /\ FileWritten(x, order[x]) /\ SpawnReads(x, order[x]) /\ Counted(x, order[x])
      BY <1>4, <2>2 DEF ToolInv
    <3>1. FileWritten(x, order[x])'
      BY <1>5, <1>8, <3>0 DEF FileWritten
    <3>2. SpawnReads(x, order[x])'
      <4>1. CASE order[x].file = f
        BY <1>5, <1>7, <2>2, <3>0, <4>1 DEF SpawnReads, Shadowed
      <4>2. CASE order[x].file # f
        <5>1. temp'[order[x].file] = temp[order[x].file]
          <6>1. order[x].file \in ToolFiles
            BY DEF ToolInv, ToolTypeOK, OrderRecords
          <6>2. QED
            BY <1>6, <4>2, <6>1
        <5>2. QED
          BY <1>5, <3>0, <5>1 DEF SpawnReads, Shadowed
      <4>3. QED
        BY <4>1, <4>2
    <3>3. QED
      BY <3>0, <3>1, <3>2 DEF Counted
  <2>3. QED
    BY <2>1, <2>2
<1>12. ASSUME NEW g \in ToolFiles
       PROVE  FileOwned(g)'
  <2>1. CASE g = f
    BY <1>2, <1>4, <1>9, <2>1 DEF FileOwned
  <2>2. CASE g # f
    <3>1. temp'[g] = temp[g] /\ FileOwned(g)
      BY <1>6, <2>2 DEF ToolInv
    <3>2. \A x \in Orders : HasFile(x, order[x]) => order'[x] = order[x]
      BY <1>4, <1>9
    <3>3. QED
      BY <1>8, <3>1, <3>2 DEF FileOwned
  <2>3. QED
    BY <2>1, <2>2
<1>13. QED
    BY <1>4, <1>5, <1>6, <1>7, <1>11, <1>12 DEF FilesInv, ToolInv, ToolTypeOK

LEMMA ToolStep == ToolInv /\ [ToolsNext]_toolVars => ToolInv'
<1> SUFFICES ASSUME ToolInv, [ToolsNext]_toolVars PROVE ToolInv'
    OBVIOUS
<1> DEFINE OthersInv ==
      /\ written \subseteq [order : Orders, job : Nat, ext : Extensions, at : 0..MaxToolMillis]
      /\ kb \in [Wallets -> [KnowledgeKeys -> Contents]]
      /\ toolMillis \in 0..MaxToolMillis
      /\ KnowledgeStored /\ RunsOwnCode /\ KnowledgeOwn
<1>a. OthersInv
    BY DEF ToolInv, ToolTypeOK
<1>b. FilesInv' /\ OthersInv' => ToolInv'
    BY DEF FilesInv, ToolInv, ToolTypeOK
<1>c. ASSUME UNCHANGED <<written, kb, toolMillis, ran, found>> PROVE OthersInv'
    BY <1>a, <1>c DEF KnowledgeStored, RunsOwnCode, KnowledgeOwn
<1>d. ASSUME UNCHANGED <<policy, order, temp, written>> PROVE FilesInv'
  <2>1. apply_runtime_env' = apply_runtime_env
    BY <1>d DEF apply_runtime_env, resolve_venv_bin_dir
  <2>2. FilesInv
    BY DEF FilesInv, ToolInv, ToolTypeOK
  <2>3. \A o \in Orders : Counted(o, order[o])' /\ FileWritten(o, order[o])' /\ SpawnReads(o, order[o])'
    BY <1>d, <2>1, <2>2 DEF FilesInv, Counted, FileWritten, SpawnReads, Shadowed
  <2>4. \A f \in ToolFiles : FileOwned(f)'
    BY <1>d, <2>1, <2>2 DEF FilesInv, FileOwned
  <2>5. QED
    BY <1>d, <2>2, <2>3, <2>4 DEF FilesInv
<1> HIDE DEF OthersInv
<1>e. ASSUME NEW o \in Orders
      PROVE  /\ WalletOf[o] \in Wallets
             /\ order[o].at # "answered" => Job(o).key \in KnowledgeKeys
             /\ order[o].job \in Nat
             /\ <<o, order[o].job>> \in Contents
  <2>1. order[o].job \in Nat /\ order[o].job \in 1..Len(Jobs[o])
    BY DEF ToolInv, ToolTypeOK, OrderRecords, Counted
  <2>2. QED
    BY <2>1, ToolsAssumption DEF Wallets, Job, Contents
<1>1. ASSUME NEW o \in Orders, NoSuchTool(o) PROVE ToolInv'
    BY <1>1, <1>b, <1>c, EndsWithoutFile DEF NoSuchTool
<1>2. ASSUME NEW o \in Orders, exec_shell(o) PROVE ToolInv'
  <2> USE <1>2 DEF exec_shell
  <2>1. CASE resolve_working_dir(Job(o).dir) /\ ~Job(o).denied /\ apply_runtime_env
    <3>1. /\ order[o].at # "answered" /\ order' = [order EXCEPT ![o].at = "running"]
          /\ Jobs[o][order[o].job].tool \notin Extensions
          /\ UNCHANGED <<policy, temp, written>>
      BY <2>1 DEF Job, Extensions
    <3>2. FilesInv'
      BY <3>1, OrderMoves
    <3>3. RunsOwnCode'
      <4>1. ran' = ran \cup {[order |-> o, job |-> order[o].job, code |-> <<o, order[o].job>>]}
        BY <2>1
      <4>2. QED
        BY <1>a, <4>1 DEF RunsOwnCode, OthersInv
    <3>4. OthersInv'
      BY <1>a, <3>3 DEF OthersInv, KnowledgeStored, KnowledgeOwn
    <3>5. QED
      BY <1>b, <3>2, <3>4
  <2>2. CASE ~(resolve_working_dir(Job(o).dir) /\ ~Job(o).denied /\ apply_runtime_env)
    <3>1. Completed(o, FALSE) /\ UNCHANGED <<policy, temp, written, ran, kb, found, toolMillis>>
      BY <2>2
    <3>2. QED
      BY <1>b, <1>c, <3>1, EndsWithoutFile
  <2>3. QED
    BY <2>1, <2>2
<1>3. ASSUME NEW o \in Orders, WriteCode(o) PROVE ToolInv'
  <2> USE <1>3 DEF WriteCode
  <2> DEFINE Allowed == resolve_working_dir(Job(o).dir) /\ (Job(o).tool = "py" => python_program)
  <2>1. CASE Allowed
    <3>1. FilesInv' /\ written' \subseteq [order : Orders, job : Nat, ext : Extensions, at : 0..MaxToolMillis]
      BY <2>1, CodeWritten
    <3>2. written \subseteq written'
      BY <2>1
    <3>3. OthersInv'
      BY <1>a, <3>1, <3>2 DEF OthersInv, KnowledgeStored, KnowledgeOwn, RunsOwnCode
    <3>4. QED
      BY <1>b, <3>1, <3>3
  <2>2. CASE ~Allowed
    <3>1. Completed(o, FALSE) /\ UNCHANGED <<policy, temp, written, ran, kb, found, toolMillis>>
      BY <2>2
    <3>2. QED
      BY <1>b, <1>c, <3>1, EndsWithoutFile
  <2>3. QED
    BY <2>1, <2>2
<1>4. ASSUME NEW o \in Orders, SpawnCode(o) PROVE ToolInv'
  <2> USE <1>4 DEF SpawnCode
  <2>0. HasFile(o, order[o]) /\ SpawnReads(o, order[o]) /\ FileWritten(o, order[o])
    BY DEF ToolInv, SpawnReads
  <2>1. CASE apply_runtime_env
    <3>1. /\ order[o].at = "spawn" /\ order' = [order EXCEPT ![o].at = "running"]
          /\ UNCHANGED <<policy, temp, written>>
      BY <2>1
    <3>2. FilesInv'
      BY <3>1, OrderMoves
    <3> PICK r : r = [order |-> o, job |-> order[o].job, code |-> temp[order[o].file]]
      OBVIOUS
    <3>3. ran' = ran \cup {r} /\ r.order = o /\ r.job = order[o].job /\ r.code = temp[order[o].file]
      BY <2>1
    <3>4. \/ r.code = <<r.order, r.job>>
          \/ \E own, other \in written :
               /\ <<own.order, own.job>> = <<r.order, r.job>>
               /\ other.order # r.order
               /\ other.ext = own.ext /\ other.at = own.at
      <4>1. PICK own \in written : own.order = o /\ own.job = order[o].job /\ order[o].file = <<own.at, own.ext>>
        BY <2>0 DEF FileWritten
      <4>2. CASE temp[order[o].file] = <<o, order[o].job>>
        BY <3>3, <4>2
      <4>3. CASE Shadowed(o, order[o].file)
        <5>1. PICK other \in written : other.order # o /\ order[o].file = <<other.at, other.ext>>
          BY <4>3 DEF Shadowed
        <5>2. other.ext = own.ext /\ other.at = own.at
          BY <4>1, <5>1
        <5>3. QED
          BY <3>3, <4>1, <5>1, <5>2
      <4>4. QED
        BY <2>0, <4>2, <4>3, <3>1 DEF SpawnReads
    <3>5. RunsOwnCode'
      BY <1>a, <3>1, <3>3, <3>4 DEF RunsOwnCode, OthersInv
    <3>6. OthersInv'
      BY <1>a, <3>5 DEF OthersInv, KnowledgeStored, KnowledgeOwn
    <3>7. QED
      BY <1>b, <3>2, <3>6
  <2>2. CASE ~apply_runtime_env
    <3>1. Completed(o, FALSE) /\ UNCHANGED <<policy, temp, written, ran, kb, found, toolMillis>>
      BY <2>2
    <3>2. FilesInv'
      BY <2>0, <2>2, <3>1, FileLeft
    <3>3. QED
      BY <1>b, <1>c, <3>1, <3>2
  <2>3. QED
    BY <2>1, <2>2
<1>5. ASSUME NEW o \in Orders, NEW outcome \in {"done", "error", "timeout"}, RunEnds(o, outcome)
      PROVE  ToolInv'
  <2> PICK at : at = IF outcome = "done" THEN "clean" ELSE "clean after error"
    OBVIOUS
  <2>1. /\ order[o].at = "running" /\ order' = [order EXCEPT ![o].at = at]
        /\ at \in {"running", "clean", "clean after error"}
        /\ UNCHANGED <<policy, temp, written, ran, kb, found, toolMillis>>
    BY <1>5 DEF RunEnds
  <2>2. FilesInv'
    BY <2>1, OrderMoves
  <2>3. QED
    BY <1>b, <1>c, <2>1, <2>2
<1>6. ASSUME NEW o \in Orders, Clean(o) PROVE ToolInv'
  <2> PICK success \in BOOLEAN : success = (order[o].at = "clean")
    OBVIOUS
  <2>1. /\ order[o].at \in {"clean", "clean after error"} /\ Completed(o, success)
        /\ UNCHANGED <<policy, written, ran, kb, found, toolMillis>>
    BY <1>6 DEF Clean
  <2>2. \/ /\ HasFile(o, order[o])
           /\ temp' = [temp EXCEPT ![order[o].file] = NoFile]
        \/ ~HasFile(o, order[o]) /\ UNCHANGED temp
    BY <1>6 DEF Clean, HasFile, Job
  <2>3. FilesInv'
    BY <2>1, <2>2, FileLeft
  <2>4. QED
    BY <1>b, <1>c, <2>1, <2>3
<1>7. ASSUME NEW o \in Orders, NEW works \in BOOLEAN, knowledge_store(o, works) PROVE ToolInv'
  <2>1. /\ order[o].at = "next" /\ Completed(o, TRUE)
        /\ UNCHANGED <<policy, temp, written, ran, found, toolMillis>>
    BY <1>7 DEF knowledge_store
  <2>2. FilesInv'
    BY <2>1, EndsWithoutFile
  <2> PICK v : v = WalletOf[o]
    OBVIOUS
  <2> PICK key : key = Job(o).key
    OBVIOUS
  <2> PICK c : c = <<o, order[o].job>>
    OBVIOUS
  <2>3. v \in Wallets /\ key \in KnowledgeKeys /\ c \in Contents /\ WalletOf[c[1]] = v
    BY <1>e, <2>1
  <2>4. kb' = kb \/ kb' = [kb EXCEPT ![v][key] = c]
    BY <1>7 DEF knowledge_store, KnowledgeTree
  <2>5. kb \in [Wallets -> [KnowledgeKeys -> Contents]] /\ KnowledgeStored
    BY <1>a DEF OthersInv
  <2>6. kb' \in [Wallets -> [KnowledgeKeys -> Contents]]
    BY SMTT(30), <2>3, <2>4, <2>5
  <2>7. \A w \in Wallets, k \in KnowledgeKeys :
           kb'[w][k] = kb[w][k] \/ (w = v /\ kb'[w][k] = c)
    BY <2>3, <2>4, <2>5
  <2>8. KnowledgeStored'
    BY <2>3, <2>5, <2>7 DEF KnowledgeStored
  <2>9. OthersInv'
    BY <1>a, <2>1, <2>6, <2>8 DEF OthersInv, RunsOwnCode, KnowledgeOwn
  <2>10. QED
    BY <1>b, <2>2, <2>9
<1>8. ASSUME NEW o \in Orders, knowledge_query(o) PROVE ToolInv'
  <2>1. /\ order[o].at = "next" /\ Completed(o, TRUE)
        /\ UNCHANGED <<policy, temp, written, ran, kb, toolMillis>>
    BY <1>8 DEF knowledge_query
  <2>2. FilesInv'
    BY <2>1, EndsWithoutFile
  <2>3. WalletOf[o] \in Wallets /\ Job(o).key \in KnowledgeKeys
    BY <1>e, <2>1
  <2>4. /\ found'.wallet = WalletOf[o]
        /\ found'.chunks = {kb[WalletOf[o]][Job(o).key]} \ {NoFile}
    BY <1>8 DEF knowledge_query, KnowledgeTree
  <2>5. KnowledgeOwn'
    BY <1>a, <2>3, <2>4 DEF KnowledgeOwn, KnowledgeStored, OthersInv
  <2>6. OthersInv'
    BY <1>a, <2>1, <2>5 DEF OthersInv, RunsOwnCode, KnowledgeStored
  <2>7. QED
    BY <1>b, <2>2, <2>6
<1>9. ASSUME OrphanEnds PROVE ToolInv'
    BY <1>9, <1>b, <1>c, <1>d DEF OrphanEnds
<1>10. ASSUME ToolTick PROVE ToolInv'
  <2>1. toolMillis' \in 0..MaxToolMillis
    BY <1>10, ToolsAssumption DEF ToolTick, ToolInv, ToolTypeOK
  <2>2. OthersInv'
    BY <1>10, <1>a, <2>1 DEF ToolTick, OthersInv, KnowledgeStored, RunsOwnCode, KnowledgeOwn
  <2>3. QED
    BY <1>10, <1>b, <1>d, <2>2 DEF ToolTick
<1>11. ASSUME UNCHANGED toolVars PROVE ToolInv'
    BY <1>11, <1>b, <1>c, <1>d DEF toolVars
<1>12. QED
    BY <1>1, <1>2, <1>3, <1>4, <1>5, <1>6, <1>7, <1>8, <1>9, <1>10, <1>11 DEF ToolsNext

\* The tool executor's inductive invariant: requests count their jobs as they go,
\* and every file of code is somebody's to remove.
THEOREM ToolsInvariance == ToolsSpec => []ToolInv
<1>1. ToolsInit => ToolInv
    BY ToolInitInv
<1>2. ToolInv /\ [ToolsNext]_toolVars => ToolInv'
    BY ToolStep
<1>3. QED
    BY <1>1, <1>2, PTL DEF ToolsSpec

\* However many requests orchestrate tools at once, each runs its own code (or its
\* file was overwritten within one millisecond), reads its own agent's knowledge,
\* answers for all its jobs, and leaves no file behind.
THEOREM RequestsAlwaysAccounted == ToolsSpec => []RequestsAccounted
<1>1. ToolInv => RequestsAccounted
  <2> SUFFICES ASSUME ToolInv PROVE RequestsAccounted
    OBVIOUS
  <2>1. NoTempLeft
    <3> SUFFICES ASSUME \A o \in Orders : order[o].at = "answered",
                        NEW f \in DOMAIN temp, temp[f] # NoFile
                 PROVE  f[2] = "js" /\ ~apply_runtime_env
      BY DEF NoTempLeft
    <3>1. f \in ToolFiles
      BY DEF ToolInv, ToolTypeOK
    <3>2. \A o \in Orders : ~HasFile(o, order[o])
      BY DEF HasFile
    <3>3. QED
      BY <3>1, <3>2 DEF ToolInv, FileOwned
  <2>2. SummaryAccounts
    BY DEF ToolInv, Counted, SummaryAccounts
  <2>3. QED
    BY <2>1, <2>2 DEF RequestsAccounted, ToolInv
<1>2. QED
    BY <1>1, ToolsInvariance, PTL


-----------------------------------------------------------------------------
(* The rate limiter.  Of the requests in any window_secs seconds, those since  *)
(* the start of the current window are counted in it, and those before belong  *)
(* to one earlier window at most: a window is started only when the last one   *)
(* has run out, or was cleaned up long after that.                             *)

Seconds == 0..MaxClock

\* The requests of f in the seconds i..j.
Between(f, i, j) == SumFunctionOnSet(f, {t \in Seconds : i <= t /\ t <= j})

\* The window w of an address with the requests f: it counts those since its start,
\* the seconds before it had no more than one window holds, and it has taken none
\* after its end.
WindowCounts(w, f) ==
    /\ w.start \in 0..gateClock
    /\ w.count \in 0..max_requests
    /\ Between(f, w.start, MaxClock) = w.count
    /\ Between(f, w.start - window_secs + 1, w.start - 1) <= max_requests
    /\ \A t \in Seconds : t >= w.start + window_secs => f[t] = 0

\* Without a window there were no requests in the last window_secs seconds.
WindowSound(w, f) ==
    IF w = NoWindow THEN \A t \in Seconds : t > gateClock - window_secs => f[t] = 0
                    ELSE WindowCounts(w, f)

BurstOK(f) == \A t \in Seconds : Between(f, t, t + window_secs - 1) <= 2 * max_requests

GateTypeOK ==
    /\ gateClock \in Seconds
    /\ windows \in [Addresses -> [count : Nat, start : Int]]
    /\ passed \in [Addresses -> [Seconds -> Nat]]

Windows == \A a \in Addresses : WindowSound(windows[a], passed[a])

NoneAhead == \A a \in Addresses, t \in Seconds : t > gateClock => passed[a][t] = 0

Bursts == \A a \in Addresses : BurstOK(passed[a])

\* A refusal had its cause, and keeps it.
RefusalBacked ==
    verdict.outcome = "too many" =>
        /\ verdict.address \in Addresses
        /\ verdict.at \in Seconds
        /\ Between(passed[verdict.address], verdict.at - window_secs + 1, verdict.at)
               >= max_requests

GateInv ==
    /\ GateTypeOK
    /\ Windows
    /\ NoneAhead
    /\ Bursts
    /\ RefusalBacked
    /\ TunnelNotLocal

-----------------------------------------------------------------------------
(* Requests in a stretch of time.                                          *)

LEMMA SecondsFinite ==
    ASSUME NEW S \in SUBSET Seconds
    PROVE  IsFiniteSet(S)
<1>1. IsFiniteSet(Seconds)
    BY GateAssumption, FS_Interval DEF Seconds
<1>2. QED
    BY <1>1, FS_Subset

LEMMA BetweenNat ==
    ASSUME NEW f \in [Seconds -> Nat], NEW i \in Int, NEW j \in Int
    PROVE  Between(f, i, j) \in Nat
<1> PICK S : S = {t \in Seconds : i <= t /\ t <= j}
    OBVIOUS
<1>1. S \in SUBSET Seconds /\ IsFiniteSet(S)
    BY SecondsFinite
<1>2. SumFunctionOnSet(f, S) \in Nat
    BY <1>1, SumNat
<1>3. QED
    BY <1>2 DEF Between

\* A longer stretch has no fewer.
LEMMA BetweenMore ==
    ASSUME NEW f \in [Seconds -> Nat], NEW i \in Int, NEW j \in Int, NEW k \in Int, NEW l \in Int,
           k <= i, j <= l
    PROVE  Between(f, i, j) <= Between(f, k, l)
<1> PICK S, T : S = {t \in Seconds : i <= t /\ t <= j} /\ T = {t \in Seconds : k <= t /\ t <= l}
    OBVIOUS
<1>1. S \in SUBSET T
    BY GateAssumption DEF Seconds
<1>2. T \in SUBSET Seconds /\ IsFiniteSet(T) /\ \A x \in T : f[x] \in Nat
    BY SecondsFinite
<1>3. SumFunctionOnSet(f, S) <= SumFunctionOnSet(f, T)
    BY <1>1, <1>2, SumSubset
<1>4. QED
    BY <1>3 DEF Between

\* A stretch may be cut in two.
LEMMA BetweenCut ==
    ASSUME NEW f \in [Seconds -> Nat], NEW i \in Int, NEW k \in Int, NEW j \in Int, i <= k, k <= j + 1
    PROVE  Between(f, i, j) = Between(f, i, k - 1) + Between(f, k, j)
<1> PICK S, T, U : /\ S = {t \in Seconds : i <= t /\ t <= j}
                   /\ T = {t \in Seconds : i <= t /\ t <= k - 1}
                   /\ U = {t \in Seconds : k <= t /\ t <= j}
    OBVIOUS
<1>1. T \in SUBSET S /\ S \ T = U
    BY GateAssumption DEF Seconds
<1>2. S \in SUBSET Seconds /\ IsFiniteSet(S) /\ \A x \in S : f[x] \in Nat
    BY SecondsFinite
<1>3. SumFunctionOnSet(f, S) = SumFunctionOnSet(f, T) + SumFunctionOnSet(f, S \ T)
    BY <1>1, <1>2, SumParts
<1>4. SumFunctionOnSet(f, S) = SumFunctionOnSet(f, T) + SumFunctionOnSet(f, U)
    BY <1>1, <1>3
<1>5. QED
    BY <1>4 DEF Between

\* Stretches in which two histories agree.
LEMMA BetweenSame ==
    ASSUME NEW f, NEW g, NEW i \in Int, NEW j \in Int,
           \A t \in Seconds : i <= t /\ t <= j => f[t] = g[t]
    PROVE  Between(f, i, j) = Between(g, i, j)
<1> PICK S : S = {t \in Seconds : i <= t /\ t <= j}
    OBVIOUS
<1>1. S \in SUBSET Seconds /\ IsFiniteSet(S) /\ \A t \in S : f[t] = g[t]
    BY SecondsFinite
<1>2. SumFunctionOnSet(f, S) = SumFunctionOnSet(g, S)
    BY <1>1, SumAgree
<1>3. QED
    BY <1>2 DEF Between

\* A stretch without requests.
LEMMA BetweenNone ==
    ASSUME NEW f \in [Seconds -> Nat], NEW i \in Int, NEW j \in Int,
           \A t \in Seconds : i <= t /\ t <= j => f[t] = 0
    PROVE  Between(f, i, j) = 0
<1> PICK g, e : g = [t \in Seconds |-> 0] /\ e = i - 1
    OBVIOUS
<1>1. Between(f, i, j) = Between(g, i, j)
    BY BetweenSame
<1>2. PICK S : S = {t \in Seconds : i <= t /\ t <= j}
    OBVIOUS
<1>3. S \in SUBSET Seconds /\ IsFiniteSet(S)
    BY <1>2, SecondsFinite
<1> DEFINE G == {s \in SUBSET S : SumFunctionOnSet(g, s) = 0}
<1>4. ASSUME NEW s \in SUBSET S, \A r \in SUBSET S : Cardinality(r) < Cardinality(s) => r \in G
      PROVE  s \in G
  <2>1. CASE s = {}
    BY <2>1, SumEmpty
  <2>2. CASE s # {}
    <3>1. PICK x, r : x = Chosen(s) /\ r = s \ {x}
      OBVIOUS
    <3>2. /\ r \in SUBSET S /\ Cardinality(r) \in Nat /\ Cardinality(r) = Cardinality(s) - 1
          /\ Cardinality(s) \in Nat /\ x \in S /\ x \in s
      BY <1>3, <2>2, <3>1, OneLess
    <3>3. Cardinality(r) < Cardinality(s)
      BY <3>2
    <3>4. SumFunctionOnSet(g, r) = 0
      BY <1>4, <3>2, <3>3
    <3>5. IsFiniteSet(s) /\ (\A y \in s : g[y] \in Nat) /\ g[x] = 0
      BY <1>3, <3>2, SecondsFinite
    <3>6. SumFunctionOnSet(g, s) = g[x] + SumFunctionOnSet(g, r)
      BY <3>1, <3>2, <3>5, SumRemove
    <3>7. QED
      BY <3>4, <3>5, <3>6
  <2>3. QED
    BY <2>1, <2>2
<1> HIDE DEF G
<1>5. SUBSET S \subseteq G
    BY <1>3, <1>4, AllSubsets
<1>6. S \in G
    BY <1>5
<1>7. QED
    BY <1>1, <1>2, <1>6 DEF G, Between

\* One more request at second c.
LEMMA BetweenPass ==
    ASSUME NEW f \in [Seconds -> Nat], NEW c \in Seconds, NEW g, g = [f EXCEPT ![c] = @ + 1],
           NEW i \in Int, NEW j \in Int
    PROVE  /\ g \in [Seconds -> Nat]
           /\ Between(g, i, j) = IF i <= c /\ c <= j THEN Between(f, i, j) + 1 ELSE Between(f, i, j)
<1>1. g \in [Seconds -> Nat] /\ g[c] = f[c] + 1 /\ \A x \in Seconds : x # c => g[x] = f[x]
    OBVIOUS
<1>2. CASE i <= c /\ c <= j
  <2> PICK S : S = {t \in Seconds : i <= t /\ t <= j}
    OBVIOUS
  <2>1. S \in SUBSET Seconds /\ IsFiniteSet(S) /\ c \in S
    BY <1>2, SecondsFinite
  <2>2. \A x \in S : f[x] \in Nat /\ g[x] \in Nat /\ (x # c => g[x] = f[x])
    BY <1>1, <2>1
  <2>3. SumFunctionOnSet(g, S) = SumFunctionOnSet(f, S) - f[c] + g[c]
    BY ONLY <2>1, <2>2, SumChange
  <2>4. Between(f, i, j) \in Nat
    BY BetweenNat
  <2>5. Between(g, i, j) = Between(f, i, j) - f[c] + g[c]
    BY <2>3 DEF Between
  <2>6. QED
    BY <1>1, <1>2, <2>4, <2>5
<1>3. CASE ~(i <= c /\ c <= j)
  <2>1. \A t \in Seconds : i <= t /\ t <= j => g[t] = f[t]
    BY <1>1, <1>3 DEF Seconds
  <2>2. Between(g, i, j) = Between(f, i, j)
    BY ONLY <2>1, i \in Int, j \in Int, BetweenSame
  <2>3. QED
    BY <1>1, <1>3, <2>2
<1>4. QED
    BY <1>2, <1>3

-----------------------------------------------------------------------------
(* What the steps keep.                                                    *)

\* A window that counts bounds every stretch that reaches into it.
LEMMA WindowBounds ==
    ASSUME NEW f \in [Seconds -> Nat], NEW w, WindowCounts(w, f), gateClock \in Seconds,
           NEW t \in Seconds, t + window_secs - 1 >= w.start
    PROVE  Between(f, t, t + window_secs - 1) <= 2 * max_requests
<1> PICK s, n, m, W : s = w.start /\ n = w.count /\ m = max_requests /\ W = window_secs
    OBVIOUS
<1>1. s \in Int /\ n \in Nat /\ m \in Nat /\ W \in Nat \ {0} /\ n <= m /\ s <= MaxClock /\ t \in Int
      /\ MaxClock \in Nat
    BY GateAssumption DEF WindowCounts, Seconds
<1>2. Between(f, s, MaxClock) = n /\ Between(f, s - W + 1, s - 1) <= m
    BY DEF WindowCounts
<1>3. Between(f, s - W + 1, MaxClock) = Between(f, s - W + 1, s - 1) + Between(f, s, MaxClock)
  <2>1. s - W + 1 \in Int /\ s - W + 1 <= s /\ s <= MaxClock + 1
    BY <1>1
  <2>2. QED
    BY <1>1, <2>1, BetweenCut
<1>4. Between(f, t, t + W - 1) <= Between(f, s - W + 1, MaxClock)
  <2>1. PICK j \in Int : j = t + W - 1
    BY <1>1
  <2>2. Between(f, t, j) = Between(f, t, MaxClock) \/ j <= MaxClock
    <3>1. CASE j <= MaxClock
      BY <3>1
    <3>2. CASE j > MaxClock
      <4>1. {x \in Seconds : t <= x /\ x <= j} = {x \in Seconds : t <= x /\ x <= MaxClock}
        BY <1>1, <2>1, <3>2 DEF Seconds
      <4>2. QED
        BY Zenon, <4>1 DEF Between
    <3>3. QED
      BY <1>1, <2>1, <3>1, <3>2
  <2>3. s - W + 1 \in Int /\ s - W + 1 <= t
    BY <1>1
  <2>4. Between(f, t, MaxClock) <= Between(f, s - W + 1, MaxClock)
    BY <1>1, <2>3, BetweenMore
  <2>5. j <= MaxClock => Between(f, t, j) <= Between(f, s - W + 1, MaxClock)
    BY <1>1, <2>1, <2>3, BetweenMore
  <2>6. QED
    BY <2>1, <2>2, <2>4, <2>5
<1>5. /\ Between(f, s - W + 1, s - 1) \in Nat /\ Between(f, t, t + W - 1) \in Nat
      /\ Between(f, s - W + 1, MaxClock) \in Nat
  <2>1. s - W + 1 \in Int /\ s - 1 \in Int /\ t + W - 1 \in Int
    BY <1>1
  <2>2. QED
    BY <1>1, <2>1, BetweenNat
<1>6. QED
    BY <1>1, <1>2, <1>3, <1>4, <1>5

\* The window that a request of a falls into counts, with none yet if it is new.
LEMMA WindowOpens ==
    ASSUME GateInv, NEW a \in Addresses
    PROVE  /\ WindowCounts(Window(a), passed[a])
           /\ Window(a).start > gateClock - window_secs
           /\ Window(a) \in [count : Nat, start : Int]
<1> PICK f, c, W, m, w : /\ f = passed[a] /\ c = gateClock /\ W = window_secs
                         /\ m = max_requests /\ w = windows[a]
    OBVIOUS
<1>1. f \in [Seconds -> Nat] /\ c \in Seconds /\ WindowSound(w, f) /\ w \in [count : Nat, start : Int]
      /\ \A t \in Seconds : t > c => f[t] = 0
    BY DEF GateInv, GateTypeOK, Windows, NoneAhead
<1>2. c \in Int /\ c >= 0 /\ c <= MaxClock /\ MaxClock \in Nat /\ W \in Nat \ {0} /\ m \in Nat \ {0}
    BY <1>1, GateAssumption DEF Seconds
<1>3. CASE w = NoWindow \/ c - w.start >= W
  <2>1. PICK v : v = [count |-> 0, start |-> c]
    OBVIOUS
  <2>2. Window(a) = v /\ v.start = c /\ v.count = 0 /\ v \in [count : Nat, start : Int]
    BY <1>2, <1>3, <2>1 DEF Window
  <2>3. /\ Between(f, c, MaxClock) = 0
        /\ Between(f, c - W + 1, c - 1) <= m
    <3>1. CASE w = NoWindow
      <4>1. \A t \in Seconds : t > c - W => f[t] = 0
        BY <1>1, <3>1 DEF WindowSound
      <4>2. \A t \in Seconds : c <= t /\ t <= MaxClock => f[t] = 0
        BY <1>2, <4>1 DEF Seconds
      <4>3. \A t \in Seconds : c - W + 1 <= t /\ t <= c - 1 => f[t] = 0
        BY <1>2, <4>1 DEF Seconds
      <4>4. c - W + 1 \in Int /\ c - 1 \in Int
        BY <1>2
      <4>5. Between(f, c, MaxClock) = 0 /\ Between(f, c - W + 1, c - 1) = 0
        BY <1>1, <1>2, <4>2, <4>3, <4>4, BetweenNone
      <4>6. QED
        BY <1>2, <4>5
    <3>2. CASE w # NoWindow
      <4>1. WindowCounts(w, f) /\ c - w.start >= W
        BY <1>1, <1>3, <3>2 DEF WindowSound
      <4>2. PICK s : s = w.start
        OBVIOUS
      <4>3. s \in Int /\ w.count \in Nat /\ w.count <= m /\ Between(f, s, MaxClock) = w.count
            /\ \A t \in Seconds : t >= s + W => f[t] = 0
        BY <1>2, <4>1, <4>2 DEF WindowCounts
      <4>4. \A t \in Seconds : c <= t /\ t <= MaxClock => f[t] = 0
        BY <1>2, <4>1, <4>2, <4>3 DEF Seconds
      <4>5. Between(f, c, MaxClock) = 0
        BY <1>1, <1>2, <4>4, BetweenNone
      <4>6. c - W + 1 \in Int /\ c - 1 \in Int /\ s <= c - W + 1 /\ c - 1 <= MaxClock
        BY <1>2, <4>1, <4>2, <4>3
      <4>7. Between(f, c - W + 1, c - 1) <= Between(f, s, MaxClock)
        BY <1>1, <1>2, <4>3, <4>6, BetweenMore
      <4>8. Between(f, c - W + 1, c - 1) \in Nat
        BY <1>1, <4>6, BetweenNat
      <4>9. QED
        BY <1>2, <4>3, <4>5, <4>7, <4>8
    <3>3. QED
      BY <3>1, <3>2
  <2>4. \A t \in Seconds : t >= c + W => f[t] = 0
    BY <1>1, <1>2 DEF Seconds
  <2>5. WindowCounts(v, f)
    BY <1>2, <2>2, <2>3, <2>4 DEF WindowCounts
  <2>6. QED
    BY <1>2, <2>2, <2>5
<1>4. CASE ~(w = NoWindow \/ c - w.start >= W)
  <2>1. Window(a) = w
    BY <1>4 DEF Window
  <2>2. WindowCounts(w, f)
    BY <1>1, <1>4 DEF WindowSound
  <2>3. w.start \in Int
    BY <1>1
  <2>4. QED
    BY <1>1, <1>2, <1>4, <2>1, <2>2, <2>3
<1>5. QED
    BY <1>3, <1>4

\* A request that is let through.
LEMMA PassSound ==
    ASSUME GateInv, NEW a \in Addresses, NEW w, w = Window(a), w.count < max_requests,
           NEW v, v = [w EXCEPT !.count = @ + 1],
           NEW g, g = [passed[a] EXCEPT ![gateClock] = @ + 1]
    PROVE  /\ g \in [Seconds -> Nat] /\ v \in [count : Nat, start : Int]
           /\ WindowSound(v, g) /\ BurstOK(g)
           /\ \A t \in Seconds : t > gateClock => g[t] = 0
           /\ \A i, j \in Int : Between(g, i, j) >= Between(passed[a], i, j)
<1> PICK f, c, W, m, s : /\ f = passed[a] /\ c = gateClock /\ W = window_secs
                         /\ m = max_requests /\ s = w.start
    OBVIOUS
<1>1. f \in [Seconds -> Nat] /\ c \in Seconds /\ BurstOK(f)
      /\ \A t \in Seconds : t > c => f[t] = 0
    BY DEF GateInv, GateTypeOK, NoneAhead, Bursts
<1>2. c \in Int /\ c >= 0 /\ c <= MaxClock /\ MaxClock \in Nat /\ W \in Nat \ {0} /\ m \in Nat \ {0}
    BY <1>1, GateAssumption DEF Seconds
<1>3. WindowCounts(w, f) /\ s > c - W /\ w \in [count : Nat, start : Int]
    BY WindowOpens
<1>4. g \in [Seconds -> Nat] /\ g[c] = f[c] + 1 /\ \A x \in Seconds : x # c => g[x] = f[x]
    BY <1>1
<1>5. ASSUME NEW i \in Int, NEW j \in Int
      PROVE  Between(g, i, j) = IF i <= c /\ c <= j THEN Between(f, i, j) + 1 ELSE Between(f, i, j)
    BY <1>1, BetweenPass
<1>6. v.start = s /\ v.count = w.count + 1 /\ v \in [count : Nat, start : Int]
    BY <1>3
<1>7. s \in Int /\ s >= 0 /\ s <= c /\ w.count \in Nat /\ Between(f, s, MaxClock) = w.count
      /\ Between(f, s - W + 1, s - 1) <= m /\ \A t \in Seconds : t >= s + W => f[t] = 0
    BY <1>2, <1>3 DEF WindowCounts
<1>8. WindowCounts(v, g)
  <2>1. Between(g, s, MaxClock) = w.count + 1
    BY <1>2, <1>5, <1>7
  <2>2. s - W + 1 \in Int /\ s - 1 \in Int /\ ~(c <= s - 1)
    BY <1>2, <1>7
  <2>3. Between(g, s - W + 1, s - 1) <= m
    BY <1>5, <1>7, <2>2
  <2>4. \A t \in Seconds : t >= s + W => g[t] = 0
    BY <1>2, <1>3, <1>4, <1>7 DEF Seconds
  <2>5. v.start \in 0..gateClock /\ v.count \in 0..max_requests
    BY <1>2, <1>6, <1>7
  <2>6. QED
    BY <1>6, <2>1, <2>3, <2>4, <2>5 DEF WindowCounts
<1>9. WindowSound(v, g)
  <2>1. v # NoWindow
    BY <1>6, <1>7 DEF NoWindow
  <2>2. QED
    BY <1>8, <2>1 DEF WindowSound
<1>10. BurstOK(g)
  <2>1. ASSUME NEW t \in Seconds PROVE Between(g, t, t + W - 1) <= 2 * m
    <3>1. t \in Int /\ t + W - 1 \in Int
      BY <1>2 DEF Seconds
    <3>2. CASE t + W - 1 >= s
      BY <1>1, <1>4, <1>6, <1>8, <3>2, WindowBounds
    <3>3. CASE ~(t + W - 1 >= s)
      <4>1. Between(g, t, t + W - 1) = Between(f, t, t + W - 1)
        BY <1>2, <1>5, <1>7, <3>1, <3>3
      <4>2. QED
        BY <1>1, <4>1 DEF BurstOK
    <3>4. QED
      BY <3>2, <3>3
  <2>2. QED
    BY <2>1 DEF BurstOK
<1>11. \A t \in Seconds : t > c => g[t] = 0
    BY <1>1, <1>2, <1>4 DEF Seconds
<1>12. ASSUME NEW i \in Int, NEW j \in Int PROVE Between(g, i, j) >= Between(f, i, j)
  <2>1. Between(f, i, j) \in Nat
    BY <1>1, BetweenNat
  <2>2. QED
    BY <1>5, <2>1
<1>13. QED
    BY <1>4, <1>6, <1>9, <1>10, <1>11, <1>12

\* A request that is refused had as many before it as the limit.
LEMMA RefusalHasCause ==
    ASSUME GateInv, NEW a \in Addresses, Window(a).count >= max_requests
    PROVE  Between(passed[a], gateClock - window_secs + 1, gateClock) >= max_requests
<1> PICK f, c, W, m, w, s : /\ f = passed[a] /\ c = gateClock /\ W = window_secs
                            /\ m = max_requests /\ w = Window(a) /\ s = w.start
    OBVIOUS
<1>1. f \in [Seconds -> Nat] /\ c \in Seconds /\ \A t \in Seconds : t > c => f[t] = 0
    BY DEF GateInv, GateTypeOK, NoneAhead
<1>2. c \in Int /\ c >= 0 /\ c <= MaxClock /\ MaxClock \in Nat /\ W \in Nat \ {0} /\ m \in Nat \ {0}
    BY <1>1, GateAssumption DEF Seconds
<1>3. WindowCounts(w, f) /\ s > c - W /\ w \in [count : Nat, start : Int]
    BY WindowOpens
<1>4. s \in Int /\ s <= c /\ w.count \in Nat /\ Between(f, s, MaxClock) = w.count
    BY <1>2, <1>3 DEF WindowCounts
<1>5. Between(f, s, MaxClock) = Between(f, s, c) + Between(f, c + 1, MaxClock)
  <2>1. c + 1 \in Int /\ s <= c + 1 /\ c + 1 <= MaxClock + 1 /\ (c + 1) - 1 = c
    BY <1>2, <1>4
  <2>2. Between(f, s, MaxClock) = Between(f, s, (c + 1) - 1) + Between(f, c + 1, MaxClock)
    BY <1>1, <1>2, <1>4, <2>1, BetweenCut
  <2>3. QED
    BY <2>1, <2>2
<1>6. Between(f, c + 1, MaxClock) = 0
  <2>1. c + 1 \in Int /\ \A t \in Seconds : c + 1 <= t /\ t <= MaxClock => f[t] = 0
    BY <1>1, <1>2 DEF Seconds
  <2>2. QED
    BY <1>1, <1>2, <2>1, BetweenNone
<1>7. Between(f, s, c) <= Between(f, c - W + 1, c)
  <2>1. c - W + 1 \in Int /\ c - W + 1 <= s
    BY <1>2, <1>3, <1>4
  <2>2. QED
    BY <1>1, <1>2, <1>4, <2>1, BetweenMore
<1>8. Between(f, s, c) \in Nat /\ Between(f, c - W + 1, c) \in Nat
  <2>1. c - W + 1 \in Int
    BY <1>2
  <2>2. QED
    BY <1>1, <1>2, <1>4, <2>1, BetweenNat
<1>9. w.count >= m
    OBVIOUS
<1>10. QED
    BY <1>2, <1>4, <1>5, <1>6, <1>7, <1>8, <1>9

LEMMA GateStart == GateInit => GateInv
<1> SUFFICES ASSUME GateInit PROVE GateInv
    OBVIOUS
<1>1. gateClock = 0 /\ MaxClock \in Nat /\ window_secs \in Nat \ {0} /\ max_requests \in Nat \ {0}
    BY GateAssumption DEF GateInit
<1>2. GateTypeOK
    BY <1>1 DEF GateInit, GateTypeOK, Seconds, NoWindow
<1>3. \A a \in Addresses, t \in Seconds : passed[a][t] = 0
    BY DEF GateInit, Seconds
<1>4. Windows
    BY <1>3 DEF GateInit, Windows, WindowSound
<1>5. Bursts
  <2>1. ASSUME NEW a \in Addresses, NEW t \in Seconds
        PROVE  Between(passed[a], t, t + window_secs - 1) <= 2 * max_requests
    <3>1. t \in Int /\ t + window_secs - 1 \in Int /\ passed[a] \in [Seconds -> Nat]
      BY <1>1, <1>2 DEF GateTypeOK, Seconds
    <3>2. Between(passed[a], t, t + window_secs - 1) = 0
      BY <1>3, <3>1, BetweenNone
    <3>3. QED
      BY <1>1, <3>2
  <2>2. QED
    BY <2>1 DEF Bursts, BurstOK
<1>6. NoneAhead
    BY <1>3 DEF NoneAhead
<1>7. RefusalBacked /\ TunnelNotLocal
    BY DEF GateInit, RefusalBacked, TunnelNotLocal
<1>8. QED
    BY <1>2, <1>4, <1>5, <1>6, <1>7 DEF GateInv

LEMMA CleanupStep ==
    ASSUME GateInv, spawn_cleanup
    PROVE  GateInv'
<1>1. GateTypeOK'
    BY DEF GateInv, GateTypeOK, spawn_cleanup, NoWindow
<1>2. Windows'
  <2>1. ASSUME NEW a \in Addresses PROVE WindowSound(windows[a], passed[a])'
    <3>1. WindowSound(windows[a], passed[a]) /\ gateClock' = gateClock /\ passed' = passed
      BY DEF GateInv, Windows, spawn_cleanup
    <3>2. CASE windows[a] # NoWindow /\ Stale(windows[a])
      <4>1. windows'[a] = NoWindow
        BY <3>2 DEF spawn_cleanup
      <4>2. PICK w : w = windows[a]
        OBVIOUS
      <4>3. gateClock \in Int /\ window_secs \in Nat \ {0} /\ w.start \in Int
        BY <4>2, GateAssumption DEF GateInv, GateTypeOK, Seconds
      <4>4. gateClock - w.start >= window_secs * 2 /\ WindowCounts(w, passed[a])
        BY <3>1, <3>2, <4>2 DEF Stale, WindowSound
      <4>5. \A t \in Seconds : t > gateClock - window_secs => passed[a][t] = 0
        BY <4>3, <4>4 DEF WindowCounts, Seconds
      <4>6. QED
        BY <3>1, <4>1, <4>5 DEF WindowSound
    <3>3. CASE ~(windows[a] # NoWindow /\ Stale(windows[a]))
      <4>1. windows'[a] = windows[a]
        BY <3>3 DEF spawn_cleanup
      <4>2. QED
        BY <3>1, <4>1 DEF WindowSound, WindowCounts
    <3>4. QED
      BY <3>2, <3>3
  <2>2. QED
    BY <2>1 DEF Windows
<1>3. NoneAhead' /\ Bursts' /\ RefusalBacked' /\ TunnelNotLocal'
    BY DEF GateInv, NoneAhead, Bursts, BurstOK, RefusalBacked, TunnelNotLocal, spawn_cleanup
<1>4. QED
    BY <1>1, <1>2, <1>3 DEF GateInv

LEMMA GateTickStep ==
    ASSUME GateInv, GateTick
    PROVE  GateInv'
<1>1. gateClock \in Int /\ gateClock >= 0 /\ gateClock' = gateClock + 1 /\ gateClock' \in Seconds
      /\ MaxClock \in Nat /\ window_secs \in Nat \ {0}
    BY GateAssumption DEF GateInv, GateTypeOK, GateTick, Seconds
<1>2. windows' = windows /\ passed' = passed /\ verdict' = verdict
    BY DEF GateTick
<1>3. GateTypeOK'
    BY <1>1, <1>2 DEF GateInv, GateTypeOK
<1>4. Windows'
  <2>1. ASSUME NEW a \in Addresses PROVE WindowSound(windows[a], passed[a])'
    <3>1. PICK w, f : w = windows[a] /\ f = passed[a]
      OBVIOUS
    <3>2. WindowSound(w, f)
      BY <3>1 DEF GateInv, Windows
    <3>3. CASE w = NoWindow
      <4>1. \A t \in Seconds : t > gateClock + 1 - window_secs => f[t] = 0
        BY <1>1, <3>2, <3>3 DEF WindowSound, Seconds
      <4>2. QED
        BY <1>1, <1>2, <3>1, <3>3, <4>1 DEF WindowSound
    <3>4. CASE w # NoWindow
      <4>1. WindowCounts(w, f)
        BY <3>2, <3>4 DEF WindowSound
      <4>2. w.start \in 0..(gateClock + 1)
        BY <1>1, <4>1 DEF WindowCounts
      <4>3. QED
        BY <1>1, <1>2, <3>1, <3>4, <4>1, <4>2 DEF WindowSound, WindowCounts
    <3>5. QED
      BY <3>3, <3>4
  <2>2. QED
    BY <2>1 DEF Windows
<1>5. NoneAhead'
    BY <1>1, <1>2 DEF GateInv, NoneAhead, Seconds
<1>6. Bursts' /\ RefusalBacked' /\ TunnelNotLocal'
    BY <1>2 DEF GateInv, Bursts, BurstOK, RefusalBacked, TunnelNotLocal
<1>7. QED
    BY <1>3, <1>4, <1>5, <1>6 DEF GateInv

\* What a request is answered when it is not refused.
LEMMA ArriveTunnel ==
    ASSUME NEW a, NEW r, verdict' = [request |-> r, address |-> a, at |-> gateClock,
                                     outcome |-> IF enforce_api_access(r) THEN "run" ELSE "forbidden"]
    PROVE  RefusalBacked' /\ TunnelNotLocal'
<1>1. verdict'.request = r /\ verdict'.outcome = IF enforce_api_access(r) THEN "run" ELSE "forbidden"
    OBVIOUS
<1>2. verdict'.outcome # "too many"
    BY <1>1
<1>3. (verdict'.outcome = "run" /\ ~r.public /\ ~r.token) => ~r.forwarded /\ r.localHost
    BY <1>1 DEF enforce_api_access, is_direct_local_request
<1>4. QED
    BY <1>1, <1>2, <1>3 DEF RefusalBacked, TunnelNotLocal

LEMMA ArriveStep ==
    ASSUME GateInv, NEW a \in Addresses, NEW r \in Requests, Arrive(a, r)
    PROVE  GateInv'
<1>1. gateClock' = gateClock
    BY DEF Arrive
<1>2. CASE r.options \/ a \in PrivateAddresses
  <2>1. /\ windows' = windows /\ passed' = passed
        /\ verdict' = [request |-> r, address |-> a, at |-> gateClock,
                       outcome |-> IF enforce_api_access(r) THEN "run" ELSE "forbidden"]
    BY <1>2 DEF Arrive
  <2>2. RefusalBacked' /\ TunnelNotLocal'
    BY <2>1, ArriveTunnel
  <2>3. (GateTypeOK /\ Windows /\ NoneAhead /\ Bursts)'
    BY <1>1, <2>1 DEF GateInv, GateTypeOK, Windows, WindowSound, WindowCounts, NoneAhead, Bursts, BurstOK
  <2>4. QED
    BY <2>2, <2>3 DEF GateInv
<1>3. CASE ~(r.options \/ a \in PrivateAddresses) /\ Window(a).count >= max_requests
  <2>1. /\ windows' = [windows EXCEPT ![a] = Window(a)] /\ passed' = passed
        /\ verdict' = [request |-> r, address |-> a, at |-> gateClock, outcome |-> "too many"]
    BY <1>3 DEF Arrive
  <2>2. WindowCounts(Window(a), passed[a]) /\ Window(a) \in [count : Nat, start : Int]
    BY WindowOpens
  <2>3. GateTypeOK'
    BY <1>1, <2>1, <2>2 DEF GateInv, GateTypeOK
  <2>4. Windows'
    <3>1. ASSUME NEW b \in Addresses PROVE WindowSound(windows[b], passed[b])'
      <4>1. WindowSound(windows'[b], passed[b])
        <5>1. CASE b = a
          <6>1. windows'[b] = Window(a)
            BY <2>1, <5>1 DEF GateInv, GateTypeOK
          <6>2. Window(a).start \in 0..gateClock
            BY <2>2 DEF WindowCounts
          <6>3. Window(a) # NoWindow
            BY <6>2 DEF NoWindow, GateInv, GateTypeOK, Seconds
          <6>4. QED
            BY <2>2, <5>1, <6>1, <6>3 DEF WindowSound
        <5>2. CASE b # a
          <6>1. windows'[b] = windows[b]
            BY <2>1, <5>2 DEF GateInv, GateTypeOK
          <6>2. QED
            BY <6>1 DEF GateInv, Windows
        <5>3. QED
          BY <5>1, <5>2
      <4>2. QED
        BY <1>1, <2>1, <4>1 DEF WindowSound, WindowCounts
    <3>2. QED
      BY <3>1 DEF Windows
  <2>5. NoneAhead' /\ Bursts'
    BY <1>1, <2>1 DEF GateInv, NoneAhead, Bursts, BurstOK
  <2>6. RefusalBacked'
    <3>1. Between(passed[a], gateClock - window_secs + 1, gateClock) >= max_requests
      BY <1>3, RefusalHasCause
    <3>2. gateClock \in Seconds
      BY DEF GateInv, GateTypeOK
    <3>3. QED
      BY <2>1, <3>1, <3>2 DEF RefusalBacked
  <2>7. TunnelNotLocal'
    BY <2>1 DEF TunnelNotLocal
  <2>8. QED
    BY <2>3, <2>4, <2>5, <2>6, <2>7 DEF GateInv
<1>4. CASE ~(r.options \/ a \in PrivateAddresses) /\ ~(Window(a).count >= max_requests)
  <2> PICK w, v, g : /\ w = Window(a)
                     /\ v = [w EXCEPT !.count = @ + 1]
                     /\ g = [passed[a] EXCEPT ![gateClock] = @ + 1]
    OBVIOUS
  <2>1. /\ windows' = [windows EXCEPT ![a] = v]
        /\ passed' = [passed EXCEPT ![a] = g]
        /\ verdict' = [request |-> r, address |-> a, at |-> gateClock,
                       outcome |-> IF enforce_api_access(r) THEN "run" ELSE "forbidden"]
    BY <1>4 DEF Arrive
  <2>2. w.count < max_requests
    <3>1. w.count \in Nat
      BY WindowOpens
    <3>2. QED
      BY <1>4, <3>1, GateAssumption
  <2>3. /\ g \in [Seconds -> Nat] /\ v \in [count : Nat, start : Int]
        /\ WindowSound(v, g) /\ BurstOK(g)
        /\ \A t \in Seconds : t > gateClock => g[t] = 0
    BY <2>2, PassSound
  <2>4. GateTypeOK
    BY DEF GateInv
  <2>5. GateTypeOK'
    BY <1>1, <2>1, <2>3, <2>4 DEF GateTypeOK
  <2>6. ASSUME NEW b \in Addresses
        PROVE  IF b = a THEN windows'[b] = v /\ passed'[b] = g
                        ELSE windows'[b] = windows[b] /\ passed'[b] = passed[b]
    BY <2>1, <2>4 DEF GateTypeOK
  <2>7. Windows'
    <3>1. ASSUME NEW b \in Addresses PROVE WindowSound(windows'[b], passed'[b])
      BY <2>3, <2>6 DEF GateInv, Windows
    <3>2. QED
      BY <1>1, <3>1 DEF Windows, WindowSound, WindowCounts
  <2>8. Bursts'
    BY <2>3, <2>6 DEF GateInv, Bursts, BurstOK
  <2>9. NoneAhead'
    BY <1>1, <2>3, <2>6 DEF GateInv, NoneAhead
  <2>10. RefusalBacked' /\ TunnelNotLocal'
    BY <2>1, ArriveTunnel
  <2>11. QED
    BY <2>5, <2>7, <2>8, <2>9, <2>10 DEF GateInv
<1>5. QED
    BY <1>2, <1>3, <1>4

\* The gate's invariant holds of every behaviour.
THEOREM GateInvariance == GateSpec => []GateInv
<1>1. GateInv /\ [GateNext]_gateVars => GateInv'
  <2> SUFFICES ASSUME GateInv, [GateNext]_gateVars PROVE GateInv'
    OBVIOUS
  <2>1. CASE UNCHANGED gateVars
    BY <2>1 DEF gateVars, GateInv, GateTypeOK, Windows, WindowSound, WindowCounts, NoneAhead,
                Bursts, BurstOK, RefusalBacked, TunnelNotLocal
  <2>2. CASE GateNext
    BY <2>2, ArriveStep, CleanupStep, GateTickStep DEF GateNext
  <2>3. QED
    BY <2>1, <2>2
<1>2. QED
    BY <1>1, GateStart, PTL DEF GateSpec

\* No stretch of window_secs seconds lets more than twice the limit through, nobody is
\* refused without as many requests of its own (rate_limit.rs), and a tunnelled request
\* does not pass for a local one (api.rs), for any limit, window and set of addresses.
THEOREM GateAlwaysSound == GateSpec => []GateSound
<1>1. GateInv => GateSound
  <2> SUFFICES ASSUME GateInv PROVE GateSound
    OBVIOUS
  <2>1. BurstBounded
    BY DEF GateInv, Bursts, BurstOK, BurstBounded, PassedBetween, Between, Seconds
  <2>2. RefusedForCause
    BY DEF GateInv, RefusalBacked, RefusedForCause, PassedBetween, Between, Seconds
  <2>3. QED
    BY <2>1, <2>2 DEF GateInv, GateSound
<1>2. QED
    BY <1>1, GateInvariance, PTL

=============================================================================
