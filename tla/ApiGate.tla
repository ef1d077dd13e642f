------------------------------- MODULE ApiGate -------------------------------
(***************************************************************************)
(* What every API request passes first: the rate limiter (rate_limit.rs),  *)
(* one counter and window per client address, and the access gate          *)
(* (api.rs), which admits public routes, direct local requests and holders *)
(* of the API token.                                                       *)
(*                                                                         *)
(* The check of one address is atomic (the map's entry is locked); the     *)
(* clean-up runs beside it.  Addresses are those the limiter reads: the    *)
(* proxy's header, when there is one, or else the peer's.                  *)
(***************************************************************************)
EXTENDS Integers, Functions

CONSTANTS
    Addresses,
    PrivateAddresses,   \* loopback and LAN addresses
    Requests,           \* [options, public, loopback, forwarded, localHost, token]
    max_requests,
    window_secs,
    MaxClock            \* bound: time

ASSUME GateAssumption ==
    /\ PrivateAddresses \subseteq Addresses
    /\ max_requests \in Nat \ {0}
    /\ window_secs \in Nat \ {0}
    /\ MaxClock \in Nat

VARIABLES
    windows,    \* entries: address -> [count, start]; start is -1 without an entry
    gateClock,  \* seconds
    passed,     \* history: passed[a][t]: requests of a let through at second t
    verdict     \* the last answer: [request, address, at, outcome]

gateVars == <<windows, gateClock, passed, verdict>>

NoWindow == [count |-> 0, start |-> -1]

GateInit ==
    /\ windows = [a \in Addresses |-> NoWindow]
    /\ gateClock = 0
    /\ passed = [a \in Addresses |-> [t \in 0..MaxClock |-> 0]]
    /\ verdict = [outcome |-> "none"]

-----------------------------------------------------------------------------
(* The limiter.                                                            *)

\* Mutant of Window: a window is never started anew.
WindowKept(a) ==
    IF windows[a] = NoWindow THEN [count |-> 0, start |-> gateClock] ELSE windows[a]

\* The window that a request of a falls into: a new one when there is none, or
\* when it has run out.
Window(a) ==
    IF windows[a] = NoWindow \/ gateClock - windows[a].start >= window_secs
    THEN [count |-> 0, start |-> gateClock]
    ELSE windows[a]

\* Mutant of Stale: the clean-up takes windows that are still open.
StaleAtOnce(w) == gateClock - w.start >= 1

\* The clean-up's retain keeps windows younger than twice their length.
Stale(w) == gateClock - w.start >= window_secs * 2

spawn_cleanup ==
    /\ windows' = [a \in Addresses |->
                     IF windows[a] # NoWindow /\ Stale(windows[a]) THEN NoWindow ELSE windows[a]]
    /\ UNCHANGED <<gateClock, passed, verdict>>

-----------------------------------------------------------------------------
(* The gate.                                                               *)

\* Mutant of is_direct_local_request: a loopback peer is enough.
LoopbackPeer(r) == r.loopback

is_direct_local_request(r) == r.loopback /\ ~r.forwarded /\ r.localHost

enforce_api_access(r) == r.public \/ is_direct_local_request(r) \/ r.token

\* One request, through both layers.
Arrive(a, r) ==
    LET w == Window(a)
        free == r.options \/ a \in PrivateAddresses
        Answer(outcome) == verdict' = [request |-> r, address |-> a, at |-> gateClock,
                                       outcome |-> outcome]
    IN  /\ IF free
           THEN UNCHANGED <<windows, passed>> /\ Answer(IF enforce_api_access(r) THEN "run" ELSE "forbidden")
           ELSE IF w.count >= max_requests
           THEN /\ windows' = [windows EXCEPT ![a] = w]
                /\ Answer("too many")
                /\ UNCHANGED passed
           ELSE /\ windows' = [windows EXCEPT ![a] = [w EXCEPT !.count = @ + 1]]
                /\ passed' = [passed EXCEPT ![a][gateClock] = @ + 1]
                /\ Answer(IF enforce_api_access(r) THEN "run" ELSE "forbidden")
        /\ UNCHANGED gateClock

GateTick ==
    /\ gateClock < MaxClock
    /\ gateClock' = gateClock + 1
    /\ UNCHANGED <<windows, passed, verdict>>

GateNext ==
    \/ \E a \in Addresses, r \in Requests : Arrive(a, r)
    \/ spawn_cleanup
    \/ GateTick

GateSpec == GateInit /\ [][GateNext]_gateVars

-----------------------------------------------------------------------------
(* Properties.                                                             *)

\* The requests of a that were let through in the seconds from..to.
PassedBetween(a, from, to) ==
    SumFunctionOnSet(passed[a], {t \in 0..MaxClock : from <= t /\ t <= to})

\* No stretch of window_secs seconds lets more than twice the limit through: the
\* end of one window and the start of the next.  The clean-up never makes a
\* client's window shorter.
BurstBounded ==
    \A a \in Addresses, t \in 0..MaxClock :
        PassedBetween(a, t, t + window_secs - 1) <= 2 * max_requests

\* A client is refused only after as many requests of its own as the limit, all
\* within the last window_secs seconds.
RefusedForCause ==
    verdict.outcome = "too many" =>
        PassedBetween(verdict.address, verdict.at - window_secs + 1, verdict.at)
            >= max_requests

\* A route that is not public runs only for a token, or for a request that came
\* straight from this host: one that a proxy or a tunnel passes on, which
\* arrives from a loopback address too, is not taken for local.
TunnelNotLocal ==
    (verdict.outcome = "run" /\ ~verdict.request.public /\ ~verdict.request.token)
        => ~verdict.request.forwarded /\ verdict.request.localHost

\* The gate lets through and refuses whom it should: bursts are bounded, nobody is
\* refused for the requests of others, and a tunnel is not a local caller.
GateSound ==
    /\ BurstBounded
    /\ RefusedForCause
    /\ TunnelNotLocal

=============================================================================
