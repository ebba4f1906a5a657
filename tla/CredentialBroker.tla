--------------------------- MODULE CredentialBroker --------------------------
(***************************************************************************)
(* The credential broker of capabilities/credentials.py.  Clients ask it   *)
(* for short leases; the provider is called outside the lock, so a place   *)
(* under the cap is reserved first and given back in a finally block.  A   *)
(* client has at most one lease, so a lease is named by its client.        *)
(***************************************************************************)
EXTENDS Naturals, FiniteSets

CONSTANTS Clients,
          MaxLeases,     \* MAX_ACTIVE_CREDENTIAL_LEASES
          MaxTtl,        \* the broker's max_ttl, in clock ticks
          Scopes,        \* scopes a provider may put in a lease
          MaxTime        \* bound of the clock

BrokerAssumption ==
    /\ IsFiniteSet(Clients)
    /\ MaxLeases \in Nat /\ MaxTtl \in Nat \ {0} /\ MaxTime \in Nat

VARIABLES phase,     \* where each client is inside issue_for
          wanted,    \* the scopes its definition declares
          lease,     \* the lease each client refers to
          active,    \* _active_leases, a WeakSet: it forgets dropped leases
          pending,   \* _pending_issues
          now        \* the broker's clock

brokerVars == <<phase, wanted, lease, active, pending, now>>

Phase == {"out", "issuing", "answered", "verified", "registered", "releasing", "held"}
InFlight == {c \in Clients : phase[c] \in {"issuing", "answered", "verified",
                                           "registered", "releasing"}}

\* What a provider may return: a lease for this subject and audience or for
\* another, with any scopes and any expiry, possibly already past.
Lease == [bound : BOOLEAN, scopes : SUBSET Scopes, expires : 0..(MaxTime + MaxTtl + 1)]
NoLease == [bound |-> FALSE, scopes |-> {}, expires |-> 0]

BrokerInit ==
    /\ phase = [c \in Clients |-> "out"]
    /\ wanted = [c \in Clients |-> {}]
    /\ lease = [c \in Clients |-> NoLease]
    /\ active = {} /\ pending = 0 /\ now = 0

Move(c, from, to) == phase[c] = from /\ phase' = [phase EXCEPT ![c] = to]

\* Mutant of Full: reservations are not counted.
FullIgnoringPending == Cardinality(active) >= MaxLeases

Full == Cardinality(active) + pending >= MaxLeases

\* issue_for up to the unlock: a place is reserved, or the request refused.
Reserve(c, scopes) ==
    /\ ~Full
    /\ Move(c, "out", "issuing")
    /\ pending' = pending + 1
    /\ wanted' = [wanted EXCEPT ![c] = scopes]
    /\ UNCHANGED <<lease, active, now>>

Refuse(c) == phase[c] = "out" /\ Full /\ UNCHANGED brokerVars

\* The provider runs outside the lock; it answers or raises.
ProviderAnswers(c) ==
    /\ Move(c, "issuing", "answered")
    /\ \E l \in Lease : lease' = [lease EXCEPT ![c] = l]
    /\ UNCHANGED <<wanted, active, pending, now>>

ProviderFails(c) ==
    /\ Move(c, "issuing", "releasing")
    /\ UNCHANGED <<wanted, lease, active, pending, now>>

\* _verify_lease: bound to the request, no extra scope, alive, within max_ttl.
verify_lease(l, scopes, t) ==
    /\ l.bound
    /\ l.scopes \subseteq scopes
    /\ l.expires > t
    /\ l.expires <= t + MaxTtl

Verify(c) ==
    /\ IF verify_lease(lease[c], wanted[c], now)
       THEN Move(c, "answered", "verified") /\ UNCHANGED lease
       ELSE Move(c, "answered", "releasing") /\ lease' = [lease EXCEPT ![c] = NoLease]
    /\ UNCHANGED <<wanted, active, pending, now>>

Register(c) ==
    /\ Move(c, "verified", "registered")
    /\ active' = active \union {c}
    /\ UNCHANGED <<wanted, lease, pending, now>>

\* The finally block: the reservation is given back on every path.
GiveBack(c) ==
    /\ \/ Move(c, "registered", "held")
       \/ Move(c, "releasing", "out")
    /\ pending' = pending - 1
    /\ UNCHANGED <<wanted, lease, active, now>>

\* The caller drops its last reference and the WeakSet forgets the lease.
Drop(c) ==
    /\ Move(c, "held", "out")
    /\ lease' = [lease EXCEPT ![c] = NoLease]
    /\ active' = active \ {c}
    /\ UNCHANGED <<wanted, pending, now>>

BrokerTick == now < MaxTime /\ now' = now + 1 /\ UNCHANGED <<phase, wanted, lease, active, pending>>

BrokerNext ==
    \/ \E c \in Clients :
        \/ \E s \in SUBSET Scopes : Reserve(c, s)
        \/ Refuse(c) \/ ProviderAnswers(c) \/ ProviderFails(c) \/ Verify(c)
        \/ Register(c) \/ GiveBack(c) \/ Drop(c)
    \/ BrokerTick

BrokerSpec == BrokerInit /\ [][BrokerNext]_brokerVars
------------------------------------------------------------------------------
BrokerTypeOK ==
    /\ phase \in [Clients -> Phase]
    /\ wanted \in [Clients -> SUBSET Scopes]
    /\ lease \in [Clients -> Lease]
    /\ active \subseteq Clients
    /\ pending \in Nat
    /\ now \in 0..MaxTime

Holders == {c \in Clients : phase[c] \in {"answered", "verified", "registered", "held"}}

\* The leases that exist, registered or just issued outside the lock, never
\* exceed the cap that issue_for enforces under its lock.
LeaseCap == Cardinality(Holders) <= MaxLeases

\* The pending counter is exactly the number of clients inside issue_for: a
\* provider that raises or whose lease is refused does not eat a place.
PendingIsInFlight == pending = Cardinality(InFlight)

\* A lease in a caller's hands is for its request and no more, and never
\* outlives the ceiling counted from any later moment.
HeldLeaseIsBound ==
    \A c \in Clients : phase[c] \in {"verified", "registered", "held"} =>
        /\ lease[c].bound
        /\ lease[c].scopes \subseteq wanted[c]
        /\ lease[c].expires <= now + MaxTtl
==============================================================================
