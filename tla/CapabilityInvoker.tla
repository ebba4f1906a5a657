-------------------------- MODULE CapabilityInvoker --------------------------
(***************************************************************************)
(* The read path of the capability layer: the registry of                  *)
(* capabilities/registry.py (a catalogue, a directory of definitions that  *)
(* others edit, a cache) and CapabilityInvoker.invoke, composed with the   *)
(* credential broker.  One capability id is modelled; an invocation is the *)
(* sequence of its steps between which other clients, the provider and the *)
(* observed world may move.                                                *)
(***************************************************************************)
EXTENDS CredentialBroker

CONSTANTS Definitions,  \* contents its definition file may have
          World,        \* states a state reader may return
          Granted       \* scopes of the invokers

VARIABLES catFile,   \* capability_catalog.yaml on disk
          defFile,   \* the definition file on disk
          catalog,   \* CapabilityRegistry._catalog
          cache,     \* CapabilityRegistry._cache
          world,     \* what the state reader sees
          stage,     \* where each client is inside invoke
          def,       \* the definition its call works with
          seen       \* the state its preconditions were evaluated on

registryVars == <<catFile, defFile, catalog, cache>>
callVars == <<stage, def, seen>>
vars == <<brokerVars, registryVars, world, callVars>>

Nothing == [version |-> 0, mode |-> "none"]
NoDefinition == [version |-> 0, mode |-> "none", scopes |-> {}, executor |-> "none",
                 rules |-> FALSE, valid |-> FALSE]
Summary(d) == [version |-> d.version, mode |-> d.mode]

InvokerAssumption ==
    /\ BrokerAssumption
    /\ \A d \in Definitions : d.scopes \subseteq Scopes /\ d # NoDefinition

CatalogContent == {Summary(d) : d \in Definitions} \union {Nothing}

InvokerInit ==
    /\ BrokerInit
    /\ defFile \in Definitions /\ catFile = Summary(defFile)
    /\ catalog = catFile /\ cache = NoDefinition
    /\ world \in World
    /\ stage = [c \in Clients |-> "idle"]
    /\ def = [c \in Clients |-> NoDefinition]
    /\ seen = [c \in Clients |-> "none"]

\* Deployment writes the two files, in any order and at any time.
EditCatalog == catFile' \in CatalogContent /\ UNCHANGED <<defFile, catalog, cache>>
EditDefinition == defFile' \in Definitions /\ UNCHANGED <<catFile, catalog, cache>>

\* Mutant of Reload: the cache survives.
ReloadKeepingCache == catalog' = catFile /\ UNCHANGED <<catFile, defFile, cache>>

\* reload: the new catalogue replaces the old one and the cache is cleared; a
\* missing file empties both.
Reload ==
    /\ catalog' = catFile
    /\ cache' = NoDefinition
    /\ UNCHANGED <<catFile, defFile>>

\* reload with a malformed catalogue raises before it changes anything.
ReloadFails == UNCHANGED registryVars

\* _check_catalog_agreement compares the fields that decide how a call runs.
Agrees(summary, d) == summary = Summary(d)

\* get: the cache first, then the file, which must parse, be valid and agree
\* with the catalogue; only then is it cached.
Get ==
    IF cache # NoDefinition THEN cache
    ELSE IF catalog # Nothing /\ defFile.valid /\ Agrees(catalog, defFile) THEN defFile
    ELSE NoDefinition

Stage(c, to) == stage' = [stage EXCEPT ![c] = to]

\* evaluate: every rule must answer ALLOW on a readable state.
Allows(w) == w \in {"good", "better"}

\* invoke up to its first state reading.
Admitted(d, argumentsOK) ==
    /\ d # NoDefinition
    /\ d.mode = "read"
    /\ d.scopes \subseteq Granted
    /\ argumentsOK
    /\ d.rules => Allows(world)

Invoke(c) ==
    /\ stage[c] = "idle"
    /\ cache' = Get
    /\ \E argumentsOK \in BOOLEAN :
        IF Admitted(Get, argumentsOK)
        THEN /\ Stage(c, "evaluated")
             /\ def' = [def EXCEPT ![c] = Get]
             /\ seen' = [seen EXCEPT ![c] = world]
        ELSE Stage(c, "raised") /\ UNCHANGED <<def, seen>>
    /\ UNCHANGED <<brokerVars, world, catFile, defFile, catalog>>

\* assert_unchanged: still ALLOW, and on the very state seen before.
Unchanged(c) == def[c].rules => Allows(world) /\ world = seen[c]

\* The executor lookup, the recheck and the credential configuration.
Prepare(c) ==
    /\ stage[c] = "evaluated"
    /\ \E configured \in BOOLEAN :
        Stage(c, IF def[c].executor = "unknown" THEN "failed"
                 ELSE IF ~Unchanged(c) THEN "raised"
                 ELSE IF def[c].executor = "plain" THEN "calling"
                 ELSE IF def[c].scopes # {} /\ configured THEN "leasing"
                 ELSE "raised")
    /\ UNCHANGED <<brokerVars, registryVars, world, def, seen>>

\* Inside issue_for: the broker's own steps, and what invoke makes of them.
Leasing(c) ==
    /\ stage[c] = "leasing"
    /\ \/ Reserve(c, def[c].scopes) /\ UNCHANGED stage
       \/ Refuse(c) /\ Stage(c, "raised")
       \/ ProviderAnswers(c) /\ UNCHANGED stage
       \/ ProviderFails(c) /\ UNCHANGED stage
       \/ Verify(c) /\ UNCHANGED stage
       \/ Register(c) /\ UNCHANGED stage
       \/ GiveBack(c) /\ IF phase[c] = "releasing" THEN Stage(c, "raised") ELSE UNCHANGED stage
    /\ UNCHANGED <<registryVars, world, def, seen>>

\* assert_valid once more; an expired lease raises and is dropped with the frame.
UseLease(c) ==
    /\ stage[c] = "leasing" /\ phase[c] = "held"
    /\ IF lease[c].expires > now
       THEN Stage(c, "calling") /\ UNCHANGED brokerVars
       ELSE Stage(c, "raised") /\ Drop(c)
    /\ UNCHANGED <<registryVars, world, def, seen>>

\* The executor returns or raises; the finally block drops the lease.
Finish(c) ==
    /\ stage[c] = "calling"
    /\ \E outcome \in {"succeeded", "failed"} : Stage(c, outcome)
    /\ IF phase[c] = "held" THEN Drop(c) ELSE UNCHANGED brokerVars
    /\ UNCHANGED <<registryVars, world, def, seen>>

Answered == {"succeeded", "failed", "raised"}

Again(c) ==
    /\ stage[c] \in Answered
    /\ Stage(c, "idle")
    /\ def' = [def EXCEPT ![c] = NoDefinition]
    /\ seen' = [seen EXCEPT ![c] = "none"]
    /\ UNCHANGED <<brokerVars, registryVars, world>>

WorldMoves == world' \in World /\ UNCHANGED <<brokerVars, registryVars, callVars>>

Registry ==
    /\ EditCatalog \/ EditDefinition \/ Reload \/ ReloadFails
    /\ UNCHANGED <<brokerVars, world, callVars>>

Time == BrokerTick /\ UNCHANGED <<registryVars, world, callVars>>

InvokerNext ==
    \/ \E c \in Clients : \/ Invoke(c) \/ Prepare(c) \/ Leasing(c)
                          \/ UseLease(c) \/ Finish(c) \/ Again(c)
    \/ Registry \/ WorldMoves \/ Time

InvokerSpec == InvokerInit /\ [][InvokerNext]_vars
------------------------------------------------------------------------------
InvokerTypeOK ==
    /\ BrokerTypeOK
    /\ catFile \in CatalogContent /\ catalog \in CatalogContent
    /\ defFile \in Definitions /\ cache \in Definitions \union {NoDefinition}
    /\ world \in World
    /\ stage \in [Clients -> {"idle", "evaluated", "leasing", "calling"} \union Answered]
    /\ def \in [Clients -> Definitions \union {NoDefinition}]

\* However the two files are edited and reloaded, successfully or not, the
\* cached definition is valid and agrees with the catalogue that lists it.
CacheAgreesWithCatalog ==
    cache # NoDefinition => cache.valid /\ Agrees(catalog, cache)

\* No lease outlives the call it was issued for, whichever way the call ends.
NoLeaseAfterReply ==
    \A c \in Clients : stage[c] \notin {"leasing", "calling"} => phase[c] = "out"

\* An executor that needs a credential runs only with a registered lease.
CredentialCallHasLease ==
    \A c \in Clients :
        stage[c] = "calling" /\ def[c].executor = "cred" => phase[c] = "held" /\ c \in active

\* A capability call works with a cached definition that agrees with the
\* catalogue; its lease is counted while it is issued, is for its request
\* only, is held while the executor runs and dropped when the call ends.
InvocationIsSound ==
    /\ InvokerTypeOK /\ CacheAgreesWithCatalog /\ PendingIsInFlight
    /\ HeldLeaseIsBound /\ NoLeaseAfterReply /\ CredentialCallHasLease
==============================================================================
