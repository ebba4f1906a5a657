-------------------------- MODULE CapabilityContract -------------------------
(***************************************************************************)
(* What the capability layer promises of each request identity             *)
(* (docs/capabilities.md, "Execution is idempotent, and compensation is an *)
(* action"), with no threads, locks, clocks or crashes: an identity is     *)
(* attested once, called at most once and only while attested, settled     *)
(* once, and compensated only by a compensation that itself executed.      *)
(***************************************************************************)
EXTENDS Naturals

CONSTANTS Ids, None, Origin

VARIABLES life,    \* the lifecycle state of each identity
          called   \* whether its external executor has been invoked

contractVars == <<life, called>>

Move(id, from, to) == life[id] = from /\ life' = [life EXCEPT ![id] = to]

ContractInit ==
    /\ life = [id \in Ids |-> "NEW"]
    /\ called = [id \in Ids |-> FALSE]

AttestId(id) == Move(id, "NEW", "EXECUTING") /\ UNCHANGED called

CallId(id) ==
    /\ life[id] = "EXECUTING" /\ ~called[id]
    /\ called' = [called EXCEPT ![id] = TRUE]
    /\ UNCHANGED life

SettleId(id) ==
    /\ \/ Move(id, "EXECUTING", "EXECUTED") /\ called[id]
       \/ Move(id, "EXECUTING", "FAILED")
    /\ UNCHANGED called

BeginCompensation(id) == Move(id, "EXECUTED", "COMPENSATING") /\ UNCHANGED called

FinishCompensation(id) ==
    /\ Move(id, "COMPENSATING", "COMPENSATED")
    /\ \E c \in Ids : Origin[c] = id /\ life[c] = "EXECUTED"
    /\ UNCHANGED called

ContractNext ==
    \E id \in Ids : \/ AttestId(id) \/ CallId(id) \/ SettleId(id)
                    \/ BeginCompensation(id) \/ FinishCompensation(id)

Contract == ContractInit /\ [][ContractNext]_contractVars
=============================================================================
