------------------------ MODULE MCGovernedExecutor -------------------------
(***************************************************************************)
(* Instances of GovernedExecutor for TLC: one request o with two possible  *)
(* compensations c1 and c2 (the same capability, two reasons).             *)
(***************************************************************************)
EXTENDS GovernedExecutor

CONSTANTS o, c1, c2, t1, t2, b1, b2, ok, changed, bad

MCOrigin == [i \in Ids |-> IF i = o THEN None ELSE o]
MCDirectOriginal == {o}
MCGuarded == [i \in Ids |-> "GUARDED"]
MCSupervised == [i \in Ids |-> IF i = o THEN "SUPERVISED" ELSE "GUARDED"]
MCShared == [t \in Threads |-> b1]

\* A good approval, one for a state that has changed, a denial, one for another
\* identity and one that expires at tick 1.
Grant(id, pre, decision, expires) ==
    [id |-> id, pre |-> pre, decision |-> decision, granted |-> 0, expires |-> expires]
MCApprovals == {Grant(o, ok, "approved", 2), Grant(o, changed, "approved", 2),
                Grant(o, ok, "denied", 2), Grant(c1, ok, "approved", 2),
                Grant(o, ok, "approved", 1)}
NoApprovals == {}

Mcp == INSTANCE McpSurface WITH Hard <- [page |-> 1, rows |-> 1, filters |-> 1, length |-> 1],
                                MaxPort <- 1, DefaultLimit <- 1
Returns(t) == pc'[t] = "idle" /\ frame'[t] # frame[t] /\ frame'[t].reply # "none" /\ frame'[t].orig = None

(* A supervised call starts only with an approval of this request and this *)
(* state; and the status that an MCP caller of the boundary is given is    *)
(* true at that moment: pending means that nothing was called or           *)
(* journalled, so that the request may be sent again once approved;        *)
(* executed means that the outcome is on record and, if it says success,   *)
(* that the effect took place.                                             *)
SupervisedCallsAreGoverned ==
    /\ []SupervisedCallIsApproved
    /\ [][\A t \in Threads : Returns(t) =>
            LET f == frame'[t]
                status == Mcp!Envelope(f.reply, f.mode)
            IN  /\ "pending" \in status => calls'[f.id] = 0 /\ journal'[f.id] = <<>>
                /\ "executed" \in status => /\ \E i \in DOMAIN journal'[f.id] :
                                                   /\ journal'[f.id][i].state \in {"EXECUTED", "FAILED"}
                                                   /\ f.reply = ResultOf(journal'[f.id][i].state)
                                            /\ f.reply = "succeeded" => effects'[f.id] > 0]_vars
=============================================================================
