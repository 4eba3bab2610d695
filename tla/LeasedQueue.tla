---------------------------- MODULE LeasedQueue ----------------------------
(***************************************************************************)
(* What the enrichment queue promises: a bounded-retry job queue in which  *)
(* a claim is a lease.  A job is handed to a worker only while nobody      *)
(* holds it; only its holder finishes it; it is requeued only once nobody  *)
(* holds it any more; a finished job stays finished.                       *)
(*                                                                         *)
(* The code has no lease: EnrichmentWorkers shows that the row state, the  *)
(* process-local active set and the startup sweep together behave as if    *)
(* it had one.                                                             *)
(***************************************************************************)
EXTENDS Naturals

CONSTANTS Ids, Workers, MaxTries, Nothing

VARIABLES
    st,     \* Ids -> state of the job, "absent" when there is none
    tries,  \* Ids -> failed attempts
    hold    \* Workers -> the job the worker holds, or Nothing

lqVars == <<st, tries, hold>>

Held(id) == \E w \in Workers : hold[w] = id

Submit(id) ==
    /\ st[id] = "absent"
    /\ st' = [st EXCEPT ![id] = "pending"]
    /\ tries' = [tries EXCEPT ![id] = 0]
    /\ UNCHANGED hold

Claim(w, id) ==
    /\ hold[w] = Nothing
    /\ st[id] = "pending" /\ ~ Held(id)
    /\ st' = [st EXCEPT ![id] = "running"]
    /\ hold' = [hold EXCEPT ![w] = id]
    /\ UNCHANGED tries

\* The holder reports: success, a failure to be retried, or a dead letter once
\* the attempts are used up (or at once).
Finish(w, id) ==
    /\ hold[w] = id
    /\ st[id] = "running"
    /\ hold' = [hold EXCEPT ![w] = Nothing]
    /\ \/ st' = [st EXCEPT ![id] = "done"] /\ UNCHANGED tries
       \/ /\ tries[id] + 1 < MaxTries
          /\ st' = [st EXCEPT ![id] = "pending"]
          /\ tries' = [tries EXCEPT ![id] = @ + 1]
       \/ st' = [st EXCEPT ![id] = "dead"] /\ tries' = [tries EXCEPT ![id] = @ + 1]

\* Workers die, or cannot report: their leases end, the jobs stay running.
Abandon(W) ==
    /\ hold' = [w \in Workers |-> IF w \in W THEN Nothing ELSE hold[w]]
    /\ UNCHANGED <<st, tries>>

\* Abandoned jobs, and only those, go back to the queue; a crash costs no try.
Requeue(S) ==
    /\ \A id \in S : st[id] = "running" /\ ~ Held(id)
    /\ st' = [id \in Ids |-> IF id \in S THEN "pending" ELSE st[id]]
    /\ UNCHANGED <<tries, hold>>

\* The user withdraws jobs nobody has started.
Withdraw(S) ==
    /\ \A id \in S : st[id] = "pending"
    /\ st' = [id \in Ids |-> IF id \in S THEN "absent" ELSE st[id]]
    /\ tries' = [id \in Ids |-> IF id \in S THEN 0 ELSE tries[id]]
    /\ UNCHANGED hold

LQInit ==
    /\ st \in [Ids -> {"absent", "pending", "running", "done"}]
    /\ tries = [id \in Ids |-> 0]
    /\ hold = [w \in Workers |-> Nothing]

LQNext ==
    \/ \E id \in Ids : Submit(id)
    \/ \E w \in Workers, id \in Ids : Claim(w, id) \/ Finish(w, id)
    \/ \E W \in SUBSET Workers : Abandon(W)
    \/ \E S \in SUBSET Ids : Requeue(S) \/ Withdraw(S)

LQSpec == LQInit /\ [][LQNext]_lqVars
=============================================================================
