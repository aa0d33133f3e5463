------------------------------ MODULE MCThreads ------------------------------
(***************************************************************************)
(* What runs beside the server thread: the worker thread with a few        *)
(* submitters, and two requests at the same time with bodies of up to two  *)
(* blocks.  A behaviour is one of either, chosen at its start; the other   *)
(* rests.                                                                  *)
(***************************************************************************)
EXTENDS WorkerThread, HttpRequest

CONSTANTS s1, s2, s3, q1, q2

VARIABLE part

ThreeSubmitters == {s1, s2, s3}
TwoRequests == {q1, q2}

MCInit == part \in {"worker", "requests"} /\ WorkerInit /\ Init

MCNext ==
    \/ part = "worker" /\ WorkerNext /\ UNCHANGED <<vars, part>>
    \/ part = "requests" /\ Next /\ UNCHANGED <<workerVars, part>>

OfWorker(A) == part = "worker" /\ A /\ UNCHANGED <<vars, part>>
OfRequests(A) == part = "requests" /\ A /\ UNCHANGED <<workerVars, part>>

allVars == <<workerVars, vars, part>>

\* The fairness of both, as WorkerFairSpec and FairSpec have it.
MCSpec ==
    /\ MCInit /\ [][MCNext]_allVars
    /\ WF_allVars(OfWorker(Worker))
    /\ WF_allVars(OfWorker(NotifyExit)) /\ WF_allVars(OfWorker(Join))
    /\ \A s \in Submitters : WF_allVars(OfWorker(NotifyTask(s)))
    /\ WF_allVars(OfRequests(ServerThread))
    /\ \A r \in Requests : WF_allVars(OfRequests(NetworkThread(r)))
=============================================================================
