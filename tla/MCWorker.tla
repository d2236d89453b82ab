------------------------------ MODULE MCWorker ------------------------------
(***************************************************************************)
(* Instances of Worker for TLC.                                            *)
(***************************************************************************)
EXTENDS Worker

AofJobs == {1}

CONSTANTS c1, c2

Load(j, cs, n, r, e, d) ==
  [jobs |-> j, clients |-> cs, calls |-> n, runs |-> r, events |-> e, deaths |-> d]

\* A client that runs and deletes both jobs against the tick; two clients on
\* one job, and a job that is added; an event that waits behind the tick; a
\* ring past its watermark and its batch.
JobsAndRing ==
  {Load(2, {c1}, 2, 0, 0, FALSE), Load(1, {c1, c2}, 2, 0, 0, FALSE),
   Load(1, {c1}, 1, 2, 1, FALSE), Load(1, {}, 0, 1, 2, TRUE)}
=============================================================================
