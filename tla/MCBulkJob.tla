----------------------------- MODULE MCBulkJob -----------------------------
(***************************************************************************)
(* Bounds of the environment for the runs of BulkJob, one per .cfg file.   *)
(***************************************************************************)
EXTENDS BulkJob, TLC

Bound(request, crash, slot, enqueue, persist, chunk, refused) ==
  [e \in Events |->
     CASE e = "request" -> request [] e = "crash" -> crash
       [] e = "slot" -> slot [] e = "enqueue" -> enqueue
       [] e = "persist" -> persist [] e = "chunk" -> chunk
       [] e = "refused" -> refused]

\* Nobody touches the job; anything but a crash may go wrong.
PrepareLimits == Bound(0, 0, 2, 1, 1, 2, 0)

\* One user at a time; a chunk may fail or its answer get lost.
PauseLimits == Bound(3, 0, 0, 0, 0, 2, 0)

\* Two requests at a time, an enqueue that fails and a report answered 4xx.
RaceLimits == Bound(4, 0, 0, 1, 0, 0, 1)

\* An API crash, a failed write, a failed chunk and a refused report, around
\* two requests.
CrashLimits == Bound(2, 1, 0, 0, 1, 1, 1)

\* The counterexamples: one crash; one failed enqueue and a retry; a pause
\* and a resume.
OneCrash == Bound(0, 1, 0, 0, 0, 0, 0)
OneRetry == Bound(1, 0, 0, 1, 0, 0, 0)
PauseAndResume == Bound(2, 0, 0, 0, 0, 0, 0)

\* The addresses are interchangeable where all of them are cacheable.
Symmetry == Permutations(Clients) \cup Permutations(Emails)
=============================================================================
