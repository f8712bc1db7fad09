------------------------------ MODULE Supervision ------------------------------
(***************************************************************************)
(* The listener of the registry, the workers that dispatch its connections *)
(* and the state they publish when one of them fails                       *)
(* (src/src/registry_runtime/lifecycle.rs).  The listener looks at its     *)
(* workers and at the stop flag, and accepts under the admission lock; a   *)
(* worker that panics takes that lock while it stops the listener and      *)
(* leaves the reason.  The listener publishes how it ended and then waits  *)
(* for the workers that are left, with the lock file of the state held.    *)
(***************************************************************************)
EXTENDS Naturals, FiniteSets

CONSTANTS
  Workers,        \* connections, each served by a worker of its own
  Nothing

VARIABLES
  listener,    \* where the listener is
  outcome,     \* how its loop ended: "ok", or the code of the error
  taken,       \* the failure code it took before it publishes
  ended,       \* what the thread of the listener returns
  worker,      \* worker -> where it is
  admission,   \* who holds the admission lock
  stopping, failureCode,
  status,      \* the published state
  open         \* whether the socket still listens

superviseVars ==
  <<listener, outcome, taken, ended, worker, admission, stopping, failureCode, status, open>>

Failed(code) == <<"Failed", code>>
Panicked == "registry_worker_panicked"

SuperviseInit ==
  /\ listener = "loop" /\ outcome = Nothing /\ taken = Nothing /\ ended = Nothing
  /\ worker = [w \in Workers |-> "new"]
  /\ admission = Nothing /\ stopping = FALSE /\ failureCode = Nothing
  /\ status = <<"Running">> /\ open = TRUE

-----------------------------------------------------------------------------
(* The listener.                                                           *)

\* The loop ends: the flag is set and the socket closed before anything is published.
Leave(code) ==
  /\ outcome' = code
  /\ listener' = "take"
  /\ stopping' = TRUE /\ open' = FALSE

\* A finished worker is joined; its error ends the loop.
JoinFinished ==
  /\ listener = "loop"
  /\ \E w \in Workers :
       \/ /\ worker[w] = "returned"
          /\ UNCHANGED <<listener, outcome, stopping, open>>
          /\ worker' = [worker EXCEPT ![w] = "joined"]
       \/ /\ worker[w] = "failed"
          /\ Leave("registry_listener_failed")
          /\ worker' = [worker EXCEPT ![w] = "joined after failure"]
  /\ UNCHANGED <<taken, ended, admission, failureCode, status>>

\* The flag is looked at without the admission lock first.
SeeStop ==
  /\ listener \in {"loop", "accept"} /\ stopping
  /\ Leave("ok")
  /\ admission' = IF listener = "accept" THEN Nothing ELSE admission
  /\ UNCHANGED <<taken, ended, worker, failureCode, status>>

LockAdmission ==
  /\ listener = "loop" /\ ~stopping /\ admission = Nothing
  /\ listener' = "accept" /\ admission' = "listener"
  /\ UNCHANGED <<outcome, taken, ended, worker, stopping, failureCode, status, open>>

\* A connection is accepted, or there is none; the check of the flag is above.
Accept ==
  /\ listener = "accept" /\ ~stopping
  /\ \/ UNCHANGED worker
     \/ \E w \in Workers :
          worker[w] = "new" /\ worker' = [worker EXCEPT ![w] = "running"]
  /\ listener' = "loop" /\ admission' = Nothing
  /\ UNCHANGED <<outcome, taken, ended, stopping, failureCode, status, open>>

\* accept fails, or the listener panics.
ListenerFails ==
  /\ listener = "accept"
  /\ \E code \in {"registry_listener_failed", "registry_listener_panicked"} : Leave(code)
  /\ admission' = Nothing
  /\ UNCHANGED <<taken, ended, worker, failureCode, status>>

TakeFailure ==
  /\ listener = "take"
  /\ taken' = failureCode /\ failureCode' = Nothing
  /\ listener' = "publish"
  /\ UNCHANGED <<outcome, ended, worker, admission, stopping, status, open>>

\* The reason of a worker goes before the end of the loop, and a failure that is
\* already published before both.
Outcome == IF taken # Nothing THEN taken ELSE outcome

Publish ==
  /\ listener = "publish"
  /\ IF status[1] = "Failed"
     THEN UNCHANGED status /\ ended' = status[2]
     ELSE /\ status' = IF Outcome = "ok" THEN <<"Stopped">> ELSE Failed(Outcome)
          /\ ended' = Outcome
  /\ listener' = "join"
  /\ UNCHANGED <<outcome, taken, worker, admission, stopping, failureCode, open>>

\* The workers that are left are joined one by one; the first error is kept.
\* Mutant: what they return is dropped.
EndIgnoring(w) == ended

EndWith(w) == IF ended = "ok" /\ worker[w] = "failed" THEN Panicked ELSE ended

JoinRest ==
  /\ listener = "join"
  /\ \E w \in Workers :
       /\ worker[w] \in {"returned", "failed"}
       /\ ended' = EndWith(w)
       /\ worker' = [worker EXCEPT ![w] = IF @ = "failed" THEN "joined after failure" ELSE "joined"]
  /\ UNCHANGED <<listener, outcome, taken, admission, stopping, failureCode, status, open>>

\* The thread returns and gives the lock file of the state back.
ListenerEnds ==
  /\ listener = "join"
  /\ \A w \in Workers : worker[w] \in {"new", "joined", "joined after failure"}
  /\ listener' = "done"
  /\ UNCHANGED <<outcome, taken, ended, worker, admission, stopping, failureCode, status, open>>

-----------------------------------------------------------------------------
(* The workers: supervise_dispatcher.  A shutdown closes their sockets.    *)

To(w, place) == worker' = [worker EXCEPT ![w] = place]

WorkerReturns ==
  /\ \E w \in Workers : worker[w] = "running" /\ To(w, "returned")
  /\ UNCHANGED <<listener, outcome, taken, ended, admission, stopping, failureCode, status, open>>

\* The panic is caught, and the admission lock taken.
WorkerPanics ==
  /\ admission = Nothing
  /\ \E w \in Workers : worker[w] = "running" /\ To(w, "panicking") /\ admission' = w
  /\ UNCHANGED <<listener, outcome, taken, ended, stopping, failureCode, status, open>>

StopListener ==
  /\ \E w \in Workers : worker[w] = "panicking" /\ To(w, "stopping")
  /\ stopping' = TRUE
  /\ UNCHANGED <<listener, outcome, taken, ended, admission, failureCode, status, open>>

LeaveReason ==
  /\ \E w \in Workers : worker[w] = "stopping" /\ To(w, "reporting")
  /\ failureCode' = Panicked
  /\ UNCHANGED <<listener, outcome, taken, ended, admission, stopping, status, open>>

\* Only a state that was published as stopped is corrected.
CorrectStatus ==
  /\ \E w \in Workers : worker[w] = "reporting" /\ To(w, "failed")
  /\ status' = IF status[1] = "Stopped" THEN Failed(Panicked) ELSE status
  /\ admission' = Nothing
  /\ UNCHANGED <<listener, outcome, taken, ended, stopping, failureCode, open>>

-----------------------------------------------------------------------------
(* RegistryRuntime::shutdown.                                              *)

Shutdown ==
  /\ ~stopping /\ stopping' = TRUE
  /\ UNCHANGED <<listener, outcome, taken, ended, worker, admission, failureCode, status, open>>

SuperviseNext ==
  \/ JoinFinished \/ SeeStop \/ LockAdmission \/ Accept \/ ListenerFails
  \/ TakeFailure \/ Publish \/ JoinRest \/ ListenerEnds
  \/ WorkerReturns \/ WorkerPanics \/ StopListener \/ LeaveReason \/ CorrectStatus
  \/ Shutdown

SuperviseSpec == SuperviseInit /\ [][SuperviseNext]_superviseVars

-----------------------------------------------------------------------------
(* Properties.                                                             *)

HasPanicked(w) ==
  worker[w] \in {"panicking", "stopping", "reporting", "failed", "joined after failure"}

\* Whoever waits for the registry gets an error when a worker has panicked, however
\* the panic fell in with a shutdown or an end of the listener; by then no worker
\* runs any more, the socket is closed, and the state no longer says Running.
PanicIsKept ==
  /\ listener = "done" =>
       /\ (\E w \in Workers : HasPanicked(w)) => ended # "ok"
       /\ \A w \in Workers : worker[w] \in {"new", "joined", "joined after failure"}
       /\ status # <<"Running">>
  /\ status # <<"Running">> => stopping /\ ~open

\* Violated: and the published state says that it failed
\* (await_failure in worker_failure_tests.rs).
PanicIsReported ==
  listener = "done" /\ (\E w \in Workers : HasPanicked(w)) => status[1] = "Failed"
===============================================================================
