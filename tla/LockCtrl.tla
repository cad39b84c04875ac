------------------------------- MODULE LockCtrl -------------------------------
(* What the hardware lock control service promises its clients: requests are  *)
(* accepted at any time and honoured one after the other in that order; a     *)
(* self test leaves the lock as it was, and whatever was requested while it   *)
(* ran takes its turn after the lock is back.  Shut down, the service forgets  *)
(* everything, the requests it did not get to included.                       *)
EXTENDS Sequences

VARIABLES
  lock,      \* the state the service reports
  testing,   \* a self test was begun and the lock is not back yet
  pending    \* the requests accepted and not yet honoured, oldest first

vars == <<lock, testing, pending>>

Requests == {"SIG_REQUEST_LOCKED", "SIG_REQUEST_UNLOCKED",
             "SIG_REQUEST_SELF_TEST", "SIG_REQUEST_CURRENT_CHECK"}

LockStates == {"UNKNOWN", "LOCKED", "UNLOCKED"}

Init == lock = "UNKNOWN" /\ testing = FALSE /\ pending = << >>

Accept ==
  /\ \E request \in Requests : pending' = Append(pending, request)
  /\ UNCHANGED <<lock, testing>>

\* The service locks the lock before it honours any request.
PowerUp ==
  /\ lock = "UNKNOWN"
  /\ lock' = "LOCKED"
  /\ UNCHANGED <<testing, pending>>

\* The lock after request.
Effect(request) ==
  CASE request = "SIG_REQUEST_LOCKED"   -> "LOCKED"
    [] request = "SIG_REQUEST_UNLOCKED" -> "UNLOCKED"
    [] OTHER                            -> lock

Honour ==
  /\ lock # "UNKNOWN" /\ ~testing
  /\ pending # << >>
  /\ lock' = Effect(Head(pending))
  /\ testing' = (Head(pending) = "SIG_REQUEST_SELF_TEST")
  /\ pending' = Tail(pending)

FinishTest ==
  /\ testing
  /\ testing' = FALSE
  /\ UNCHANGED <<lock, pending>>

ShutDown ==
  /\ lock' = "UNKNOWN"
  /\ testing' = FALSE
  /\ pending' = << >>

Next == Accept \/ PowerUp \/ Honour \/ FinishTest \/ ShutDown

Spec == Init /\ [][Next]_vars

\* While the lock is powered up, every request is honoured in its turn, and
\* every self test ends.
FairSpec == Spec /\ WF_vars(Honour) /\ WF_vars(FinishTest)
=============================================================================
