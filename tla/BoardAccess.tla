----------------------------- MODULE BoardAccess -----------------------------
(***************************************************************************)
(* What BoardSession promises to everything above it, without its lock,    *)
(* its queue or its threads: the board has one user at a time, an          *)
(* exclusive user works only in silence (telemetry off), nothing but its   *)
(* own departure ends its turn, and telemetry it switched off is on again  *)
(* the moment it leaves.  BoardSession is shown to implement this.         *)
(***************************************************************************)
CONSTANTS Sharers,    \* users that take the board for one call: callers, the poller
          Exclusives, \* users that own it outright: commissions
          Nobody

VARIABLES user,       \* who has the board
          working,    \* the user's operation is on the wire
          telemetry,  \* a poller exists
          owed        \* telemetry this exclusive user has to bring back

vars == <<user, working, telemetry, owed>>

Init ==
  /\ user = Nobody
  /\ working = FALSE
  /\ telemetry = TRUE
  /\ owed = FALSE

\* A sharer has the board for exactly as long as its call is on the wire.
Borrow(s) ==
  /\ user = Nobody
  /\ user' = s /\ working' = TRUE
  /\ UNCHANGED <<telemetry, owed>>

GiveBack(s) ==
  /\ user = s
  /\ user' = Nobody /\ working' = FALSE
  /\ UNCHANGED <<telemetry, owed>>

\* An exclusive user takes the board; it may still have to silence the telemetry.
Seize(x) ==
  /\ user = Nobody
  /\ user' = x /\ working' = FALSE
  /\ owed' = telemetry
  /\ telemetry' \in {telemetry, FALSE}

Silence(x) ==
  /\ user = x /\ ~working
  /\ telemetry' = FALSE
  /\ UNCHANGED <<user, working, owed>>

Operate(x) ==
  /\ user = x /\ ~telemetry
  /\ working' = ~working
  /\ UNCHANGED <<user, telemetry, owed>>

Leave(x) ==
  /\ user = x /\ ~working /\ ~telemetry
  /\ user' = Nobody
  /\ telemetry' = owed /\ owed' = FALSE
  /\ UNCHANGED working

\* The program shuts down; nothing else switches telemetry off for good.
Hush == telemetry' = FALSE /\ UNCHANGED <<user, working, owed>>

Next ==
  \/ \E s \in Sharers : Borrow(s) \/ GiveBack(s)
  \/ \E x \in Exclusives : Seize(x) \/ Silence(x) \/ Operate(x) \/ Leave(x)
  \/ Hush

Spec == Init /\ [][Next]_vars
=============================================================================
