------------------------------ MODULE NumericalIk ------------------------------
(***************************************************************************)
(* NumericalIk::solve (src/kinematics/ik.cpp): attempts of damped least    *)
(* squares from random configurations, until one reaches the target or the *)
(* restarts are used up; a call that fails returns the closest             *)
(* configuration it came across.  An iteration's move is any               *)
(* configuration within the joint limits: the Jacobian, the damping and    *)
(* the step length decide which.  Err is the pose error of a               *)
(* configuration, 0 when it is within both tolerances; differences below   *)
(* stall_eps are not told apart, so attempt_best is attempt.err.  The      *)
(* caller modelled here gives no seed.                                     *)
(***************************************************************************)
EXTENDS Integers

CONSTANTS
  Postures,    \* configurations within the joint limits that the solver visits
  Zero,        \* the configuration of zeros
  Err,         \* [Postures -> Nat], pe + re
  Inf,         \* more than any error
  MaxRestarts, \* IkOptions::max_restarts
  MaxIters,    \* IkOptions::max_iters
  StallIters   \* IkOptions::stall_iters

ASSUME IkAssumption ==
  /\ Zero \in Postures
  /\ Err \in [Postures -> Nat]
  /\ Inf \in Nat
  /\ \A c \in Postures : Err[c] < Inf
  /\ {MaxRestarts, MaxIters} \subseteq Nat
  /\ StallIters \in Nat \ {0}

VARIABLES
  ik_pc,     \* "idle", "restart", "iterate", "solved", "failed"
  restart,   \* attempts made
  iteration, \* iterations of this attempt
  stall,     \* iterations of it without progress
  q,         \* its configuration
  attempt,   \* its best so far, [q, err]
  best,      \* the best of the call; the result once "solved" or "failed"
  nearest    \* history: the least error this call has evaluated

ik == <<ik_pc, restart, iteration, stall, q, attempt, best, nearest>>

Closest == [q : Postures, err : Nat]

Least(m, n) == IF m < n THEN m ELSE n

IkTypeOK ==
  /\ ik_pc \in {"idle", "restart", "iterate", "solved", "failed"}
  /\ restart \in 0 .. MaxRestarts + 1
  /\ iteration \in 0 .. MaxIters
  /\ stall \in 0 .. StallIters
  /\ q \in Postures
  /\ {attempt, best} \subseteq Closest
  /\ nearest \in Nat

IkReset(at) ==
  /\ ik_pc' = at
  /\ restart' = 0
  /\ iteration' = 0
  /\ stall' = 0
  /\ q' = Zero
  /\ attempt' = [q |-> Zero, err |-> Inf]
  /\ best' = [q |-> Zero, err |-> Inf]
  /\ nearest' = Inf

IkInit ==
  /\ ik_pc = "idle"
  /\ restart = 0
  /\ iteration = 0
  /\ stall = 0
  /\ q = Zero
  /\ attempt = [q |-> Zero, err |-> Inf]
  /\ best = [q |-> Zero, err |-> Inf]
  /\ nearest = Inf

\* A new attempt from a random configuration.
Restart ==
  /\ ik_pc = "restart"
  /\ restart <= MaxRestarts
  /\ \E q0 \in Postures : q' = q0 /\ attempt' = [q |-> q0, err |-> Inf]
  /\ restart' = restart + 1
  /\ iteration' = 0
  /\ stall' = 0
  /\ ik_pc' = "iterate"
  /\ UNCHANGED <<best, nearest>>

GiveUp ==
  /\ ik_pc = "restart"
  /\ restart > MaxRestarts
  /\ ik_pc' = "failed"
  /\ UNCHANGED <<restart, iteration, stall, q, attempt, best, nearest>>

Reach ==
  /\ ik_pc = "iterate"
  /\ iteration < MaxIters
  /\ Err[q] = 0
  /\ best' = [q |-> q, err |-> 0]
  /\ nearest' = Least(Err[q], nearest)
  /\ ik_pc' = "solved"
  /\ UNCHANGED <<restart, iteration, stall, q, attempt>>

Progress == Err[q] < attempt.err

\* Mutant: an attempt that ends replaces the best of the call.
Better_Latest(new, old) == new

Better(new, old) == IF new.err < old.err THEN new ELSE old

\* Another step, or the end of a stalled attempt.
Iterate ==
  /\ ik_pc = "iterate"
  /\ iteration < MaxIters
  /\ Err[q] # 0
  /\ nearest' = Least(Err[q], nearest)
  /\ attempt' = IF Progress THEN [q |-> q, err |-> Err[q]] ELSE attempt
  /\ stall' = IF Progress THEN 0 ELSE stall + 1
  /\ \/ /\ stall' < StallIters
        /\ q' \in Postures
        /\ iteration' = iteration + 1
        /\ UNCHANGED <<ik_pc, best>>
     \/ /\ stall' = StallIters
        /\ best' = Better(attempt', best)
        /\ ik_pc' = "restart"
        /\ UNCHANGED <<q, iteration>>
  /\ UNCHANGED restart

\* The attempt has used its iterations.
Exhaust ==
  /\ ik_pc = "iterate"
  /\ iteration = MaxIters
  /\ best' = Better(attempt, best)
  /\ ik_pc' = "restart"
  /\ UNCHANGED <<restart, iteration, stall, q, attempt, nearest>>

IkNext == Restart \/ GiveUp \/ Reach \/ Iterate \/ Exhaust

-------------------------------------------------------------------------------
\* However the attempts stall and restart, a call that fails hands back a
\* configuration it evaluated and none it evaluated is closer ("solve() is the
\* API that reports best-effort errors", ik.hpp); a call that succeeds, one
\* within tolerance.
BestEffort ==
  /\ ik_pc = "failed" => best.err = nearest /\ (best.err < Inf => Err[best.q] = best.err)
  /\ ik_pc = "solved" => Err[best.q] = 0
===============================================================================
