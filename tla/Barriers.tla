------------------------------ MODULE Barriers ------------------------------
(***************************************************************************)
(* A barrier handle in memory: the steps it waits for, the tasks that wait *)
(* for it with or without a budget, and those who satisfy, fail or release *)
(* it, on several threads.  A call sets the state under the mutex and then *)
(* wakes whoever is registered with the Notify at that moment.             *)
(***************************************************************************)
EXTENDS Naturals, FiniteSets

CONSTANTS Deps,        \* the steps a barrier may wait for
          Others,      \* steps it does not wait for
          Waiters,
          Budgeted,    \* those of them that call await_with_timeout
          MaxForced    \* bounds fail and release

VARIABLES state, pending, satisfied,
          waiter,      \* task -> where it is in its wait
          answer,      \* task -> what the wait gave
          ringing,     \* calls between setting the state and waking the waiters
          late,        \* tasks that registered when nobody was to wake them
          forced,      \* the calls of fail and release
          expired      \* tasks whose budget ran out

barrier == <<state, pending, satisfied, waiter, answer, ringing, late, forced, expired>>

States == {"Pending", "Satisfied", "Failed", "TimedOut"}

InitBarrier ==
  /\ pending \in SUBSET Deps
  /\ satisfied = {}
  /\ state = IF pending = {} THEN "Satisfied" ELSE "Pending"
  /\ waiter = [w \in Waiters |-> "away"]
  /\ answer = [w \in Waiters |-> "none"]
  /\ ringing = 0
  /\ late = {}
  /\ forced = {}
  /\ expired = {}

Enter(w) ==
  /\ waiter[w] = "away"
  /\ waiter' = [waiter EXCEPT ![w] = "looking"]
  /\ UNCHANGED <<state, pending, satisfied, answer, ringing, late, forced, expired>>

\* With a budget, a barrier that another's budget timed out is no error.
AnswerTo(w) == CASE state = "Satisfied" -> "ok"
                 [] state = "Failed"    -> "failed"
                 [] state = "TimedOut"  -> IF w \in Budgeted THEN "no" ELSE "timed out"

\* The loop of await_satisfied reads the state,
Look(w) ==
  /\ waiter[w] \in {"looking", "woken"}
  /\ IF state = "Pending"
     THEN waiter' = [waiter EXCEPT ![w] = "looked"] /\ UNCHANGED answer
     ELSE /\ waiter' = [waiter EXCEPT ![w] = "done"]
          /\ answer' = [answer EXCEPT ![w] = AnswerTo(w)]
  /\ UNCHANGED <<state, pending, satisfied, ringing, late, forced, expired>>

\* and then registers for the next notification.
Register(w) ==
  /\ waiter[w] = "looked"
  /\ waiter' = [waiter EXCEPT ![w] = "waiting"]
  /\ late' = IF state # "Pending" /\ ringing = 0 THEN late \cup {w} ELSE late
  /\ UNCHANGED <<state, pending, satisfied, answer, ringing, forced, expired>>

\* The budget runs out while the task waits; it then takes the mutex.
Expire(w) ==
  /\ w \in Budgeted
  /\ waiter[w] = "waiting"
  /\ waiter' = [waiter EXCEPT ![w] = "expired"]
  /\ expired' = expired \cup {w}
  /\ UNCHANGED <<state, pending, satisfied, answer, ringing, late, forced>>

Bell(phases) == [w \in Waiters |-> IF phases[w] = "waiting" THEN "woken" ELSE phases[w]]

TimeOut(w) ==
  /\ waiter[w] = "expired"
  /\ state' = IF state = "Pending" THEN "TimedOut" ELSE state
  /\ waiter' = Bell([waiter EXCEPT ![w] = "done"])      \* under the mutex still
  /\ answer' = [answer EXCEPT ![w] = "no"]
  /\ UNCHANGED <<pending, satisfied, ringing, late, forced, expired>>

-----------------------------------------------------------------------------

\* Mutant: nobody is woken.
mark_dependency_satisfied_silent(s) ==
  /\ pending' = pending \ {s}
  /\ satisfied' = satisfied \cup (pending \cap {s})
  /\ state' = IF state = "Pending" /\ pending' = {} THEN "Satisfied" ELSE state
  /\ ringing' = ringing
  /\ UNCHANGED <<waiter, answer, late, forced, expired>>

\* Mutant: any step will do.
mark_dependency_satisfied_any(s) ==
  /\ ringing < Cardinality(Deps)
  /\ pending' = pending \ {s}
  /\ satisfied' = satisfied \cup (pending \cap {s})
  /\ state' = IF state = "Pending" THEN "Satisfied" ELSE state
  /\ ringing' = ringing + 1
  /\ UNCHANGED <<waiter, answer, late, forced, expired>>

\* At most one call a step at a time is between the mutex and the waking.
mark_dependency_satisfied(s) ==
  /\ ringing < Cardinality(Deps)
  /\ pending' = pending \ {s}
  /\ satisfied' = satisfied \cup (pending \cap {s})
  /\ state' = IF state = "Pending" /\ pending' = {} THEN "Satisfied" ELSE state
  /\ ringing' = ringing + 1
  /\ UNCHANGED <<waiter, answer, late, forced, expired>>

SetTo(how, outcome) ==
  /\ Cardinality(forced) < MaxForced
  /\ how \notin forced
  /\ ringing < Cardinality(Deps)
  /\ state' = outcome
  /\ forced' = forced \cup {how}
  /\ ringing' = ringing + 1
  /\ UNCHANGED <<pending, satisfied, waiter, answer, late, expired>>

fail    == SetTo("fail", "Failed")
release == SetTo("release", "Satisfied")

\* notify_waiters.
Ring ==
  /\ ringing > 0
  /\ ringing' = ringing - 1
  /\ waiter' = Bell(waiter)
  /\ UNCHANGED <<state, pending, satisfied, answer, late, forced, expired>>

NextBarrier ==
  \/ \E w \in Waiters : Enter(w)
  \/ \E w \in Waiters : Look(w)
  \/ \E w \in Waiters : Register(w)
  \/ \E w \in Waiters : Expire(w)
  \/ \E w \in Waiters : TimeOut(w)
  \/ \E s \in Deps \cup Others : mark_dependency_satisfied(s)
  \/ fail
  \/ release
  \/ Ring

SpecBarrier == InitBarrier /\ [][NextBarrier]_barrier

\* Tasks are scheduled; a budget that is over stays over until the task waits
\* again, whoever wakes it meanwhile; a call that has set the state goes on
\* to wake the waiters.
FairBarrier ==
  /\ \A w \in Waiters : /\ WF_barrier(Look(w))
                        /\ WF_barrier(Register(w))
                        /\ SF_barrier(Expire(w))
                        /\ WF_barrier(TimeOut(w))
  /\ WF_barrier(Ring)

=============================================================================
