-------------------------- MODULE ServiceProperties --------------------------
(***************************************************************************)
(* What barriers, the orchestrator and the artifact collector promise to   *)
(* the executor.                                                           *)
(***************************************************************************)
EXTENDS Barriers, Orchestrator, Collector

Gone(w) == waiter[w] = "done"

\* A wait is answered with what happened: satisfied only with nothing pending
\* or after a release, failed only after fail, "not in time" only after some
\* budget ran out; and without fail and release those who are told that the
\* barrier is satisfied and those who are told that it timed out are never told
\* so of one barrier.  The state that Look read may be overwritten meanwhile.
AnswersSound ==
  /\ state = "Satisfied" /\ "release" \notin forced => pending = {}
  /\ pending \cap satisfied = {}
  /\ \A w \in Waiters : Gone(w) =>
       CASE answer[w] = "ok"        -> pending = {} \/ "release" \in forced
         [] answer[w] = "failed"    -> "fail" \in forced
         [] answer[w] = "timed out" -> expired # {} /\ w \notin Budgeted
         [] answer[w] = "no"        -> expired # {} /\ w \in Budgeted
  /\ forced = {} => ~\E v, w \in Waiters : answer[v] = "ok" /\ answer[w] = "timed out"

\* A task with a budget returns.  One without returns once the barrier is
\* settled, whether it looks at the state or waits, and whatever calls cross
\* its own, unless it registered after everybody had been woken.
WaitersReturn ==
  \A w \in Waiters :
    /\ w \in Budgeted => (waiter[w] = "looking" ~> Gone(w))
    /\ (state # "Pending" /\ waiter[w] = "looking") ~> Gone(w)
    /\ (state # "Pending" /\ waiter[w] = "waiting" /\ w \notin late) ~> Gone(w)

\* A metric that SaveOutput reports is what the Deploy of that very instance
\* gave, in this process.  SaveOutput lacks the outputs only where the Deploy
\* was made before a resume, and a runtime is missing only after a shutdown.
OutputsFresh ==
  /\ last.kind = "SaveOutput" /\ "parameter" \in DOMAIN last.outcome =>
       LET g == gave[<<last.element, last.instance>>]
       IN  /\ g.process = last.process
           /\ last.outcome.parameter \in DOMAIN g.out
           /\ last.outcome.value = g.out[last.outcome.parameter]
  /\ last.kind # "none" /\ "why" \in DOMAIN last.outcome =>
       /\ last.outcome.why = "NoOutputsForInstance" =>
            gave[<<last.element, last.instance>>].process < last.process
       /\ last.outcome.why = "NoRuntimeForElement" => ended

\* Whatever the order of starts, stops and late pieces, each piece collected
\* for a trial is handed out by one stop, in order, or still open; each output
\* has one value; what is listed are the last pieces collected.
CollectedOnce ==
  \A t \in Trials :
    LET listed == artifacts_of(t)
        all    == collected[t]
    IN  /\ handed[t] \o At(open_trials, t) = all
        /\ listed = SubSeq(all, Len(all) - Len(listed) + 1, Len(all))
        /\ \A m, n \in metrics[t] : m[1] = n[1] => m = n

=============================================================================
