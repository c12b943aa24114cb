---------------------------- MODULE ServiceProofs ----------------------------
(***************************************************************************)
(* What barriers, the orchestrator and the artifact collector promise      *)
(* holds for every set of tasks, steps, elements, instances and trials.    *)
(***************************************************************************)
EXTENDS ServiceProperties, SequenceTheorems, TLAPS

(***************************************************************************)
(* Barriers.  The state of a barrier says why it is over, an answer says   *)
(* what state was read, and as long as nobody forces the barrier it never  *)
(* leaves the state it was answered with.                                  *)
(***************************************************************************)
Phases  == {"away", "looking", "looked", "waiting", "woken", "expired", "done"}
Answers == {"none", "ok", "failed", "timed out", "no"}

BarrierTypeOK ==
  /\ state \in States /\ pending \in SUBSET Deps /\ satisfied \in SUBSET Deps
  /\ waiter \in [Waiters -> Phases] /\ answer \in [Waiters -> Answers]
  /\ ringing \in Nat /\ late \in SUBSET Waiters
  /\ forced \in SUBSET {"fail", "release"} /\ expired \in SUBSET Waiters

StateSays ==
  /\ state = "Satisfied" => pending = {} \/ "release" \in forced
  /\ state = "Failed"    => "fail" \in forced
  /\ state = "TimedOut"  => expired # {}
  /\ pending \cap satisfied = {}

AnswerSays ==
  \A w \in Waiters :
    /\ waiter[w] = "done" <=> answer[w] # "none"
    /\ waiter[w] = "expired" => w \in expired \cap Budgeted
    /\ answer[w] = "ok"        => /\ pending = {} \/ "release" \in forced
                                  /\ forced = {} => state = "Satisfied"
    /\ answer[w] = "failed"    => "fail" \in forced
    /\ answer[w] = "timed out" => /\ expired # {} /\ w \notin Budgeted
                                  /\ forced = {} => state = "TimedOut"
    /\ answer[w] = "no"        => expired # {} /\ w \in Budgeted

BarrierInv == BarrierTypeOK /\ StateSays /\ AnswerSays

LEMMA InitBarrierInv == InitBarrier => BarrierInv
BY DEF InitBarrier, BarrierInv, BarrierTypeOK, StateSays, AnswerSays, States, Phases, Answers

(* Waking the waiters answers nobody. *)
LEMMA BellFacts ==
  ASSUME NEW phases \in [Waiters -> Phases]
  PROVE  /\ Bell(phases) \in [Waiters -> Phases]
         /\ \A w \in Waiters : /\ Bell(phases)[w] = "done" <=> phases[w] = "done"
                               /\ Bell(phases)[w] = "expired" <=> phases[w] = "expired"
BY DEF Bell, Phases

LEMMA LookInv ==
  ASSUME BarrierInv, NEW w \in Waiters, Look(w)
  PROVE  BarrierInv'
<1>. USE DEF Look, BarrierInv
<1>1. CASE state = "Pending"
  BY <1>1 DEF BarrierTypeOK, StateSays, AnswerSays, Phases
<1>2. CASE state # "Pending"
  <2>1. state \in {"Satisfied", "Failed", "TimedOut"}
    BY <1>2 DEF BarrierTypeOK, States
  <2>2. /\ state = "Satisfied" => AnswerTo(w) = "ok"
        /\ state = "Failed"    => AnswerTo(w) = "failed"
        /\ state = "TimedOut" /\ w \in Budgeted    => AnswerTo(w) = "no"
        /\ state = "TimedOut" /\ w \notin Budgeted => AnswerTo(w) = "timed out"
    BY DEF AnswerTo
  <2>3. BarrierTypeOK' /\ StateSays'
    BY <1>2, <2>1, <2>2 DEF BarrierTypeOK, StateSays, Phases, Answers
  <2>4. AnswerSays'
    BY <1>2, <2>1, <2>2 DEF AnswerSays, BarrierTypeOK, StateSays
  <2>. QED  BY <2>3, <2>4
<1>. QED  BY <1>1, <1>2

LEMMA TimeOutInv ==
  ASSUME BarrierInv, NEW w \in Waiters, TimeOut(w)
  PROVE  BarrierInv'
<1>. USE DEF TimeOut, BarrierInv
<1>. DEFINE phases == [waiter EXCEPT ![w] = "done"]
<1>1. phases \in [Waiters -> Phases]
  BY DEF BarrierTypeOK, Phases
<1>2. /\ waiter' \in [Waiters -> Phases]
      /\ \A v \in Waiters : /\ waiter'[v] = "done" <=> phases[v] = "done"
                            /\ waiter'[v] = "expired" <=> phases[v] = "expired"
  <2>1. waiter' = Bell(phases)
    OBVIOUS
  <2>. HIDE DEF phases, TimeOut
  <2>. QED  BY <1>1, <2>1, BellFacts
<1>3. BarrierTypeOK'
  BY <1>2 DEF BarrierTypeOK, States, Answers
<1>4. w \in expired \cap Budgeted
  BY DEF AnswerSays
<1>5. StateSays'
  BY <1>4 DEF StateSays
<1>6. AnswerSays'
  BY <1>2, <1>4 DEF AnswerSays, BarrierTypeOK
<1>. QED  BY <1>3, <1>5, <1>6

LEMMA MarkInv ==
  ASSUME BarrierInv, NEW s, mark_dependency_satisfied(s)
  PROVE  BarrierInv'
<1>. USE DEF mark_dependency_satisfied, BarrierInv
<1>1. BarrierTypeOK' /\ StateSays'
  BY DEF BarrierTypeOK, StateSays, States
<1>2. AnswerSays'
  BY DEF AnswerSays
<1>. QED  BY <1>1, <1>2

LEMMA ForceInv ==
  ASSUME BarrierInv, fail \/ release
  PROVE  BarrierInv'
<1>. USE DEF BarrierInv
<1>1. /\ \/ state' = "Failed" /\ forced' = forced \cup {"fail"}
         \/ state' = "Satisfied" /\ forced' = forced \cup {"release"}
      /\ ringing' = ringing + 1
      /\ UNCHANGED <<pending, satisfied, waiter, answer, late, expired>>
  BY DEF fail, release, SetTo
<1>2. BarrierTypeOK'
  <2>1. forced' \in SUBSET {"fail", "release"} /\ state' \in States
    BY <1>1 DEF BarrierTypeOK, States
  <2>2. ringing' \in Nat
    BY <1>1 DEF BarrierTypeOK
  <2>. QED  BY <1>1, <2>1, <2>2 DEF BarrierTypeOK
<1>3. StateSays'
  BY <1>1 DEF StateSays
<1>4. AnswerSays'
  <2>1. forced' # {} /\ forced \subseteq forced'
    BY <1>1
  <2>. QED  BY <1>1, <2>1 DEF AnswerSays
<1>. QED  BY <1>2, <1>3, <1>4

LEMMA NextBarrierInv == BarrierInv /\ [NextBarrier]_barrier => BarrierInv'
<1>. SUFFICES ASSUME BarrierInv, [NextBarrier]_barrier PROVE BarrierInv'
  OBVIOUS
<1>1. ASSUME NEW w \in Waiters, Enter(w) \/ Register(w) \/ Expire(w)
      PROVE  BarrierInv'
  <2>1. BarrierTypeOK' /\ StateSays'
    BY <1>1 DEF Enter, Register, Expire, BarrierInv, BarrierTypeOK, StateSays, Phases
  <2>2. AnswerSays'
    BY <1>1 DEF Enter, Register, Expire, BarrierInv, BarrierTypeOK, AnswerSays
  <2>. QED  BY <2>1, <2>2 DEF BarrierInv
<1>2. ASSUME Ring PROVE BarrierInv'
  <2>1. BarrierTypeOK' /\ StateSays'
    BY <1>2, BellFacts DEF Ring, BarrierInv, BarrierTypeOK, StateSays
  <2>2. AnswerSays'
    BY <1>2, BellFacts DEF Ring, BarrierInv, BarrierTypeOK, AnswerSays
  <2>. QED  BY <2>1, <2>2 DEF BarrierInv
<1>3. ASSUME UNCHANGED barrier PROVE BarrierInv'
  BY <1>3 DEF barrier, BarrierInv, BarrierTypeOK, StateSays, AnswerSays
<1>. QED
  BY <1>1, <1>2, <1>3, LookInv, TimeOutInv, MarkInv, ForceInv DEF NextBarrier

(* Whatever calls cross on a barrier, a wait is answered with what really  *)
(* happened to the barrier, and without fail and release not one task is   *)
(* told that it is satisfied and another that it timed out.                *)
THEOREM BarrierAnswersSound == SpecBarrier => []AnswersSound
<1>1. SpecBarrier => []BarrierInv
  BY InitBarrierInv, NextBarrierInv, PTL DEF SpecBarrier
<1>2. BarrierInv => AnswersSound
  <2>. SUFFICES ASSUME BarrierInv PROVE AnswersSound
    OBVIOUS
  <2>. USE DEF BarrierInv
  <2>1. state = "Satisfied" /\ "release" \notin forced => pending = {}
    BY DEF StateSays
  <2>2. ASSUME NEW w \in Waiters, Gone(w)
        PROVE  CASE answer[w] = "ok"        -> pending = {} \/ "release" \in forced
                 [] answer[w] = "failed"    -> "fail" \in forced
                 [] answer[w] = "timed out" -> expired # {} /\ w \notin Budgeted
                 [] answer[w] = "no"        -> expired # {} /\ w \in Budgeted
    BY <2>2 DEF Gone, BarrierTypeOK, AnswerSays, Answers
  <2>3. forced = {} => ~\E v, w \in Waiters : answer[v] = "ok" /\ answer[w] = "timed out"
    BY DEF AnswerSays
  <2>. QED  BY <2>1, <2>2, <2>3 DEF AnswersSound, StateSays
<1>. QED  BY <1>1, <1>2, PTL

------------------------------------------------------------------------------
(***************************************************************************)
(* The orchestrator.  Its stash is what the Deploys of this process gave,  *)
(* a settled Deploy gave something, and a runtime is only gone at the end. *)
(***************************************************************************)
Keys == Elements \X Instances

StashOK ==
  /\ processes \in Nat
  /\ DOMAIN outputs \subseteq Keys /\ DOMAIN gave \subseteq Keys
  /\ \A k \in DOMAIN gave : /\ gave[k].process \in Nat /\ gave[k].process <= processes
                            /\ gave[k].process = processes => k \in DOMAIN outputs
  /\ \A k \in DOMAIN outputs :
       k \in DOMAIN gave /\ gave[k].process = processes /\ gave[k].out = outputs[k]

DeployedGave ==
  \A e \in Elements, i \in Instances : Step("Deploy", e, i) \in settled => <<e, i>> \in DOMAIN gave

OrchestratorInv ==
  /\ StashOK /\ DeployedGave /\ OutputsFresh
  /\ ~ended => runtimes = Elements

LEMMA InitOrchestratorInv == InitOrchestrator => OrchestratorInv
BY DEF InitOrchestrator, OrchestratorInv, StashOK, DeployedGave, OutputsFresh, NoOutputs

(* A step without an outcome to tell: it says nothing new of any stash.    *)
Plain(outcome) == \/ outcome = Completed
                  \/ \E why \in {"MaterializeFailed", "ElementFailed", "DematerializeFailed",
                                  "MissingResultParameter"} : outcome = Failed(why)

LEMMA PlainFresh ==
  ASSUME NEW kind, NEW e, NEW i, NEW outcome, Plain(outcome),
         Did(kind, e, i, outcome)
  PROVE  OutputsFresh'
<1>1. last' = [kind |-> kind, element |-> e, instance |-> i, outcome |-> outcome, process |-> processes]
  BY DEF Did
<1>2. "parameter" \notin DOMAIN outcome
  BY DEF Plain, Completed, Failed
<1>3. "why" \in DOMAIN outcome => outcome.why \notin {"NoOutputsForInstance", "NoRuntimeForElement"}
  BY DEF Plain, Completed, Failed
<1>. QED  BY <1>1, <1>2, <1>3 DEF OutputsFresh

(* What Did leaves of the books, for a step that is no Deploy. *)
LEMMA DidKeeps ==
  ASSUME OrchestratorInv, NEW kind, NEW e \in Elements, NEW i \in Instances, NEW outcome,
         Did(kind, e, i, outcome), kind # "Deploy" \/ outcome.is # "Completed",
         UNCHANGED <<runtimes, outputs, gave>>
  PROVE  StashOK' /\ DeployedGave' /\ (~ended' => runtimes' = Elements)
<1>1. UNCHANGED <<processes, ended>>
  BY DEF Did
<1>2. StashOK'
  BY <1>1 DEF OrchestratorInv, StashOK
<1>3. ASSUME NEW x \in Elements, NEW j \in Instances, Step("Deploy", x, j) \in settled'
      PROVE  Step("Deploy", x, j) \in settled
  BY <1>3 DEF Did, Step
<1>4. DeployedGave'
  BY <1>3 DEF OrchestratorInv, DeployedGave, Step
<1>. QED  BY <1>1, <1>2, <1>4 DEF OrchestratorInv

LEMMA DeployInv ==
  ASSUME OrchestratorInv, NEW e \in Elements, NEW i \in Instances, Deploy(e, i)
  PROVE  OrchestratorInv'
<1>1. CASE Did("Deploy", e, i, Failed("MaterializeFailed")) /\ UNCHANGED <<outputs, gave>>
  <2>1. UNCHANGED runtimes /\ Plain(Failed("MaterializeFailed"))
    BY DEF Deploy, Plain
  <2>2. Failed("MaterializeFailed").is # "Completed"
    BY DEF Failed
  <2>3. OutputsFresh'
    BY <1>1, <2>1, PlainFresh
  <2>. QED  BY <1>1, <2>1, <2>2, <2>3, DidKeeps DEF OrchestratorInv
<1>2. ASSUME NEW o \in Outputs,
             outputs' = Stash(outputs, <<e, i>>, o),
             gave' = Stash(gave, <<e, i>>, [out |-> o, process |-> processes]),
             Did("Deploy", e, i, Completed)
      PROVE  OrchestratorInv'
  <2>1. UNCHANGED <<processes, ended, runtimes>>
    BY <1>2 DEF Did, Deploy
  <2>2. <<e, i>> \in Keys
    BY DEF Keys
  <2>. DEFINE g == [out |-> o, process |-> processes]
  <2>3. /\ DOMAIN outputs' = DOMAIN outputs \cup {<<e, i>>}
        /\ DOMAIN gave' = DOMAIN gave \cup {<<e, i>>}
        /\ \A k \in DOMAIN outputs' : outputs'[k] = IF k = <<e, i>> THEN o ELSE outputs[k]
        /\ \A k \in DOMAIN gave' : gave'[k] = IF k = <<e, i>> THEN g ELSE gave[k]
    BY <1>2 DEF Stash
  <2>4. g.out = o /\ g.process = processes
    OBVIOUS
  <2>5. StashOK'
    <3>. HIDE DEF g
    <3>. QED  BY <2>1, <2>2, <2>3, <2>4 DEF OrchestratorInv, StashOK
  <2>6. DeployedGave'
    <3>. SUFFICES ASSUME NEW x \in Elements, NEW j \in Instances, Step("Deploy", x, j) \in settled'
                  PROVE  <<x, j>> \in DOMAIN gave'
      BY DEF DeployedGave, Step
    <3>1. CASE Step("Deploy", x, j) \in settled
      BY <3>1, <2>3 DEF OrchestratorInv, DeployedGave
    <3>2. CASE Step("Deploy", x, j) = Step("Deploy", e, i)
      BY <3>2, <2>3 DEF Step
    <3>. QED  BY <3>1, <3>2, <1>2 DEF Did
  <2>7. OutputsFresh'
    BY <1>2, PlainFresh DEF Plain
  <2>. QED  BY <2>1, <2>5, <2>6, <2>7 DEF OrchestratorInv
<1>. QED  BY <1>1, <1>2 DEF Deploy

LEMMA SaveOutputInv ==
  ASSUME OrchestratorInv, NEW e \in Elements, NEW i \in Instances, NEW p, SaveOutput(e, i, p)
  PROVE  OrchestratorInv'
<1>. DEFINE k == <<e, i>>
            outcome == Saved(e, i, p)
<1>1. /\ last' = [kind |-> "SaveOutput", element |-> e, instance |-> i, outcome |-> outcome,
                  process |-> processes]
      /\ Did("SaveOutput", e, i, outcome)
      /\ UNCHANGED <<processes, ended, runtimes, outputs, gave>>
  BY DEF SaveOutput, Did
<1>2. k \in DOMAIN gave
  BY DEF SaveOutput, Due, OrchestratorInv, DeployedGave
<1>3. \/ \E why \in {"ElementFailed", "MissingResultParameter"} : outcome = Failed(why)
      \/ outcome = Volume
      \/ k \notin DOMAIN outputs /\ outcome = Failed("NoOutputsForInstance")
      \/ k \in DOMAIN outputs /\ p \in DOMAIN outputs[k] /\ outcome = Metric(p, outputs[k][p])
  BY DEF Saved
<1>. HIDE DEF outcome
<1>4. StashOK' /\ DeployedGave' /\ (~ended' => runtimes' = Elements)
  BY <1>1, DidKeeps
<1>5. OutputsFresh'
  <2>1. CASE \E why \in {"ElementFailed", "MissingResultParameter"} : outcome = Failed(why)
    <3>1. "parameter" \notin DOMAIN outcome
          /\ outcome.why \notin {"NoOutputsForInstance", "NoRuntimeForElement"}
      BY <2>1 DEF Failed
    <3>. QED  BY <3>1, <1>1 DEF OutputsFresh
  <2>2. CASE outcome = Volume
    <3>1. "parameter" \notin DOMAIN outcome /\ "why" \notin DOMAIN outcome
      BY <2>2 DEF Volume
    <3>. QED  BY <3>1, <1>1 DEF OutputsFresh
  <2>3. CASE k \notin DOMAIN outputs /\ outcome = Failed("NoOutputsForInstance")
    <3>1. "parameter" \notin DOMAIN outcome /\ outcome.why = "NoOutputsForInstance"
      BY <2>3 DEF Failed
    <3>2. gave[k].process < processes
      BY <1>2, <2>3 DEF OrchestratorInv, StashOK
    <3>. QED  BY <3>1, <3>2, <1>1 DEF OutputsFresh
  <2>4. CASE k \in DOMAIN outputs /\ p \in DOMAIN outputs[k] /\ outcome = Metric(p, outputs[k][p])
    <3>1. "why" \notin DOMAIN outcome /\ outcome.parameter = p /\ outcome.value = outputs[k][p]
      BY <2>4 DEF Metric
    <3>2. gave[k].process = processes /\ gave[k].out = outputs[k]
      BY <2>4 DEF OrchestratorInv, StashOK
    <3>. QED  BY <3>1, <3>2, <2>4, <1>1 DEF OutputsFresh
  <2>. QED  BY <1>3, <2>1, <2>2, <2>3, <2>4
<1>. QED  BY <1>4, <1>5 DEF OrchestratorInv

LEMMA NextOrchestratorInv ==
  OrchestratorInv /\ [NextOrchestrator]_orchestrator => OrchestratorInv'
<1>. SUFFICES ASSUME OrchestratorInv, [NextOrchestrator]_orchestrator PROVE OrchestratorInv'
  OBVIOUS
<1>1. ASSUME NEW e \in Elements, NEW i \in Instances, Await(e, i)
      PROVE  OrchestratorInv'
  <2>. PICK outcome : /\ Did("Await", e, i, outcome) /\ Plain(outcome)
                      /\ UNCHANGED <<runtimes, outputs, gave>>
    BY <1>1 DEF Await, Plain
  <2>1. OutputsFresh'
    BY PlainFresh
  <2>. QED  BY <2>1, DidKeeps DEF OrchestratorInv
<1>2. ASSUME NEW e \in Elements, NEW i \in Instances, Teardown(e, i)
      PROVE  OrchestratorInv'
  <2>. PICK outcome : /\ Did("Teardown", e, i, outcome) /\ Plain(outcome)
                      /\ UNCHANGED <<runtimes, outputs, gave>>
    BY <1>2 DEF Teardown, Plain
  <2>1. OutputsFresh'
    BY PlainFresh
  <2>. QED  BY <2>1, DidKeeps DEF OrchestratorInv
<1>3. ASSUME NEW e \in Elements, NEW i \in Instances, Refused("Deploy", e, i)
      PROVE  OrchestratorInv'
  <2>1. Did("Deploy", e, i, NoRuntime) /\ UNCHANGED <<runtimes, outputs, gave>> /\ ended
    BY <1>3 DEF Refused, OrchestratorInv
  <2>2. NoRuntime.is # "Completed"
    BY DEF NoRuntime
  <2>3. OutputsFresh'
    BY <2>1 DEF OutputsFresh, Did, NoRuntime
  <2>. QED  BY <2>1, <2>2, <2>3, DidKeeps DEF OrchestratorInv
<1>4. ASSUME NEW e \in Elements, Turn(e) PROVE OrchestratorInv'
  BY <1>4 DEF Turn, OrchestratorInv, StashOK, DeployedGave, OutputsFresh
<1>5. ASSUME shutdown PROVE OrchestratorInv'
  BY <1>5 DEF shutdown, OrchestratorInv, StashOK, DeployedGave, OutputsFresh
<1>6. ASSUME NewProcess PROVE OrchestratorInv'
  <2>1. StashOK'
    BY <1>6 DEF NewProcess, OrchestratorInv, StashOK
  <2>2. DeployedGave' /\ OutputsFresh' /\ (~ended' => runtimes' = Elements)
    BY <1>6 DEF NewProcess, OrchestratorInv, DeployedGave, OutputsFresh
  <2>. QED  BY <2>1, <2>2 DEF OrchestratorInv
<1>7. ASSUME UNCHANGED orchestrator PROVE OrchestratorInv'
  BY <1>7 DEF orchestrator, OrchestratorInv, StashOK, DeployedGave, OutputsFresh
<1>. QED
  BY <1>1, <1>2, <1>3, <1>4, <1>5, <1>6, <1>7, DeployInv, SaveOutputInv DEF NextOrchestrator

(* A saved metric is what the Deploy of that very instance gave, in this   *)
(* process, whatever failed, was tried again, resumed or shut down before; *)
(* outputs are missing only after a resume, runtimes only at the end.      *)
THEOREM SavedOutputsFresh == SpecOrchestrator => []OutputsFresh
<1>1. SpecOrchestrator => []OrchestratorInv
  BY InitOrchestratorInv, NextOrchestratorInv, PTL DEF SpecOrchestrator
<1>2. OrchestratorInv => OutputsFresh
  BY DEF OrchestratorInv
<1>. QED  BY <1>1, <1>2, PTL

------------------------------------------------------------------------------
(***************************************************************************)
(* The collector.  What was handed out ends with what the last stop took,  *)
(* and with what is open it is all that was collected, in order.           *)
(***************************************************************************)
CollectorTypeOK ==
  /\ open_trials \in [DOMAIN open_trials -> Seq(Pieces)]
  /\ finished \in [DOMAIN finished -> Seq(Pieces)]
  /\ metrics \in [Trials -> SUBSET (Pieces \X Values)]
  /\ collected \in [Trials -> Seq(Pieces)] /\ handed \in [Trials -> Seq(Pieces)]

HandedOut ==
  \A t \in Trials :
    /\ handed[t] \o At(open_trials, t) = collected[t]
    /\ \E before \in Seq(Pieces) : handed[t] = before \o At(finished, t)

OneValueEach == \A t \in Trials : \A m, n \in metrics[t] : m[1] = n[1] => m = n

CollectorInv == CollectorTypeOK /\ HandedOut /\ OneValueEach

LEMMA AtTyped ==
  ASSUME NEW f, f \in [DOMAIN f -> Seq(Pieces)], NEW k
  PROVE  At(f, k) \in Seq(Pieces)
BY EmptySeq DEF At

(* The end of a concatenation is its second part. *)
LEMMA EndOfConcat ==
  ASSUME NEW S, NEW before \in Seq(S), NEW end \in Seq(S)
  PROVE  LET all == before \o end
         IN  end = SubSeq(all, Len(all) - Len(end) + 1, Len(all))
<1>. DEFINE all == before \o end
<1>1. Len(all) = Len(before) + Len(end) /\ Len(before) \in Nat /\ Len(end) \in Nat
  BY ConcatProperties, LenProperties
<1>2. Len(all) - Len(end) + 1 = Len(before) + 1
  BY <1>1
<1>3. CASE end = <<>>
  <2>1. SubSeq(all, Len(before) + 1, Len(all)) = <<>>
    BY <1>1, <1>3, SubSeqEmpty
  <2>. QED  BY <2>1, <1>2, <1>3
<1>4. CASE end # <<>>
  <2>1. Len(end) >= 1
    BY <1>1, <1>4, EmptySeq
  <2>2. SubSeq(all, Len(before) + 1, Len(before) + Len(end)) = SubSeq(end, 1, Len(end))
    <3>1. Len(before) + 1 \in Len(before) + 1 .. Len(before) + Len(end)
          /\ Len(before) + Len(end) \in Len(before) + 1 .. Len(before) + Len(end)
      BY <1>1, <2>1
    <3>2. SubSeq(all, Len(before) + 1, Len(before) + Len(end))
            = SubSeq(end, Len(before) + 1 - Len(before), Len(before) + Len(end) - Len(before))
      BY <3>1, SubSeqOfConcat2
    <3>3. Len(before) + 1 - Len(before) = 1 /\ Len(before) + Len(end) - Len(before) = Len(end)
      BY <1>1
    <3>. QED  BY <3>2, <3>3
  <2>3. SubSeq(end, 1, Len(end)) = end
    BY SubSeqFull
  <2>. QED  BY <1>1, <1>2, <2>2, <2>3
<1>. QED  BY <1>3, <1>4

LEMMA InitCollectorInv == InitCollector => CollectorInv
<1>. SUFFICES ASSUME InitCollector PROVE CollectorInv
  OBVIOUS
<1>1. <<>> \in Seq(Pieces) /\ <<>> \o <<>> = <<>>
  BY ConcatEmptySeq, EmptySeq
<1>2. \A t \in Trials : At(open_trials, t) = <<>> /\ At(finished, t) = <<>>
  BY DEF InitCollector, Nobody, At
<1>3. CollectorTypeOK
  BY <1>1 DEF InitCollector, CollectorTypeOK, Nobody
<1>4. HandedOut
  BY <1>1, <1>2 DEF HandedOut, InitCollector
<1>5. OneValueEach
  BY DEF OneValueEach, InitCollector
<1>. QED  BY <1>3, <1>4, <1>5 DEF CollectorInv

LEMMA StartInv ==
  ASSUME CollectorInv, NEW t \in Trials, start_collection(t)
  PROVE  CollectorInv'
<1>1. UNCHANGED <<finished, metrics, collected, handed>>
  BY DEF start_collection
<1>2. At(open_trials, t) \in Seq(Pieces)
  BY AtTyped DEF CollectorInv, CollectorTypeOK
<1>3. \A x : At(open_trials', x) = At(open_trials, x)
  BY DEF start_collection, At, With
<1>4. CollectorTypeOK'
  BY <1>1, <1>2 DEF start_collection, With, CollectorInv, CollectorTypeOK
<1>5. HandedOut' /\ OneValueEach'
  BY <1>1, <1>3 DEF CollectorInv, HandedOut, OneValueEach
<1>. QED  BY <1>4, <1>5 DEF CollectorInv

LEMMA StopInv ==
  ASSUME CollectorInv, NEW t \in Trials, stop_collection(t)
  PROVE  CollectorInv'
<1>. DEFINE part == open_trials[t]
<1>1. /\ part \in Seq(Pieces) /\ part = At(open_trials, t)
      /\ finished' = With(finished, t, part) /\ open_trials' = Lacking(open_trials, t)
      /\ handed' = [handed EXCEPT ![t] = @ \o part]
      /\ UNCHANGED <<metrics, collected>>
  BY DEF stop_collection, CollectorInv, CollectorTypeOK, At
<1>2. handed[t] \in Seq(Pieces) /\ handed[t] \o part = collected[t] /\ collected[t] \in Seq(Pieces)
  BY <1>1 DEF CollectorInv, CollectorTypeOK, HandedOut
<1>. HIDE DEF part
<1>3. handed'[t] = collected[t] /\ \A x \in Trials : x # t => handed'[x] = handed[x]
  BY <1>1, <1>2 DEF CollectorInv, CollectorTypeOK
<1>4. CollectorTypeOK'
  BY <1>1, <1>2 DEF CollectorInv, CollectorTypeOK, With, Lacking
<1>5. HandedOut'
  <2>. SUFFICES ASSUME NEW x \in Trials
                PROVE  /\ handed'[x] \o At(open_trials', x) = collected[x]
                       /\ \E before \in Seq(Pieces) : handed'[x] = before \o At(finished', x)
    BY <1>1 DEF HandedOut
  <2>1. CASE x = t
    <3>1. At(open_trials', x) = <<>> /\ At(finished', x) = part
      BY <1>1, <2>1 DEF At, With, Lacking
    <3>2. collected[t] \o <<>> = collected[t]
      BY <1>2, ConcatEmptySeq
    <3>. QED  BY <1>2, <1>3, <2>1, <3>1, <3>2
  <2>2. CASE x # t
    <3>1. At(open_trials', x) = At(open_trials, x) /\ At(finished', x) = At(finished, x)
      BY <1>1, <2>2 DEF At, With, Lacking
    <3>. QED  BY <1>3, <2>2, <3>1 DEF CollectorInv, HandedOut
  <2>. QED  BY <2>1, <2>2
<1>6. OneValueEach'
  BY <1>1 DEF CollectorInv, OneValueEach
<1>. QED  BY <1>4, <1>5, <1>6 DEF CollectorInv

LEMMA CollectArtifactInv ==
  ASSUME CollectorInv, NEW t \in Trials, NEW piece \in Pieces, collect_artifact(t, piece)
  PROVE  CollectorInv'
<1>. DEFINE part == At(open_trials, t)
<1>1. /\ part \in Seq(Pieces) /\ open_trials' = With(open_trials, t, Append(part, piece))
      /\ collected' = [collected EXCEPT ![t] = Append(@, piece)]
      /\ UNCHANGED <<finished, metrics, handed>>
  BY AtTyped DEF collect_artifact, CollectorInv, CollectorTypeOK
<1>2. /\ handed[t] \in Seq(Pieces) /\ handed[t] \o part = collected[t]
      /\ collected[t] \in Seq(Pieces)
  BY DEF CollectorInv, CollectorTypeOK, HandedOut
<1>. HIDE DEF part
<1>3. handed[t] \o Append(part, piece) = Append(collected[t], piece)
  <2>1. <<piece>> \in Seq(Pieces) /\ Append(part, piece) = part \o <<piece>>
    BY <1>1, AppendIsConcat
  <2>2. handed[t] \o (part \o <<piece>>) = (handed[t] \o part) \o <<piece>>
    <3>. DEFINE before == handed[t]
                last_piece == <<piece>>
    <3>1. before \in Seq(Pieces) /\ part \in Seq(Pieces) /\ last_piece \in Seq(Pieces)
      BY <1>1, <1>2, <2>1
    <3>. HIDE DEF before, last_piece
    <3>2. (before \o part) \o last_piece = before \o (part \o last_piece)
      BY <3>1, ConcatAssociative
    <3>. QED  BY <3>2 DEF before, last_piece
  <2>3. Append(collected[t], piece) = collected[t] \o <<piece>>
    BY <1>2, AppendIsConcat
  <2>. QED  BY <1>2, <2>1, <2>2, <2>3
<1>4. Append(part, piece) \in Seq(Pieces) /\ Append(collected[t], piece) \in Seq(Pieces)
  BY <1>1, <1>2, AppendProperties
<1>5. CollectorTypeOK'
  BY <1>1, <1>4 DEF CollectorInv, CollectorTypeOK, With
<1>6. HandedOut'
  <2>. SUFFICES ASSUME NEW x \in Trials
                PROVE  handed[x] \o At(open_trials', x) = collected'[x]
    BY <1>1 DEF CollectorInv, HandedOut
  <2>1. At(open_trials', x) = IF x = t THEN Append(part, piece) ELSE At(open_trials, x)
    BY <1>1 DEF At, With, part
  <2>2. collected'[x] = IF x = t THEN Append(collected[t], piece) ELSE collected[x]
    BY <1>1 DEF CollectorInv, CollectorTypeOK
  <2>. QED  BY <1>3, <2>1, <2>2 DEF CollectorInv, HandedOut
<1>7. OneValueEach'
  BY <1>1 DEF CollectorInv, OneValueEach
<1>. QED  BY <1>5, <1>6, <1>7 DEF CollectorInv

LEMMA CollectMetricsInv ==
  ASSUME CollectorInv, NEW t \in Trials, NEW piece \in Pieces, NEW v \in Values,
         collect_metrics(t, piece, v)
  PROVE  CollectorInv'
<1>1. /\ UNCHANGED <<open_trials, finished, collected, handed>>
      /\ \A x \in Trials : metrics'[x] = IF x = t THEN {m \in metrics[t] : m[1] # piece} \cup {<<piece, v>>}
                                         ELSE metrics[x]
  BY DEF collect_metrics, CollectorInv, CollectorTypeOK
<1>2. CollectorTypeOK'
  BY <1>1 DEF collect_metrics, CollectorInv, CollectorTypeOK
<1>3. HandedOut'
  BY <1>1 DEF CollectorInv, HandedOut
<1>4. OneValueEach'
  <2>. SUFFICES ASSUME NEW x \in Trials, NEW m \in metrics'[x], NEW n \in metrics'[x], m[1] = n[1]
                PROVE  m = n
    BY DEF OneValueEach
  <2>1. CASE x # t
    BY <1>1, <2>1 DEF CollectorInv, OneValueEach
  <2>2. CASE x = t
    <3>1. \A k \in metrics'[x] : k = <<piece, v>> \/ (k \in metrics[t] /\ k[1] # piece)
      BY <1>1, <2>2
    <3>2. <<piece, v>>[1] = piece
      OBVIOUS
    <3>. QED  BY <3>1, <3>2 DEF CollectorInv, OneValueEach
  <2>. QED  BY <2>1, <2>2
<1>. QED  BY <1>2, <1>3, <1>4 DEF CollectorInv

(* Whatever the order of starts, stops and late pieces, every piece that   *)
(* is collected for a trial is handed out once, in order, or still open,   *)
(* and what is listed are the last pieces collected.                       *)
THEOREM PiecesCollectedOnce == SpecCollector => []CollectedOnce
<1>1. CollectorInv /\ [NextCollector]_collector => CollectorInv'
  <2>1. CollectorInv /\ UNCHANGED collector => CollectorInv'
    BY DEF collector, CollectorInv, CollectorTypeOK, HandedOut, OneValueEach
  <2>. QED
    BY <2>1, StartInv, StopInv, CollectArtifactInv, CollectMetricsInv DEF NextCollector
<1>2. SpecCollector => []CollectorInv
  BY <1>1, InitCollectorInv, PTL DEF SpecCollector
<1>3. CollectorInv => CollectedOnce
  <2>. SUFFICES ASSUME CollectorInv, NEW t \in Trials
                PROVE  LET listed == artifacts_of(t)
                           all    == collected[t]
                       IN  /\ handed[t] \o At(open_trials, t) = all
                           /\ listed = SubSeq(all, Len(all) - Len(listed) + 1, Len(all))
                           /\ \A m, n \in metrics[t] : m[1] = n[1] => m = n
    BY DEF CollectedOnce
  <2>1. PICK before \in Seq(Pieces) : collected[t] = before \o artifacts_of(t)
    <3>1. CASE t \in DOMAIN open_trials
      BY <3>1 DEF artifacts_of, At, CollectorInv, CollectorTypeOK, HandedOut
    <3>2. CASE t \notin DOMAIN open_trials
      <4>1. handed[t] \o <<>> = handed[t]
        BY ConcatEmptySeq DEF CollectorInv, CollectorTypeOK
      <4>2. At(open_trials, t) = <<>> /\ artifacts_of(t) = At(finished, t)
        BY <3>2 DEF At, artifacts_of
      <4>. QED  BY <4>1, <4>2 DEF CollectorInv, HandedOut
    <3>. QED  BY <3>1, <3>2
  <2>2. artifacts_of(t) \in Seq(Pieces)
    <3>1. At(finished, t) \in Seq(Pieces)
      BY AtTyped DEF CollectorInv, CollectorTypeOK
    <3>. QED  BY <3>1 DEF artifacts_of, CollectorInv, CollectorTypeOK
  <2>3. artifacts_of(t) = SubSeq(collected[t], Len(collected[t]) - Len(artifacts_of(t)) + 1, Len(collected[t]))
    BY <2>1, <2>2, EndOfConcat
  <2>. QED  BY <2>3 DEF CollectorInv, HandedOut, OneValueEach
<1>. QED  BY <1>2, <1>3, PTL
==============================================================================
