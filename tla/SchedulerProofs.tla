--------------------------- MODULE SchedulerProofs ---------------------------
(***************************************************************************)
(* The safety of the scheduler, for every set of plans and every policy.   *)
(***************************************************************************)
EXTENDS SchedulerProtocol, SumProofs

(***************************************************************************)
(* The least fixpoint behind Cascade: contained, closed, and least.        *)
(***************************************************************************)
LEMMA DownstreamIsIn ==
  ASSUME NEW g, NEW F, NEW W
  PROVE  DownstreamIn(g, F, W) \subseteq W
BY DEF DownstreamIn

LEMMA DownstreamClosed ==
  ASSUME NEW g, NEW F, NEW W, NEW c \in W, NEW d \in g[c],
         d \in F \cup DownstreamIn(g, F, W), c \in Steps
  PROVE  c \in DownstreamIn(g, F, W)
<1>. SUFFICES ASSUME NEW X \in SUBSET W,
                     Dependents(g, F \cup X) \cap W \subseteq X
              PROVE  c \in X
  BY DEF DownstreamIn
<1>1. DownstreamIn(g, F, W) \subseteq X
  BY DEF DownstreamIn
<1>2. c \in Dependents(g, F \cup X)
  BY <1>1 DEF Dependents
<1>. QED  BY <1>2

LEMMA DownstreamLeast ==
  ASSUME NEW g, NEW F, NEW W, NEW X \in SUBSET W,
         \A c \in W \ X : c \in Steps => g[c] \cap (F \cup X) = {}
  PROVE  DownstreamIn(g, F, W) \subseteq X
BY DEF DownstreamIn, Dependents

------------------------------------------------------------------------------
(***************************************************************************)
(* The inductive invariant.                                                *)
(***************************************************************************)
StepSets == [completed : SUBSET Steps, skipped : SUBSET Steps, failed : SUBSET Steps]

(* Steps still to be replayed. *)
Remaining == seed.completed \cup seed.skipped \cup seed.failed

(* Sound, counting the replay as done. *)
SoundInTheEnd == Sound \cup seed.completed \cup (seed.skipped \ cascaded)

(* The replay only names steps that wait, each once, in its order. *)
ReplayOK ==
  /\ Remaining \subseteq pending \cup ready
  /\ seed.completed \cap (seed.skipped \cup seed.failed) = {}
  /\ seed.skipped \cap seed.failed = {}
  /\ seed.completed # {} => skipped = {} /\ failed = {}
  /\ seed.skipped # {} => failed = {}
  /\ seed # NoSeed => running = {} /\ unbooked = {}

(* What ran, or will have run, has only sound dependencies. *)
SoundOK ==
  \A s \in running \cup failed \cup seed.failed \cup SoundInTheEnd :
    plan.deps[s] \subseteq SoundInTheEnd

ReadyOK == /\ \A s \in ready \ Remaining : plan.deps[s] \subseteq Sound
           /\ \A s \in ready \cap pending : plan.deps[s] = {}

(* Failures and their cascades block all their dependents. *)
CascadeOK ==
  /\ cascaded \subseteq skipped \cup seed.skipped
  /\ \A s \in Steps : plan.deps[s] \cap (failed \cup cascaded) # {} => s \in cascaded
  /\ unbooked \subseteq cascaded
  /\ \A s \in unbooked : plan.deps[s] \cap (cascaded \ unbooked) = {}

NoLostWakeup ==
  \A s \in pending \ ready : ~(plan.deps[s] \subseteq completed \cup skipped)

(* A checkpoint is as closed as the state it was taken of. *)
SavedSound == saved.at.completed \cup (saved.at.skipped \ saved.cascaded)
SavedOK ==
  saved # NoCheckpoint =>
    /\ saved.plan \in Plans /\ saved.at \in StepSets
    /\ saved.at.completed \cap (saved.at.skipped \cup saved.at.failed) = {}
    /\ saved.at.skipped \cap saved.at.failed = {}
    /\ saved.cascaded \subseteq saved.at.skipped
    /\ \A s \in SavedSound \cup saved.at.failed : saved.plan.deps[s] \subseteq SavedSound
    /\ \A s \in Steps : saved.plan.deps[s] \cap saved.cascaded # {} => s \in saved.cascaded

IInv == /\ TypeOK /\ OneStage /\ ReplayOK /\ SoundOK /\ ReadyOK
        /\ CascadeOK /\ NoLostWakeup /\ SavedOK
LEMMA PlanTyped ==
  ASSUME NEW p \in Plans
  PROVE  p.deps \in [Steps -> SUBSET Steps] /\ p.trials \in Nat \ {0}
BY SchedulerAssumption, ProtocolAssumption DEF IsPlan

------------------------------------------------------------------------------
LEMMA InitIInv == Init => IInv
<1>. SUFFICES ASSUME Init PROVE IInv
  OBVIOUS
<1>. USE DEF Init, NoSeed
<1>1. TypeOK
  BY SchedulerAssumption, ProtocolAssumption DEF TypeOK
<1>2. OneStage /\ ReplayOK
  BY DEF OneStage, ReplayOK, Remaining
<1>3. SoundOK /\ ReadyOK /\ CascadeOK
  BY DEF SoundOK, ReadyOK, CascadeOK, SoundInTheEnd, Sound, Remaining
<1>4. NoLostWakeup
  BY PlanTyped DEF NoLostWakeup
<1>5. SavedOK
  BY DEF SavedOK
<1>. QED  BY <1>1, <1>2, <1>3, <1>4, <1>5 DEF IInv

LEMMA ExecuteIInv ==
  ASSUME IInv, NEW p \in Plans, Execute(p)
  PROVE  IInv'
<1>. USE DEF Execute, initialise, NoSeed
<1>1. TypeOK'
  BY SchedulerAssumption, ProtocolAssumption DEF IInv, TypeOK
<1>2. OneStage' /\ ReplayOK'
  BY DEF OneStage, ReplayOK, Remaining, NoSeed
<1>3. SoundOK' /\ ReadyOK' /\ CascadeOK'
  BY DEF SoundOK, ReadyOK, CascadeOK, SoundInTheEnd, Sound, Remaining
<1>4. NoLostWakeup'
  BY PlanTyped DEF NoLostWakeup
<1>5. SavedOK'
  BY DEF IInv, SavedOK, SavedSound
<1>. QED  BY <1>1, <1>2, <1>3, <1>4, <1>5 DEF IInv

(* A replay of closed outcomes, of a plan the scheduler is made ready for. *)
Closed(p, at, blocked) ==
  LET settled == at.completed \cup (at.skipped \ blocked)
  IN /\ at \in StepSets
     /\ at.completed \cap (at.skipped \cup at.failed) = {} /\ at.skipped \cap at.failed = {}
     /\ blocked \subseteq at.skipped
     /\ \A s \in settled \cup at.failed : p.deps[s] \subseteq settled
     /\ \A s \in Steps : p.deps[s] \cap blocked # {} => s \in blocked

LEMMA ReplayBegins ==
  ASSUME policy \in Policies, NEW p \in Plans, NEW at, NEW blocked, Closed(p, at, blocked),
         initialise(p), seed' = at, cascaded' = blocked, unbooked' = {}, SavedOK'
  PROVE  IInv'
<1>. USE DEF initialise
<1>1. TypeOK'
  BY SchedulerAssumption, ProtocolAssumption DEF TypeOK, StepSets, Closed
<1>2. OneStage'
  BY DEF OneStage
<1>3. ReplayOK'
  BY DEF ReplayOK, Remaining, StepSets, Closed
<1>4. SoundOK'
  <2>1. SoundInTheEnd' = at.completed \cup (at.skipped \ blocked)
    BY DEF SoundInTheEnd, Sound, StepSets, Closed
  <2>. QED  BY <2>1 DEF SoundOK, Closed
<1>5. ReadyOK'
  BY PlanTyped DEF ReadyOK
<1>6. CascadeOK'
  BY DEF CascadeOK, Closed
<1>7. NoLostWakeup'
  BY PlanTyped DEF NoLostWakeup
<1>. QED  BY <1>1, <1>2, <1>3, <1>4, <1>5, <1>6, <1>7 DEF IInv

LEMMA ResumeIInv ==
  ASSUME IInv, Resume
  PROVE  IInv'
<1>1. saved.plan \in Plans /\ Closed(saved.plan, saved.at, saved.cascaded)
  BY DEF Resume, IInv, SavedOK, SavedSound, Closed
<1>2. SavedOK'
  BY DEF Resume, IInv, SavedOK, SavedSound
<1>3. policy \in Policies
  BY DEF IInv, TypeOK
<1>. QED  BY <1>1, <1>2, <1>3, ReplayBegins DEF Resume

(* What settling s leaves of the invariant, whoever settles it. *)
LEMMA SettledNoLostWakeup ==
  ASSUME IInv, NEW s \in Steps, NEW done, NEW skips, mark_settled(s, done, skips),
         done \cup skips = completed \cup skipped \cup {s}
  PROVE  NoLostWakeup'
<1>. USE DEF mark_settled
<1>. SUFFICES ASSUME NEW y \in pending' \ ready',
                     plan.deps[y] \subseteq completed \cup skipped \cup {s}
              PROVE  FALSE
  BY DEF NoLostWakeup
<1>1. y \in pending \ ready /\ y # s /\ y \notin Promoted(s, done \cup skips)
  OBVIOUS
<1>2. ~(plan.deps[y] \subseteq completed \cup skipped)
  BY <1>1 DEF IInv, NoLostWakeup
<1>3. y \in Dependents(plan.deps, {s})
  BY <1>1, <1>2 DEF Dependents, IInv, TypeOK
<1>. QED  BY <1>1, <1>3 DEF Promoted

LEMMA PromotedFacts ==
  ASSUME NEW s, NEW settled
  PROVE  /\ Promoted(s, settled) \subseteq pending \ {s}
         /\ \A d \in Promoted(s, settled) : plan.deps[d] \subseteq settled
BY DEF Promoted

LEMMA SeedCompletedIInv ==
  ASSUME IInv, NEW s \in Steps, SeedCompleted(s)
  PROVE  IInv'
<1>. USE DEF SeedCompleted, mark_completed, mark_settled
<1>0. /\ s \in seed.completed /\ s \in pending \cup ready
      /\ skipped = {} /\ failed = {} /\ running = {}
      /\ s \notin seed.skipped \cup seed.failed
      /\ seed' = [seed EXCEPT !.completed = @ \ {s}]
      /\ seed'.completed = seed.completed \ {s}
      /\ seed'.skipped = seed.skipped /\ seed'.failed = seed.failed
  BY DEF IInv, ReplayOK, Remaining, TypeOK, NoSeed
<1>. DEFINE P == Promoted(s, completed \cup {s} \cup skipped)
<1>p. P \subseteq pending \ {s} /\ \A d \in P : plan.deps[d] \subseteq completed \cup {s}
  BY <1>0, PromotedFacts
<1>. HIDE DEF P
<1>m. /\ ready' = (ready \ {s}) \cup P /\ pending' = pending \ ({s} \cup P)
      /\ running' = {} /\ completed' = completed \cup {s}
      /\ skipped' = {} /\ failed' = {} /\ cascaded' = cascaded
      /\ policy' = policy /\ plan' = plan
      /\ unbooked' = unbooked /\ saved' = saved /\ priorities' = priorities
      /\ fair_cursor' = fair_cursor
  BY <1>0 DEF P
<1>1. TypeOK'
  BY <1>0, <1>m, <1>p DEF IInv, TypeOK
<1>2. OneStage'
  <2>1. OneStage
    BY DEF IInv
  <2>. HIDE DEF IInv, SeedCompleted, SeedSkipped, mark_completed, mark_skipped, mark_settled
  <2>. QED  BY <1>0, <1>m, <1>p, <2>1 DEF OneStage
<1>3. ReplayOK'
  BY <1>0, <1>m, <1>p DEF IInv, ReplayOK, Remaining, NoSeed
<1>4. SoundOK'
  <2>1. SoundInTheEnd' = SoundInTheEnd
    BY <1>0, <1>m DEF SoundInTheEnd, Sound
  <2>. QED  BY <1>0, <1>m, <2>1 DEF IInv, SoundOK
<1>5. ReadyOK'
  <2>1. Sound' = completed \cup {s} /\ Sound = completed
    BY <1>0, <1>m DEF Sound
  <2>. QED  BY <1>0, <1>m, <1>p, <2>1 DEF IInv, ReadyOK, Remaining
<1>6. CascadeOK'
  BY <1>0, <1>m DEF IInv, CascadeOK
<1>7. NoLostWakeup'
  <2>1. mark_settled(s, completed \cup {s}, skipped)
    OBVIOUS
  <2>. HIDE DEF mark_settled, mark_completed, SeedCompleted
  <2>. QED  BY <2>1, SettledNoLostWakeup
<1>8. SavedOK'
  BY <1>m DEF IInv, SavedOK, SavedSound
<1>. QED  BY <1>1, <1>2, <1>3, <1>4, <1>5, <1>6, <1>7, <1>8 DEF IInv
LEMMA SeedSkippedIInv ==
  ASSUME IInv, NEW s \in Steps, SeedSkipped(s)
  PROVE  IInv'
<1>. USE DEF SeedSkipped, mark_skipped, mark_settled
<1>0. /\ seed.completed = {} /\ s \in seed.skipped /\ s \in pending \cup ready
      /\ failed = {} /\ running = {} /\ s \notin seed.failed
      /\ seed' = [seed EXCEPT !.skipped = @ \ {s}]
      /\ seed'.completed = {}
      /\ seed'.skipped = seed.skipped \ {s} /\ seed'.failed = seed.failed
  BY DEF IInv, ReplayOK, Remaining, TypeOK, NoSeed
<1>. DEFINE P == Promoted(s, completed \cup (skipped \cup {s}))
<1>p. P \subseteq pending \ {s} /\ \A d \in P : plan.deps[d] \subseteq completed \cup skipped \cup {s}
  BY PromotedFacts
<1>. HIDE DEF P
<1>m. /\ ready' = (ready \ {s}) \cup P /\ pending' = pending \ ({s} \cup P)
      /\ running' = {} /\ completed' = completed
      /\ skipped' = skipped \cup {s} /\ failed' = {} /\ cascaded' = cascaded
      /\ policy' = policy /\ plan' = plan /\ unbooked' = unbooked /\ saved' = saved
      /\ priorities' = priorities /\ fair_cursor' = fair_cursor
  BY <1>0 DEF P
<1>1. TypeOK'
  BY <1>0, <1>m, <1>p DEF IInv, TypeOK
<1>2. OneStage'
  <2>1. OneStage
    BY DEF IInv
  <2>. HIDE DEF IInv, SeedCompleted, SeedSkipped, mark_completed, mark_skipped, mark_settled
  <2>. QED  BY <1>0, <1>m, <1>p, <2>1 DEF OneStage
<1>3. ReplayOK'
  BY <1>0, <1>m, <1>p DEF IInv, ReplayOK, Remaining, NoSeed
<1>4. SoundOK'
  <2>1. SoundInTheEnd' = SoundInTheEnd
    BY <1>0, <1>m DEF SoundInTheEnd, Sound
  <2>. QED  BY <1>0, <1>m, <2>1 DEF IInv, SoundOK
<1>5. ReadyOK'
  <2>1. SUFFICES ASSUME NEW d \in P, d \notin Remaining'
                 PROVE  plan.deps[d] \subseteq Sound'
    BY <1>0, <1>m DEF IInv, ReadyOK, Remaining, Sound
  <2>2. d \notin cascaded
    \* a waiting step that is cascaded is still to be replayed
    BY <2>1, <1>0, <1>m, <1>p DEF IInv, CascadeOK, OneStage, Remaining
  <2>3. plan.deps[d] \cap cascaded = {}
    BY <2>1, <2>2, <1>p DEF IInv, CascadeOK, TypeOK
  <2>. QED  BY <2>3, <2>1, <1>p, <1>m DEF Sound
<1>6. CascadeOK'
  BY <1>0, <1>m DEF IInv, CascadeOK
<1>7. NoLostWakeup'
  <2>1. mark_settled(s, completed, skipped \cup {s})
    OBVIOUS
  <2>. HIDE DEF mark_settled, mark_skipped, SeedSkipped
  <2>. QED  BY <2>1, SettledNoLostWakeup
<1>8. SavedOK'
  BY <1>m DEF IInv, SavedOK, SavedSound
<1>. QED  BY <1>1, <1>2, <1>3, <1>4, <1>5, <1>6, <1>7, <1>8 DEF IInv

(***************************************************************************)
(* A failure, replayed or new: s is running or still to be replayed as     *)
(* failed, so only sound steps are upstream of it.                         *)
(***************************************************************************)
Failing(s) == /\ s \in running \cup seed.failed /\ s \in Steps
              /\ seed.completed = {} /\ seed.skipped = {}
              /\ seed # NoSeed => running = {}
              /\ s \in running => seed.failed = {}

LEMMA CascadeFacts ==
  ASSUME IInv, NEW s, Failing(s)
  PROVE  /\ Cascade(s) \subseteq (pending \cup ready) \ ({s} \cup seed.failed)
         /\ Cascade(s) \cap ready \cap pending = {}
         /\ \A c \in Steps : plan.deps[c] \cap (failed \cup cascaded \cup {s} \cup Cascade(s)) # {}
                              => c \in cascaded \cup Cascade(s)
         /\ \A c \in Cascade(s) : plan.deps[c] \cap cascaded = {}
         /\ s \notin completed \cup skipped \cup failed \cup cascaded
<1>. DEFINE W == (pending \cup ready) \ {s}
            K == Cascade(s)
<1>t. W \subseteq Steps
  BY DEF IInv, TypeOK
<1>1. /\ s \notin completed \cup skipped \cup failed
      /\ SoundInTheEnd = Sound /\ cascaded \subseteq skipped
  BY DEF Failing, IInv, OneStage, ReplayOK, Remaining, SoundInTheEnd, CascadeOK
<1>2. \A f \in {s} \cup running \cup failed \cup seed.failed \cup Sound : plan.deps[f] \subseteq Sound
  BY <1>1 DEF Failing, IInv, SoundOK
<1>3. Sound \cap (W \cup {s}) = {}
  BY <1>1 DEF Sound, IInv, OneStage
<1>4. K = DownstreamIn(plan.deps, {s}, W)
  BY DEF Cascade
<1>5. K \subseteq W \ seed.failed /\ \A c \in K : plan.deps[c] # {}
  <2>. DEFINE X == {c \in W \ seed.failed : plan.deps[c] # {}}
  <2>1. \A c \in W \ X : plan.deps[c] \cap ({s} \cup X) = {}
    BY <1>2, <1>3
  <2>2. X \in SUBSET W
    OBVIOUS
  <2>. HIDE DEF X, W, K
  <2>3. DownstreamIn(plan.deps, {s}, W) \subseteq X
    BY <2>1, <2>2, DownstreamLeast
  <2>. QED  BY <2>3, <1>4 DEF X
<1>6. ASSUME NEW c \in W, plan.deps[c] \cap ({s} \cup K) # {}
      PROVE  c \in K
  <2>. HIDE DEF W, K
  <2>. PICK d \in plan.deps[c] : d \in {s} \cup K
    BY <1>6
  <2>. QED  BY <1>4, <1>t, <1>6, DownstreamClosed
<1>7. \A c \in Steps : plan.deps[c] \cap (failed \cup cascaded) # {} => c \in cascaded
  BY DEF IInv, CascadeOK
<1>8. ASSUME NEW c \in Steps, plan.deps[c] \cap ({s} \cup K) # {}
      PROVE  c \in cascaded \cup K
  <2>1. c \notin {s} \cup running \cup failed \cup Sound
    BY <1>8, <1>2, <1>3, <1>5
  <2>2. c \in W \/ c \in skipped
    BY <2>1 DEF IInv, OneStage, Sound
  <2>. QED  BY <2>1, <2>2, <1>6, <1>8 DEF Sound
<1>9. K \cap ready \cap pending = {}
  BY <1>5 DEF IInv, ReadyOK
<1>. QED  BY <1>1, <1>5, <1>7, <1>8, <1>9, <1>t DEF IInv, OneStage

(* What mark_failed leaves of the invariant, for both its callers. *)
LEMMA FailedIInv ==
  ASSUME IInv, NEW s, Failing(s), mark_failed(s),
         cascaded' = cascaded \cup Cascade(s),
         saved' = saved, seed' \in StepSets,
         seed'.completed = {}, seed'.skipped = {}, seed'.failed = seed.failed \ {s},
         unbooked' \in {{}, Cascade(s)}, seed' # NoSeed => unbooked' = {} /\ running' = {}
  PROVE  IInv'
<1>. DEFINE K == Cascade(s)
<1>k. /\ K \subseteq (pending \cup ready) \ ({s} \cup seed.failed)
      /\ K \cap ready \cap pending = {}
      /\ \A c \in Steps : plan.deps[c] \cap (failed \cup cascaded \cup {s} \cup K) # {}
                           => c \in cascaded \cup K
      /\ \A c \in K : plan.deps[c] \cap cascaded = {}
      /\ s \notin completed \cup skipped \cup failed \cup cascaded
      /\ s \in Steps
  BY CascadeFacts DEF Failing
<1>. HIDE DEF K
<1>m. /\ running' = running \ {s} /\ pending' = pending \ ({s} \cup K)
      /\ ready' = ready \ ({s} \cup (K \ pending))
      /\ failed' = failed \cup {s} /\ skipped' = skipped \cup K
      /\ completed' = completed /\ policy' = policy /\ plan' = plan
      /\ priorities' = priorities /\ fair_cursor' = fair_cursor
      /\ cascaded' = cascaded \cup K /\ unbooked' \in {{}, K}
  BY DEF mark_failed, K
<1>s. /\ s \in running \cup pending \cup ready /\ SoundInTheEnd = Sound
      /\ plan.deps[s] \subseteq Sound
  BY DEF Failing, IInv, ReplayOK, Remaining, SoundInTheEnd, SoundOK
<1>d. Sound' = Sound /\ SoundInTheEnd' = Sound'
  BY <1>m, <1>k DEF Sound, SoundInTheEnd, IInv, OneStage, StepSets
<1>1. TypeOK'
  BY <1>m, <1>k DEF IInv, TypeOK, StepSets
<1>2. OneStage'
  BY <1>m, <1>k, <1>s DEF IInv, OneStage
<1>3. ReplayOK'
  BY <1>m, <1>k, <1>s DEF IInv, ReplayOK, Remaining, StepSets
<1>4. SoundOK'
  BY <1>m, <1>s, <1>d DEF IInv, SoundOK
<1>5. ReadyOK'
  BY <1>m, <1>k, <1>d DEF IInv, ReadyOK, Remaining, Failing
<1>6. CascadeOK'
  BY <1>m, <1>k DEF IInv, CascadeOK, Failing
<1>7. NoLostWakeup'
  <2>. SUFFICES ASSUME NEW y \in pending' \ ready',
                       plan.deps[y] \subseteq completed \cup skipped \cup K
                PROVE  FALSE
    BY <1>m DEF NoLostWakeup
  <2>1. y \in pending \ ready /\ y \notin K /\ y \in Steps
    BY <1>m, <1>k DEF IInv, TypeOK
  <2>2. plan.deps[y] \cap K # {}
    BY <2>1 DEF IInv, NoLostWakeup
  <2>3. y \in cascaded
    BY <2>1, <2>2, <1>k
  <2>. QED  BY <2>1, <2>3, <1>k DEF IInv, CascadeOK, OneStage, Failing
<1>8. SavedOK'
  BY DEF IInv, SavedOK, SavedSound
<1>. QED  BY <1>1, <1>2, <1>3, <1>4, <1>5, <1>6, <1>7, <1>8 DEF IInv

LEMMA SeedFailedIInv ==
  ASSUME IInv, NEW s \in Steps, SeedFailed(s)
  PROVE  IInv'
<1>1. Failing(s)
  BY DEF SeedFailed, Failing, IInv, ReplayOK, OneStage, Remaining, NoSeed
<1>2. /\ seed' \in StepSets /\ seed'.completed = {} /\ seed'.skipped = {}
      /\ seed'.failed = seed.failed \ {s} /\ unbooked' = {} /\ running' = {}
  BY DEF SeedFailed, mark_failed, IInv, TypeOK, StepSets, ReplayOK, NoSeed
<1>. QED  BY <1>1, <1>2, FailedIInv DEF SeedFailed

LEMMA FailIInv ==
  ASSUME IInv, NEW s \in Steps, NEW halt \in BOOLEAN, Fail(s, halt)
  PROVE  IInv'
<1>1. Failing(s)
  BY DEF Fail, Looping, Failing, NoSeed
<1>2. /\ seed' = NoSeed /\ seed' \in StepSets /\ seed'.completed = {}
      /\ seed'.skipped = {} /\ seed'.failed = seed.failed \ {s}
  BY DEF Fail, Looping, StepSets, NoSeed
<1>. QED  BY <1>1, <1>2, FailedIInv DEF Fail

LEMMA SettleIInv ==
  ASSUME IInv, NEW s \in Steps, Complete(s) \/ Skip(s)
  PROVE  IInv'
<1>0. /\ seed = NoSeed /\ seed' = NoSeed /\ unbooked = {} /\ s \in running
      /\ plan' = plan /\ saved' = saved /\ unbooked' = {} /\ cascaded' = cascaded
  BY DEF Complete, Skip, Looping, mark_completed, mark_skipped, mark_settled
<1>. PICK done, skips :
       /\ mark_settled(s, done, skips)
       /\ \/ done = completed \cup {s} /\ skips = skipped
          \/ done = completed /\ skips = skipped \cup {s}
  BY DEF Complete, Skip, mark_completed, mark_skipped
<1>. DEFINE P == Promoted(s, done \cup skips)
<1>p. P \subseteq pending \ {s} /\ \A d \in P : plan.deps[d] \subseteq completed \cup skipped \cup {s}
  BY PromotedFacts
<1>. HIDE DEF P
<1>m. /\ ready' = (ready \ {s}) \cup P /\ pending' = pending \ ({s} \cup P)
      /\ running' = running \ {s} /\ completed' = done
      /\ skipped' = skips /\ failed' = failed /\ policy' = policy
      /\ priorities' = priorities /\ fair_cursor' = fair_cursor
  BY DEF P, mark_settled
<1>n. seed = NoSeed /\ Remaining = {} /\ Remaining' = {} /\ s \notin cascaded
  BY <1>0 DEF Remaining, NoSeed, IInv, CascadeOK, OneStage
<1>d. Sound' = Sound \cup {s} /\ SoundInTheEnd = Sound /\ SoundInTheEnd' = Sound'
  BY <1>0, <1>m, <1>n DEF Sound, SoundInTheEnd, NoSeed
<1>1. TypeOK'
  BY <1>0, <1>m, <1>p DEF IInv, TypeOK
<1>2. OneStage'
  <2>1. OneStage
    BY DEF IInv
  <2>. HIDE DEF IInv, SeedCompleted, SeedSkipped, mark_completed, mark_skipped, mark_settled
  <2>. QED  BY <1>0, <1>m, <1>p, <2>1 DEF OneStage
<1>3. ReplayOK'
  BY <1>0, <1>m DEF IInv, ReplayOK, Remaining, NoSeed
<1>4. SoundOK'
  BY <1>0, <1>m, <1>d DEF IInv, SoundOK
<1>5. ReadyOK'
  <2>1. SUFFICES ASSUME NEW d \in P
                 PROVE  plan.deps[d] \subseteq Sound'
    BY <1>0, <1>m, <1>n, <1>d, <1>p DEF IInv, ReadyOK
  <2>2. d \notin cascaded
    BY <2>1, <1>n, <1>p DEF IInv, CascadeOK, OneStage, NoSeed
  <2>3. plan.deps[d] \cap cascaded = {}
    BY <2>1, <2>2, <1>p DEF IInv, CascadeOK, TypeOK
  <2>. QED  BY <2>3, <2>1, <1>p, <1>d DEF Sound
<1>6. CascadeOK'
  BY <1>0, <1>m DEF IInv, CascadeOK
<1>7. NoLostWakeup'
  BY SettledNoLostWakeup
<1>8. SavedOK'
  BY <1>0 DEF IInv, SavedOK, SavedSound
<1>. QED  BY <1>1, <1>2, <1>3, <1>4, <1>5, <1>6, <1>7, <1>8 DEF IInv

(* What next_steps does to the invariant, whichever steps it picks. *)
LEMMA PickedIInv ==
  ASSUME IInv, Looping, NEW picked \in SUBSET ready,
         ready' = ready \ picked, pending' = pending \ picked, running' = running \cup picked,
         fair_cursor' \in Nat, UNCHANGED <<policy, plan, completed, failed, skipped, priorities>>,
         UNCHANGED <<seed, saved, cascaded, unbooked>>
  PROVE  IInv'
<1>0. /\ seed = NoSeed /\ seed' = NoSeed /\ unbooked = {} /\ plan' = plan
      /\ saved' = saved /\ unbooked' = {} /\ cascaded' = cascaded
  BY DEF Looping
<1>n. Remaining = {} /\ Remaining' = {}
  BY <1>0 DEF Remaining, NoSeed
<1>d. Sound' = Sound /\ SoundInTheEnd = Sound /\ SoundInTheEnd' = Sound
  BY <1>0 DEF Sound, SoundInTheEnd, NoSeed
<1>1. TypeOK'
  BY <1>0 DEF IInv, TypeOK
<1>2. OneStage'
  BY DEF IInv, OneStage
<1>3. ReplayOK'
  BY <1>0, <1>n DEF IInv, ReplayOK, NoSeed, Remaining
<1>4. SoundOK'
  BY <1>0, <1>n, <1>d DEF IInv, SoundOK, ReadyOK
<1>5. ReadyOK'
  BY <1>0, <1>n, <1>d DEF IInv, ReadyOK
<1>6. CascadeOK'
  BY <1>0 DEF IInv, CascadeOK
<1>7. NoLostWakeup'
  BY <1>0 DEF IInv, NoLostWakeup
<1>8. SavedOK'
  BY <1>0 DEF IInv, SavedOK, SavedSound
<1>. QED  BY <1>1, <1>2, <1>3, <1>4, <1>5, <1>6, <1>7, <1>8 DEF IInv

LEMMA NextStepsIInv ==
  ASSUME IInv, Looping, NEW max \in Nat, NEW free, next_steps(max, free),
         UNCHANGED <<seed, saved, cascaded, unbooked>>
  PROVE  IInv'
<1>1. PICK picked \in SUBSET ready :
       /\ ready' = ready \ picked /\ pending' = pending \ picked
       /\ running' = running \cup picked
       /\ fair_cursor' = IF policy = "Fair" THEN (fair_cursor + max) % plan.trials
                         ELSE fair_cursor
       /\ UNCHANGED <<policy, plan, completed, failed, skipped, priorities>>
  BY DEF next_steps
<1>2. fair_cursor' \in Nat
  BY <1>1, PlanTyped, SchedulerAssumption, ProtocolAssumption DEF IInv, TypeOK
<1>. HIDE DEF IInv
<1>. QED  BY <1>1, <1>2, PickedIInv

LEMMA DispatchIInv ==
  ASSUME IInv, NEW max \in 1..MaxParallel, NEW free \in 0..Capacity, Dispatch(max, free)
  PROVE  IInv'
BY NextStepsIInv DEF Dispatch

LEMMA SetPriorityIInv ==
  ASSUME IInv, NEW s \in Steps, NEW p \in Priorities, SetPriority(s, p)
  PROVE  IInv'
<1>. USE DEF SetPriority, set_priority, sets
<1>1. TypeOK'
  BY DEF IInv, TypeOK
<1>2. OneStage' /\ ReplayOK' /\ SoundOK' /\ ReadyOK'
  BY DEF IInv, OneStage, ReplayOK, SoundOK, ReadyOK, Remaining, SoundInTheEnd, Sound
<1>3. CascadeOK' /\ NoLostWakeup' /\ SavedOK'
  BY DEF IInv, CascadeOK, NoLostWakeup, SavedOK, SavedSound
<1>. QED  BY <1>1, <1>2, <1>3 DEF IInv

LEMMA CheckpointIInv ==
  ASSUME IInv, Checkpoint
  PROVE  IInv'
<1>. USE DEF Checkpoint, inner, sets
<1>1. TypeOK' /\ OneStage' /\ ReplayOK' /\ SoundOK' /\ ReadyOK' /\ CascadeOK' /\ NoLostWakeup'
  BY DEF IInv, TypeOK, OneStage, ReplayOK, SoundOK, ReadyOK, CascadeOK, NoLostWakeup,
         Remaining, SoundInTheEnd, Sound
<1>2. SavedOK'
  <2>1. SavedSound' = Sound /\ SoundInTheEnd = Sound
    BY DEF SavedSound, Sound, SoundInTheEnd, NoSeed, IInv, CascadeOK
  <2>2. \A s \in Sound \cup failed : plan.deps[s] \subseteq Sound
    BY <2>1 DEF IInv, SoundOK
  <2>3. cascaded \subseteq skipped
    BY DEF NoSeed, IInv, CascadeOK
  <2>4. \A s \in Steps : plan.deps[s] \cap (cascaded \ unbooked) # {} => s \in cascaded \ unbooked
    BY DEF IInv, CascadeOK
  <2>. QED
    BY <2>1, <2>2, <2>3, <2>4 DEF SavedOK, StepSets, IInv, TypeOK, OneStage
<1>. QED  BY <1>1, <1>2 DEF IInv

LEMMA NextIInv == IInv /\ [Next]_vars => IInv'
<1>. SUFFICES ASSUME IInv, [Next]_vars PROVE IInv'
  OBVIOUS
<1>1. CASE Next
  BY <1>1, ExecuteIInv, ResumeIInv, SeedCompletedIInv, SeedSkippedIInv, SeedFailedIInv,
     SettleIInv, FailIInv, DispatchIInv, SetPriorityIInv, CheckpointIInv DEF Next
<1>2. CASE UNCHANGED vars
  <2>. USE <1>2 DEF vars, inner, sets
  <2>1. TypeOK' /\ OneStage' /\ ReplayOK' /\ SoundOK' /\ ReadyOK'
    BY DEF IInv, TypeOK, OneStage, ReplayOK, SoundOK, ReadyOK, Remaining, SoundInTheEnd, Sound
  <2>2. CascadeOK' /\ NoLostWakeup' /\ SavedOK'
    BY DEF IInv, CascadeOK, NoLostWakeup, SavedOK, SavedSound
  <2>. QED  BY <2>1, <2>2 DEF IInv
<1>. QED  BY <1>1, <1>2

LEMMA SpecIInv == Spec => []IInv
BY InitIInv, NextIInv, PTL DEF Spec

------------------------------------------------------------------------------
(* Every reachable state of the scheduler and its client is well typed. *)
THEOREM TypeCorrect == Spec => []TypeOK
<1>1. IInv => TypeOK
  BY DEF IInv
<1>. QED  BY <1>1, SpecIInv, PTL

(* No step is lost, settled twice, or settled and still to run.            *)
THEOREM StepsInOneStage == Spec => []OneStage
<1>1. IInv => OneStage
  BY DEF IInv
<1>. QED  BY <1>1, SpecIInv, PTL

(* Steps run only after sound dependencies, across crashes and resumes.    *)
THEOREM DependenciesFirst == Spec => []RunsAfterDependencies
<1>1. IInv => RunsAfterDependencies
  <2>. SUFFICES ASSUME IInv PROVE RunsAfterDependencies
    OBVIOUS
  <2>1. CASE seed = NoSeed
    <3>1. SoundInTheEnd = Sound
      BY <2>1 DEF SoundInTheEnd, NoSeed
    <3>. QED  BY <2>1, <3>1 DEF IInv, SoundOK, RunsAfterDependencies
  <2>2. CASE seed # NoSeed
    BY <2>2 DEF IInv, ReplayOK, RunsAfterDependencies
  <2>. QED  BY <2>1, <2>2
<1>. QED  BY <1>1, SpecIInv, PTL

LEMMA NothingStranded == IInv => NeverStranded
<1>. SUFFICES ASSUME IInv, seed = NoSeed, ready = {}, running = {}, pending # {}
              PROVE  FALSE
  BY DEF NeverStranded, is_complete
<1>1. PICK s \in pending : plan.deps[s] \cap pending = {}
  BY SchedulerAssumption, ProtocolAssumption DEF Acyclic, IInv, TypeOK
<1>2. PICK d \in plan.deps[s] : d \notin completed \cup skipped
  BY DEF IInv, NoLostWakeup
<1>3. d \in failed
  BY <1>1, <1>2, PlanTyped DEF IInv, OneStage, TypeOK
<1>4. s \in cascaded
  BY <1>3 DEF IInv, CascadeOK, TypeOK
<1>. QED  BY <1>4 DEF IInv, CascadeOK, OneStage, NoSeed

(* The scheduler never strands its client: with an acyclic plan there is a *)
(* step to dispatch, a step to wait for, or nothing left to do.            *)
THEOREM AlwaysProgress == Spec => []NeverStranded
BY NothingStranded, SpecIInv, PTL

------------------------------------------------------------------------------
(***************************************************************************)
(* Batches.  Under every policy the ready steps have one order, in which   *)
(* the pass goes over them.                                                *)
(***************************************************************************)
(* What the steps of a set ask for is a sum. *)
LEMMA NeededIsTotal ==
  ASSUME NEW S, IsFiniteSet(S), \A s \in S : plan.need[s] \in Nat
  PROVE  Needed(S) = Total(plan.need, S)
<1>. DEFINE P(g) == g = [T \in SUBSET S |->
                           IF T = {} THEN 0 ELSE plan.need[Picked(T)] + g[T \ {Picked(T)}]]
<1>1. Needed(S) = (CHOOSE g : P(g))[S]
  BY DEF Needed, MapThenSumSet, MapThenFoldSet, Picked
<1>2. ASSUME NEW g PROVE P(g) <=> Recurs(g, plan.need, S)
  BY DEF Recurs
<1>. HIDE DEF P
<1>3. \E g : P(g)
  BY <1>2, RecursExists
<1>4. PICK g : g = (CHOOSE h : P(h)) /\ P(g)
  BY <1>3
<1>5. Recurs(g, plan.need, S)
  BY <1>2, <1>4
<1>6. g[S] = Total(plan.need, S)
  BY <1>5, RecursIsTotal
<1>. QED  BY <1>1, <1>4, <1>6

LEMMA NeededFacts ==
  ASSUME NEW S, S \subseteq Steps, plan.need \in [Steps -> Nat]
  PROVE  /\ Needed(S) \in Nat /\ Needed({}) = 0
         /\ \A s \in S : Needed(S) = plan.need[s] + Needed(S \ {s})
         /\ \A P \in SUBSET S : Needed(P) <= Needed(S)
<1>0. \A T \in SUBSET Steps : IsFiniteSet(T) /\ \A s \in T : plan.need[s] \in Nat
  BY SchedulerAssumption, FS_Subset
<1>1. \A T \in SUBSET Steps : Needed(T) = Total(plan.need, T)
  BY <1>0, NeededIsTotal
<1>2. Total(plan.need, S) \in Nat /\ Total(plan.need, {}) = 0
  BY <1>0, TotalUnfolds
<1>3. \A s \in S : Total(plan.need, S) = plan.need[s] + Total(plan.need, S \ {s})
  BY <1>0, TotalWithout
<1>4. \A P \in SUBSET S : Total(plan.need, P) <= Total(plan.need, S)
  BY <1>0, TotalOfPart
<1>5. {} \in SUBSET Steps /\ S \in SUBSET Steps /\ SUBSET S \subseteq SUBSET Steps
  OBVIOUS
<1>. HIDE DEF Needed
<1>. QED  BY <1>1, <1>2, <1>3, <1>4, <1>5

Sortable ==
  /\ policy \in Policies /\ ready \subseteq Steps
  /\ plan.need \in [Steps -> Nat] /\ plan.trial \in [Steps -> Nat] /\ plan.trials \in Nat \ {0}
  /\ priorities \in [Steps -> Priorities] /\ fair_cursor \in Nat

Round(s) == Cardinality({t \in ready : plan.trial[t] = plan.trial[s] /\ t < s})
Turn(s)  == (plan.trial[s] + plan.trials - fair_cursor) % plan.trials

LEMMA RoundsAndTurns ==
  ASSUME Sortable, NEW s \in Steps
  PROVE  Round(s) \in Nat /\ Turn(s) \in 0..(plan.trials - 1)
<1>1. Round(s) \in Nat
  <2>1. IsFiniteSet({t \in ready : plan.trial[t] = plan.trial[s] /\ t < s})
    BY SchedulerAssumption, FS_Subset DEF Sortable
  <2>. QED  BY <2>1, FS_CardinalityType DEF Round
<1>2. Turn(s) \in 0..(plan.trials - 1)
  BY DEF Turn, Sortable
<1>. QED  BY <1>1, <1>2

LEMMA KeysAreNumbers ==
  ASSUME Sortable, NEW s \in Steps
  PROVE  SortKey(s) \in Int
<1>1. CASE policy = "Fifo"
  BY <1>1 DEF SortKey
<1>2. CASE policy = "Priority"
  <2>1. Priorities \in SUBSET Int /\ IsFiniteSet(Priorities) /\ Priorities # {}
    BY SchedulerAssumption
  <2>2. Max(Priorities) \in Int
    BY <2>1, GreatestOf
  <2>. QED  BY <1>2, <2>2, SchedulerAssumption DEF SortKey, Sortable
<1>3. CASE policy = "ResourceAware"
  <2>. DEFINE asked == {plan.need[t] : t \in Steps}
  <2>0. IsFiniteSet(asked)
    <3>1. [t \in Steps |-> plan.need[t]] \in Surjection(Steps, asked)
      BY DEF Surjection
    <3>. QED  BY <3>1, SchedulerAssumption, FS_Surjection
  <2>1. asked \in SUBSET Int /\ asked # {}
    BY DEF Sortable
  <2>. HIDE DEF asked
  <2>2. Max(asked) \in Int
    BY <2>0, <2>1, GreatestOf
  <2>. QED  BY <1>3, <2>2 DEF SortKey, Sortable, asked
<1>4. CASE policy = "Fair"
  <2>1. SortKey(s) = Round(s) * plan.trials + Turn(s)
    BY <1>4 DEF SortKey, Round, Turn
  <2>. QED  BY <2>1, RoundsAndTurns DEF Sortable
<1>. QED  BY <1>1, <1>2, <1>3, <1>4, SchedulerAssumption DEF Sortable

LEMMA PrecedesOrders ==
  ASSUME Sortable, NEW s \in Steps, NEW t \in Steps
  PROVE  /\ ~Precedes(s, s) /\ (s = t \/ Precedes(s, t) \/ Precedes(t, s))
         /\ \A u \in Steps : Precedes(s, t) /\ Precedes(t, u) => Precedes(s, u)
<1>1. Steps \subseteq Nat /\ \A u \in Steps : SortKey(u) \in Int
  BY KeysAreNumbers, SchedulerAssumption
<1>. QED  BY <1>1 DEF Precedes

LEMMA LastOfBatch ==
  ASSUME Sortable, NEW S, S \subseteq Steps, S # {}
  PROVE  \E s \in S : \A t \in S \ {s} : Precedes(t, s)
<1>. DEFINE Bad == {T \in SUBSET S : T # {} /\ ~\E s \in T : \A t \in T \ {s} : Precedes(t, s)}
<1>. SUFFICES ASSUME Bad # {} PROVE FALSE
  OBVIOUS
<1>. DEFINE T == Smallest(Bad)
<1>1. T \in Bad /\ \A U \in Bad : U \subseteq T => U = T
  <2>1. Bad \subseteq SUBSET S /\ IsFiniteSet(S)
    BY SchedulerAssumption, FS_Subset
  <2>. HIDE DEF Bad
  <2>. QED  BY <2>1, SmallestPart
<1>. HIDE DEF T
<1>2. PICK s \in T : s \in Steps
  BY <1>1
<1>3. T \ {s} \notin Bad
  BY <1>1, <1>2
<1>4. T \ {s} # {}
  BY <1>1, <1>2
<1>5. PICK g \in T \ {s} : \A t \in (T \ {s}) \ {g} : Precedes(t, g)
  BY <1>1, <1>3, <1>4
<1>6. g \in Steps /\ T \subseteq Steps
  BY <1>1, <1>5
<1>7. Precedes(g, s) \/ Precedes(s, g)
  BY <1>2, <1>5, <1>6, PrecedesOrders
<1>8. CASE Precedes(s, g)
  BY <1>1, <1>5, <1>8
<1>9. CASE Precedes(g, s)
  <2>1. \A t \in T \ {s} : Precedes(t, s)
    BY <1>2, <1>5, <1>6, <1>9, PrecedesOrders
  <2>. QED  BY <1>1, <1>2, <2>1
<1>. QED  BY <1>7, <1>8, <1>9

Earlier(picked, s) == {t \in picked : Precedes(t, s)}

LEMMA IsBatchMeans ==
  ASSUME NEW picked, NEW max, NEW free, IsBatch(picked, max, free), NEW s \in ready
  PROVE  s \in picked <=> /\ Cardinality(Earlier(picked, s)) < max
                          /\ Needed(Earlier(picked, s)) + plan.need[s] <= free
BY DEF IsBatch, fits, Earlier

(* A batch is no larger than what was asked for, and fits.                 *)
LEMMA BatchLimits ==
  ASSUME Sortable, NEW max \in Nat, NEW free \in Nat,
         NEW picked \in SUBSET ready, IsBatch(picked, max, free)
  PROVE  Cardinality(picked) <= max /\ Needed(picked) <= free
<1>0. picked \subseteq Steps /\ IsFiniteSet(picked) /\ plan.need \in [Steps -> Nat]
  BY SchedulerAssumption, FS_Subset DEF Sortable
<1>1. CASE picked = {}
  BY <1>0, <1>1, NeededFacts, FS_EmptySet
<1>2. CASE picked # {}
  <2>1. PICK s \in picked : \A t \in picked \ {s} : Precedes(t, s)
    BY <1>0, <1>2, LastOfBatch
  <2>2. Earlier(picked, s) = picked \ {s}
    BY <1>0, <2>1, PrecedesOrders DEF Earlier
  <2>3. Cardinality(picked \ {s}) < max /\ Needed(picked \ {s}) + plan.need[s] <= free
    BY <2>2, IsBatchMeans
  <2>4. Cardinality(picked \ {s}) = Cardinality(picked) - 1 /\ Cardinality(picked) \in Nat
    BY <1>0, FS_RemoveElement, FS_CardinalityType
  <2>5. Needed(picked) = plan.need[s] + Needed(picked \ {s}) /\ Needed(picked \ {s}) \in Nat
    BY <1>0, NeededFacts
  <2>6. plan.need[s] \in Nat
    BY <1>0
  <2>. QED  BY <2>3, <2>4, <2>5, <2>6
<1>. QED  BY <1>1, <1>2

LEMMA EarlierGrows ==
  ASSUME Sortable, NEW picked \in SUBSET ready, NEW s \in Steps, NEW t \in Steps, Precedes(s, t)
  PROVE  /\ Earlier(picked, s) \subseteq Earlier(picked, t)
         /\ Cardinality(Earlier(picked, s)) <= Cardinality(Earlier(picked, t))
         /\ Cardinality(Earlier(picked, s)) \in Nat /\ Cardinality(Earlier(picked, t)) \in Nat
         /\ Needed(Earlier(picked, s)) <= Needed(Earlier(picked, t))
         /\ Needed(Earlier(picked, s)) \in Nat /\ Needed(Earlier(picked, t)) \in Nat
<1>0. picked \subseteq Steps /\ plan.need \in [Steps -> Nat]
  BY DEF Sortable
<1>1. Earlier(picked, s) \subseteq Earlier(picked, t)
  BY <1>0, PrecedesOrders DEF Earlier
<1>2. /\ Earlier(picked, t) \subseteq Steps /\ IsFiniteSet(Earlier(picked, t))
      /\ Earlier(picked, s) \subseteq Steps /\ IsFiniteSet(Earlier(picked, s))
  BY <1>0, SchedulerAssumption, FS_Subset DEF Earlier
<1>. QED  BY <1>0, <1>1, <1>2, NeededFacts, FS_Subset, FS_CardinalityType

(* What is passed over for a step that comes later asks for more than it.  *)
LEMMA PassedOver ==
  ASSUME Sortable, NEW max \in Nat, NEW free \in Nat,
         NEW picked \in SUBSET ready, IsBatch(picked, max, free),
         NEW left \in ready \ picked, NEW s \in picked, Precedes(left, s)
  PROVE  plan.need[left] > plan.need[s]
<1>1. left \in Steps /\ s \in Steps /\ s \in ready /\ plan.need \in [Steps -> Nat]
  BY DEF Sortable
<1>2. /\ Cardinality(Earlier(picked, s)) < max
      /\ Needed(Earlier(picked, s)) + plan.need[s] <= free
  BY <1>1, IsBatchMeans
<1>3. ~ /\ Cardinality(Earlier(picked, left)) < max
        /\ Needed(Earlier(picked, left)) + plan.need[left] <= free
  BY IsBatchMeans
<1>4. /\ Cardinality(Earlier(picked, left)) <= Cardinality(Earlier(picked, s))
      /\ Cardinality(Earlier(picked, left)) \in Nat /\ Cardinality(Earlier(picked, s)) \in Nat
      /\ Needed(Earlier(picked, left)) <= Needed(Earlier(picked, s))
      /\ Needed(Earlier(picked, left)) \in Nat /\ Needed(Earlier(picked, s)) \in Nat
  BY <1>1, EarlierGrows
<1>5. plan.need[left] \in Nat /\ plan.need[s] \in Nat
  BY <1>1
<1>. QED  BY <1>2, <1>3, <1>4, <1>5

(* With nothing asked for, the batch is full of steps that come before any *)
(* that is passed over: rounds are dealt out one after the other.          *)
LEMMA RoundsCompare ==
  ASSUME NEW a \in Nat, NEW b \in Nat, NEW N \in Nat \ {0},
         NEW i \in 0..(N - 1), NEW j \in 0..(N - 1), a * N + i <= b * N + j
  PROVE  a <= b
<1>. SUFFICES ASSUME a >= b + 1 PROVE FALSE
  OBVIOUS
<1>. DEFINE d == a - (b + 1)
<1>1. d \in Nat /\ a = d + (b + 1)
  OBVIOUS
<1>2. d * N \in Nat /\ b * N \in Nat
  BY <1>1
<1>. HIDE DEF d
<1>3. a * N = d * N + b * N + N
  BY <1>1
<1>. QED  BY <1>2, <1>3

Share(picked, t) == {s \in picked : plan.trial[s] = t}

LEMMA RoundsDiffer ==
  ASSUME Sortable, NEW s \in ready, NEW t \in ready, plan.trial[s] = plan.trial[t], s < t
  PROVE  Round(s) < Round(t)
<1>. DEFINE S == {x \in ready : plan.trial[x] = plan.trial[s] /\ x < s}
            T == {x \in ready : plan.trial[x] = plan.trial[t] /\ x < t}
<1>1. ready \subseteq Nat /\ IsFiniteSet(ready)
  BY SchedulerAssumption, FS_Subset DEF Sortable
<1>2. S \cup {s} \subseteq T /\ s \notin S
  <2>1. s \in Nat /\ t \in Nat
    BY <1>1
  <2>2. s \in T /\ s \notin S
    BY <2>1
  <2>3. ASSUME NEW x \in S PROVE x \in T
    <3>1. x \in ready /\ x \in Nat /\ x < s /\ plan.trial[x] = plan.trial[s]
      BY <1>1
    <3>. QED  BY <2>1, <3>1
  <2>. QED  BY <2>2, <2>3
<1>3. IsFiniteSet(S) /\ IsFiniteSet(T) /\ IsFiniteSet(S \cup {s})
  BY <1>1, FS_Subset, FS_AddElement
<1>4. Cardinality(S \cup {s}) = Cardinality(S) + 1 /\ Cardinality(S \cup {s}) <= Cardinality(T)
  <2>. HIDE DEF S, T
  <2>. QED  BY <1>2, <1>3, FS_AddElement, FS_Subset
<1>5. Cardinality(S) \in Nat /\ Cardinality(T) \in Nat
  BY <1>3, FS_CardinalityType
<1>. QED  BY <1>4, <1>5 DEF Round

LEMMA SharesAreFair ==
  ASSUME Sortable, policy = "Fair", \A s \in Steps : plan.need[s] = 0,
         NEW max \in Nat, NEW free \in Nat,
         NEW picked \in SUBSET ready, IsBatch(picked, max, free),
         NEW left \in ready \ picked, NEW t
  PROVE  Cardinality(Share(picked, t)) <= Cardinality(Share(picked, plan.trial[left])) + 1
<1>. DEFINE u == plan.trial[left]
            Waiting == {s \in ready \ picked : plan.trial[s] = u}
            x == Min(Waiting)
            Ahead == {s \in ready : plan.trial[s] = plan.trial[x] /\ s < x}
            r == Round(x)
<1>0. ready \subseteq Nat /\ IsFiniteSet(ready) /\ ready \subseteq Steps
  BY SchedulerAssumption, FS_Subset DEF Sortable
<1>1. x \in Waiting /\ \A s \in Waiting : x <= s
  <2>1. Waiting \in SUBSET Nat /\ Waiting # {}
    BY <1>0
  <2>. HIDE DEF Waiting
  <2>. QED  BY <2>1, LeastOf
<1>. HIDE DEF x
<1>2. x \in ready /\ x \notin picked /\ plan.trial[x] = u /\ x \in Steps
  BY <1>0, <1>1
<1>3. r = Cardinality(Ahead) /\ r \in Nat
  BY <1>2, RoundsAndTurns DEF Round
<1>4. Ahead \subseteq Share(picked, u)
  <2>1. \A s \in Ahead : s \notin Waiting
    BY <1>0, <1>1, <1>2
  <2>. QED  BY <1>2, <2>1 DEF Share
<1>5. r <= Cardinality(Share(picked, u)) /\ Cardinality(Share(picked, u)) \in Nat
  <2>1. IsFiniteSet(Share(picked, u))
    BY <1>0, FS_Subset DEF Share
  <2>. HIDE DEF Ahead, u
  <2>. QED  BY <1>3, <1>4, <2>1, FS_Subset, FS_CardinalityType
<1>6. ASSUME NEW s \in picked PROVE Round(s) \in 0..r
  <2>1. s \in Steps /\ s # x
    BY <1>0, <1>2
  <2>2. ~Precedes(x, s)
    <3>. SUFFICES ASSUME Precedes(x, s) PROVE FALSE
      OBVIOUS
    <3>1. plan.need[x] > plan.need[s]
      BY <1>2, PassedOver
    <3>. QED  BY <1>2, <2>1, <3>1
  <2>3. Precedes(s, x)
    BY <1>2, <2>1, <2>2, PrecedesOrders
  <2>4. SortKey(s) <= SortKey(x)
    <3>1. SortKey(s) \in Int /\ SortKey(x) \in Int
      BY <1>2, <2>1, KeysAreNumbers
    <3>. QED  BY <2>3, <3>1 DEF Precedes
  <2>5. /\ SortKey(s) = Round(s) * plan.trials + Turn(s)
        /\ SortKey(x) = r * plan.trials + Turn(x)
    BY DEF SortKey, Round, Turn
  <2>6. /\ Round(s) \in Nat /\ Turn(s) \in 0..(plan.trials - 1)
        /\ Turn(x) \in 0..(plan.trials - 1)
    BY <1>2, <2>1, RoundsAndTurns
  <2>7. plan.trials \in Nat \ {0}
    BY DEF Sortable
  <2>. HIDE DEF r
  <2>8. Round(s) <= r
    BY <1>3, <2>4, <2>5, <2>6, <2>7, RoundsCompare
  <2>. QED  BY <1>3, <2>6, <2>8
<1>. HIDE DEF r
<1>7. [s \in Share(picked, t) |-> Round(s)] \in Injection(Share(picked, t), 0..r)
  <2>1. ASSUME NEW s \in Share(picked, t), NEW v \in Share(picked, t), Round(s) = Round(v)
        PROVE  s = v
    <3>1. s \in ready /\ v \in ready /\ plan.trial[s] = plan.trial[v] /\ s \in Steps /\ v \in Steps
      BY <1>0 DEF Share
    <3>2. Round(s) \in Nat /\ s \in Nat /\ v \in Nat
      BY <1>0, <3>1, RoundsAndTurns
    <3>3. ~(s < v) /\ ~(v < s)
      BY <2>1, <3>1, <3>2, RoundsDiffer
    <3>. QED  BY <3>2, <3>3
  <2>2. \A s \in Share(picked, t) : Round(s) \in 0..r
    BY <1>6 DEF Share
  <2>. QED  BY <2>1, <2>2 DEF Injection, IsInjective
<1>8. Cardinality(Share(picked, t)) <= Cardinality(0..r) /\ IsFiniteSet(Share(picked, t))
  BY <1>3, <1>7, FS_Injection, FS_Interval
<1>9. Cardinality(0..r) = r + 1
  BY <1>3, FS_Interval
<1>10. Cardinality(Share(picked, t)) \in Nat
  BY <1>8, FS_CardinalityType
<1>. QED  BY <1>3, <1>5, <1>8, <1>9, <1>10

(* Steps are handed out by Dispatch and by nothing else. *)
LEMMA IInvSorts == IInv => Sortable
<1>. SUFFICES ASSUME IInv PROVE Sortable
  OBVIOUS
<1>1. plan \in Plans
  BY DEF IInv, TypeOK
<1>2. IsPlan(plan)
  BY <1>1, ProtocolAssumption
<1>. QED  BY <1>2 DEF Sortable, IInv, TypeOK, IsPlan

LEMMA Dispatched ==
  ASSUME IInv, NEW max \in Nat, NEW free \in Nat, Dispatch(max, free)
  PROVE  \E picked \in SUBSET ready :
           /\ IsBatch(picked, max, free)
           /\ running' \ running = picked /\ ready \cap ready' = ready \ picked
<1>1. ready \cap running = {}
  BY DEF IInv, OneStage
<1>. QED  BY <1>1 DEF Dispatch, next_steps

LEMMA OthersHandOutNothing ==
  ASSUME Next, ~\E max \in 1..MaxParallel, free \in 0..Capacity : Dispatch(max, free)
  PROVE  running' \ running = {}
<1>1. ASSUME NEW p, initialise(p) PROVE running' = {}
  BY <1>1 DEF initialise
<1>2. ASSUME NEW s, mark_completed(s) \/ mark_skipped(s) \/ mark_failed(s) PROVE running' \subseteq running
  BY <1>2 DEF mark_completed, mark_skipped, mark_failed, mark_settled
<1>3. ASSUME NEW s, NEW p, set_priority(s, p) PROVE running' = running
  BY <1>3 DEF set_priority, sets
<1>. QED  BY <1>1, <1>2, <1>3 DEF Next, Execute, Resume, SeedCompleted, SeedSkipped, SeedFailed,
              Complete, Skip, Fail, SetPriority, Checkpoint, inner, sets

LEMMA DispatchedSound ==
  ASSUME IInv, [Next]_vars
  PROVE  NoPriorityInversion /\ BatchFits
<1>. USE ProtocolAssumption
<1>0. plan.need \in [Steps -> Nat] /\ Sortable
  BY IInvSorts DEF Sortable
<1>1. CASE running' \ running = {}
  <2>1. Needed({}) = 0
    BY <1>0, NeededFacts
  <2>. QED  BY <1>1, <2>1 DEF NoPriorityInversion, BatchFits
<1>2. ASSUME NEW max \in 1..MaxParallel, NEW free \in 0..Capacity, Dispatch(max, free)
      PROVE  NoPriorityInversion /\ BatchFits
  <2>0. max \in Nat /\ free \in Nat /\ free <= Capacity
    OBVIOUS
  <2>1. PICK picked \in SUBSET ready :
          /\ IsBatch(picked, max, free)
          /\ running' \ running = picked /\ ready \cap ready' = ready \ picked
    BY <1>2, <2>0, Dispatched
  <2>2. BatchFits
    <3>1. Needed(picked) <= free
      BY <1>0, <2>0, <2>1, BatchLimits
    <3>2. Needed(picked) \in Nat
      BY <1>0, NeededFacts DEF Sortable
    <3>. QED  BY <2>0, <2>1, <3>1, <3>2 DEF BatchFits
  <2>3. NoPriorityInversion
    <3>. SUFFICES ASSUME policy = "Priority", NEW left \in ready \ picked, NEW s \in picked,
                         ~(priorities[left] <= priorities[s])
                  PROVE  plan.need[left] > plan.need[s]
      BY <2>1 DEF NoPriorityInversion
    <3>1. priorities[left] \in Nat /\ priorities[s] \in Nat
      BY <1>0, SchedulerAssumption DEF Sortable
    <3>2. Max(Priorities) \in Int
      <4>1. Priorities \in SUBSET Int /\ IsFiniteSet(Priorities) /\ Priorities # {}
        BY SchedulerAssumption
      <4>. QED  BY <4>1, GreatestOf
    <3>3. Precedes(left, s)
      BY <3>1, <3>2 DEF Precedes, SortKey
    <3>. QED  BY <1>0, <2>0, <2>1, <3>3, PassedOver
  <2>. QED  BY <2>2, <2>3
<1>3. CASE UNCHANGED vars
  <2>1. running' \ running = {}
    BY <1>3 DEF vars, inner, sets
  <2>. QED  BY <1>1, <2>1
<1>. QED  BY <1>1, <1>2, <1>3, OthersHandOutNothing

(* Under the policy Priority a step is passed over for one of a lower      *)
(* priority only for its size, and no batch asks for more than the         *)
(* snapshot had, under any policy.                                         *)
THEOREM BatchesAreSound == Spec => BatchesSound
<1>1. IInv /\ [Next]_vars => [NoPriorityInversion /\ BatchFits]_vars
  BY DispatchedSound
<1>. QED  BY <1>1, SpecIInv, PTL DEF Spec, BatchesSound

LEMMA DispatchedFairly ==
  ASSUME IInv, [Next]_vars, policy = "Fair", plan' = plan, Needed(Steps) = 0,
         NEW left \in ready \cap ready', NEW t \in 0..(plan.trials - 1)
  PROVE  Cardinality(BatchOf(t)) <= Cardinality(BatchOf(plan.trial[left])) + 1
<1>. USE ProtocolAssumption
<1>0. plan.need \in [Steps -> Nat] /\ Sortable
  BY IInvSorts DEF Sortable
<1>1. CASE running' \ running = {}
  <2>1. BatchOf(t) = {} /\ BatchOf(plan.trial[left]) = {}
    BY <1>1 DEF BatchOf
  <2>. QED  BY <2>1, FS_EmptySet
<1>2. ASSUME NEW max \in 1..MaxParallel, NEW free \in 0..Capacity, Dispatch(max, free)
      PROVE  Cardinality(BatchOf(t)) <= Cardinality(BatchOf(plan.trial[left])) + 1
  <2>0. max \in Nat /\ free \in Nat
    OBVIOUS
  <2>1. PICK picked \in SUBSET ready :
          /\ IsBatch(picked, max, free)
          /\ running' \ running = picked /\ ready \cap ready' = ready \ picked
    BY <1>2, <2>0, Dispatched
  <2>2. BatchOf(t) = Share(picked, t) /\ BatchOf(plan.trial[left]) = Share(picked, plan.trial[left])
    BY <2>1 DEF BatchOf, Share
  <2>3. \A s \in Steps : plan.need[s] = 0
    <3>. SUFFICES ASSUME NEW s \in Steps PROVE plan.need[s] = 0
      OBVIOUS
    <3>1. Needed(Steps) = plan.need[s] + Needed(Steps \ {s})
      BY <1>0, NeededFacts
    <3>2. Needed(Steps \ {s}) \in Nat
      BY <1>0, NeededFacts
    <3>. QED  BY <1>0, <3>1, <3>2
  <2>. QED  BY <1>0, <2>0, <2>1, <2>2, <2>3, SharesAreFair
<1>3. CASE UNCHANGED vars
  <2>1. running' \ running = {}
    BY <1>3 DEF vars, inner, sets
  <2>. QED  BY <1>1, <2>1
<1>. QED  BY <1>1, <1>2, <1>3, OthersHandOutNothing

(* Under the policy Fair no trial gets two steps ahead of one that still   *)
(* has a step to run, whatever the cursor and whoever settled in between.  *)
THEOREM SharesStayFair == Spec => FairShare
<1>1. ASSUME IInv, [Next]_vars
      PROVE  policy = "Fair" /\ plan' = plan /\ Needed(Steps) = 0 =>
               \A left \in ready \cap ready', t \in 0..(plan.trials - 1) :
                 Cardinality(BatchOf(t)) <= Cardinality(BatchOf(plan.trial[left])) + 1
  BY <1>1, DispatchedFairly
<1>. QED  BY <1>1, SpecIInv, PTL DEF Spec, FairShare

------------------------------------------------------------------------------
(***************************************************************************)
(* The scheduler under its protocol implements StepLifecycle: initial      *)
(* states map to initial states, and every step to a step or a stutter.    *)
(***************************************************************************)
(* Downstream, as both modules know it. *)
LEMMA SameDownstream ==
  ASSUME NEW g, NEW F
  PROVE  Lifecycle!Downstream(g, F) = Downstream(g, F)
BY DEF Lifecycle!Downstream, Lifecycle!DownstreamIn, Lifecycle!Dependents,
       Downstream, DownstreamIn, Dependents

LEMMA DownstreamOfNone == ASSUME NEW g PROVE Downstream(g, {}) = {}
BY DownstreamLeast DEF Downstream

(* Its two halves, for the whole plan. *)
LEMMA DownstreamBlocks ==
  ASSUME NEW g, NEW F, NEW c \in Steps, g[c] \cap (F \cup Downstream(g, F)) # {}
  PROVE  c \in Downstream(g, F)
<1>1. PICK d \in g[c] : d \in F \cup DownstreamIn(g, F, Steps)
  BY DEF Downstream
<1>. QED  BY <1>1, DownstreamClosed DEF Downstream

LEMMA DownstreamWithin ==
  ASSUME NEW g, NEW F, NEW X,
         \A c \in Steps : g[c] \cap (F \cup X) # {} => c \in X
  PROVE  Downstream(g, F) \subseteq X
<1>1. DownstreamIn(g, F, Steps) \subseteq X \cap Steps
  <2>. DEFINE Y == X \cap Steps
  <2>1. \A c \in Steps \ Y : c \in Steps => g[c] \cap (F \cup Y) = {}
    OBVIOUS
  <2>2. Y \in SUBSET Steps
    OBVIOUS
  <2>. HIDE DEF Y
  <2>3. DownstreamIn(g, F, Steps) \subseteq Y
    BY <2>1, <2>2, DownstreamLeast
  <2>. QED  BY <2>3 DEF Y
<1>. QED  BY <1>1 DEF Downstream

LEMMA DownstreamGrows ==
  ASSUME NEW g, NEW F, NEW G, F \subseteq G
  PROVE  Downstream(g, F) \subseteq Downstream(g, G)
<1>. DEFINE D == Downstream(g, G)
<1>1. \A c \in Steps : g[c] \cap (F \cup D) # {} => c \in D
  BY DownstreamBlocks
<1>. HIDE DEF D
<1>2. Downstream(g, F) \subseteq D
  BY <1>1, DownstreamWithin
<1>. QED  BY <1>2 DEF D

(* The walk of mark_failed stays downstream of the failed step. *)
LEMMA CascadeIsDownstream ==
  ASSUME NEW s
  PROVE  Cascade(s) \subseteq Downstream(plan.deps, {s})
<1>. DEFINE W == (pending \cup ready) \ {s}
            D == Downstream(plan.deps, {s})
            X == W \cap D
<1>1. \A c \in W \ X : c \in Steps => plan.deps[c] \cap ({s} \cup X) = {}
  BY DownstreamBlocks
<1>2. X \in SUBSET W
  OBVIOUS
<1>. HIDE DEF W, D, X
<1>3. DownstreamIn(plan.deps, {s}, W) \subseteq X
  BY <1>1, <1>2, DownstreamLeast
<1>. QED  BY <1>3 DEF Cascade, W, D, X

------------------------------------------------------------------------------
(***************************************************************************)
(* The refinement needs one more invariant: what a halted client has not   *)
(* booked follows from the failures it has, so its checkpoint misses       *)
(* nothing that a replay does not find again.                              *)
(***************************************************************************)
UnbookedOK == unbooked \subseteq Downstream(plan.deps, failed)

LEMMA NextUnbookedOK == IInv /\ UnbookedOK /\ [Next]_vars => UnbookedOK'
<1>. SUFFICES ASSUME IInv, UnbookedOK, [Next]_vars PROVE UnbookedOK'
  OBVIOUS
<1>1. ASSUME NEW s \in Steps, NEW halt \in BOOLEAN, Fail(s, halt)
      PROVE  UnbookedOK'
  <2>1. Cascade(s) \subseteq Downstream(plan.deps, failed')
    <3>1. failed' = failed \cup {s}
      BY <1>1 DEF Fail, mark_failed
    <3>2. Downstream(plan.deps, {s}) \subseteq Downstream(plan.deps, failed')
      BY <3>1, DownstreamGrows
    <3>. QED  BY <3>2, CascadeIsDownstream
  <2>2. plan' = plan /\ unbooked' \subseteq Cascade(s)
    BY <1>1 DEF Fail, mark_failed
  <2>. QED  BY <2>1, <2>2 DEF UnbookedOK
<1>2. ASSUME UNCHANGED <<unbooked, plan, failed>>
      PROVE  UnbookedOK'
  BY <1>2 DEF UnbookedOK
<1>3. ASSUME unbooked' = {}
      PROVE  UnbookedOK'
  BY <1>3 DEF UnbookedOK
<1>4. ASSUME NEW p \in Plans, Execute(p) PROVE UnbookedOK'
  BY <1>3, <1>4 DEF Execute
<1>5. ASSUME Resume PROVE UnbookedOK'
  BY <1>3, <1>5 DEF Resume
<1>6. ASSUME NEW s \in Steps, SeedCompleted(s) \/ SeedSkipped(s) PROVE UnbookedOK'
  BY <1>2, <1>6 DEF SeedCompleted, SeedSkipped, mark_completed, mark_skipped, mark_settled
<1>7. ASSUME NEW s \in Steps, SeedFailed(s) PROVE UnbookedOK'
  <2>1. unbooked' = {}
    BY <1>7 DEF SeedFailed, IInv, ReplayOK, NoSeed
  <2>. QED  BY <2>1, <1>3
<1>8. ASSUME NEW s \in Steps, Complete(s) \/ Skip(s) PROVE UnbookedOK'
  BY <1>2, <1>8 DEF Complete, Skip, mark_completed, mark_skipped, mark_settled
<1>9. ASSUME NEW s \in Steps, NEW p \in Priorities, SetPriority(s, p) PROVE UnbookedOK'
  BY <1>2, <1>9 DEF SetPriority, set_priority, sets
<1>10. ASSUME NEW max, NEW free, Dispatch(max, free) PROVE UnbookedOK'
  BY <1>2, <1>10 DEF Dispatch, next_steps
<1>11. ASSUME Checkpoint PROVE UnbookedOK'
  BY <1>2, <1>11 DEF Checkpoint, inner, sets
<1>12. ASSUME UNCHANGED vars PROVE UnbookedOK'
  BY <1>2, <1>12 DEF vars, inner, sets
<1>. QED
  BY <1>1, <1>4, <1>5, <1>6, <1>7, <1>8, <1>9, <1>10, <1>11, <1>12 DEF Next

------------------------------------------------------------------------------
(***************************************************************************)
(* The mapped state.  A status is told by the one set that holds the step. *)
(***************************************************************************)
Done     == completed \cup seed.completed
Failures == failed \cup seed.failed
Blocked  == skipped \cup seed.skipped \cup Downstream(plan.deps, seed.failed)

LEMMA StatusOf ==
  ASSUME NEW done, NEW fail, NEW skip, NEW run, NEW s \in Steps,
         done \cap (fail \cup skip \cup run) = {}, fail \cap (skip \cup run) = {},
         skip \cap run = {}
  PROVE  LET status == StatusIn(done, fail, skip, run)[s]
         IN /\ s \in done => status = "completed"
            /\ s \in fail => status = "failed"
            /\ s \in skip => status = "skipped"
            /\ s \in run  => status = "running"
            /\ s \notin done \cup fail \cup skip \cup run => status = "waiting"
BY DEF StatusIn

LEMMA MappedStatus == AbstractStatus = StatusIn(Done, Failures, Blocked, running)
BY DEF AbstractStatus, Done, Failures, Blocked

(* The steps a replay is still to block wait, and none of them is settled. *)
LEMMA BlockedWait ==
  ASSUME IInv
  PROVE  Downstream(plan.deps, seed.failed)
           \subseteq Steps \ (running \cup Done \cup Failures \cup Sound)
<1>. DEFINE F == seed.failed
            X == Steps \ (running \cup failed \cup F \cup SoundInTheEnd)
<1>1. \A c \in running \cup failed \cup F \cup SoundInTheEnd : plan.deps[c] \subseteq SoundInTheEnd
  BY DEF IInv, SoundOK
<1>2. F \cap SoundInTheEnd = {}
  BY DEF IInv, ReplayOK, Remaining, OneStage, SoundInTheEnd, Sound
<1>3. \A c \in Steps : plan.deps[c] \cap (F \cup X) # {} => c \in X
  BY <1>1, <1>2
<1>. HIDE DEF F, X
<1>4. Downstream(plan.deps, F) \subseteq X
  BY <1>3, DownstreamWithin
<1>. QED  BY <1>4 DEF F, X, SoundInTheEnd, Sound, Done, Failures

LEMMA OneStatus ==
  ASSUME IInv
  PROVE  /\ Done \cap (Failures \cup Blocked \cup running) = {}
         /\ Failures \cap (Blocked \cup running) = {} /\ Blocked \cap running = {}
<1>1. Downstream(plan.deps, seed.failed) \cap (running \cup Done \cup Failures) = {}
  BY BlockedWait
<1>. HIDE DEF IInv
<1>2. /\ OneStage /\ Remaining \subseteq pending \cup ready
      /\ seed.completed \cap (seed.skipped \cup seed.failed) = {}
      /\ seed.skipped \cap seed.failed = {}
  BY DEF IInv, ReplayOK
<1>. QED  BY <1>1, <1>2 DEF OneStage, Remaining, Done, Failures, Blocked

(* Nothing is left to block when there is no failure to replay. *)
LEMMA ReplayedBlocked ==
  ASSUME seed = NoSeed
  PROVE  Done = completed /\ Failures = failed /\ Blocked = skipped
BY DownstreamOfNone DEF NoSeed, Done, Failures, Blocked

------------------------------------------------------------------------------
LEMMA InitRefines == Init => Lifecycle!Init
<1>. SUFFICES ASSUME Init PROVE Lifecycle!Init
  OBVIOUS
<1>1. Done = {} /\ Failures = {} /\ Blocked = {} /\ running = {}
  BY ReplayedBlocked DEF Init
<1>2. AbstractStatus = Lifecycle!AllWaiting
  BY <1>1, MappedStatus DEF StatusIn, Lifecycle!AllWaiting
<1>. QED  BY <1>2 DEF Init, Lifecycle!Init, AbstractCheckpoints

LEMMA ExecuteRefines ==
  ASSUME NEW p \in Plans, Execute(p)
  PROVE  Lifecycle!Fresh(p.deps)
<1>1. Done' = {} /\ Failures' = {} /\ Blocked' = {} /\ running' = {}
  BY DownstreamOfNone DEF Execute, initialise, Done, Failures, Blocked, NoSeed
<1>2. AbstractStatus' = Lifecycle!AllWaiting
  BY <1>1 DEF AbstractStatus, Done, Failures, Blocked, StatusIn, Lifecycle!AllWaiting
<1>3. plan' = p /\ UNCHANGED AbstractCheckpoints
  BY DEF Execute, initialise, AbstractCheckpoints
<1>. QED  BY <1>2, <1>3 DEF Lifecycle!Fresh

LEMMA ResumeRefines ==
  ASSUME Resume
  PROVE  Lifecycle!Restart
<1>. DEFINE c == [deps   |-> saved.plan.deps,
                  status |-> StatusIn(saved.at.completed, saved.at.failed,
                               saved.at.skipped \cup Downstream(saved.plan.deps, saved.at.failed), {})]
<1>1. c \in AbstractCheckpoints /\ UNCHANGED AbstractCheckpoints
  BY DEF Resume, AbstractCheckpoints
<1>2. plan' = saved.plan /\ seed' = saved.at /\ running' = {}
      /\ completed' = {} /\ failed' = {} /\ skipped' = {}
  BY DEF Resume, initialise
<1>3. plan'.deps = c.deps /\ AbstractStatus' = c.status
  BY <1>2 DEF AbstractStatus
<1>. QED  BY <1>1, <1>3 DEF Lifecycle!Restart

(* Replaying a step, as settled, changes no status. *)
LEMMA SeedSettledRefines ==
  ASSUME IInv, NEW s \in Steps, SeedCompleted(s) \/ SeedSkipped(s)
  PROVE  UNCHANGED Lifecycle!vars
<1>0. seed # NoSeed /\ running = {}
  BY DEF SeedCompleted, SeedSkipped, IInv, ReplayOK, NoSeed
<1>1. /\ plan' = plan /\ saved' = saved /\ running' = running /\ failed' = failed
      /\ seed'.failed = seed.failed
  BY <1>0 DEF SeedCompleted, SeedSkipped, mark_completed, mark_skipped, mark_settled,
         IInv, TypeOK
<1>2. /\ completed' \cup seed'.completed = completed \cup seed.completed
      /\ skipped' \cup seed'.skipped = skipped \cup seed.skipped
  BY DEF SeedCompleted, SeedSkipped, mark_completed, mark_skipped, mark_settled,
         IInv, TypeOK
<1>3. UNCHANGED AbstractStatus
  BY <1>1, <1>2 DEF AbstractStatus
<1>. QED  BY <1>1, <1>3 DEF Lifecycle!vars, AbstractCheckpoints

(* Nor does replaying a failure: what it blocks was to be blocked.         *)
LEMMA SeedFailedRefines ==
  ASSUME IInv, NEW s \in Steps, SeedFailed(s)
  PROVE  UNCHANGED Lifecycle!vars
<1>. DEFINE F == seed.failed
            D == Downstream(plan.deps, F)
            E == Downstream(plan.deps, F \ {s})
            K == Cascade(s)
<1>1. Failing(s) /\ s \in F
  BY DEF SeedFailed, Failing, IInv, ReplayOK, OneStage, Remaining, NoSeed
<1>2. /\ plan' = plan /\ saved' = saved /\ running' = running
      /\ failed' = failed \cup {s} /\ completed' = completed
      /\ skipped' = skipped \cup K
      /\ seed'.failed = F \ {s} /\ seed'.completed = seed.completed
      /\ seed'.skipped = {} /\ seed.skipped = {}
  BY <1>1 DEF SeedFailed, mark_failed, IInv, ReplayOK, NoSeed, TypeOK, Failing
<1>3. D \subseteq cascaded \cup K \cup E
  <2>1. \A c \in Steps : plan.deps[c] \cap (F \cup (cascaded \cup K \cup E)) # {}
                           => c \in cascaded \cup K \cup E
    <3>1. \A c \in Steps : plan.deps[c] \cap ((F \ {s}) \cup E) # {} => c \in E
      BY DownstreamBlocks
    <3>2. \A c \in Steps : plan.deps[c] \cap (failed \cup cascaded \cup {s} \cup K) # {}
                              => c \in cascaded \cup K
      BY <1>1, CascadeFacts
    <3>. QED  BY <3>1, <3>2
  <2>. HIDE DEF K, E, F
  <2>2. Downstream(plan.deps, F) \subseteq cascaded \cup K \cup E
    BY <2>1, DownstreamWithin
  <2>. QED  BY <2>2
<1>4. K \cup E \subseteq D
  <2>1. K \subseteq Downstream(plan.deps, {s})
    BY CascadeIsDownstream
  <2>2. Downstream(plan.deps, {s}) \subseteq D /\ E \subseteq D
    BY <1>1, DownstreamGrows
  <2>. QED  BY <2>1, <2>2
<1>5. cascaded \subseteq skipped
  BY <1>2 DEF IInv, CascadeOK
<1>6. skipped' \cup seed'.skipped \cup Downstream(plan'.deps, seed'.failed)
        = skipped \cup seed.skipped \cup D
  <2>1. Downstream(plan'.deps, seed'.failed) = E
    BY <1>2
  <2>. QED  BY <2>1, <1>2, <1>3, <1>4, <1>5
<1>7. failed' \cup seed'.failed = failed \cup F /\ completed' \cup seed'.completed = completed \cup seed.completed
  BY <1>1, <1>2
<1>8. UNCHANGED AbstractStatus
  BY <1>2, <1>6, <1>7 DEF AbstractStatus
<1>. QED  BY <1>2, <1>8 DEF Lifecycle!vars, AbstractCheckpoints

LEMMA DispatchRefines ==
  ASSUME IInv, Looping, NEW max, NEW free, next_steps(max, free), UNCHANGED <<seed, saved>>
  PROVE  \E S \in SUBSET Steps : Lifecycle!Start(S)
<1>. PICK picked \in SUBSET ready :
       /\ ready' = ready \ picked /\ running' = running \cup picked
       /\ UNCHANGED <<plan, completed, failed, skipped>>
  BY DEF next_steps
<1>1. seed = NoSeed /\ seed' = NoSeed /\ saved' = saved
  BY DEF Looping
<1>2. Done = completed /\ Failures = failed /\ Blocked = skipped
  BY <1>1, ReplayedBlocked
<1>3. AbstractStatus = StatusIn(completed, failed, skipped, running)
  BY <1>2, MappedStatus
<1>4. AbstractStatus' = StatusIn(completed, failed, skipped, running \cup picked)
  <2>1. Downstream(plan'.deps, seed'.failed) = {}
    BY <1>1, DownstreamOfNone DEF NoSeed
  <2>2. seed'.completed = {} /\ seed'.failed = {} /\ seed'.skipped = {}
    BY <1>1 DEF NoSeed
  <2>. QED  BY <2>1, <2>2 DEF AbstractStatus
<1>5. picked \subseteq Steps \ (running \cup completed \cup failed \cup skipped)
  BY DEF IInv, OneStage, TypeOK
<1>6. ASSUME NEW s \in picked
      PROVE  /\ AbstractStatus[s] = "waiting"
             /\ \A d \in plan.deps[s] : AbstractStatus[d] \in Lifecycle!Settled
  <2>1. plan.deps[s] \subseteq Sound /\ Remaining = {}
    BY <1>1 DEF IInv, ReadyOK, Remaining, NoSeed
  <2>2. plan.deps[s] \subseteq (completed \cup skipped) \cap Steps /\ failed \cap skipped = {}
    BY <2>1, <1>5 DEF Sound, IInv, TypeOK, OneStage
  <2>3. AbstractStatus[s] = "waiting"
    BY <1>3, <1>5 DEF StatusIn
  <2>4. \A d \in plan.deps[s] : AbstractStatus[d] \in {"completed", "skipped"}
    <3>1. /\ completed \cap (failed \cup skipped \cup running) = {}
          /\ failed \cap (skipped \cup running) = {} /\ skipped \cap running = {}
      BY DEF IInv, OneStage
    <3>. QED  BY <1>3, <2>2, <3>1, StatusOf
  <2>. QED  BY <2>3, <2>4 DEF Lifecycle!Settled
<1>7. AbstractStatus' = [s \in Steps |-> IF s \in picked THEN "running" ELSE AbstractStatus[s]]
  BY <1>3, <1>4, <1>5 DEF StatusIn
<1>8. Lifecycle!Start(picked)
  BY <1>1, <1>6, <1>7 DEF Lifecycle!Start, AbstractCheckpoints
<1>9. picked \in SUBSET Steps
  BY <1>5
<1>. QED  BY <1>8, <1>9

LEMMA SettleRefines ==
  ASSUME IInv, NEW s \in Steps, Complete(s) \/ Skip(s)
  PROVE  \E outcome \in Lifecycle!Settled : Lifecycle!Finish(s, outcome)
<1>1. /\ seed = NoSeed /\ seed' = NoSeed /\ saved' = saved /\ plan' = plan
      /\ s \in running /\ running' = running \ {s} /\ failed' = failed
      /\ \/ completed' = completed \cup {s} /\ skipped' = skipped
         \/ completed' = completed /\ skipped' = skipped \cup {s}
  BY DEF Complete, Skip, Looping, mark_completed, mark_skipped, mark_settled
<1>2. Done = completed /\ Failures = failed /\ Blocked = skipped
  BY <1>1, ReplayedBlocked
<1>3. AbstractStatus = StatusIn(completed, failed, skipped, running)
  BY <1>2, MappedStatus
<1>4. AbstractStatus' = StatusIn(completed', failed, skipped', running \ {s})
  BY <1>1, DownstreamOfNone DEF AbstractStatus, NoSeed
<1>5. s \notin completed \cup failed \cup skipped
  BY <1>1 DEF IInv, OneStage
<1>. DEFINE outcome == IF s \in completed' THEN "completed" ELSE "skipped"
<1>6. AbstractStatus[s] = "running"
  BY <1>1, <1>3, <1>5 DEF StatusIn
<1>7. AbstractStatus' = [AbstractStatus EXCEPT ![s] = outcome]
  BY <1>1, <1>3, <1>4, <1>5 DEF StatusIn
<1>8. Lifecycle!Finish(s, outcome)
  BY <1>1, <1>6, <1>7 DEF Lifecycle!Finish, AbstractCheckpoints
<1>. QED  BY <1>8 DEF Lifecycle!Settled

LEMMA FailRefines ==
  ASSUME IInv, NEW s \in Steps, NEW halt, Fail(s, halt)
  PROVE  Lifecycle!Fail(s)
<1>. DEFINE K == Cascade(s)
            D == Downstream(plan.deps, {s})
<1>1. /\ seed = NoSeed /\ seed' = NoSeed /\ saved' = saved /\ plan' = plan
      /\ s \in running /\ running' = running \ {s} /\ completed' = completed
      /\ failed' = failed \cup {s} /\ skipped' = skipped \cup K
  BY DEF Fail, Looping, mark_failed
<1>2. Failing(s)
  BY <1>1 DEF Failing, NoSeed
<1>3. /\ K \subseteq pending \cup ready
      /\ \A c \in Steps : plan.deps[c] \cap (failed \cup cascaded \cup {s} \cup K) # {}
                           => c \in cascaded \cup K
      /\ s \notin completed \cup skipped \cup failed \cup cascaded
      /\ s \notin K
  BY <1>2, CascadeFacts
<1>4. K \subseteq D
  BY CascadeIsDownstream
<1>5. D \subseteq cascaded \cup K
  <2>1. \A c \in Steps : plan.deps[c] \cap ({s} \cup (cascaded \cup K)) # {} => c \in cascaded \cup K
    BY <1>3
  <2>. HIDE DEF K
  <2>2. Downstream(plan.deps, {s}) \subseteq cascaded \cup K
    BY <2>1, DownstreamWithin
  <2>. QED  BY <2>2
<1>6. cascaded \subseteq skipped /\ K \cap (running \cup completed \cup failed) = {}
  BY <1>1, <1>3 DEF NoSeed, IInv, CascadeOK, OneStage
<1>7. Done = completed /\ Failures = failed /\ Blocked = skipped
  BY <1>1, ReplayedBlocked
<1>8. AbstractStatus = StatusIn(completed, failed, skipped, running)
  BY <1>7, MappedStatus
<1>9. AbstractStatus' = StatusIn(completed, failed \cup {s}, skipped \cup K, running \ {s})
  BY <1>1, DownstreamOfNone DEF AbstractStatus, NoSeed
<1>10. AbstractStatus[s] = "running"
  BY <1>1, <1>3, <1>8 DEF StatusIn
<1>11. \A x \in Steps : AbstractStatus'[x] = CASE x = s    -> "failed"
                                               [] x \in D  -> "skipped"
                                               [] OTHER    -> AbstractStatus[x]
  <2>1. skipped \cap (completed \cup failed) = {}
    BY DEF IInv, OneStage
  <2>. HIDE DEF K, D
  <2>2. ASSUME NEW x \in Steps, x \in D, x # s
        PROVE  AbstractStatus'[x] = "skipped"
    <3>1. x \in skipped \cup K /\ x \notin completed \cup failed \cup {s}
      BY <2>1, <2>2, <1>5, <1>6
    <3>2. skipped \cap running = {}
      BY DEF IInv, OneStage
    <3>. QED  BY <3>1, <3>2, <1>6, <1>9 DEF StatusIn
  <2>3. ASSUME NEW x \in Steps, x \notin D, x # s
        PROVE  AbstractStatus'[x] = AbstractStatus[x]
    BY <2>3, <1>4, <1>8, <1>9 DEF StatusIn
  <2>4. AbstractStatus'[s] = "failed"
    BY <1>3, <1>9 DEF StatusIn
  <2>5. s \notin D
    BY <1>3, <1>5
  <2>. QED  BY <2>2, <2>3, <2>4, <2>5
<1>12. D = Lifecycle!Downstream(plan.deps, {s})
  BY SameDownstream
<1>13. AbstractStatus' = [x \in Steps |-> CASE x = s   -> "failed"
                                           [] x \in D -> "skipped"
                                           [] OTHER   -> AbstractStatus[x]]
  <2>1. AbstractStatus' = [x \in Steps |-> AbstractStatus'[x]]
    BY <1>9 DEF StatusIn
  <2>. HIDE DEF D
  <2>. QED  BY <2>1, <1>11
<1>. HIDE DEF D
<1>. QED
  BY <1>1, <1>10, <1>12, <1>13 DEF Lifecycle!Fail, AbstractCheckpoints

(* A halted client's checkpoint restores what it had not booked.           *)
LEMMA CheckpointRefines ==
  ASSUME IInv, UnbookedOK, Checkpoint
  PROVE  Lifecycle!Record
<1>. DEFINE D == Downstream(plan.deps, failed)
<1>1. /\ seed = NoSeed /\ UNCHANGED <<plan, seed, running, completed, failed, skipped>>
      /\ saved' = [plan |-> plan, cascaded |-> cascaded \ unbooked,
                   at |-> [completed |-> completed, failed |-> failed,
                           skipped |-> skipped \ unbooked]]
  BY DEF Checkpoint, inner, sets
<1>2. cascaded \subseteq skipped
  BY <1>1 DEF NoSeed, IInv, CascadeOK
<1>3. D \subseteq cascaded
  <2>1. \A c \in Steps : plan.deps[c] \cap (failed \cup cascaded) # {} => c \in cascaded
    BY DEF IInv, CascadeOK
  <2>. QED  BY <2>1, DownstreamWithin
<1>4. (skipped \ unbooked) \cup D = skipped
  BY <1>2, <1>3 DEF UnbookedOK
<1>5. saved' # NoCheckpoint
  <2>1. "deps" \in DOMAIN plan
    BY ProtocolAssumption DEF IInv, TypeOK, IsPlan
  <2>2. plan # <<>>
    BY <2>1
  <2>. QED  BY <1>1, <2>2 DEF NoCheckpoint
<1>6. AbstractCheckpoints' = {[deps |-> plan.deps, status |-> StatusIn(completed, failed, skipped, {})]}
  BY <1>1, <1>4, <1>5 DEF AbstractCheckpoints
<1>7. Done = completed /\ Failures = failed /\ Blocked = skipped
  BY <1>1, ReplayedBlocked
<1>8. AbstractStatus = StatusIn(completed, failed, skipped, running)
  BY <1>7, MappedStatus
<1>d. /\ completed \cap (failed \cup skipped \cup running) = {}
      /\ failed \cap (skipped \cup running) = {} /\ skipped \cap running = {}
  BY DEF IInv, OneStage
<1>9. StatusIn(completed, failed, skipped, {})
        = [s \in Steps |-> IF AbstractStatus[s] = "running" THEN "waiting" ELSE AbstractStatus[s]]
  <2>. DEFINE kept == StatusIn(completed, failed, skipped, {})
  <2>1. kept = [s \in Steps |-> kept[s]]
    BY DEF StatusIn
  <2>2. ASSUME NEW s \in Steps
        PROVE  kept[s] = IF AbstractStatus[s] = "running" THEN "waiting" ELSE AbstractStatus[s]
    <3>1. CASE s \in completed
      BY <3>1, <1>8, <1>d, StatusOf
    <3>2. CASE s \in failed
      BY <3>2, <1>8, <1>d, StatusOf
    <3>3. CASE s \in skipped
      BY <3>3, <1>8, <1>d, StatusOf
    <3>4. CASE s \notin completed \cup failed \cup skipped
      BY <3>4, <1>8, <1>d, StatusOf
    <3>. QED  BY <3>1, <3>2, <3>3, <3>4
  <2>. HIDE DEF kept
  <2>3. kept = [s \in Steps |-> IF AbstractStatus[s] = "running" THEN "waiting" ELSE AbstractStatus[s]]
    BY <2>1, <2>2
  <2>. QED  BY <2>3 DEF kept
<1>10. AbstractCheckpoints' = {} \cup {Lifecycle!Now}
  BY <1>6, <1>9 DEF Lifecycle!Now
<1>11. UNCHANGED <<plan.deps, AbstractStatus>>
  BY <1>1 DEF AbstractStatus
<1>12. \E kept \in SUBSET AbstractCheckpoints : AbstractCheckpoints' = kept \cup {Lifecycle!Now}
  BY <1>10
<1>. QED  BY <1>11, <1>12 DEF Lifecycle!Record

LEMMA NextRefines ==
  IInv /\ UnbookedOK /\ [Next]_vars => [Lifecycle!Next]_Lifecycle!vars
<1>. SUFFICES ASSUME IInv, UnbookedOK, [Next]_vars
              PROVE  [Lifecycle!Next]_Lifecycle!vars
  OBVIOUS
<1>1. ASSUME UNCHANGED <<sets, plan, seed, saved>>
      PROVE  UNCHANGED Lifecycle!vars
  BY <1>1 DEF sets, Lifecycle!vars, AbstractStatus, AbstractCheckpoints
<1>2. ASSUME NEW s \in Steps, NEW p \in Priorities, SetPriority(s, p)
      PROVE  UNCHANGED Lifecycle!vars
  BY <1>1, <1>2 DEF SetPriority, set_priority
<1>3. ASSUME UNCHANGED vars
      PROVE  UNCHANGED Lifecycle!vars
  BY <1>1, <1>3 DEF vars, inner
<1>4. ASSUME NEW p \in Plans, Execute(p)
      PROVE  Lifecycle!Next
  BY <1>4, ExecuteRefines DEF Lifecycle!Next
<1>5. ASSUME NEW max, NEW free, Dispatch(max, free)
      PROVE  Lifecycle!Next
  BY <1>5, DispatchRefines DEF Dispatch, Lifecycle!Next
<1>6. ASSUME NEW s \in Steps, \/ Complete(s) \/ Skip(s)
                               \/ \E halt \in BOOLEAN : Fail(s, halt)
      PROVE  Lifecycle!Next
  BY <1>6, SettleRefines, FailRefines DEF Lifecycle!Next
<1>7. ASSUME Resume \/ Checkpoint
      PROVE  Lifecycle!Next
  BY <1>7, ResumeRefines, CheckpointRefines DEF Lifecycle!Next
<1>. QED
  BY <1>2, <1>3, <1>4, <1>5, <1>6, <1>7, SeedSettledRefines, SeedFailedRefines DEF Next

(* The scheduler, with a client that may crash, be cancelled or resume at  *)
(* any point, starts, settles and blocks steps as StepLifecycle says.      *)
THEOREM SchedulerRefinesLifecycle == Spec => ImplementsLifecycle
<1>1. Init => UnbookedOK
  BY DEF Init, UnbookedOK
<1>2. Spec => []UnbookedOK
  BY <1>1, NextUnbookedOK, SpecIInv, PTL DEF Spec
<1>. QED
  BY <1>2, InitRefines, NextRefines, SpecIInv, PTL DEF Spec, ImplementsLifecycle, Lifecycle!Spec
==============================================================================
