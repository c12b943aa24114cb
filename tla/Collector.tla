----------------------------- MODULE Collector -----------------------------
(***************************************************************************)
(* InMemoryArtifactCollector: the collections that are open, those that    *)
(* were stopped, and the metrics, by trial, under calls in any order.      *)
(***************************************************************************)
EXTENDS Sequences, Naturals

CONSTANTS Trials, Pieces, Values, MaxPieces

VARIABLES open_trials,   \* trials with a collection -> what is in it
          finished,      \* stopped trials -> what their last collection was
          metrics,       \* trial -> output -> value
          collected,     \* trial -> all that was collected for it, in order
          handed         \* trial -> all that stop_collection returned

collector == <<open_trials, finished, metrics, collected, handed>>

Nobody == [t \in {} |-> <<>>]
With(f, k, v) == [x \in DOMAIN f \cup {k} |-> IF x = k THEN v ELSE f[x]]
Lacking(f, k) == [x \in DOMAIN f \ {k} |-> f[x]]
At(f, k) == IF k \in DOMAIN f THEN f[k] ELSE <<>>

InitCollector ==
  /\ open_trials = Nobody /\ finished = Nobody
  /\ metrics = [t \in Trials |-> {}]
  /\ collected = [t \in Trials |-> <<>>]
  /\ handed = [t \in Trials |-> <<>>]

\* Mutant: a second start forgets what the first has collected.
start_collection_anew(t) ==
  /\ open_trials' = With(open_trials, t, <<>>)
  /\ UNCHANGED <<finished, metrics, collected, handed>>

start_collection(t) ==
  /\ open_trials' = With(open_trials, t, At(open_trials, t))
  /\ UNCHANGED <<finished, metrics, collected, handed>>

stop_collection(t) ==
  /\ t \in DOMAIN open_trials                     \* or NoCollection
  /\ finished' = With(finished, t, open_trials[t])
  /\ handed' = [handed EXCEPT ![t] = @ \o open_trials[t]]
  /\ open_trials' = Lacking(open_trials, t)
  /\ UNCHANGED <<metrics, collected>>

\* Opens a collection where there is none, a stopped one included.
collect_artifact(t, piece) ==
  /\ Len(collected[t]) < MaxPieces
  /\ open_trials' = With(open_trials, t, Append(At(open_trials, t), piece))
  /\ collected' = [collected EXCEPT ![t] = Append(@, piece)]
  /\ UNCHANGED <<finished, metrics, handed>>

collect_metrics(t, piece, v) ==
  /\ metrics' = [metrics EXCEPT ![t] = {m \in @ : m[1] # piece} \cup {<<piece, v>>}]
  /\ UNCHANGED <<open_trials, finished, collected, handed>>

artifacts_of(t) == IF t \in DOMAIN open_trials THEN open_trials[t] ELSE At(finished, t)

NextCollector ==
  \/ \E t \in Trials : start_collection(t)
  \/ \E t \in Trials : stop_collection(t)
  \/ \E t \in Trials, piece \in Pieces : collect_artifact(t, piece)
  \/ \E t \in Trials, piece \in Pieces, v \in Values : collect_metrics(t, piece, v)

SpecCollector == InitCollector /\ [][NextCollector]_collector

=============================================================================
