------------------------------ MODULE Journals ------------------------------
(***************************************************************************)
(* The journal of executions: the table of sqlite and the channels that    *)
(* publish what is written to it, the log of the in-memory writer, what a  *)
(* state manager makes of the events, and somebody who follows an          *)
(* execution.  The events are those an executor writes, one run at a time, *)
(* that starts, ends or is resumed.                                        *)
(***************************************************************************)
EXTENDS Pages, FiniteSets

CONSTANTS Executions, Capacity, MaxEvents, MaxRuns,
          Steps,             \* those that run
          Asked,             \* those that is_step_completed is asked about
          Likened            \* step -> the steps that run with an id LIKE its own:
                             \* an underscore is LIKE any character, a letter LIKE
                             \* the same letter in the other case

ASSUME JournalsAssumption ==
  /\ None \notin Executions /\ Capacity \in Nat /\ MaxEvents \in Nat
  /\ Steps \subseteq Asked /\ Likened \in [Asked -> SUBSET Steps]
  /\ \A s \in Steps : s \in Likened[s]

VARIABLES table,     \* rows of journal_events
          log,       \* the vector of InMemoryJournalWriter
          sent,      \* execution -> what has been sent on its channel
          writer,    \* the run that writes
          runs,      \* execution -> its runs so far
          follower,  \* somebody who follows an execution
          cut        \* executions with events dropped on request

journals == <<table, log, sent, writer, runs, follower, cut>>

Of(rows, e) == {r \in rows : r.exec = e}

\* Of the rows of an execution no two have one sequence.
Earlier(a, b) == a.seq < b.seq
Ordered(rows) == InTurn(rows, Pairs(rows, Earlier))

\* Of a vector the elements that are among the rows, in its order.
Sooner(i, j) == i < j
Those(s, rows) ==
  LET places == {i \in DOMAIN s : s[i] \in rows}
      turn   == InTurn(places, Pairs(places, Sooner))
  IN  [i \in DOMAIN turn |-> s[turn[i]]]

-----------------------------------------------------------------------------
(* Reading                                                                 *)

\* ORDER BY sequence; after is -1 where no sequence is given.
replay(e, after) == Ordered({r \in Of(table, e) : r.seq > after})
\* Mutant: the sequence it was given is read again.
mock_replay_from(e, after) ==
  Those(log, {r \in Of(ToSet(log), e) : r.seq >= (IF after < 0 THEN 0 ELSE after)})

mock_replay(e, after) ==
  Those(log, {r \in Of(ToSet(log), e) : r.seq > (IF after < 0 THEN 0 ELSE after)})

latest_sequence(e) ==
  IF Of(table, e) = {} THEN 0
  ELSE CHOOSE n \in {r.seq : r \in Of(table, e)} : \A r \in Of(table, e) : r.seq <= n
Higher(n, r) == IF r.seq > n THEN r.seq ELSE n
mock_latest_sequence(e) == FoldLeft(Higher, 0, mock_replay(e, 0))

latest_event(e) ==
  IF Of(table, e) = {} THEN None ELSE Last(replay(e, -1))
mock_latest_event(e) ==
  LET mine == mock_replay(e, 0) IN IF mine = <<>> THEN None ELSE Last(mine)

\* The writers' own query: all executions, in the order of the table, or of
\* the writing.
since(after) == {r \in table : r.seq > after}
mock_since(after) ==
  Those(log, {r \in ToSet(log) : r.seq > (IF after < 0 THEN 0 ELSE after)})

\* What a state manager reads in the events of an execution.
Nothing == [completed |-> {}, failed |-> {}, skipped |-> {}, in_flight |-> {},
            clean |-> FALSE]

\* Mutant: a step that failed still counts as running.
Reads_failed(known, r) ==
  CASE r.kind = "StepStarted"   -> [known EXCEPT !.in_flight = @ \cup {r.step}]
    [] r.kind = "StepCompleted" -> [known EXCEPT !.in_flight = @ \ {r.step},
                                                 !.completed = @ \cup {r.step}]
    [] r.kind = "StepFailed"    -> [known EXCEPT !.failed = @ \cup {r.step}]
    [] r.kind = "StepSkipped"   -> [known EXCEPT !.in_flight = @ \ {r.step},
                                                 !.skipped = @ \cup {r.step}]
    [] r.kind = "ExecutionCompleted" -> [known EXCEPT !.clean = TRUE]
    [] OTHER                    -> known

Reads(known, r) ==
  CASE r.kind = "StepStarted"   -> [known EXCEPT !.in_flight = @ \cup {r.step}]
    [] r.kind = "StepCompleted" -> [known EXCEPT !.in_flight = @ \ {r.step},
                                                 !.completed = @ \cup {r.step}]
    [] r.kind = "StepFailed"    -> [known EXCEPT !.in_flight = @ \ {r.step},
                                                 !.failed = @ \cup {r.step}]
    [] r.kind = "StepSkipped"   -> [known EXCEPT !.in_flight = @ \ {r.step},
                                                 !.skipped = @ \cup {r.step}]
    [] r.kind = "ExecutionCompleted" -> [known EXCEPT !.clean = TRUE]
    [] OTHER                    -> known

recover(e) == FoldLeft(Reads, Nothing, replay(e, -1))

\* InMemoryStateManager is told of the starts of runs only.
mock_recover(e) ==
  FoldLeft(Reads, Nothing,
           Those(log, {r \in Of(ToSet(log), e) : r.kind \in {"ExecutionStarted",
                                                            "ExecutionResumed"}}))

\* Mutant: a skipped step counts as completed.
is_step_completed_skipped(e, s) ==
  \E r \in Of(table, e) : /\ r.kind \in {"StepCompleted", "StepSkipped"}
                          /\ r.step \in Likened[s]

\* The id of the step is looked for with LIKE in the text of the event.
is_step_completed(e, s) ==
  \E r \in Of(table, e) : r.kind = "StepCompleted" /\ r.step \in Likened[s]

-----------------------------------------------------------------------------
(* Writing.  An event is stored, then published; the first event of a run  *)
(* goes through record_event as well and is published twice.               *)

NoRun == [exec |-> None, seq |-> 0, open |-> None, queue |-> <<>>, event |-> None]

InitJournals ==
  /\ table = {} /\ log = <<>>
  /\ sent = [e \in Executions |-> <<>>]
  /\ writer = NoRun
  /\ runs = [e \in Executions |-> 0]
  /\ follower = None
  /\ cut = {}

Event(e, n, kind, s) == [exec |-> e, seq |-> n, kind |-> kind, step |-> s,
                         run |-> runs[e]]

\* execute, resume: the sequence starts over.
StartRun(e) ==
  /\ writer.exec = None
  /\ runs[e] < MaxRuns
  /\ runs' = [runs EXCEPT ![e] = @ + 1]
  /\ LET kind  == IF runs[e] = 0 THEN "ExecutionStarted" ELSE "ExecutionResumed"
         first == [Event(e, 1, kind, None) EXCEPT !.run = runs[e] + 1]
     IN  writer' = [exec |-> e, seq |-> 1, open |-> None, event |-> first,
                    queue |-> <<"record", "publish", "write", "publish">>]
  /\ UNCHANGED <<table, log, sent, follower, cut>>

\* What the loop writes of a step comes when the step has ended, and a step
\* that completed or was skipped is not taken up again in the run.
Ended(s) == \E r \in ToSet(log) : /\ r.exec = writer.exec
                                  /\ r.run = runs[writer.exec]
                                  /\ r.step = s
                                  /\ r.kind \in {"StepCompleted", "StepSkipped"}

NextKind(kind, s) ==
  CASE kind = "StepStarted"   -> writer.open = None /\ ~Ended(s)
    [] kind = "StepSkipped"   -> writer.open = None /\ ~Ended(s)
    [] kind = "StepCompleted" -> writer.open = s
    [] kind = "StepFailed"    -> writer.open = s

WriteEvent(kind, s) ==
  /\ writer.exec # None
  /\ writer.queue = <<>>
  /\ writer.seq < MaxEvents
  /\ IF kind = "ExecutionCompleted" THEN writer.open = None /\ s = None
                                    ELSE s # None /\ NextKind(kind, s)
  /\ writer' = [writer EXCEPT
       !.seq = @ + 1,
       !.open = IF kind = "StepStarted" THEN s ELSE None,
       !.event = Event(writer.exec, writer.seq + 1, kind, s),
       !.queue = <<"write", "publish">>]
  /\ UNCHANGED <<table, log, sent, runs, follower, cut>>

\* INSERT OR IGNORE on (execution_id, sequence).
append(rows, r) == IF \E o \in Of(rows, r.exec) : o.seq = r.seq THEN rows
                   ELSE rows \cup {r}

Store ==
  /\ writer.queue # <<>>
  /\ Head(writer.queue) # "publish"
  /\ table' = append(table, writer.event)
  /\ log' = IF Head(writer.queue) = "write" THEN Append(log, writer.event) ELSE log
  /\ writer' = [writer EXCEPT !.queue = Tail(@)]
  /\ UNCHANGED <<sent, runs, follower, cut>>

\* The channel of the execution gets the event, stored or ignored.
Publish ==
  /\ writer.queue # <<>>
  /\ Head(writer.queue) = "publish"
  /\ sent' = [sent EXCEPT ![writer.exec] = Append(@, writer.event)]
  /\ writer' = IF Tail(writer.queue) = <<>> /\ writer.event.kind = "ExecutionCompleted"
               THEN NoRun ELSE [writer EXCEPT !.queue = Tail(@)]
  /\ UNCHANGED <<table, log, runs, follower, cut>>

\* The process ends; channels and whoever listened are gone.  The log goes on
\* here, for comparison: the in-memory writer would not outlive its process.
Crash ==
  /\ writer.exec # None
  /\ writer' = NoRun
  /\ sent' = [e \in Executions |-> <<>>]
  /\ follower' = None
  /\ UNCHANGED <<table, log, runs, cut>>

\* Events are dropped once from an execution, to bound the runs.
truncate_before(e, n) ==
  /\ e \notin cut
  /\ table' = {r \in table : r.exec # e \/ r.seq >= n}
  /\ table' # table
  /\ log' = Those(log, {r \in ToSet(log) : r.exec # e \/ r.seq >= n})
  /\ cut' = cut \cup {e}
  /\ UNCHANGED <<sent, writer, runs, follower>>

delete_all(e) ==
  /\ e \notin cut
  /\ table' = {r \in table : r.exec # e}
  /\ table' # table
  /\ log' = Those(log, {r \in ToSet(log) : r.exec # e})
  /\ cut' = cut \cup {e}
  /\ UNCHANGED <<sent, writer, runs, follower>>

-----------------------------------------------------------------------------
(* Following: a receiver from subscribe, then the history from replay.      *)

Subscribe(e) ==
  /\ follower = None
  /\ follower' = [exec |-> e, at |-> Len(sent[e]), got |-> <<>>, lost |-> 0,
                  history |-> None]
  /\ UNCHANGED <<table, log, sent, writer, runs, cut>>

Replay ==
  /\ follower # None
  /\ follower.history = None
  /\ follower' = [follower EXCEPT !.history = replay(follower.exec, -1)]
  /\ UNCHANGED <<table, log, sent, writer, runs, cut>>

\* Mutant: nobody is told of a loss.
Receive_silent ==
  /\ follower # None
  /\ LET ch     == sent[follower.exec]
         behind == Len(ch) - follower.at
         next   == IF behind > Capacity THEN Len(ch) - Capacity ELSE follower.at
     IN  /\ behind > 0
         /\ follower' = [follower EXCEPT !.at = next + 1, !.got = Append(@, ch[next + 1])]
  /\ UNCHANGED <<table, log, sent, writer, runs, cut>>

\* A receiver that is more than the capacity behind is told how many it lost
\* and goes on with the oldest that is left.
Receive ==
  /\ follower # None
  /\ LET ch     == sent[follower.exec]
         behind == Len(ch) - follower.at
     IN  /\ behind > 0
         /\ follower' =
              IF behind > Capacity
              THEN [follower EXCEPT !.at = Len(ch) - Capacity,
                                    !.lost = @ + behind - Capacity]
              ELSE [follower EXCEPT !.at = @ + 1, !.got = Append(@, ch[follower.at + 1])]
  /\ UNCHANGED <<table, log, sent, writer, runs, cut>>

NextJournals ==
  \/ \E e \in Executions : StartRun(e)
  \/ \E s \in Steps, kind \in {"StepStarted", "StepCompleted", "StepFailed", "StepSkipped"} :
       WriteEvent(kind, s)
  \/ WriteEvent("ExecutionCompleted", None)
  \/ Store
  \/ Publish
  \/ Crash
  \/ \E e \in Executions, n \in 1..MaxEvents : truncate_before(e, n)
  \/ \E e \in Executions : delete_all(e)
  \/ \E e \in Executions : Subscribe(e)
  \/ Replay
  \/ Receive

=============================================================================
