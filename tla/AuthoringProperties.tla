------------------------- MODULE AuthoringProperties -------------------------
(***************************************************************************)
(* What the compiler's answers about a plan owe each other.                *)
(***************************************************************************)
EXTENDS Authoring

\* Up to where the values come from.
Printed(p, t, host) == canonical_bytes(Assigned(p, t, host))

Compiles(p, host) ==
  /\ validate_plan(p)
  /\ ~gather_unsupported(p, host)
  /\ \A c \in Named(p) : Assigned(p, 0, host)[c] # NoValue

WellPut(p) ==
  /\ \A a \in ToSet(p.axes) : \A v \in ToSet(a.values) : v.of = a.parameter
  /\ \A c \in DOMAIN p.bindings : LiteralOf(p.bindings[c]).of = c[2]
  /\ \A e \in Elements : \A q \in DOMAIN p.configuration[e] :
       LiteralOf(p.configuration[e][q]).of = q

\* A plan that has values for its first trial has them for all, no two trials
\* have the same, and every value of an axis has its trial; the index and the
\* code of a trial tell it from the others.  Where every value that was written
\* is for the parameter it was written to, every value of a trial is.
TrialsApart(p, host) ==
  Compiles(p, host) =>
    /\ \A t \in TrialsOf(p), c \in Named(p) : Assigned(p, t, host)[c] # NoValue
    /\ \A t, u \in TrialsOf(p) : t # u => /\ Printed(p, t, host) # Printed(p, u, host)
                                          /\ trial_code(p, t) # trial_code(p, u)
    /\ \A t \in TrialsOf(p) : trial_index(p, offsets(Sizes(p), t)) = t
    /\ \A a \in ToSet(p.axes) : \A v \in ToSet(a.values) :
         \E t \in TrialsOf(p), c \in Named(p) :
           <<c[1], c[2].name>> = Target(a) /\ Assigned(p, t, host)[c] = v
    /\ host = NoHost /\ WellPut(p) =>
         \A t \in TrialsOf(p) : ~Misaddressed(Assigned(p, t, host))

\* The instance graph tells of the values the steps are run with, but where
\* these were a token.
InstancesTell(p, host) ==
  Compiles(p, host) =>
    \A t \in TrialsOf(p), c \in Named(p) :
      \/ resolve_bindings_map(p, c[1], c[2], t) = Assigned(p, t, host)[c]
      \/ host # NoHost /\ Assigned(p, t, host)[c] \in Range(host)

\* To reorder the axes makes a plan neither valid nor invalid, and reorders the
\* trials.
ReorderingKeeps(host) ==
  edit = "order" =>
    /\ validate_plan(draft) <=> validate_plan(earlier)
    /\ Compiles(draft, host) => {Printed(draft, t, host) : t \in TrialsOf(draft)}
                                = {Printed(earlier, t, host) : t \in TrialsOf(earlier)}

\* Plans of one fingerprint compile alike and have the same values trial by
\* trial, so that what was stored under it may stand for both.
PrintTells(host) ==
  plan_fingerprint(draft) = plan_fingerprint(earlier) =>
    /\ Compiles(draft, host) <=> Compiles(earlier, host)
    /\ Compiles(draft, host) =>
         \A t \in TrialsOf(draft) : Printed(draft, t, host) = Printed(earlier, t, host)

\* However a plan came to be, what is read from it agrees: trials are told
\* apart, the instance graph tells the configurations of the steps, reordered
\* axes give the same trials, and a fingerprint means the plan.
\* (TestPlan::validate, fingerprint, with_axes_reordered; resolve_configuration,
\* resolve_bindings_map)
PlansSound ==
  edits > 0 => \A host \in Hosts : /\ TrialsApart(draft, host)
                                   /\ InstancesTell(draft, host)
                                   /\ ReorderingKeeps(host)
                                   /\ PrintTells(host)
==============================================================================
