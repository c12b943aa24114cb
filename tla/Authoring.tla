------------------------------ MODULE Authoring ------------------------------
(***************************************************************************)
(* A test plan while it is written (crates/paramodel-plan/src/plan.rs) and *)
(* what the compiler reads from it: the values every parameter gets in     *)
(* every trial, once for the steps and once for the instance graph.        *)
(*                                                                         *)
(* Values carry the name of a parameter, and where they come from, which   *)
(* no fingerprint covers.  The elements of a plan have names of their own, *)
(* and so have the parameters of an element.  Abstracted: fingerprints are *)
(* the fields they are made of; ids, labels, tags, descriptions, policies. *)
(***************************************************************************)
EXTENDS TrialSpace

CONSTANTS
  Declarations,     \* element -> its parameters, in order
  Axes, Orders,     \* axes to add, orders of their names to ask for
  Entries,          \* literals and tokens for bindings and configurations
  Coordinates,      \* what they are set for
  Hosts,            \* token resolvers, and NoHost: tokens -> values
  NoHost, NoValue, HexBase, MaxEdits

VARIABLES draft,    \* the plan
          earlier,  \* the plan before the last edit
          edit,     \* the last edit
          edits     \* bounds them

authoring_vars == <<draft, earlier, edit, edits>>

Value(of, v, content, from) == [of |-> of, kind |-> v, content |-> content, from |-> from]
Literally(v) == [literal |-> v]
Token(key)   == [token |-> key]
IsToken(entry) == "token" \in DOMAIN entry

\* A NaN is one, whatever its bits; of a selection the order is forgotten.
Canonical(v) == CASE v.kind = "double" /\ v.content \in {"nan", "other nan"} -> "nan"
                  [] v.kind = "selection" -> ToSet(v.content)
                  [] OTHER -> v.content
fingerprint(v) == [of |-> v.of, kind |-> v.kind, content |-> Canonical(v)]

-----------------------------------------------------------------------------
(* Answers about a plan                                                    *)

find_parameter(p, e, name) ==
  LET those == IF e \in Elements
               THEN SelectSeq(p.parameters[e], LAMBDA q : q.name = name) ELSE <<>>
  IN  IF those = <<>> THEN NoValue ELSE Head(those)

contains_value(a, v) == \E x \in ToSet(a.values) : fingerprint(x) = fingerprint(v)

AxisValid(a) ==
  /\ a.values # <<>>
  /\ IsInjective([i \in DOMAIN a.values |-> fingerprint(a.values[i])])
  /\ a.boundary_values # NoValue => \A b \in ToSet(a.boundary_values) : contains_value(a, b)

AxisFits(p, a) ==
  LET q == find_parameter(p, a.element, a.parameter)
  IN  /\ q # NoValue
      /\ ~q.derived
      /\ \A v \in ToSet(a.values) : v.kind = q.kind

Target(a) == <<a.element, a.parameter>>

\* Mutant: two axes may vary the same parameter.
AxesApart_named(p) == IsInjective([i \in DOMAIN p.axes |-> p.axes[i].name])

AxesApart(p) == /\ IsInjective([i \in DOMAIN p.axes |-> p.axes[i].name])
                /\ IsInjective([i \in DOMAIN p.axes |-> Target(p.axes[i])])

BindingsFit(p) ==
  \A c \in DOMAIN p.bindings :
    /\ find_parameter(p, c[1], c[2]) # NoValue
    /\ \A a \in ToSet(p.axes) : Target(a) # c

validate_plan(p) == /\ \A a \in ToSet(p.axes) : AxisValid(a) /\ AxisFits(p, a)
                    /\ AxesApart(p)
                    /\ BindingsFit(p)

\* What is hashed: the order of the axes, not where values come from.
EntryPrint(entry) == IF IsToken(entry) THEN entry ELSE Literally(fingerprint(entry.literal))
Prints(values) == IF values = NoValue THEN NoValue
                  ELSE [i \in DOMAIN values |-> fingerprint(values[i])]
plan_fingerprint(p) ==
  [elements |-> [e \in Elements |->
                   <<p.parameters[e], [n \in DOMAIN p.configuration[e] |->
                                         EntryPrint(p.configuration[e][n])]>>],
   axes     |-> [i \in DOMAIN p.axes |->
                   [p.axes[i] EXCEPT !.values = Prints(@), !.boundary_values = Prints(@)]],
   bindings |-> [c \in DOMAIN p.bindings |-> EntryPrint(p.bindings[c])]]

-----------------------------------------------------------------------------
(* Edits                                                                   *)

Blank(parameters) == [parameters |-> parameters, configuration |-> [e \in Elements |-> <<>>],
                      axes |-> <<>>, bindings |-> <<>>]

InitAuthoring == /\ \E d \in Declarations : draft = Blank(d)
                 /\ earlier = draft
                 /\ edit = "none"
                 /\ edits = 0

Edited(how, p) == /\ edits < MaxEdits
                  /\ edits' = edits + 1
                  /\ edit' = how
                  /\ earlier' = draft
                  /\ draft' = p

AddAxis(a) == Edited("axis", [draft EXCEPT !.axes = Append(@, a)])

\* insert or replace.
Bind(c, entry) == Edited("binding", [draft EXCEPT !.bindings = (c :> entry) @@ @])
Configure(c, entry) ==
  Edited("configuration", [draft EXCEPT !.configuration[c[1]] = (c[2] :> entry) @@ @])

AxisNames(p) == {a.name : a \in ToSet(p.axes)}

with_axes_reordered(order) ==
  /\ Len(order) = Len(draft.axes)
  /\ IsInjective(order)
  /\ ToSet(order) \subseteq AxisNames(draft)
  /\ Edited("order", [draft EXCEPT !.axes = [i \in DOMAIN order |->
       Head(SelectSeq(draft.axes, LAMBDA a : a.name = order[i]))]])

NextAuthoring ==
  \/ \E a \in Axes : AddAxis(a)
  \/ \E c \in Coordinates, entry \in Entries : Bind(c, entry) \/ Configure(c, entry)
  \/ \E order \in Orders : with_axes_reordered(order)

-----------------------------------------------------------------------------
(* What the compiler makes of it                                           *)

Sizes(p) == [i \in DOMAIN p.axes |-> [size |-> Len(p.axes[i].values)]]
TrialsOf(p) == 0..(trial_count(Sizes(p)) - 1)
trial_index(p, offs) == FoldLeft(+, 0, [i \in DOMAIN offs |-> offs[i] * strides(Sizes(p))[i]])

\* A digit for every axis, or two when some axis has more values than digits go.
trial_code(p, t) ==
  LET offs == offsets(Sizes(p), t)
      wide == \E i \in DOMAIN p.axes : Len(p.axes[i].values) > HexBase
      digits(o) == IF wide THEN <<o \div HexBase, o % HexBase>> ELSE <<o>>
  IN  FoldLeft(\o, <<>>, [i \in DOMAIN offs |-> digits(offs[i])])

EntriesOf(p) == Range(p.bindings) \cup UNION {Range(p.configuration[e]) : e \in Elements}

\* Only with a host are there to be tokens at all.
gather_unsupported(p, host) == host = NoHost /\ \E entry \in EntriesOf(p) : IsToken(entry)

Lookup(f, k) == IF k \in DOMAIN f THEN f[k] ELSE NoValue
FirstOf(s) == LET some == SelectSeq(s, LAMBDA v : v # NoValue)
              IN  IF some = <<>> THEN NoValue ELSE Head(some)

FromAxis(p, e, q, t) ==
  LET those == {i \in DOMAIN p.axes : Target(p.axes[i]) = <<e, q.name>>}
  IN  IF those = {} THEN NoValue
      ELSE p.axes[Min(those)].values[offsets(Sizes(p), t)[Min(those)] + 1]

\* A token the host makes nothing of, or that is more than one key, is passed over.
resolve_config_entry(entry, host) ==
  IF entry = NoValue THEN NoValue
  ELSE IF IsToken(entry) THEN Lookup(host, entry.token) ELSE entry.literal

\* For the steps; NoValue is E001.
resolve_configuration(p, e, q, t, host) ==
  FirstOf(<<FromAxis(p, e, q, t),
            resolve_config_entry(Lookup(p.bindings, <<e, q.name>>), host),
            resolve_config_entry(Lookup(p.configuration[e], q.name), host),
            q.default>>)

Named(p) == UNION {{<<e, q>> : q \in ToSet(p.parameters[e])} : e \in Elements}

\* What a trial assigns, (element, parameter) -> value, and what is hashed of it.
Assigned(p, t, host) == [c \in Named(p) |-> resolve_configuration(p, c[1], c[2], t, host)]
canonical_bytes(assigned) == [c \in DOMAIN assigned |-> fingerprint(assigned[c])]

\* Assignments::new: a value knows the parameter it is for.
Misaddressed(assigned) == \E c \in DOMAIN assigned : assigned[c].of # c[2].name

LiteralOf(entry) == IF entry = NoValue THEN NoValue
                    ELSE IF IsToken(entry) THEN NoValue ELSE entry.literal

\* For the instance graph.
resolve_bindings_map(p, e, q, t) ==
  FirstOf(<<FromAxis(p, e, q, t), LiteralOf(Lookup(p.bindings, <<e, q.name>>)),
            LiteralOf(Lookup(p.configuration[e], q.name)), q.default>>)
==============================================================================
