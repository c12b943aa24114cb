------------------------------ MODULE Resources ------------------------------
(***************************************************************************)
(* DefaultResourceManager (crates/paramodel-executor/src/resources.rs):    *)
(* the active allocations behind one mutex and the capacity behind         *)
(* another, one operator per method.  The trait's pools and quotas are     *)
(* stubs there and left out.                                               *)
(*                                                                         *)
(* Abstracted: one dimension instead of five, either built in (cpu,        *)
(* memory, storage, network) or one of the adopter's custom ones, which    *)
(* the code treats differently when no capacity is set.                    *)
(***************************************************************************)
EXTENDS Naturals, FiniteSetsExt

CONSTANTS
  Capacity,    \* the cap given to with_capacity, or Unbounded
  Unbounded,   \* no cap was given
  Custom,      \* TRUE: the dimension is a custom resource
  MaxUnits     \* u64::MAX: more than anyone asks for

ASSUME ResourcesAssumption ==
  /\ Unbounded \notin Nat /\ Capacity \in Nat \cup {Unbounded}
  /\ Custom \in BOOLEAN /\ MaxUnits \in Nat

VARIABLE active   \* the allocations held: [id, granted]

granted_sum(allocations) == MapThenSumSet(LAMBDA a : a.granted, allocations)

can_allocate(need) ==
  IF Capacity = Unbounded THEN TRUE ELSE granted_sum(active) + need <= Capacity

(* What a snapshot says is free.  Without a cap the built-in dimensions    *)
(* are unlimited and the custom ones are not mentioned, which a reader     *)
(* takes for none.                                                         *)
available ==
  IF Capacity = Unbounded THEN IF Custom THEN 0 ELSE MaxUnits
  ELSE IF granted_sum(active) <= Capacity THEN Capacity - granted_sum(active) ELSE 0

(* The second half of allocate, after can_allocate said yes: the lock was  *)
(* given back in between.                                                  *)
push(allocation) == active' = active \cup {allocation}

(* Mutants: nothing is given back, or everything else is. *)
release_nothing(id) == active' = active
release_rest(id) == active' = {a \in active : a.id = id}

release(id) == active' = {a \in active : a.id # id}
==============================================================================
