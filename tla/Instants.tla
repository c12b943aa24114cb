------------------------------ MODULE Instants ------------------------------
(***************************************************************************)
(* Instants as the sqlite stores keep them: as text.  An instant is a      *)
(* number of ticks, Base * Base of them in a second, so that a second has  *)
(* two digits of fraction in base Base.  jiff prints no trailing zeros and *)
(* no fraction for a whole second, and ends with "Z"; "Z" is greater than  *)
(* every digit and than ".".  So a digit that is not printed counts as one *)
(* that is greater than all others.                                        *)
(***************************************************************************)
EXTENDS Integers

CONSTANT Base

ASSUME BaseAssumption == Base \in Nat \ {0, 1}

Second(t) == t \div (Base * Base)

\* The place of the text of t among all texts.
Rank(t) ==
  LET f    == t % (Base * Base)
      high == IF f = 0 THEN Base ELSE f \div Base
      low  == IF f % Base = 0 THEN Base ELSE f % Base
  IN  (Second(t) * (Base + 1) + high) * (Base + 1) + low

\* Cut to the whole second, as Timestamp::from_second does.
Whole(t) == Second(t) * Base * Base

=============================================================================
