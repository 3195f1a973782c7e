----------------------------- MODULE MCRecurring -----------------------------
(***************************************************************************)
(* A calendar with three fields: hours of three minutes, days of two      *)
(* hours, and the day.  The spec names the minutes 0 and 2 of the second   *)
(* hour of any day.                                                        *)
(***************************************************************************)
EXTENDS Recurring

MCCalendar == [m \in 0 .. MaxTime + SearchLimit |-> <<m % 3, (m \div 3) % 2, m \div 6>>]
MCFields == <<{0, 2}, {1}, Any>>

=============================================================================
