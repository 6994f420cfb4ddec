---------------------------- MODULE MC_LiveSlots ----------------------------
(* One printer with two trays, in small scenarios. *)
EXTENDS LiveSlots, TLC

CONSTANTS s1, s2, p1, r1, r2, q

MCOne == [s \in {s1, s2} |-> p1]
Few(seconds, assigned, edited, failing, where, what) ==
  [time |-> seconds, hands |-> assigned, changes |-> edited, faults |-> failing,
   slots |-> where, about |-> what]

\* Two rolls move between two trays; one of them comes and goes while the library
\* and the configuration change, or a poll fails; and readings of every kind wait at
\* one tray while its slot is assigned by hand.
MCLimits ==
  { Few(2, FALSE, 0, 0, {s1, s2}, {r1, r2}),
    Few(2, TRUE, 2, 1, {s1}, {r1}), Few(2, TRUE, 0, 1, {s1, s2}, {r1}),
    Few(3, TRUE, 0, 0, {s1}, {r1, r2}), Few(3, TRUE, 0, 0, {s1}, {r1, q, Unknown}),
    Few(2, TRUE, 0, 0, {s1}, {r1, r2, q, Unknown, Bare}) }
=============================================================================
