---------------------------- MODULE MC_LiveUsage ----------------------------
(* Weights in units of ten grams, the thresholds in the order the code has them. *)
EXTENDS LiveUsage, TLC

\* Three reports of every kind, of one roll, with a weighing by hand and a fault.
MCWeights ==
  [jobs : {{j} : j \in Jobs}, rolls : {{r} : r \in Rolls}, finishes : {Finishes},
   stages : {Stages}, nozzles : {Nozzles}, grams : {4}, polls : {3}, edits : {1}, faults : {1}]
\* Four reports of two jobs and an unnamed print, of two rolls.
MCSessions ==
  [jobs : {Jobs}, rolls : {Rolls}, finishes : {{"no", "success"}}, stages : {{"middle"}},
   nozzles : {{"hot"}}, grams : {1}, polls : {4}, edits : {0}, faults : {0}]
MCLimits == MCWeights \cup MCSessions
MCSymmetry == Permutations(Jobs) \cup Permutations(Rolls)
=============================================================================
