------------------------------ MODULE LiveUsage ------------------------------
(***************************************************************************)
(* Bambu live usage: what a print used, derived from the weights a printer *)
(* reports.                                                                *)
(*                                                                         *)
(* Source: src/src-tauri/src/bambu_live_usage.rs (sync_observed_usage and  *)
(* sync_live_weight) and src/src/backend/database_printer_usage_sessions.rs*)
(*                                                                         *)
(* One printer.  A report touches the session of the print it shows, then  *)
(* compares the weight of each roll in a transaction of its own, and then  *)
(* finishes the session.  A touch is a row of statements that commit one   *)
(* by one; an error or the end of the process may come after any of them.  *)
(* The next report starts again.  Which rolls are in the slots is          *)
(* LiveSlots's; loans, third-party rolls and deletion are left out.        *)
(***************************************************************************)
EXTENDS Integers, FiniteSets, Sequences, SequencesExt

CONSTANTS Jobs, Rolls,
          SmallDrop, MinSaneDrop, MaxJobDrop, MinCorrection, MinRecorded,
          Limits      \* bounds, one choice for a behaviour: the jobs and rolls it is
                      \* about, what its reports say of a print, the weight of a full
                      \* roll, its reports, weighings by hand, and faults

Finishes == {"no", "success", "failure"}
Stages == {"warm", "middle", "tail"}      \* progress: at most 10 %, or near its end
Nozzles == {"hot", "cooled", "cold"}      \* cooled: could print two hours ago
Active == "active-print"    \* the session of a print that does not say its job
ASSUME UsageAssumption ==
  /\ Active \notin Jobs /\ "none" \notin Jobs /\ IsFiniteSet(Rolls)
  /\ {SmallDrop, MinSaneDrop, MaxJobDrop, MinCorrection, MinRecorded} \subseteq Nat
  /\ Limits \subseteq [jobs : SUBSET Jobs, rolls : SUBSET Rolls,
                      finishes : SUBSET Finishes, stages : SUBSET Stages,
                      nozzles : SUBSET Nozzles, grams : Nat,
                      polls : Nat, edits : Nat, faults : Nat]

Keys == Jobs \cup {Active}
Unknown == -1           \* a roll nobody has weighed
Contexts == [key : Keys, finish : Finishes, stage : Stages, nozzle : Nozzles]
NoContext == [key |-> "none", finish |-> "no", stage |-> "middle", nozzle |-> "hot"]

VARIABLES weight,           \* filament_spools.current_weight_g
          sessions,         \* printer_live_usage_sessions, in the order they began
          poll,             \* the report being applied
          polls, edits, faults,
          taken,            \* history: grams the reports took off each roll
          torn,             \* history: a touch ended between two of its statements
          limit             \* the bounds chosen
vars == <<weight, sessions, poll, polls, edits, faults, taken, torn, limit>>
Reports == [key : limit.jobs \cup {Active}, finish : limit.finishes,
            stage : limit.stages, nozzle : limit.nozzles]

Idle == [phase |-> "idle", ctx |-> NoContext, uses |-> FALSE,
         grams |-> [r \in {} |-> 0], half |-> {}]
Init ==
  /\ limit \in Limits /\ weight \in [Rolls -> {Unknown, limit.grams}]
  /\ (\A r \in Rolls \ limit.rolls : weight[r] = Unknown) /\ sessions = <<>> /\ poll = Idle
  /\ polls = 0 /\ edits = 0 /\ faults = 0
  /\ taken = [r \in Rolls |-> 0] /\ torn = FALSE

(* ------------------------------- the sessions --------------------------- *)

Family(ss, k) == {i \in DOMAIN ss : ss[i].key = k}
Ongoing(ss, k) == {i \in Family(ss, k) : ss[i].status = "RUNNING"}
\* find_active_live_usage_session: the last one begun, 0 when there is none.
Current(ss, k) == IF Ongoing(ss, k) = {} THEN 0 ELSE Max(Ongoing(ss, k))
\* find_latest_live_usage_session: the last one seen, finished or not.
Latest(ss, k) ==
  CHOOSE i \in Family(ss, k) : \A j \in Family(ss, k) :
     ss[j].seen < ss[i].seen \/ (ss[j].seen = ss[i].seen /\ j <= i)
RecentlyCompleted(ss, k) == \E i \in Family(ss, k) : ss[i].recent

Seen(s) == [s EXCEPT !.seen = polls]
Added(s, r, g) == [s EXCEPT !.rolls = @ \cup {r}, !.used[r] = @ + g]
Counted(s, g) == [Seen(s) EXCEPT !.total = @ + g]
Ended(s, success) ==
  [s EXCEPT !.status = IF success THEN "COMPLETED" ELSE "FAILED", !.recent = success,
            !.done = polls, !.seen = polls]

\* next_live_usage_session_key: one more than the sessions of this key.
RunOfOngoing(ss, k) == Cardinality(Ongoing(ss, k)) + 1    \* mutant
Run(ss, k) == Cardinality(Family(ss, k)) + 1
New(ss, k) ==
  [key |-> k, run |-> Run(ss, k), status |-> "RUNNING", total |-> 0, rolls |-> {},
   used |-> [r \in Rolls |-> 0], seen |-> polls, done |-> 0, recent |-> FALSE]
Renamed(ss, p, k) == [ss EXCEPT ![p] = [Seen(@) EXCEPT !.key = k, !.run = Run(ss, k)]]
\* finish_other_active_live_usage_sessions.
Closed(ss, k) ==
  [i \in DOMAIN ss |->
     IF k # Active /\ ss[i].key # k /\ ss[i].status = "RUNNING"
     THEN Ended(ss[i], FALSE) ELSE ss[i]]

\* merge_active_live_usage_session, statement by statement.
RowAdded(ss, t, s, r) == [ss EXCEPT ![t] = Added(@, r, ss[s].used[r])]
RowDropped(ss, s, r) == [ss EXCEPT ![s].rolls = @ \ {r}, ![s].used[r] = 0]
TotalAdded(ss, t, s) == [ss EXCEPT ![t] = Counted(@, ss[s].total)]
Merged(ss, t, s) ==
  RemoveAt(TotalAdded([ss EXCEPT ![t].rolls = @ \cup ss[s].rolls,
                                 ![t].used = [r \in Rolls |-> @[r] + ss[s].used[r]]],
                      t, s), s)

\* ensure_live_usage_session, within a transaction.
Merges(ss, k) == k # Active /\ Current(ss, k) # 0 /\ Current(ss, Active) # 0
Promotes(ss, k) == k # Active /\ Current(ss, k) = 0 /\ Current(ss, Active) # 0
Begun(ss, k) == IF Promotes(ss, k) THEN Renamed(ss, Current(ss, Active), k)
                ELSE Append(ss, New(ss, k))
Shown(ss, k) == [ss EXCEPT ![Current(ss, k)] = Seen(@)]
Ensured(ss, k) ==
  Closed(IF Merges(ss, k) THEN Shown(Merged(ss, Current(ss, k), Current(ss, Active)), k)
         ELSE IF Current(ss, k) # 0 THEN Shown(ss, k) ELSE Begun(ss, k), k)

(* -------------------------------- a report ------------------------------ *)

Blocks(c) == c.finish # "success" /\ c.nozzle # "hot"
BlocksDrop(c, d) == Blocks(c) /\ ~(c.nozzle = "cooled" /\ d <= MinSaneDrop)
UsesCompleted(c) == c.finish = "success" \/ c.stage = "tail"
Late(c) == UsesCompleted(c) /\ RecentlyCompleted(sessions, c.key)
Touches(c) ==
  /\ c # NoContext /\ c.finish = "no" /\ ~Blocks(c) /\ ~(c.stage = "tail" /\ Late(c))
\* Whether the weights of this report count for its print.
Uses(c) ==
  c # NoContext /\ (c.finish = "no" \/ Current(sessions, c.key) # 0 \/ Late(c))

Report(c, grams) ==
  /\ poll.phase = "idle" /\ polls < limit.polls /\ polls' = polls + 1
  /\ poll' = [phase |-> IF Touches(c) THEN "touch" ELSE "weigh", ctx |-> c,
              uses |-> Uses(c), grams |-> grams, half |-> {}]
  /\ UNCHANGED <<weight, sessions, edits, faults, taken, torn, limit>>

Goes(phase) == poll' = [poll EXCEPT !.phase = phase]
Target == Current(sessions, poll.ctx.key)
Source == Current(sessions, Active)
Rest == UNCHANGED <<weight, polls, edits, faults, taken, torn, limit>>

\* touch_live_usage_session is not in a transaction.
Touch ==
  /\ poll.phase = "touch" /\ Rest
  /\ \/ Merges(sessions, poll.ctx.key) /\ Goes("merge") /\ UNCHANGED sessions
     \/ Target # 0 /\ ~Merges(sessions, poll.ctx.key) /\ Goes("show") /\ UNCHANGED sessions
     \/ Target = 0 /\ sessions' = Begun(sessions, poll.ctx.key) /\ Goes("close")
MergeRow(r) ==
  /\ poll.phase = "merge" /\ poll.half = {} /\ r \in sessions[Source].rolls /\ Rest
  /\ \/ /\ r \notin sessions[Target].rolls /\ UNCHANGED poll
        /\ sessions' = RowDropped(RowAdded(sessions, Target, Source, r), Source, r)
     \/ /\ r \in sessions[Target].rolls /\ poll' = [poll EXCEPT !.half = {r}]
        /\ sessions' = RowAdded(sessions, Target, Source, r)
DropRow(r) ==
  /\ poll.phase = "merge" /\ r \in poll.half /\ Rest
  /\ sessions' = RowDropped(sessions, Source, r) /\ poll' = [poll EXCEPT !.half = {}]
MergeTotal ==
  /\ poll.phase = "merge" /\ sessions[Source].rolls = {} /\ Rest
  /\ sessions' = TotalAdded(sessions, Target, Source) /\ Goes("drop")
DropSource ==
  /\ poll.phase = "drop" /\ Rest /\ sessions' = RemoveAt(sessions, Source) /\ Goes("show")
Show ==
  /\ poll.phase = "show" /\ Rest
  /\ sessions' = Shown(sessions, poll.ctx.key) /\ Goes("close")
Close ==
  /\ poll.phase = "close" /\ Rest
  /\ sessions' = Closed(sessions, poll.ctx.key) /\ Goes("weigh")

(* ------------------------------- the weights ---------------------------- *)

SaneDrop(g) == IF MinSaneDrop > g \div 10 THEN MinSaneDrop ELSE g \div 10

\* correct_live_usage_for_observed_weight_increase: the AMS shows more than was
\* left, but not more than before this print; at least half of its use remains.
Corrected(s, r, g) == weight[r] + s.used[r] - g
Corrects(c, r, g) ==
  /\ Family(sessions, c.key) # {}
  /\ LET s == sessions[Latest(sessions, c.key)] IN
     /\ r \in s.rolls /\ Corrected(s, r, g) > 0 /\ 2 * Corrected(s, r, g) >= s.used[r]
     /\ s.used[r] - Corrected(s, r, g) >= MinCorrection
CorrectionKept(s, r, g) == Seen(s)         \* mutant: the use stays as it was
Correction(s, r, g) ==
  LET less == s.used[r] - Corrected(s, r, g) IN
  [Seen(s) EXCEPT !.used[r] = @ - less, !.total = IF @ > less THEN @ - less ELSE 0]

\* Before a print without a job has used a roll, an increase is a new start.
Rebases(c, r, g) ==
  \/ weight[r] = 0
  \/ /\ poll.uses /\ c.key = Active /\ c.finish = "no" /\ g - weight[r] <= SaneDrop(weight[r])
     /\ Current(sessions, Active) # 0 => r \notin sessions[Current(sessions, Active)].rolls

Increase(c, r, g) ==
  /\ g > weight[r] /\ weight[r] # Unknown
  /\ \/ Rebases(c, r, g) /\ weight' = [weight EXCEPT ![r] = g] /\ UNCHANGED <<sessions, taken>>
     \/ /\ ~Rebases(c, r, g) /\ poll.uses /\ Corrects(c, r, g)
        /\ weight' = [weight EXCEPT ![r] = g]
        /\ taken' = [taken EXCEPT ![r] = @ - (g - weight[r])]
        /\ sessions' = [sessions EXCEPT ![Latest(sessions, c.key)] = Correction(@, r, g)]
     \/ /\ ~Rebases(c, r, g) /\ ~(poll.uses /\ Corrects(c, r, g))
        /\ UNCHANGED <<weight, sessions, taken>>

\* record_live_usage_delta: the first drop of a print still warming up is not its own.
Defers(c, s, r, d) ==
  c.finish = "no" /\ c.stage = "warm" /\ d > SmallDrop /\ r \notin s.rolls
Recorded(s, c, r, d) ==
  IF Defers(c, s, r, d) THEN Seen(Added(s, r, 0))
  ELSE Counted(Added(s, r, d), d)

EndedWith(r, keys) ==           \* mutant: whether it completed is not looked at
  {i \in DOMAIN sessions : sessions[i].key \in keys /\ sessions[i].status # "RUNNING"
                            /\ r \in sessions[i].rolls}
\* record_recent_completed_live_usage_delta: the last print that used this roll
\* and completed a short while ago.
Completed(r, keys) ==
  {i \in DOMAIN sessions : sessions[i].key \in keys /\ sessions[i].recent /\ r \in sessions[i].rolls}
Tails(r, keys) == Completed(r, keys)
RecordsLate(r, d, keys) ==
  IF d > SmallDrop \/ Tails(r, keys) = {} THEN UNCHANGED sessions
  ELSE LET i == CHOOSE i \in Tails(r, keys) :
                  \A j \in Tails(r, keys) : sessions[j].done <= sessions[i].done
       IN sessions' = [sessions EXCEPT ![i] = Counted(Added(@, r, d), d)]

Accepts(c, r, d) ==
  \/ d <= SaneDrop(weight[r])
  \/ poll.uses /\ c.finish = "no" /\ c.key # Active /\ ~Blocks(c) /\ d <= MaxJobDrop
\* A small drop near the end of a print that has used enough already.
Settled(c, r, d) ==
  /\ poll.uses /\ d <= SmallDrop /\ c.stage = "tail" /\ Current(sessions, c.key) # 0
  /\ sessions[Current(sessions, c.key)].used[r] >= MinRecorded

Decrease(c, r, g) ==
  LET d == weight[r] - g IN
  /\ g < weight[r]
  /\ \/ (~Accepts(c, r, d) \/ Settled(c, r, d)) /\ UNCHANGED <<weight, sessions, taken>>
     \/ /\ Accepts(c, r, d) /\ ~Settled(c, r, d)
        /\ weight' = [weight EXCEPT ![r] = g] /\ taken' = [taken EXCEPT ![r] = @ + d]
        /\ \/ poll.uses /\ BlocksDrop(c, d) /\ UNCHANGED sessions
           \/ /\ poll.uses /\ ~BlocksDrop(c, d)
              /\ UsesCompleted(c) /\ Current(sessions, c.key) = 0
              /\ RecordsLate(r, d, {c.key})
           \/ /\ poll.uses /\ ~BlocksDrop(c, d)
              /\ ~(UsesCompleted(c) /\ Current(sessions, c.key) = 0)
              /\ LET ss == Ensured(sessions, c.key) IN
                 sessions' = [ss EXCEPT ![Current(ss, c.key)] = Recorded(@, c, r, d)]
           \* The RFID was read after that print ended, or before.
           \/ ~poll.uses /\ (RecordsLate(r, d, Keys) \/ UNCHANGED sessions)

\* sync_live_weight: one roll, one transaction.
Weigh(r) ==
  /\ poll.phase = "weigh" /\ r \in DOMAIN poll.grams
  /\ poll' = [poll EXCEPT !.grams = [x \in DOMAIN @ \ {r} |-> @[x]]]
  /\ LET g == poll.grams[r] IN
     \/ g = weight[r] /\ UNCHANGED <<weight, sessions, taken>>
     \/ weight[r] = Unknown /\ weight' = [weight EXCEPT ![r] = g] /\ UNCHANGED <<sessions, taken>>
     \/ Increase(poll.ctx, r, g) \/ Decrease(poll.ctx, r, g)
  /\ UNCHANGED <<polls, edits, faults, torn, limit>>

\* finish_live_usage_session: the print's own session or, when its job has got
\* another name, the only one.
Running == {i \in DOMAIN sessions : sessions[i].status = "RUNNING"}
Finishing(k) == IF Current(sessions, k) # 0 THEN {Current(sessions, k)}
                ELSE IF Cardinality(Running) = 1 THEN Running ELSE {}
Finish ==
  /\ poll.phase = "weigh" /\ DOMAIN poll.grams = {} /\ poll' = Idle /\ Rest
  /\ sessions' = [i \in DOMAIN sessions |->
       IF poll.ctx.finish # "no" /\ i \in Finishing(poll.ctx.key)
       THEN Ended(sessions[i], poll.ctx.finish = "success") ELSE sessions[i]]

(* --------------------------- users, time, faults ------------------------ *)

\* A user weighs a roll; never while a report is being applied.
Reweigh(r, g) ==
  /\ poll.phase = "idle" /\ edits < limit.edits /\ edits' = edits + 1 /\ g # weight[r]
  /\ weight' = [weight EXCEPT ![r] = g]
  /\ UNCHANGED <<sessions, poll, polls, faults, taken, torn, limit>>

\* Ten minutes after a print completed.
Age(i) ==
  /\ poll.phase = "idle" /\ sessions[i].recent
  /\ sessions' = [sessions EXCEPT ![i].recent = FALSE]
  /\ UNCHANGED <<weight, poll, polls, edits, faults, taken, torn, limit>>

\* A database error, or the end of the process: this report is dropped.
Fault ==
  /\ poll.phase # "idle" /\ faults < limit.faults /\ faults' = faults + 1
  /\ poll' = Idle /\ torn' = (torn \/ poll.phase \in {"merge", "drop", "show", "close"})
  /\ UNCHANGED <<weight, sessions, polls, edits, taken, limit>>

Statement ==
  Touch \/ (\E r \in Rolls : MergeRow(r) \/ DropRow(r)) \/ MergeTotal \/ DropSource
  \/ Show \/ Close
Next ==
  \/ \E c \in Reports \cup {NoContext}, rolls \in SUBSET limit.rolls :
       \E grams \in [rolls -> 0..limit.grams] : Report(c, grams)
  \/ Statement \/ (\E r \in Rolls : Weigh(r)) \/ Finish
  \/ (\E r \in limit.rolls, g \in 0..limit.grams : Reweigh(r, g))
  \/ (\E i \in DOMAIN sessions : Age(i)) \/ Fault

Spec == Init /\ [][Next]_vars

(* ------------------------------ properties ------------------------------ *)

UsedOf(r) == SumFunction([i \in DOMAIN sessions |-> sessions[i].used[r]])

Session ==
  [key : Keys, run : Nat \ {0}, status : {"RUNNING", "COMPLETED", "FAILED"},
   total : Nat, rolls : SUBSET Rolls, used : [Rolls -> Nat], seen : 0..polls,
   done : 0..polls, recent : BOOLEAN]
\* What each variable holds; a merge has both its sessions.
TypeOK ==
  /\ weight \in [Rolls -> -1..limit.grams] /\ \A i \in DOMAIN sessions : sessions[i] \in Session
  /\ poll.phase \in {"idle", "touch", "merge", "drop", "show", "close", "weigh"}
  /\ poll.ctx \in Contexts \cup {NoContext} /\ poll.half \subseteq Rolls
  /\ poll.phase \in {"merge", "drop"} => Target # 0 /\ Source # 0 /\ Target # Source
  /\ poll.phase \in {"show", "close"} => Target # 0

\* No two sessions have one key.
KeysAreUnique ==
  \A i, j \in DOMAIN sessions :
    sessions[i].key = sessions[j].key /\ sessions[i].run = sessions[j].run => i = j

\* Between two statements of a merge a reader of the database does see it half done.
Whole == ~torn /\ poll.phase \notin {"merge", "drop"}

\* One print is running, and at most one whose job is not known yet.
OneJobAtATime ==
  Whole /\ poll.phase \in {"idle", "weigh"} =>
    /\ Cardinality({i \in Running : sessions[i].key # Active}) <= 1
    /\ Cardinality(Ongoing(sessions, Active)) <= 1

\* The prints of a printer stay apart.  No insertion or renaming meets
\* UNIQUE(printer_id, session_key), which would make every later report fail, though
\* merging removes sessions from the count the next key is made of (schema.sql:148,
\* database_printer_usage_sessions.rs:743-765); and a printer has one print running
\* (test enrich_with_match_status_closes_stale_running_session_when_new_subtask_starts).
SessionsAreDistinct == TypeOK /\ KeysAreUnique /\ OneJobAtATime

\* A session's total is the sum of its rolls' use.
TotalsAddUp ==
  Whole => \A i \in DOMAIN sessions :
    sessions[i].total = SumFunction(sessions[i].used)
\* What the sessions say was used of a roll is what the reports took off it, or less.
CountedOnce == Whole => \A r \in Rolls : UsedOf(r) <= taken[r]

\* The grams add up: the printer's totals and the statistics, which sum different
\* columns, agree, and no gram is counted twice, through retries, merges, late drops
\* and corrections (bambu_live_usage.rs:472-473, 905-930).
GramsAddUp == TotalsAddUp /\ CountedOnce

\* What has ended stays as it ended and under its key; only a print that completed
\* a short while ago may still gain grams, a small drop at a time.
FinishedAreFinal ==
  [][\A i \in DOMAIN sessions : sessions[i].status # "RUNNING" =>
       \E j \in DOMAIN sessions' :
         LET s == sessions[i]  t == sessions'[j] IN
         /\ t.key = s.key /\ t.run = s.run /\ t.status = s.status /\ t.done = s.done
         /\ t.total <= s.total + (IF s.recent THEN SmallDrop ELSE 0)]_vars
=============================================================================
