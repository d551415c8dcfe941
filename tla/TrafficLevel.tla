---------------------------- MODULE TrafficLevel ----------------------------
(***************************************************************************)
(* The load level of the network interface in System Health                *)
(* (internal/tui/traffic/manager.go): every reading of the counters has a  *)
(* level of its own, by the absolute rate and by its ratio to a moving     *)
(* average, and the level that is shown follows with a delay, so that it   *)
(* does not flap.  Both refresh lanes and every handler that calls         *)
(* refreshData take a reading.                                             *)
(*                                                                         *)
(* The level of a reading is an input here: the rates and the average are  *)
(* left out.  A reading without traffic shows UNKNOWN for as long as it is *)
(* the last, and changes nothing that is kept.                             *)
(***************************************************************************)
EXTENDS Naturals

Levels == {"OK", "WARN", "CRIT"}

\* What a reading may be: none, one without traffic, or one of some level.
Readings == Levels \cup {"error", "idle"}

interfaceSpikeWarmupSamples == 3
interfaceTrafficWarnSamples == 2
interfaceTrafficClearSamples == 3
interfaceTrafficCritDownsample == 2

VARIABLE
    traffic \* prevIfaceStats and the Manager; with `last' and `run', history: the level
            \* of the last reading that counted, and how often in a row (up to 5)

TrafficStates ==
    [prevIfaceStats : BOOLEAN, ifaceSpikeCount : 0 .. interfaceSpikeWarmupSamples,
     displayLevel : Levels \cup {"UNKNOWN"},
     warnStreak : 0 .. interfaceTrafficWarnSamples - 1, clearStreak : 0 .. interfaceTrafficClearSamples - 1,
     last : Levels \cup {"UNKNOWN"}, run : 0 .. 5]

TrafficInit ==
    traffic = [prevIfaceStats |-> FALSE, ifaceSpikeCount |-> 0, displayLevel |-> "UNKNOWN",
               warnStreak |-> 0, clearStreak |-> 0, last |-> "UNKNOWN", run |-> 0]

Display(m, level, warn, clear) ==
    [m EXCEPT !.displayLevel = level, !.warnStreak = warn, !.clearStreak = clear]

OnCrit(m) == Display(m, "CRIT", 0, 0)

OnWarn(m) ==
    LET streak == m.warnStreak + 1
        enough == IF m.displayLevel = "CRIT" THEN streak >= interfaceTrafficCritDownsample
                  ELSE m.displayLevel = "WARN" \/ streak >= interfaceTrafficWarnSamples
    IN  IF enough THEN Display(m, "WARN", 0, 0)
        ELSE Display(m, IF m.displayLevel = "UNKNOWN" THEN "OK" ELSE m.displayLevel, streak, 0)

\* Mutant: a quiet reading does not end a streak of warnings.
OnQuietKeepsWarnings(m) ==
    IF m.displayLevel = "UNKNOWN" THEN Display(m, "OK", m.warnStreak, m.clearStreak)
    ELSE LET streak == m.clearStreak + 1
             wanted == IF m.displayLevel = "CRIT" THEN interfaceTrafficCritDownsample
                       ELSE interfaceTrafficClearSamples
         IN  IF streak < wanted THEN Display(m, m.displayLevel, m.warnStreak, streak)
             ELSE Display(m, IF m.displayLevel = "CRIT" THEN "WARN" ELSE "OK", m.warnStreak, 0)

OnQuiet(m) ==
    IF m.displayLevel = "UNKNOWN" THEN Display(m, "OK", 0, m.clearStreak)
    ELSE LET streak == m.clearStreak + 1
             wanted == IF m.displayLevel = "CRIT" THEN interfaceTrafficCritDownsample
                       ELSE interfaceTrafficClearSamples
         IN  IF streak < wanted THEN Display(m, m.displayLevel, 0, streak)
             ELSE Display(m, IF m.displayLevel = "CRIT" THEN "WARN" ELSE "OK", 0, 0)

\* stabilizeInterfaceTrafficLevel; nothing is shown while the average warms up.
Stabilized(m, raw, ready) ==
    IF ~ready THEN Display(m, "UNKNOWN", 0, 0)
    ELSE IF raw = "CRIT" THEN OnCrit(m)
    ELSE IF raw = "WARN" THEN OnWarn(m)
    ELSE OnQuiet(m)

Counted(m, raw) ==
    [m EXCEPT !.ifaceSpikeCount = IF @ < interfaceSpikeWarmupSamples THEN @ + 1 ELSE @,
              !.last = raw,
              !.run = IF m.last # raw THEN 1 ELSE IF @ < 5 THEN @ + 1 ELSE @]

\* EvaluateInterfaceSpike: a reading without traffic leaves everything.
EvaluateInterfaceSpike(m, raw) ==
    IF raw = "idle" THEN m
    ELSE Stabilized(Counted(m, raw), raw, m.ifaceSpikeCount >= interfaceSpikeWarmupSamples)

\* The first reading has nothing to be compared with.
Refreshed(m, raw) ==
    IF raw = "error" THEN m
    ELSE IF ~m.prevIfaceStats THEN [m EXCEPT !.prevIfaceStats = TRUE]
    ELSE EvaluateInterfaceSpike(m, raw)

\* refreshInterfacePanel
RefreshInterfacePanel(readings) == \E raw \in readings : traffic' = Refreshed(traffic, raw)

\* The panel by itself, whoever refreshes it.
TrafficSpec == TrafficInit /\ [][RefreshInterfacePanel(Readings)]_traffic

-----------------------------------------------------------------------------
(* Properties *)

Rank(level) == IF level = "CRIT" THEN 3 ELSE IF level = "WARN" THEN 2 ELSE IF level = "OK" THEN 1 ELSE 0

\* What a reading may do to the level that is shown.
Steady(m, n) ==
    m.ifaceSpikeCount = interfaceSpikeWarmupSamples /\ n # m =>
        /\ n.last = "CRIT" => n.displayLevel = "CRIT"
        /\ n.run = 5 => n.displayLevel = n.last
        /\ Rank(n.displayLevel) > Rank(m.displayLevel) /\ m.displayLevel # "UNKNOWN" =>
             n.last = "CRIT" \/ (n.last = "WARN" /\ n.run >= 2)
        /\ Rank(n.displayLevel) < Rank(m.displayLevel) =>
             /\ Rank(n.displayLevel) = Rank(m.displayLevel) - 1
             /\ n.run >= IF m.displayLevel = "CRIT" THEN 2 ELSE 3

\* After the warm-up the level that is shown is up at once on a critical
\* reading, and five readings of one level are enough to see that level.  It
\* does not flap: one warning alone never raises it, and it falls by one level
\* at a time, from CRIT after two and from WARN after three like readings in a
\* row, whichever lane or handler took them
\* (stabilizeInterfaceTrafficLevel, whose streaks carry over between levels).
LoadLevelIsSteady == [][Steady(traffic, traffic')]_traffic
=============================================================================
