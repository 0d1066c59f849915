---------------------------- MODULE MCOperatorApp ----------------------------
(* Two autoloop processes; the worlds are one for each reason a plan can be   *)
(* ready, blocked or recoverable.                                             *)
EXTENDS OperatorApp

MCRuns == 1..2
MCIdle == [l \in Lanes |-> IdlePlan]
MCReady == [MCIdle EXCEPT !["main"] = Planned("ready", TRUE, FALSE)]
MCWorld(lane, doctor, clean, active) ==
    [lane |-> lane, doctor |-> doctor, clean |-> clean, active |-> active,
     orphan |-> FALSE, sessions |-> {}, loadFail |-> FALSE, retrying |-> FALSE]
MCWorlds ==
    { MCWorld(MCReady, {}, TRUE, {}),
      MCWorld(MCReady, {}, FALSE, {"main"}),
      MCWorld([MCIdle EXCEPT !["merge"] = Planned("blocked", TRUE, TRUE)], {}, TRUE, {"merge"}),
      MCWorld(MCReady, {"topology"}, TRUE, {}),
      [MCWorld([MCReady EXCEPT !["review"] = Planned("blocked", FALSE, TRUE)], {}, TRUE, {})
          EXCEPT !.sessions = {[lane |-> "main", issue |-> "other", status |-> "stale"]}] }
MCSet(enabled) == [write |-> TRUE, recover |-> TRUE, enabled |-> enabled]
MCCliOptions ==
    { Option(MCSet({"main", "merge"}), 1, FALSE), Option(MCSet({"main", "merge"}), 0, TRUE),
      Option(MCSet({}), 1, FALSE), Option(MCSet({"main"}), 0, FALSE) }
MCAppOptions == { Option(MCSet({"main"}), 0, TRUE), Option(MCSet({"review"}), 1, FALSE) }
\* The bounds: one loop under signals and faults, the App starting two loops
\* and stopping, and Review actions between edits of the configuration.
MCNothing == [b \in Bounded |-> 0]
MCBudgets ==
    { [MCNothing EXCEPT !["cli"] = 1, !["interrupt"] = 1, !["fault"] = 1, !["change"] = 1],
      [MCNothing EXCEPT !["app"] = 2, !["stop"] = 1, !["fault"] = 1],
      [MCNothing EXCEPT !["preview"] = 2, !["edit"] = 3] }
=============================================================================
