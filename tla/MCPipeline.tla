---------------------------- MODULE MCPipeline ----------------------------
(* Instances of Pipeline for TLC: a user's handler between those of the    *)
(* library, and two that have every role and can be added.                 *)
EXTENDS Pipeline

CONSTANTS logger, group, user, spare1, spare2

MCHandlers == {logger, group, user, spare1, spare2}

MCRoles ==
  [h \in MCHandlers |->
    CASE h \in {logger, group} -> {"lifecycle"}
      [] h = user -> {"lifecycle", "inbound", "outbound"}
      [] h \in {spare1, spare2} -> {"lifecycle", "inbound", "outbound", "encoder"}]

MCLogger == Entry("IO_LOGGER", logger)
MCGroup == Entry("CHANNEL_GROUP", group)
MCBases == {<<Entry("USER", user)>>}

Spares == Permutations({spare1, spare2})
===========================================================================
