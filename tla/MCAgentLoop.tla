---------------------------- MODULE MCAgentLoop ----------------------------
(* A run of two rounds over an empty history or one that holds a summary   *)
(* and three finished rounds, batches of two calls and one steer.          *)
EXTENDS AgentLoop

MCHistories ==
  {<<>>,
   <<UserSays("summary"), Message("assistant", "blank", <<1>>, 0), Answer(1, "result"),
     AssistantSays("said"), UserSays("prompt"), AssistantSays("said")>>}
============================================================================
