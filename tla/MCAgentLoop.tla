----------------------------- MODULE MCAgentLoop -----------------------------
(* One check, one file; one round, or any number with up to MaxCalls calls, in batches of
   MaxBatch.  The model signs off citing the file and the check;
   phases come from the coordinator's planner. *)
EXTENDS AgentLoop, TLC

CONSTANTS c1, w1

Offer == {Call("read_file", Arg("file", w1), FALSE), Call("write_file", Arg("file", w1), FALSE),
          Call("bash", Arg("check", c1), FALSE), Call("bash", Arg("loose", c1), FALSE),
          Call("todo_write", Arg("todo", "in_progress"), FALSE),
          Call("todo_write", Arg("todo", "completed"), FALSE),
          Call("complete_step", Arg("claim", {Item("files", w1), Item("verification", c1)}), FALSE),
          Call("planner_complete_phase", Arg("none", None), FALSE)}
OneCheck == {c1}
OneWrite == {w1}
Rounds   == {0, 1}
=============================================================================
