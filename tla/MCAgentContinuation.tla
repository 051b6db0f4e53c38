-------------------------- MODULE MCAgentContinuation --------------------------
EXTENDS AgentContinuation, TLC

CONSTANT l1

\* Each disposition with one mechanism it may name, and a release that needs no
\* worker.
Proposed ==
  {[disposition |-> "continue_current", mechanism |-> "same_session", locator |-> NoLocator],
   [disposition |-> "release_waiting", mechanism |-> "scheduled_task", locator |-> l1],
   [disposition |-> "release_waiting", mechanism |-> "github_native", locator |-> l1],
   [disposition |-> "rotate_resumable", mechanism |-> "scheduled_task", locator |-> l1],
   [disposition |-> "stop_reinvoke_required", mechanism |-> "owner_reinvoke", locator |-> NoLocator],
   [disposition |-> "terminal", mechanism |-> "none_terminal", locator |-> NoLocator]}

\* Workers and coordinates are only compared with one another.
Interchangeable == Permutations(Workers) \cup Permutations(Coordinates)
=============================================================================
