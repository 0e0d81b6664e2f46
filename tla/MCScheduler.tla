---------------------------- MODULE MCScheduler -----------------------------
(* An instance of Scheduler: a thread pipeline with a delayed and an         *)
(* immediate task, and the main pipeline polling for the game.               *)
EXTENDS Scheduler

MCPipeline == {"async", "main"}
MCTask == {"slow", "now", "poll", "ready"}
MCKind == [slow |-> "schedule", now |-> "once", poll |-> "init", ready |-> "once"]
MCTarget == [slow |-> "async", now |-> "async", poll |-> "main", ready |-> "async"]
MCInterval == [slow |-> 1, now |-> 0, poll |-> 0, ready |-> 1]
MCCallback == [t \in MCTask |-> "ready"]
MCOutside == {"game"}
=============================================================================
