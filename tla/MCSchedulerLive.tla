-------------------------- MODULE MCSchedulerLive ---------------------------
(* An instance of Scheduler for its liveness: a thread, main and server.     *)
EXTENDS Scheduler

MCPipeline == {"async", "main", "server"}
MCTask == {"job", "poll", "ready"}
MCKind == [job |-> "loop", poll |-> "init", ready |-> "once"]
MCTarget == [job |-> "async", poll |-> "main", ready |-> "server"]
MCInterval == [job |-> 0, poll |-> 0, ready |-> 1]
MCCallback == [t \in MCTask |-> "ready"]
MCOutside == {"game"}
=============================================================================
