------------------------------- MODULE MCJobs -------------------------------
(* The job table for TLC: a bash job, a task job and one waiter. *)
EXTENDS Jobs
=============================================================================
