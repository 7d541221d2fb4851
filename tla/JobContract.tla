---------------------------- MODULE JobContract ----------------------------
(***************************************************************************)
(* What the background-job table promises to the rest of the kernel, with  *)
(* no locks, goroutines or contexts: a job that was started gets one       *)
(* verdict, the verdict is announced once to the next turn, and only then  *)
(* is the job finished for those who wait for it.  Jobs.tla implements it. *)
(***************************************************************************)
CONSTANT Jobs

VARIABLES phase,      \* [Jobs -> {"absent", "live", "over"}]
          verdict,    \* [Jobs -> Verdict or "none"]
          announced   \* the jobs whose completion note was queued

avars == <<phase, verdict, announced>>

Verdict == {"Done", "Failed", "Killed"}

Init == /\ phase     = [j \in Jobs |-> "absent"]
        /\ verdict   = [j \in Jobs |-> "none"]
        /\ announced = {}

Begin(j) == /\ phase[j] = "absent"
            /\ phase' = [phase EXCEPT ![j] = "live"]
            /\ UNCHANGED <<verdict, announced>>

Decide(j, v) == /\ phase[j] = "live"
                /\ verdict[j] = "none"
                /\ verdict' = [verdict EXCEPT ![j] = v]
                /\ UNCHANGED <<phase, announced>>

Announce(j) == /\ verdict[j] # "none"
               /\ j \notin announced
               /\ announced' = announced \cup {j}
               /\ UNCHANGED <<phase, verdict>>

Finish(j) == /\ phase[j] = "live"
             /\ j \in announced
             /\ phase' = [phase EXCEPT ![j] = "over"]
             /\ UNCHANGED <<verdict, announced>>

Next == \E j \in Jobs : \/ Begin(j)
                        \/ \E v \in Verdict : Decide(j, v)
                        \/ Announce(j)
                        \/ Finish(j)

Spec == Init /\ [][Next]_avars
=============================================================================
