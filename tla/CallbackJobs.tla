---------------------------- MODULE CallbackJobs ----------------------------
(***************************************************************************)
(* What the sample promises, seen from the Java side: every native thread  *)
(* that is started is a job that calls JavaClass.recv once per round, in   *)
(* order, and then ends; a job that cannot attach to the VM ends without   *)
(* having called anything.  There is no third outcome: a job never ends    *)
(* after some of its callbacks only, and never repeats one.                *)
(***************************************************************************)
EXTENDS Naturals

CONSTANTS Workers,  \* the threads that may be started
          Rounds    \* callbacks per job

VARIABLES status,   \* status[w]: where job w stands
          hits      \* hits[w][r]: how often round r of job w reached recv

jobVars == <<status, hits>>

Status == {"idle", "active", "done", "failed"}

JobsInit ==
  /\ status = [w \in Workers |-> "idle"]
  /\ hits = [w \in Workers |-> [r \in 1..Rounds |-> 0]]

Submit(w) ==
  /\ status[w] = "idle"
  /\ status' = [status EXCEPT ![w] = "active"]
  /\ UNCHANGED hits

Deliver(w, r) ==
  /\ status[w] = "active"
  /\ \A q \in 1..Rounds : hits[w][q] = IF q < r THEN 1 ELSE 0
  /\ hits' = [hits EXCEPT ![w][r] = 1]
  /\ UNCHANGED status

Finish(w) ==
  /\ status[w] = "active"
  /\ \A r \in 1..Rounds : hits[w][r] = 1
  /\ status' = [status EXCEPT ![w] = "done"]
  /\ UNCHANGED hits

Abandon(w) ==
  /\ status[w] = "active"
  /\ \A r \in 1..Rounds : hits[w][r] = 0
  /\ status' = [status EXCEPT ![w] = "failed"]
  /\ UNCHANGED hits

JobsNext ==
  \E w \in Workers :
     \/ Submit(w)
     \/ \E r \in 1..Rounds : Deliver(w, r)
     \/ Finish(w)
     \/ Abandon(w)

JobsSpec == JobsInit /\ [][JobsNext]_jobVars
=============================================================================
