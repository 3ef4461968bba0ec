------------------------------ MODULE Pthread ------------------------------
(***************************************************************************)
(* The life of POSIX threads as the programs of Module2 use it: a thread   *)
(* may detach itself while its creator is about to join it.  Who comes     *)
(* first decides: a join that has claimed the thread waits for its end,    *)
(* and the later detach is ignored; a join of a detached thread is         *)
(* undefined, and the library returns from it (EINVAL, or ESRCH once the   *)
(* thread is gone) without waiting.                                        *)
(***************************************************************************)
CONSTANT Thread

VARIABLES
    life,      \* "none", "running" or "exited"
    joinid     \* "none", "joiner" (a join waits for it) or "self" (detached)

pthreadVars == <<life, joinid>>

Pthread_Init ==
    /\ life = [t \in Thread |-> "none"]
    /\ joinid = [t \in Thread |-> "none"]

pthread_create(t) ==
    /\ life' = [life EXCEPT ![t] = "running"]
    /\ UNCHANGED joinid

pthread_detach(t) ==
    /\ joinid' = [joinid EXCEPT ![t] = IF @ = "none" THEN "self" ELSE @]
    /\ UNCHANGED life

pthread_exit(t) ==
    /\ life' = [life EXCEPT ![t] = "exited"]
    /\ UNCHANGED joinid

\* pthread_join starts to wait for a thread that nobody detached.
pthread_join_claims(t) ==
    /\ joinid[t] = "none"
    /\ joinid' = [joinid EXCEPT ![t] = "joiner"]
    /\ UNCHANGED life

\* pthread_join can return.
pthread_join_returns(t) ==
    \/ joinid[t] = "self"
    \/ joinid[t] = "joiner" /\ life[t] = "exited"

\* No join has been, or will be, one that does not wait.
EveryJoinWaits == \A t \in Thread : joinid[t] # "self"
=============================================================================
