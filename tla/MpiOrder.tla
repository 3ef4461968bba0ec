------------------------------ MODULE MpiOrder ------------------------------
(***************************************************************************)
(* What MPI promises of the matching of messages and receives, apart from  *)
(* any protocol: the messages from one process to another are matched in   *)
(* the order they were sent, the receives of a process in the order they   *)
(* were posted, and a message that is cancelled is one whose sender asked  *)
(* for it.                                                                 *)
(***************************************************************************)
EXTENDS RecvQueue

CONSTANTS
    Sender,    \* the processes that send
    Receiver,  \* the processes that receive
    Tag,       \* the tags of the messages
    Message,   \* the messages that may be sent
    Wanted     \* what the receives may ask for

VARIABLES
    pending,   \* pending[s][d]: the messages of s to d that are not matched
    receives,  \* receives[d]: what the receives of d that wait ask for
    asked      \* the messages whose sender asked to cancel them

orderVars == <<pending, receives, asked>>

Init ==
    /\ pending = [s \in Sender |-> [d \in Receiver |-> <<>>]]
    /\ receives = [d \in Receiver |-> <<>>]
    /\ asked = {}

\* Message i from s to d is the first one that a receive for `want` may take.
Takes(want, s, d, i) ==
    /\ Matches(want, pending[s][d][i].match)
    /\ \A k \in 1 .. i - 1 : ~ Matches(want, pending[s][d][k].match)

\* Receive j of d is the first one that may take a message with the match env.
Meets(env, d, j) ==
    /\ Matches(receives[d][j], env)
    /\ \A k \in 1 .. j - 1 : ~ Matches(receives[d][k], env)

Dequeue(s, d, i) == pending' = [pending EXCEPT ![s][d] = RemoveAt(@, i)]

Withdraw(d, j) == receives' = [receives EXCEPT ![d] = RemoveAt(@, j)]

Send(s, d) ==
    /\ \E tag \in Tag, m \in Message :
         pending' = [pending EXCEPT ![s][d] =
             Append(@, [match |-> [rank |-> s, tag |-> tag], msg |-> m])]
    /\ UNCHANGED <<receives, asked>>

Post(d) ==
    /\ \E want \in Wanted : receives' = [receives EXCEPT ![d] = Append(@, want)]
    /\ UNCHANGED <<pending, asked>>

\* A waiting receive and a message meet.
MatchWaiting(s, d, i, j) ==
    /\ Takes(receives[d][j], s, d, i) /\ Meets(pending[s][d][i].match, d, j)
    /\ Dequeue(s, d, i) /\ Withdraw(d, j)
    /\ UNCHANGED asked

\* A new receive takes a message that no waiting one may take.
MatchNew(s, d, i) ==
    /\ \E want \in Wanted : Takes(want, s, d, i)
    /\ \A j \in DOMAIN receives[d] : ~ Matches(receives[d][j], pending[s][d][i].match)
    /\ Dequeue(s, d, i)
    /\ UNCHANGED <<receives, asked>>

AskCancel(m) ==
    /\ asked' = asked \union {m}
    /\ UNCHANGED <<pending, receives>>

Cancel(s, d, i) ==
    /\ pending[s][d][i].msg \in asked
    /\ Dequeue(s, d, i)
    /\ UNCHANGED <<receives, asked>>

CancelRecv(d, j) == Withdraw(d, j) /\ UNCHANGED <<pending, asked>>

Next ==
    \/ \E s \in Sender, d \in Receiver : Send(s, d)
    \/ \E d \in Receiver : Post(d) \/ \E j \in DOMAIN receives[d] : CancelRecv(d, j)
    \/ \E m \in Message : AskCancel(m)
    \/ \E s \in Sender, d \in Receiver : \E i \in DOMAIN pending[s][d] :
         \/ \E j \in DOMAIN receives[d] : MatchWaiting(s, d, i, j)
         \/ MatchNew(s, d, i) \/ Cancel(s, d, i)

Spec == Init /\ [][Next]_orderVars
=============================================================================
