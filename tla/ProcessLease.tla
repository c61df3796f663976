---------------------------- MODULE ProcessLease ----------------------------
(***************************************************************************)
(* What a pool of processes promises those who lease one (ADR 0019): a       *)
(* process has one client at most, it answers when it is leased, it is only *)
(* started for the client that gets it, and only its client gives it back.   *)
(***************************************************************************)
CONSTANTS Client, Process

VARIABLES
  lease,      \* the processes that each client has leased: one or none
  answering   \* processes that answer

vars == <<lease, answering>>

Init ==
  /\ lease = [c \in Client |-> {}]
  /\ answering \subseteq Process

\* A process that does not answer is replaced by one that does.
Take(c, p) ==
  /\ lease[c] = {}
  /\ \A d \in Client : p \notin lease[d]
  /\ lease' = [lease EXCEPT ![c] = {p}]
  /\ answering' = answering \cup {p}

Give(c) ==
  /\ lease[c] # {}
  /\ lease' = [lease EXCEPT ![c] = {}]
  /\ UNCHANGED answering

\* A process dies, hangs or is killed, whether it is leased or not.
Die(p) ==
  /\ p \in answering
  /\ answering' = answering \ {p}
  /\ UNCHANGED lease

Next ==
  \/ \E c \in Client : Give(c) \/ \E p \in Process : Take(c, p)
  \/ \E p \in Process : Die(p)

Spec == Init /\ [][Next]_vars
=============================================================================
