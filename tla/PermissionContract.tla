------------------------- MODULE PermissionContract -------------------------
(***************************************************************************)
(* What the permission bridge promises the agent loop (ADR 0016, 0017): a  *)
(* session has at most one open request, each request is answered at most  *)
(* once, is decided exactly once, and is allowed only by an answer.        *)
(***************************************************************************)
CONSTANTS Session, Request

VARIABLES
  open,     \* requests awaiting a decision, per session
  reply,    \* answer acknowledged for a request
  verdict   \* decision returned to the loop

vars == <<open, reply, verdict>>

Init ==
  /\ open = [s \in Session |-> {}]
  /\ reply = [i \in Request |-> "none"]
  /\ verdict = [i \in Request |-> "none"]

Ask(s, i) ==
  /\ open[s] = {}
  /\ \A t \in Session : i \notin open[t]
  /\ verdict[i] = "none"
  /\ open' = [open EXCEPT ![s] = {i}]
  /\ UNCHANGED <<reply, verdict>>

AnswerRequest(i, a) ==
  /\ \E s \in Session : i \in open[s]
  /\ reply[i] = "none"
  /\ reply' = [reply EXCEPT ![i] = a]
  /\ UNCHANGED <<open, verdict>>

Decide(s, i, a) ==
  /\ i \in open[s]
  /\ a = "allow" => reply[i] = "allow"
  /\ open' = [open EXCEPT ![s] = {}]
  /\ verdict' = [verdict EXCEPT ![i] = a]
  /\ UNCHANGED reply

Next ==
  \E i \in Request :
    \/ \E s \in Session : Ask(s, i)
    \/ \E a \in {"allow", "deny"} : AnswerRequest(i, a)
    \/ \E s \in Session, a \in {"allow", "deny"} : Decide(s, i, a)

Settle(s) == \E i \in Request, a \in {"allow", "deny"} : Decide(s, i, a)

Spec == Init /\ [][Next]_vars

\* A request is decided even when nobody answers.
FairSpec == Spec /\ \A s \in Session : WF_vars(Settle(s))
=============================================================================
