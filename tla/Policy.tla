------------------------------- MODULE Policy -------------------------------
(***************************************************************************)
(* The permission policy: rules that the user edits in the browser, stored  *)
(* in `.forge/rules.db` and audited in the ledger, and the turns of the     *)
(* agent whose tools they decide.                                          *)
(*                                                                         *)
(* A request of the permissions API sets a rule or revokes one that it saw  *)
(* in the list.  A turn loads the overrides of its profile once, opens its  *)
(* ledger session, and decides and records each tool call.                  *)
(***************************************************************************)
EXTENDS Ledger, FiniteSets, SequencesExt

CONSTANTS Request,   \* calls of POST and DELETE /api/permissions/rules
          Turn,      \* turns of the agent
          Profile, Tool, Scope,
          Prefix,    \* scope prefixes of rules
          Inside,    \* the pairs <<prefix, scope>> where the scope starts so
          None,      \* no prefix: a rule of the matrix
          Before,    \* the rule that the store has from before, if any
          Wanted,    \* the decisions that requests ask for
          MaxCalls   \* bound: tool calls of a turn

Decision == {"allow", "ask", "deny"}

\* The rows that may have an id.
Stored(id) == [profile : Profile, tool : Tool, prefix : Prefix \cup {None},
               decision : Decision, id : {id}]

ASSUME PolicyAssumption ==
  /\ Writer = Request \cup Turn /\ Request \cap Turn = {}
  /\ Profile \subseteq {"build", "plan"}
  /\ Inside \subseteq Prefix \X Scope /\ None \notin Prefix \cup Scope
  /\ Wanted \subseteq Decision /\ MaxCalls \in Nat
  /\ Before \subseteq Stored(1) /\ IsFiniteSet(Before) /\ Cardinality(Before) <= 1

VARIABLES table,      \* permission_rules
          nextId,     \* AUTOINCREMENT
          pc,         \* step of a request or a turn
          rule,       \* the rule that a request writes or saw
          overrides,  \* the rules that a turn evaluates, in order
          todo,       \* entries a turn has yet to append for its last event
          calls,      \* tool calls a turn has made
          changed,    \* ghost: requests whose change is in the store
          past,       \* ghost: every content the table has had
          from,       \* ghost: the content when a turn's message arrived
          decided     \* ghost: what each turn decided

storeVars == <<table, nextId, changed, past>>
turnVars  == <<overrides, todo, calls, from, decided>>
\* The tables of the ledger; a failed statement of a store counts in faults.
entryVars == <<ledger, prev, snapshot, readFailed>>
vars == <<ledgerVars, storeVars, turnVars, pc, rule>>

-----------------------------------------------------------------------------
(* Evaluation *)

Rule(tool, decision) == [tool |-> tool, prefix |-> None, decision |-> decision]

\* BUILD and PLAN.
ProfileRules(profile) ==
  IF profile = "build"
  THEN <<Rule("read", "allow"), Rule("grep", "allow"), Rule("edit", "ask"), Rule("bash", "ask")>>
  ELSE <<Rule("read", "allow"), Rule("grep", "allow"), Rule("edit", "deny"), Rule("bash", "ask")>>

Matches(r, tool, scope) ==
  r.tool = tool /\ (r.prefix = None \/ <<r.prefix, scope>> \in Inside)

\* PermissionEngine::evaluate: the first match decides.
Evaluate(rules, tool, scope) ==
  LET hits == {i \in DOMAIN rules : Matches(rules[i], tool, scope)}
  IN  IF hits = {} THEN "ask" ELSE rules[CHOOSE i \in hits : \A j \in hits : i <= j].decision

\* A finite set as the sequence in which each member has its place.
InPlace(S, place) == [i \in 1..Cardinality(S) |-> CHOOSE r \in S : place[r] = i]

\* Faulty: the newest rule first, whatever its scope.
ListForProfile_ByAge(rules, profile) ==
  LET own == {r \in rules : r.profile = profile}
  IN  InPlace(own, [r \in own |-> Cardinality({q \in own : q.id >= r.id})])

\* ORDER BY: scoped rules before those of the matrix, the newest first.
Precedes(q, r) == \/ q.prefix # None /\ r.prefix = None
                  \/ (q.prefix = None <=> r.prefix = None) /\ q.id > r.id

\* list_for_profile
ListForProfile(rules, profile) ==
  LET own == {r \in rules : r.profile = profile}
  IN  InPlace(own, [r \in own |-> Cardinality({q \in own : q = r \/ Precedes(q, r)})])

\* The engine of a profile under the stored rules.
Overlay(stored, profile) == stored \o ProfileRules(profile)
Effective(rules, profile, tool, scope) ==
  Evaluate(Overlay(ListForProfile(rules, profile), profile), tool, scope)

\* get_matrix_handler: what the matrix shows is evaluated with the empty scope, in
\* which no prefix lies.
MatrixCell(rules, profile, tool) == Effective(rules, profile, tool, None)

-----------------------------------------------------------------------------
\* The store has at most one rule from before.
Init ==
  /\ LedgerInit
  /\ table = Before /\ nextId = 2
  /\ changed = {} /\ past = <<table>>
  /\ pc = [w \in Writer |-> "idle"]
  /\ rule = [q \in Request |-> None]
  /\ overrides = [t \in Turn |-> <<>>]
  /\ todo = [t \in Turn |-> <<>>]
  /\ calls = [t \in Turn |-> 0]
  /\ from = [t \in Turn |-> 0]
  /\ decided = [t \in Turn |-> {}]

Goto(w, there, here) ==
  /\ pc[w] = there
  /\ pc' = [pc EXCEPT ![w] = here]

\* A write of the store, remembered.
Store(new, q) ==
  /\ table' = new
  /\ past' = Append(past, new)
  /\ changed' = changed \cup {q}

-----------------------------------------------------------------------------
(* The permissions API *)

\* The body of a POST is parsed.
AskToSet(q, profile, tool, prefix, decision) ==
  /\ Goto(q, "idle", "setting")
  /\ rule' = [rule EXCEPT ![q] = [profile |-> profile, tool |-> tool, prefix |-> prefix,
                                  decision |-> decision]]
  /\ UNCHANGED <<ledgerVars, storeVars, turnVars>>

\* A DELETE, of a rule that the list had.
AskToRevoke(q) ==
  /\ \E r \in table : rule' = [rule EXCEPT ![q] = r]
  /\ Goto(q, "idle", "getting")
  /\ UNCHANGED <<ledgerVars, storeVars, turnVars>>

SameKey(r, s) == r.profile = s.profile /\ r.tool = s.tool /\ r.prefix = s.prefix

\* Faulty: `scope_prefix = NULL` is never true.
Others_NullIsNotNull(r) == {s \in table : ~(SameKey(r, s) /\ r.prefix # None)}
Others(r) == {s \in table : ~SameKey(r, s)}

\* Faulty: without AUTOINCREMENT the id of the newest rule is given again.
FreshId_Reused(r) == IF Others(r) = {} THEN 1 ELSE 1 + Max({s.id : s \in Others(r)})

\* Faulty: the id of the row to come.
FreshId_OffByOne(r) == nextId + 1

\* AUTOINCREMENT: no id is ever given twice.
FreshId(r) == nextId

\* Faulty: the entry is written before the rule.
SetRule_AuditFirst(q) ==
  /\ Goto(q, "setting", "auditing")
  /\ UNCHANGED <<ledgerVars, storeVars, turnVars, rule>>

\* RuleStore::set, one transaction that begins with a write.
SetRule(q) ==
  /\ LET r == rule[q] IN
     \/ /\ Goto(q, "setting", "auditing")
        /\ Store(Others(r) \cup {[profile |-> r.profile, tool |-> r.tool, prefix |-> r.prefix,
                                  decision |-> r.decision, id |-> FreshId(r)]}, q)
        /\ nextId' = nextId + 1
        /\ UNCHANGED faults
     \/ /\ StorageFails
        /\ Goto(q, "setting", "failed")
        /\ UNCHANGED storeVars
  /\ UNCHANGED <<entryVars, turnVars, rule>>

\* RuleStore::get, for the payload of the entry.
GetRule(q) ==
  /\ \/ Goto(q, "getting", "removing") /\ UNCHANGED faults
     \/ Goto(q, "getting", "failed") /\ StorageFails
  /\ UNCHANGED <<entryVars, storeVars, turnVars, rule>>

\* RuleStore::remove: 404 if another request removed or replaced the rule.
RemoveRule(q) ==
  /\ LET gone == {s \in table : s.id = rule[q].id} IN
     \/ /\ Goto(q, "removing", IF gone = {} THEN "notfound" ELSE "auditing")
        /\ IF gone = {} THEN UNCHANGED storeVars
           ELSE Store(table \ gone, q) /\ UNCHANGED nextId
        /\ UNCHANGED faults
     \/ /\ StorageFails
        /\ Goto(q, "removing", "failed")
        /\ UNCHANGED storeVars
  /\ UNCHANGED <<entryVars, turnVars, rule>>

\* append_override_entry: the first half of its transaction.
AuditRead(q) ==
  /\ pc[q] = "auditing" /\ LedgerRead(q)
  /\ UNCHANGED <<storeVars, turnVars, pc, rule>>

EntryKind(q) == IF "id" \in DOMAIN rule[q] THEN "rule.revoke" ELSE "rule.set"

\* Faulty: a failed entry is reported and forgotten, as those of a turn are.
AuditWrite_BestEffort(q) ==
  /\ \/ LedgerCommit(q, EntryKind(q))
     \/ LedgerFails(q)
  /\ Goto(q, "auditing", "ok")
  /\ UNCHANGED <<storeVars, turnVars, rule>>

\* Its second half, and the reply: 200 or 204, or 500 with the rule already changed.
AuditWrite(q) ==
  /\ \/ LedgerCommit(q, EntryKind(q)) /\ Goto(q, "auditing", "ok")
     \/ LedgerFails(q) /\ Goto(q, "auditing", "failed")
  /\ UNCHANGED <<storeVars, turnVars, rule>>

-----------------------------------------------------------------------------
(* A turn of the agent *)

\* The message arrives.
Arrive(t) ==
  /\ Goto(t, "idle", "loading")
  /\ from' = [from EXCEPT ![t] = Len(past)]
  /\ UNCHANGED <<ledgerVars, storeVars, overrides, todo, calls, decided, rule>>

\* Faulty: the rules of the process's first turn serve them all.
LoadOverrides_Cached(t) ==
  /\ \E profile \in Profile :
       overrides' = [overrides EXCEPT ![t] = [profile |-> profile,
                       rules |-> Overlay(ListForProfile(past[1], profile), profile),
                       loaded |-> TRUE]]
  /\ Goto(t, "loading", "opening")
  /\ todo' = [todo EXCEPT ![t] = <<"session.start">>]
  /\ UNCHANGED <<ledgerVars, storeVars, calls, from, decided, rule>>

\* load_rule_overrides, once for the whole turn and fail-open.
LoadOverrides(t) ==
  /\ \E profile \in Profile :
       \/ /\ overrides' = [overrides EXCEPT ![t] = [profile |-> profile,
                             rules |-> Overlay(ListForProfile(table, profile), profile),
                             loaded |-> TRUE]]
          /\ UNCHANGED faults
       \/ /\ StorageFails
          /\ overrides' = [overrides EXCEPT ![t] = [profile |-> profile,
                             rules |-> Overlay(<<>>, profile), loaded |-> FALSE]]
  /\ Goto(t, "loading", "opening")
  /\ todo' = [todo EXCEPT ![t] = <<"session.start">>]
  /\ UNCHANGED <<entryVars, storeVars, calls, from, decided, rule>>

\* run_tool: the rules decide, or the human that they ask.
CallTool(t, tool, scope) ==
  LET verdict == Evaluate(overrides[t].rules, tool, scope) IN
  /\ pc[t] = "running" /\ todo[t] = <<>> /\ calls[t] < MaxCalls
  /\ \E allowed \in BOOLEAN :
       /\ verdict # "ask" => allowed = (verdict = "allow")
       /\ todo' = [todo EXCEPT ![t] =
            IF allowed THEN <<"tool.run", "tool.result">> ELSE <<"tool.denied">>]
  /\ calls' = [calls EXCEPT ![t] = @ + 1]
  /\ decided' = [decided EXCEPT ![t] = @ \cup {[tool |-> tool, scope |-> scope, verdict |-> verdict]}]
  /\ UNCHANGED <<ledgerVars, storeVars, overrides, from, pc, rule>>

\* The loop is over: session.end.
EndTurn(t) ==
  /\ Goto(t, "running", "ending")
  /\ todo[t] = <<>>
  /\ todo' = [todo EXCEPT ![t] = <<"session.end">>]
  /\ UNCHANGED <<ledgerVars, storeVars, overrides, calls, from, decided, rule>>

RecordRead(t) ==
  /\ todo[t] # <<>> /\ LedgerRead(t)
  /\ UNCHANGED <<storeVars, turnVars, pc, rule>>

\* Faulty: a turn whose session.start is refused goes on.
AfterEntry_OpenIsBestEffort(t, written) == IF pc[t] = "ending" THEN "done" ELSE "running"

\* Where a turn goes after an entry: session.start and session.end must be written,
\* what is in between is reported on stderr when it is not.
AfterEntry(t, written) ==
  CASE pc[t] = "opening" -> IF written THEN "running" ELSE "failed"
    [] pc[t] = "running" -> "running"
    [] pc[t] = "ending"  -> IF written THEN "done" ELSE "failed"

RecordWrite(t) ==
  /\ todo[t] # <<>>
  /\ \/ LedgerCommit(t, Head(todo[t])) /\ pc' = [pc EXCEPT ![t] = AfterEntry(t, TRUE)]
     \/ LedgerFails(t) /\ pc' = [pc EXCEPT ![t] = AfterEntry(t, FALSE)]
  /\ todo' = [todo EXCEPT ![t] = Tail(@)]
  /\ UNCHANGED <<storeVars, overrides, calls, from, decided, rule>>

-----------------------------------------------------------------------------
RequestNext(q) ==
  \/ \E profile \in Profile, tool \in Tool, prefix \in Prefix \cup {None}, d \in Wanted :
       AskToSet(q, profile, tool, prefix, d)
  \/ AskToRevoke(q) \/ SetRule(q) \/ GetRule(q) \/ RemoveRule(q)
  \/ AuditRead(q) \/ AuditWrite(q)

TurnNext(t) ==
  \/ Arrive(t) \/ LoadOverrides(t)
  \/ \E tool \in Tool, scope \in Scope : CallTool(t, tool, scope)
  \/ EndTurn(t) \/ RecordRead(t) \/ RecordWrite(t)

Next == (\E q \in Request : RequestNext(q)) \/ (\E t \in Turn : TurnNext(t))

Spec == Init /\ [][Next]_vars

-----------------------------------------------------------------------------
TypeOK ==
  /\ LedgerTypeOK
  /\ nextId \in Nat \ {0} /\ \A r \in table : r.id \in 1..(nextId - 1) /\ r \in Stored(r.id)
  /\ pc \in [Writer -> {"idle", "setting", "getting", "removing", "auditing", "ok", "notfound",
                        "failed", "loading", "opening", "running", "ending", "done"}]
  /\ calls \in [Turn -> 0..MaxCalls] /\ changed \subseteq Request
  /\ from \in [Turn -> 0..Len(past)]

Entries(w, kinds) == {i \in 1..Len(ledger) : ledger[i].by = w /\ ledger[i].kind \in kinds}
\* A change of the policy that was acknowledged is in the ledger, once.
AcknowledgedIsAudited == \A q \in Request :
  pc[q] = "ok" => Cardinality(Entries(q, RuleKinds)) = 1

\* The ledger tells of no change that did not happen, whatever fails.
EntriesAreTrue == \A q \in Request : Entries(q, RuleKinds) # {} => q \in changed

\* set never accumulates rules under one key, although the prefix may be NULL.
OneRulePerKey == \A r, s \in table : SameKey(r, s) => r = s

\* What a tool gets is what the user last said about it: the newest rule that covers
\* the scope, else the cell that the matrix shows, which is the stored one, else the
\* profile's own.
StoredRulesWin == \A profile \in Profile, tool \in Tool, scope \in Scope :
  LET own    == {r \in table : r.profile = profile /\ r.tool = tool}
      scoped == {r \in own : r.prefix # None /\ <<r.prefix, scope>> \in Inside}
      newest(S) == (CHOOSE r \in S : \A s \in S : s.id <= r.id).decision
      cell   == {r \in own : r.prefix = None}
  IN  /\ Effective(table, profile, tool, scope) =
           IF scoped # {} THEN newest(scoped) ELSE MatrixCell(table, profile, tool)
      /\ MatrixCell(table, profile, tool) =
           IF cell # {} THEN newest(cell) ELSE Evaluate(ProfileRules(profile), tool, scope)

\* Every decision of a turn follows rules that were in force at some moment since its
\* message arrived: a change acknowledged before binds it, unless the store could not
\* be read.
DecidedByRulesInForce == \A t \in Turn : \A d \in decided[t] :
  overrides[t].loaded =>
    \E v \in from[t]..Len(past) :
      d.verdict = Effective(past[v], overrides[t].profile, d.tool, d.scope)

\* No tool runs in a session that the ledger does not open.
ToolRunsHaveAStart == \A t \in Turn :
  calls[t] > 0 => Entries(t, {"session.start"}) # {}

\* A revocation removes the very rule that the user saw, whoever set or revoked others
\* in the meantime.
RevokeHitsWhatWasSeen == [][\A q \in Request :
  (pc[q] = "removing" /\ q \in changed' \ changed) => table \ table' = {rule[q]}]_vars

\* The ledger against what it records: the chain verifies through overlapping appends
\* and failed statements, an acknowledged change of a rule has its entry, no entry is
\* of a change that never was, and a turn whose tools ran has its start.
AuditIsTrue ==
  TypeOK /\ ChainIntact /\ AcknowledgedIsAudited /\ EntriesAreTrue /\ ToolRunsHaveAStart

\* One rule decides for a profile, tool and scope; it is the stored one, as it stood
\* when the turn's message arrived; and a revocation removes the rule that its user
\* was shown.
RulesInForceDecide ==
  [](OneRulePerKey /\ StoredRulesWin /\ DecidedByRulesInForce) /\ RevokeHitsWhatWasSeen

-----------------------------------------------------------------------------
(* The inductive strengthening of both. *)

\* The table is one that RuleStore keeps: finitely many rows, each with its own id, and
\* none of an id to come.
TableInv ==
  /\ IsFiniteSet(table) /\ OneRulePerKey
  /\ \A r, s \in table : r.id = s.id => r = s
  /\ past # <<>> /\ past[Len(past)] = table

\* The rule of a request: as its body has it, or a row that the list had and that may
\* have gone since, but whose id no other row took.
Row == UNION {Stored(id) : id \in 1..(nextId - 1)}
Body == [profile : Profile, tool : Tool, prefix : Prefix \cup {None}, decision : Wanted]
RequestInv(q) ==
  /\ pc[q] \in {"idle", "setting", "getting", "removing", "auditing", "ok", "notfound", "failed"}
  /\ pc[q] = "setting" => rule[q] \in Body
  /\ pc[q] \in {"getting", "removing"} =>
       rule[q] \in Row /\ \A s \in table : s.id = rule[q].id => s = rule[q]
  /\ pc[q] \in {"auditing", "ok"} => q \in changed
  /\ pc[q] # "ok" => Entries(q, RuleKinds) = {}
  /\ pc[q] = "ok" => Cardinality(Entries(q, RuleKinds)) = 1

\* A turn has nothing to record before it opens its session, and it runs no tool before
\* the session's start is written.
TurnInv(t) ==
  /\ pc[t] \in {"idle", "loading", "opening", "running", "ending", "done", "failed"}
  /\ todo[t] # <<>> => pc[t] \in {"opening", "running", "ending"}
  /\ pc[t] = "opening" => todo[t] = <<"session.start">>
  /\ pc[t] = "ending" => todo[t] = <<"session.end">>
  /\ pc[t] \in {"idle", "loading", "opening"} => calls[t] = 0 /\ decided[t] = {}
  /\ pc[t] \in {"running", "ending"} \/ calls[t] > 0 => Entries(t, {"session.start"}) # {}

\* The rules that a turn holds are those of one moment since its message, and what it
\* decided follows them.
RulesHeld(t) ==
  /\ pc[t] \in {"opening", "running", "ending"} \/ decided[t] # {} =>
       \E profile \in Profile : \E v \in DOMAIN past : from[t] <= v /\
         \/ overrides[t] = [profile |-> profile, loaded |-> TRUE,
                            rules |-> Overlay(ListForProfile(past[v], profile), profile)]
         \/ overrides[t] = [profile |-> profile, loaded |-> FALSE,
                            rules |-> Overlay(<<>>, profile)]
  /\ \A d \in decided[t] : d.verdict = Evaluate(overrides[t].rules, d.tool, d.scope)

PolicyInv ==
  /\ TypeOK /\ LedgerInv /\ TableInv
  /\ rule \in [Request -> {None} \cup Body \cup Row] /\ todo \in [Turn -> Seq(LedgerKind)]
  /\ overrides = [t \in Turn |-> overrides[t]] /\ decided = [t \in Turn |-> decided[t]]
  /\ \A q \in Request : RequestInv(q)
  /\ \A t \in Turn : TurnInv(t) /\ RulesHeld(t)
=============================================================================
