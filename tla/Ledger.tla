------------------------------- MODULE Ledger -------------------------------
(***************************************************************************)
(* The append-only ledger `.forge/forge.db`: a hash chain to which          *)
(* independent connections append, each in a deferred transaction that      *)
(* first reads the last hash and then inserts.                             *)
(*                                                                         *)
(* The hash of an entry is its position: chain_hash covers the time stamp   *)
(* and the hash before it, so no two entries share one.  `prev` is the      *)
(* position whose hash the entry was chained to, 0 for the empty string.    *)
(* Written to be EXTENDED by the modules whose components append.           *)
(***************************************************************************)
EXTENDS Integers, Sequences

CONSTANTS Writer,      \* connections that append
          MaxFaults    \* bound: statements that fail although no other writer disturbs

ASSUME MaxFaultsAssumption == MaxFaults \in Nat

VARIABLES ledger,     \* the table, in the order of seq
          prev,       \* the hash that a writer's transaction read
          snapshot,   \* the table its transaction sees, as a length
          faults,     \* statements of this and of the other stores that failed so
          readFailed  \* ghost: has any SELECT of the last hash failed?

ledgerVars == <<ledger, prev, snapshot, faults, readFailed>>

\* The disk is full, the file damaged, a lock held too long.
StorageFails == faults < MaxFaults /\ faults' = faults + 1

\* What entries are of: changes of the policy, and the events of a session.
RuleKinds == {"rule.set", "rule.revoke"}
LedgerKind == RuleKinds \cup
  {"session.start", "tool.run", "tool.result", "tool.denied", "session.end"}

NoTransaction == -2
NoSnapshot == -1      \* the SELECT failed: the INSERT begins afresh

LedgerInit ==
  /\ ledger = <<>>
  /\ prev = [w \in Writer |-> 0]
  /\ snapshot = [w \in Writer |-> NoTransaction]
  /\ faults = 0 /\ readFailed = FALSE

\* Faulty: a SELECT and an INSERT outside any transaction.
LedgerRead_NoTransaction(w) ==
  /\ snapshot[w] = NoTransaction
  /\ prev' = [prev EXCEPT ![w] = Len(ledger)]
  /\ snapshot' = [snapshot EXCEPT ![w] = NoSnapshot]
  /\ UNCHANGED <<ledger, faults, readFailed>>

\* BEGIN and SELECT; whatever error the SELECT has becomes the hash of an empty ledger.
LedgerRead(w) ==
  /\ snapshot[w] = NoTransaction
  /\ \/ /\ prev' = [prev EXCEPT ![w] = Len(ledger)]
        /\ snapshot' = [snapshot EXCEPT ![w] = Len(ledger)]
        /\ UNCHANGED <<faults, readFailed>>
     \/ /\ StorageFails
        /\ prev' = [prev EXCEPT ![w] = 0]
        /\ snapshot' = [snapshot EXCEPT ![w] = NoSnapshot]
        /\ readFailed' = TRUE
  /\ UNCHANGED ledger

\* SQLite lets a deferred transaction write only on the newest snapshot.
Writable(w) == snapshot[w] \in {Len(ledger), NoSnapshot}

\* INSERT and COMMIT.
LedgerCommit(w, kind) ==
  /\ snapshot[w] # NoTransaction /\ Writable(w)
  /\ ledger' = Append(ledger, [kind |-> kind, by |-> w, prev |-> prev[w]])
  /\ snapshot' = [snapshot EXCEPT ![w] = NoTransaction]
  /\ prev' = [prev EXCEPT ![w] = 0]
  /\ UNCHANGED <<faults, readFailed>>

\* The INSERT is refused (SQLITE_BUSY, at once: another connection committed since the
\* SELECT) or the storage fails; the transaction is rolled back.
LedgerFails(w) ==
  /\ snapshot[w] # NoTransaction
  /\ IF Writable(w) THEN StorageFails ELSE UNCHANGED faults
  /\ snapshot' = [snapshot EXCEPT ![w] = NoTransaction]
  /\ prev' = [prev EXCEPT ![w] = 0]
  /\ UNCHANGED <<ledger, readFailed>>

LedgerTypeOK ==
  /\ ledger \in Seq([kind : LedgerKind, by : Writer, prev : Nat])
  /\ prev \in [Writer -> 0..Len(ledger)]
  /\ snapshot \in [Writer -> NoTransaction..Len(ledger)]
  /\ faults \in 0..MaxFaults /\ readFailed \in BOOLEAN

\* verify_chain: every entry is chained to the one before it.
ChainHolds == \A i \in 1..Len(ledger) : ledger[i].prev = i - 1

\* Concurrent appends never fork the chain: verify_chain accepts it unless the storage
\* failed a read, which append takes for an empty ledger.
ChainIntact == ~readFailed => ChainHolds

\* The inductive strengthening of ChainIntact: a transaction that sees a table chains to
\* its last entry.
LedgerInv ==
  /\ LedgerTypeOK /\ ChainIntact
  /\ \A w \in Writer : /\ snapshot[w] >= 0 => prev[w] = snapshot[w]
                       /\ snapshot[w] = NoSnapshot => readFailed
=============================================================================
