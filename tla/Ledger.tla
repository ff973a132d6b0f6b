------------------------------- MODULE Ledger -------------------------------
(***************************************************************************)
(* What the platform promises of a run to whoever pays for it, whichever   *)
(* endpoint it came through: a request is turned away or started; what its *)
(* completions cost is put on its account; it fails, or it finishes and is *)
(* entered in the ledger, once, with the whole account; and it is answered *)
(* only then.  Accounting.tla is shown to keep this promise for concurrent *)
(* runs, and StreamedRun.tla for a run with its producer, queue and reader.*)
(***************************************************************************)
EXTENDS Sequences

CONSTANTS
  Runs,        \* the run requests
  Nothing,     \* an account without a charge
  Charged(_)   \* the accounts that one more completion can make of an account

VARIABLES
  life,        \* life[r]: what has become of run r
  spent,       \* spent[r]: its account
  entries,     \* the ledger, in the order of the commits
  answered     \* the runs whose callers were told a result

ledgerVars == <<life, spent, entries, answered>>

LedgerInit ==
  /\ life = [r \in Runs |-> "asked"]
  /\ spent = [r \in Runs |-> Nothing]
  /\ entries = <<>>
  /\ answered = {}

\* Run r goes from one stage of its life to another.
Becomes(r, from, to) ==
  /\ life[r] \in from
  /\ life' = [life EXCEPT ![r] = to]

\* The request is invalid, or its agent is not there.
Refuse(r) ==
  /\ Becomes(r, {"asked"}, "refused")
  /\ UNCHANGED <<spent, entries, answered>>

Start(r) ==
  /\ Becomes(r, {"asked"}, "underway")
  /\ UNCHANGED <<spent, entries, answered>>

\* A completion, of the run's own loop or deeper.
Spend(r) ==
  /\ life[r] = "underway"
  /\ \E account \in Charged(spent[r]) : spent' = [spent EXCEPT ![r] = account]
  /\ UNCHANGED <<life, entries, answered>>

Finish(r) ==
  /\ Becomes(r, {"underway"}, "finished")
  /\ UNCHANGED <<spent, entries, answered>>

\* The loop raises, or its result cannot be written down.
Fail(r) ==
  /\ Becomes(r, {"underway", "finished"}, "failed")
  /\ UNCHANGED <<spent, entries, answered>>

\* The run is written down with what it cost, and its cost is final.
Bill(r) ==
  /\ Becomes(r, {"finished"}, "billed")
  /\ entries' = Append(entries, [run |-> r, account |-> spent[r]])
  /\ UNCHANGED <<spent, answered>>

\* The caller is told.  A billed run need not be answered: its row may not be
\* readable, or its caller gone.
Tell(r) ==
  /\ life[r] = "billed"
  /\ answered' = answered \cup {r}
  /\ UNCHANGED <<life, spent, entries>>

LedgerNext ==
  \E r \in Runs :
    Refuse(r) \/ Start(r) \/ Spend(r) \/ Finish(r) \/ Fail(r) \/ Bill(r) \/ Tell(r)

LedgerSpec == LedgerInit /\ [][LedgerNext]_ledgerVars
=============================================================================
