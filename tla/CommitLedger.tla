---------------------------- MODULE CommitLedger ----------------------------
(***************************************************************************)
(* What the Domain Host promises the round orchestrator about character    *)
(* moves, with everything else taken away: an authoritative, append-only   *)
(* ledger with one move per continuity turn, and answers that never        *)
(* outrun it.  docs/architecture.md (transactional commit, C3-F) and the   *)
(* tests of v2/domain/tests/test_commit_move_transaction.py are what the   *)
(* promise is read from; SessionHost is shown to implement it.             *)
(***************************************************************************)
EXTENDS Integers, Sequences

CONSTANTS
    Requests,       \* commit requests; a retry is the same request
    Expected,       \* the continuity turn each request was computed for
    Ids             \* the commit ids that can be drawn

VARIABLES
    ledger,         \* the moves that happened, in turn order
    acked           \* the commit answers callers have received

ledgerVars == <<ledger, acked>>

Recorded(move, turn) == [req |-> move.req, id |-> move.id, turn |-> turn]

LedgerInit == ledger = <<>> /\ acked = {}

\* A move joins the ledger only at the turn it was computed for, once.
Happen(r, id) ==
    /\ Len(ledger) = Expected[r]
    /\ \A i \in 1..Len(ledger) : ledger[i].req # r /\ ledger[i].id # id
    /\ ledger' = Append(ledger, [req |-> r, id |-> id])
    /\ UNCHANGED acked

\* Only what is in the ledger is ever acknowledged, with its own id and turn.
Acknowledge(i) ==
    /\ acked' = acked \cup {Recorded(ledger[i], i)}
    /\ UNCHANGED ledger

LedgerNext ==
    \/ \E r \in Requests, id \in Ids : Happen(r, id)
    \/ \E i \in 1..Len(ledger) : Acknowledge(i)

LedgerSpec == LedgerInit /\ [][LedgerNext]_ledgerVars
=============================================================================
