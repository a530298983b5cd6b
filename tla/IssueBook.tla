------------------------------ MODULE IssueBook ------------------------------
(***************************************************************************)
(* The pressures of a scene.  A committed turn is read as a pressure       *)
(* profile (its kind, the people it concerns, what it asks for); the       *)
(* profile is matched against the issues continuity keeps: a match         *)
(* advances that issue, otherwise a new one is opened while fewer than     *)
(* MaxActive are listed as active.  Then every listed issue is updated by  *)
(* the same turn, issues nobody touched stall, and the list of active      *)
(* issues is rebuilt.  An issue keeps its place in the book, so a book is  *)
(* a sequence of issues and the list of active ones holds positions.       *)
(***************************************************************************)
EXTENDS Naturals, Sequences, FiniteSets, SequencesExt

CONSTANTS
    People,          \* the characters of the scene
    Kinds,           \* the kinds of pressure
    NoKind,          \* a turn that presses nothing
    MaxActive,       \* MAX_ACTIVE_ISSUES
    StallThreshold   \* ISSUE_STALL_TURN_THRESHOLD

Statuses == {"active", "escalating", "stalled", "resolved"}

\* An issue seeded by the scene template has never been touched: last is 0.
Issues ==
    [status : Statuses, kind : Kinds, people : SUBSET People, stock : BOOLEAN,
     last : Nat]

Books == [issues : Seq(Issues), listed : Seq(Nat)]

IsLive(issue) == issue.status \in {"active", "escalating"}

Score(turn, issue) ==
    IF turn.people \cap issue.people = {} THEN 0
    ELSE 1 + (IF turn.people = issue.people THEN 1 ELSE 0)
           + (IF turn.kind = issue.kind THEN 3 ELSE 0)
           + (IF turn.stock /\ issue.stock THEN 2 ELSE 0)

MatchScore == 4

\* Mutant: a match that does not skip resolved issues.
Matching_Any(book, turn) ==
    {i \in DOMAIN book.issues :
        /\ Score(turn, book.issues[i]) >= MatchScore
        /\ \A j \in DOMAIN book.issues :
              \/ Score(turn, book.issues[i]) > Score(turn, book.issues[j])
              \/ /\ Score(turn, book.issues[i]) = Score(turn, book.issues[j])
                 /\ i <= j}

\* The first of the best, among the issues that are not resolved.
Matching(book, turn) ==
    LET open == {i \in DOMAIN book.issues : book.issues[i].status # "resolved"}
        better(i, j) ==
            \/ Score(turn, book.issues[i]) > Score(turn, book.issues[j])
            \/ /\ Score(turn, book.issues[i]) = Score(turn, book.issues[j])
               /\ i <= j
    IN {i \in open : /\ Score(turn, book.issues[i]) >= MatchScore
                     /\ \A j \in open : better(i, j)}

ActiveListed(book) ==
    SelectSeq(book.listed, LAMBDA i : IsLive(book.issues[i]))

Pressed(shifts) == IF shifts THEN "escalating" ELSE "active"

\* maybe_create_issue
Opened(book, turn, now) ==
    LET match == Matching(book, turn)
        touched(i) == [book EXCEPT !.issues[i].status = Pressed(turn.shifts),
                                   !.issues[i].last = now]
        created == [issues |-> Append(book.issues,
                        [status |-> Pressed(turn.shifts), kind |-> turn.kind,
                         people |-> turn.people, stock |-> turn.stock, last |-> now]),
                    listed |-> Append(book.listed, Len(book.issues) + 1)]
    IN IF turn.kind = NoKind THEN book
       ELSE IF match # {} THEN touched(CHOOSE i \in match : TRUE)
       ELSE IF Len(ActiveListed(book)) >= MaxActive THEN book
       ELSE created

TransitionOf(issue, turn) ==
    IF issue.kind \in turn.resolves THEN "resolved"
    ELSE IF issue.kind \in turn.escalates THEN "escalated"
    ELSE turn.effect[issue.kind]

Touches(turn, issue) ==
    \/ Score(turn, issue) >= MatchScore
    \/ issue.kind \in turn.resolves \cup turn.escalates

UpdatedIssue(issue, turn, now) ==
    LET transition == TransitionOf(issue, turn)
        escalatedNow == issue.status = "escalating" /\ issue.last = now
        status == IF transition = "resolved" THEN "resolved"
                  ELSE IF transition = "escalated" \/ escalatedNow THEN "escalating"
                  ELSE "active"
    IN [issue EXCEPT !.status = status, !.last = now]

\* A seeded issue that was never touched counts as touched now.
LastTouched(issue, now) == IF issue.last = 0 THEN now ELSE issue.last

Stalls(issue, turn, now) ==
    /\ now - LastTouched(issue, now) >= StallThreshold
    /\ ~turn.material

\* update_issues: the listed issues only.
Advanced(book, turn, now) ==
    LET next(issue) ==
            IF issue.status = "resolved" THEN issue
            ELSE IF Touches(turn, issue) THEN UpdatedIssue(issue, turn, now)
            ELSE IF Stalls(issue, turn, now)
                 THEN [issue EXCEPT !.status = "stalled", !.last = now]
            ELSE issue
        issues == [i \in DOMAIN book.issues |->
                      IF i \in ToSet(book.listed) THEN next(book.issues[i])
                      ELSE book.issues[i]]
    IN [issues |-> issues,
        listed |-> SelectSeq(book.listed, LAMBDA i : IsLive(issues[i]))]

Pressures(book, turn, now) == Advanced(Opened(book, turn, now), turn, now)

=============================================================================
