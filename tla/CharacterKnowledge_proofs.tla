---------------------- MODULE CharacterKnowledge_proofs ----------------------
(***************************************************************************)
(* Proofs about what a character is given to know.                         *)
(*                                                                         *)
(* CharacterProjection, for any characters, events, candidates and         *)
(* budgets: what becomes advice was judged for what its character knows,   *)
(* rests on nothing hidden, and is accounted for.                          *)
(*                                                                         *)
(* PerceptionLanes, for any cast, setups, turns, moves and narrators: a    *)
(* line said to some stays with them in every lane it is read in, but for  *)
(* the units of a narrator the Host compares with no line, and what is     *)
(* remembered is what was shown.                                           *)
(***************************************************************************)
EXTENDS CharacterProjection, PerceptionLanes, WellFoundedInduction, TLAPS

-----------------------------------------------------------------------------
(* Batches *)

\* Some numbers have a first one.
LEMMA SomeFirst ==
    ASSUME NEW T \in SUBSET Nat, T # {}
    PROVE  \E c \in T : \A d \in T : c <= d
<1> DEFINE R == OpToRel(<, Nat)
<1>1. IsWellFoundedOn(R, Nat)
  BY NatLessThanWellFounded
<1>2. \A x, y \in Nat : <<y, x>> \in R <=> y < x
  BY DEF OpToRel
<1> HIDE DEF R
<1>3. PICK x \in T : \A y \in T : ~(<<y, x>> \in R)
  BY <1>1, WFMin
<1>4. ASSUME NEW y \in T PROVE x <= y
  <2>1. x \in Nat /\ y \in Nat /\ ~(y < x)
    BY <1>2, <1>3
  <2>2. QED
    BY <2>1
<1>5. QED
  BY <1>4

\* The first of some candidates in the order of their ids exists.
LEMMA FirstExists ==
    ASSUME NEW T \in SUBSET Nat, T # {}
    PROVE  (CHOOSE c \in T : \A d \in T : c <= d) \in T
BY SomeFirst

Batches ==
    [who : Characters, round : Nat, known : SUBSET Events, revision : Nat, authority : Nat,
     goals : Nat, offered : SUBSET Candidates, admissible : SUBSET Candidates,
     items : SUBSET Candidates,
     first : UNION {[I -> Verdicts \cup {"none"}] : I \in SUBSET Candidates},
     second : UNION {[I -> Verdicts \cup {"none"}] : I \in SUBSET Candidates},
     rewrites : UNION {[I -> {0} \cup Rewrites] : I \in SUBSET Candidates},
     asked : SUBSET Candidates]

\* A text that is not hidden from who knows these events, or not wholly.
Knowable(c, events) == Basis[c] \subseteq events \/ Basis[c] \cap events # {}

BatchShape(b) ==
    /\ b \in Batches
    /\ b.items \subseteq b.admissible /\ b.admissible \subseteq b.offered
    /\ b.first \in [b.items -> Verdicts \cup {"none"}]
    /\ b.second \in [b.items -> Verdicts \cup {"none"}]
    /\ b.rewrites \in [b.items -> {0} \cup Rewrites]
    /\ \A c \in b.items : Knowable(c, b.known)

\* Where an item of the batch is being worked on.
Walking == Places \ {"idle", "finalize", "move"}

Lives ==
    [at : Places, who : Characters \cup {"nobody"}, item : Nat, verdict : Verdicts,
     rewrite : {0} \cup Rewrites, lost : BOOLEAN]

ShapeInv ==
    /\ known \in [Characters -> SUBSET Events]
    /\ overlay \in [revision : Nat, authority : Nat, goals : Nat]
    /\ round \in Nat
    /\ batch # NoBatch => BatchShape(batch)
    /\ life \in Lives
    /\ life.lost => batch = NoBatch
    /\ batch # NoBatch => life.who = batch.who
    /\ batch # NoBatch /\ life.at \in Walking => life.item \in batch.items
    /\ life.at \in {"rewritten", "judge_again", "register_again"} /\ ~life.lost => life.rewrite # 0

\* What the Host prepares is a batch.
LEMMA PreparedShape ==
    ASSUME ShapeInv, NEW who \in Characters
    PROVE  /\ BatchShape(Prepared(who))
           /\ Prepared(who).who = who /\ Prepared(who).items = Evaluated(who)
           /\ \A c \in Evaluated(who) : /\ Prepared(who).first[c] = "none"
                                        /\ Prepared(who).second[c] = "none"
<1> DEFINE p == Prepared(who)
<1>1. Evaluated(who) \subseteq Admissible(who) /\ Admissible(who) \subseteq Offered(who)
  BY DEF Evaluated, Admissible, FirstOf
<1>2. Offered(who) \subseteq Candidates
  BY CandidatesAssumption DEF Offered, FirstOf, Collected
<1>3. known[who] \in SUBSET Events
  BY DEF ShapeInv
<1>4. \A c \in Evaluated(who) : Knowable(c, known[who])
  BY <1>1 DEF Admissible, Eligible, Exposable, Withheld, Knowable
<1>5. /\ p.who = who /\ p.items = Evaluated(who) /\ p.admissible = Admissible(who)
      /\ p.offered = Offered(who) /\ p.known = known[who]
      /\ p.first = [c \in Evaluated(who) |-> "none"] /\ p.second = [c \in Evaluated(who) |-> "none"]
      /\ p.rewrites = [c \in Evaluated(who) |-> 0]
  BY DEF Prepared
<1>6. p \in Batches
  <2>1. /\ [c \in Evaluated(who) |-> "none"] \in [Evaluated(who) -> Verdicts \cup {"none"}]
        /\ [c \in Evaluated(who) |-> 0] \in [Evaluated(who) -> {0} \cup Rewrites]
    OBVIOUS
  <2>2. Evaluated(who) \in SUBSET Candidates /\ Admissible(who) \in SUBSET Candidates
    BY <1>1, <1>2
  <2>3. /\ [c \in Evaluated(who) |-> "none"]
              \in UNION {[I -> Verdicts \cup {"none"}] : I \in SUBSET Candidates}
        /\ [c \in Evaluated(who) |-> 0] \in UNION {[I -> {0} \cup Rewrites] : I \in SUBSET Candidates}
    BY <2>1, <2>2
  <2>4. round \in Nat /\ overlay.revision \in Nat /\ overlay.authority \in Nat /\ overlay.goals \in Nat
    BY DEF ShapeInv
  <2>5. QED
    BY <1>2, <1>3, <2>2, <2>3, <2>4 DEF Prepared, Batches
<1>7. QED
  BY <1>1, <1>4, <1>5, <1>6 DEF BatchShape

\* Registering a verdict or a rewriting keeps a batch, and what it is bound to.
LEMMA BatchUpdated ==
    ASSUME NEW b, BatchShape(b), NEW c \in b.items, NEW v \in Verdicts, NEW n \in {0} \cup Rewrites
    PROVE  /\ BatchShape([b EXCEPT !.first[c] = v])
           /\ BatchShape([b EXCEPT !.second[c] = v])
           /\ BatchShape([b EXCEPT !.rewrites[c] = n])
           /\ BatchShape([b EXCEPT !.asked = @ \cup {c}])
<1>1. c \in Candidates /\ b.items \in SUBSET Candidates
  BY DEF BatchShape, Batches
<1>2. [b.first EXCEPT ![c] = v] \in [b.items -> Verdicts \cup {"none"}]
  BY DEF BatchShape
<1>3. [b.second EXCEPT ![c] = v] \in [b.items -> Verdicts \cup {"none"}]
  BY DEF BatchShape
<1>4. [b.rewrites EXCEPT ![c] = n] \in [b.items -> {0} \cup Rewrites]
  BY DEF BatchShape
<1>5. /\ [b.first EXCEPT ![c] = v] \in UNION {[I -> Verdicts \cup {"none"}] : I \in SUBSET Candidates}
      /\ [b.second EXCEPT ![c] = v] \in UNION {[I -> Verdicts \cup {"none"}] : I \in SUBSET Candidates}
      /\ [b.rewrites EXCEPT ![c] = n] \in UNION {[I -> {0} \cup Rewrites] : I \in SUBSET Candidates}
      /\ b.asked \cup {c} \in SUBSET Candidates
  BY <1>1, <1>2, <1>3, <1>4 DEF BatchShape, Batches
<1>6. BatchShape([b EXCEPT !.first[c] = v])
  BY <1>2, <1>5 DEF BatchShape, Batches
<1>7. BatchShape([b EXCEPT !.second[c] = v])
  BY <1>3, <1>5 DEF BatchShape, Batches
<1>8. BatchShape([b EXCEPT !.rewrites[c] = n])
  BY <1>4, <1>5 DEF BatchShape, Batches
<1>9. BatchShape([b EXCEPT !.asked = @ \cup {c}])
  BY <1>5 DEF BatchShape, Batches
<1>10. QED
  BY <1>6, <1>7, <1>8, <1>9

\* After an item comes a later one, or the end of the walk.
LEMMA ProceedsTo ==
    ASSUME ShapeInv, batch # NoBatch, Proceeds
    PROVE  /\ life' \in Lives /\ life'.at \in {"resolve", "finalize"}
           /\ life'.who = life.who /\ life'.lost = life.lost
           /\ life'.at = "resolve" => life'.item \in batch.items /\ life'.item > life.item
<1>1. life \in Lives /\ "finalize" \in Places /\ "resolve" \in Places
  BY DEF ShapeInv, Places
<1>2. CASE Later = {}
  <2>1. life' = [life EXCEPT !.at = "finalize"]
    BY <1>2 DEF Proceeds, GoesTo
  <2>2. /\ life' \in Lives /\ life'.at = "finalize"
        /\ life'.who = life.who /\ life'.lost = life.lost
    BY <1>1, <2>1 DEF Lives
  <2>3. QED
    BY <2>2
<1>3. CASE Later # {}
  <2> DEFINE c == CHOOSE x \in Later : \A d \in Later : x <= d
  <2>1. Later \in SUBSET Nat
    BY CandidatesAssumption DEF Later, ShapeInv, BatchShape, Batches
  <2>2. c \in Later
    BY <1>3, <2>1, FirstExists
  <2>3. life' = [life EXCEPT !.at = "resolve", !.item = c]
    BY <1>3 DEF Proceeds
  <2> HIDE DEF c
  <2>4. c \in Nat /\ c \in batch.items /\ c > life.item
    BY <2>1, <2>2 DEF Later
  <2>5. /\ life' \in Lives /\ life'.at = "resolve" /\ life'.item = c
        /\ life'.who = life.who /\ life'.lost = life.lost
    BY <1>1, <2>3, <2>4 DEF Lives
  <2>6. QED
    BY <2>4, <2>5
<1>4. QED
  BY <1>2, <1>3

\* What an action of the walk leaves of the batch.
SameBinding(b, a) ==
    /\ a.who = b.who /\ a.round = b.round /\ a.known = b.known /\ a.goals = b.goals
    /\ a.items = b.items /\ a.admissible = b.admissible /\ a.offered = b.offered

\* The phase is somewhere and somebody's, whatever the batch.
LifeStays == life' \in Lives /\ life'.who = life.who /\ life'.lost = life.lost
BatchStays == UNCHANGED <<known, overlay, round, batch>>

\* A step that leaves the batch alone, on the item it is about.
LEMMA SameItem ==
    ASSUME ShapeInv, LifeStays, BatchStays, life'.item = life.item, life'.rewrite = life.rewrite,
           life'.at \in Walking => life.at \in Walking,
           life'.at \in {"rewritten", "judge_again", "register_again"} =>
               life.at \in {"rewritten", "judge_again", "register_again"}
    PROVE  ShapeInv'
BY DEF ShapeInv, LifeStays, BatchStays, BatchShape

\* A step that gives up the walk.
LEMMA WalkEnds ==
    ASSUME ShapeInv, LifeStays, BatchStays, life'.at \in {"finalize", "move"}
    PROVE  ShapeInv'
BY DEF ShapeInv, LifeStays, BatchStays, BatchShape, Walking

\* Giving up leads to the move without advice.
LEMMA GivenUp ==
    ASSUME ShapeInv, GivesUp, BatchStays
    PROVE  ShapeInv' /\ life'.at = "move"
<1>1. life \in Lives /\ "move" \in Places /\ life' = [life EXCEPT !.at = "move"]
  BY DEF ShapeInv, Places, GivesUp, GoesTo
<1>2. LifeStays /\ life'.at = "move"
  BY <1>1 DEF Lives, LifeStays
<1>3. QED
  BY <1>2, WalkEnds

\* A verdict or a rewriting registered for the item, and the walk goes on.
LEMMA Registered ==
    ASSUME ShapeInv, batch # NoBatch, life.at \in Walking,
           NEW v \in Verdicts, NEW n \in {0} \cup Rewrites,
           LifeStays, UNCHANGED <<known, overlay, round>>,
           \/ batch' = [batch EXCEPT !.first[life.item] = v]
           \/ batch' = [batch EXCEPT !.second[life.item] = v]
           \/ batch' = [batch EXCEPT !.rewrites[life.item] = n]
           \/ batch' = [batch EXCEPT !.asked = @ \cup {life.item}],
           life'.at \in Walking => life'.item \in batch.items,
           life'.at \in {"rewritten", "judge_again", "register_again"} => life'.rewrite # 0
    PROVE  ShapeInv'
<1>1. BatchShape(batch) /\ life.item \in batch.items
  BY DEF ShapeInv
<1>2. BatchShape(batch')
  <2>1. CASE batch' = [batch EXCEPT !.first[life.item] = v]
    <3>1. BatchShape([batch EXCEPT !.first[life.item] = v])
      BY <1>1, BatchUpdated
    <3>2. QED
      BY <2>1, <3>1
  <2>2. CASE batch' = [batch EXCEPT !.second[life.item] = v]
    <3>1. BatchShape([batch EXCEPT !.second[life.item] = v])
      BY <1>1, BatchUpdated
    <3>2. QED
      BY <2>2, <3>1
  <2>3. CASE batch' = [batch EXCEPT !.rewrites[life.item] = n]
    <3>1. BatchShape([batch EXCEPT !.rewrites[life.item] = n])
      BY <1>1, BatchUpdated
    <3>2. QED
      BY <2>3, <3>1
  <2>4. CASE batch' = [batch EXCEPT !.asked = @ \cup {life.item}]
    <3>1. BatchShape([batch EXCEPT !.asked = @ \cup {life.item}])
      BY <1>1, BatchUpdated
    <3>2. QED
      BY <2>4, <3>1
  <2>5. QED
    BY <2>1, <2>2, <2>3, <2>4
<1>3. batch'.who = batch.who /\ batch'.items = batch.items
  BY <1>1 DEF BatchShape, Batches
<1>4. life.lost = FALSE
  BY DEF ShapeInv, Lives
<1>5. QED
  BY <1>2, <1>3, <1>4 DEF ShapeInv, LifeStays

\* The phase and the batch stay well-formed.
LEMMA ShapeStep ==
    ASSUME ShapeInv, \A entry \in cache : entry.verdict \in Verdicts, Next
    PROVE  ShapeInv'
<1>1. life \in Lives /\ Places = {"idle", "resolve", "judge", "register", "regenerate", "rewrite",
          "rewritten", "judge_again", "register_again", "finalize", "move"}
  BY DEF Places, ShapeInv
<1>2. Idle \in Lives /\ Idle.at = "idle" /\ Idle.lost = FALSE /\ Idle.who = "nobody"
  BY <1>1 DEF Idle, Lives, Verdicts
<1>3. CASE \E who \in Characters : Prepare(who)
  <2>1. PICK who \in Characters : Prepare(who)
    BY <1>3
  <2> DEFINE items == Evaluated(who)
             c == IF items = {} THEN 0 ELSE CHOOSE x \in items : \A d \in items : x <= d
             p == IF items = {} THEN "finalize" ELSE "resolve"
  <2>2. /\ batch' = Prepared(who) /\ life' = [Idle EXCEPT !.who = who, !.at = p, !.item = c]
        /\ UNCHANGED <<known, overlay, round>>
    BY <2>1 DEF Prepare
  <2>3. BatchShape(Prepared(who)) /\ Prepared(who).who = who /\ Prepared(who).items = items
    BY PreparedShape
  <2>4. items \in SUBSET Nat
    BY CandidatesAssumption DEF Evaluated, Admissible, Offered, Collected, FirstOf
  <2>5. c \in Nat /\ (items # {} => c \in items)
    BY <2>4, FirstExists
  <2>6. p \in {"finalize", "resolve"} /\ (p = "resolve" => items # {})
    OBVIOUS
  <2> HIDE DEF items, c, p
  <2>7. /\ life' \in Lives /\ life'.lost = FALSE /\ life'.who = who /\ life'.item = c
        /\ life'.at = p
    BY <1>1, <1>2, <2>2, <2>5, <2>6 DEF Lives, Idle
  <2>8. BatchShape(batch') /\ batch'.who = who /\ batch'.items = items
    BY <2>2, <2>3
  <2>9. QED
    BY <2>2, <2>5, <2>6, <2>7, <2>8 DEF ShapeInv, BatchShape, Walking
<1>4. CASE Resolve
  <2>1. BatchStays /\ life.at = "resolve"
    BY <1>4 DEF Resolve, Session, BatchStays
  <2>2. \/ life' = [life EXCEPT !.at = "judge"]
        \/ \E entry \in cache : life' = [life EXCEPT !.at = "register", !.verdict = entry.verdict]
    BY <1>4 DEF Resolve, GoesTo, Remembered
  <2>3. CASE life' = [life EXCEPT !.at = "judge"]
    <3>1. LifeStays /\ life'.item = life.item /\ life'.rewrite = life.rewrite /\ life'.at = "judge"
      BY <1>1, <2>3 DEF Lives, LifeStays
    <3>2. QED
      BY <1>1, <2>1, <3>1, SameItem DEF Walking
  <2>4. CASE \E entry \in cache : life' = [life EXCEPT !.at = "register", !.verdict = entry.verdict]
    <3>1. PICK v \in Verdicts : life' = [life EXCEPT !.at = "register", !.verdict = v]
      BY <2>4
    <3>2. LifeStays /\ life'.item = life.item /\ life'.rewrite = life.rewrite /\ life'.at = "register"
      BY <1>1, <3>1 DEF Lives, LifeStays
    <3>3. QED
      BY <1>1, <2>1, <3>2, SameItem DEF Walking
  <2>5. QED
    BY <2>2, <2>3, <2>4
<1>5. CASE Judge \/ JudgeAgain
  <2>1. PICK v \in Verdicts :
            \/ life' = [life EXCEPT !.at = "register", !.verdict = v] /\ life.at = "judge"
            \/ life' = [life EXCEPT !.at = "register_again", !.verdict = v] /\ life.at = "judge_again"
    BY <1>5 DEF Judge, JudgeAgain, Judges
  <2>2. BatchStays
    BY <1>5 DEF Judge, JudgeAgain, Judges, BatchStays, Session
  <2>3. /\ LifeStays /\ life'.item = life.item /\ life'.rewrite = life.rewrite
        /\ \/ life'.at = "register" /\ life.at = "judge"
           \/ life'.at = "register_again" /\ life.at = "judge_again"
    BY <1>1, <2>1 DEF Lives, LifeStays
  <2>4. QED
    BY <1>1, <2>2, <2>3, SameItem DEF Walking
<1>6. CASE Register
  <2>1. /\ UNCHANGED <<known, overlay, round>> /\ life.at = "register" /\ ~life.lost
        /\ life.at \in Walking /\ life.verdict \in Verdicts
    BY <1>1, <1>6 DEF Register, Session, HostKnows, Walking, Lives
  <2>2. CASE Bound /\ life.verdict # "vague"
    <3>1. batch' = [batch EXCEPT !.first[life.item] = life.verdict] /\ batch # NoBatch
      BY <1>6, <2>2 DEF Register, Bound
    <3>2. /\ LifeStays
          /\ life'.at \in {"regenerate", "resolve", "finalize"}
          /\ life'.at \in Walking => life'.item \in batch.items
      <4>1. CASE life.verdict = "rewrite"
        <5>1. life' = [life EXCEPT !.at = "regenerate"]
          BY <1>6, <2>2, <4>1 DEF Register, GoesTo
        <5>2. /\ LifeStays /\ life'.at = "regenerate" /\ life'.item = life.item
          BY <1>1, <5>1 DEF Lives, LifeStays
        <5>3. life.item \in batch.items
          BY <2>1, <3>1 DEF ShapeInv
        <5>4. QED
          BY <5>2, <5>3
      <4>2. CASE life.verdict # "rewrite"
        <5>1. Proceeds
          BY <1>6, <2>2, <4>2 DEF Register
        <5>2. QED
          BY <3>1, <5>1, ProceedsTo DEF LifeStays, Walking
      <4>3. QED
        BY <4>1, <4>2
    <3>3. 0 \in {0} \cup Rewrites
      OBVIOUS
    <3>4. QED
      BY <2>1, <3>1, <3>2, <3>3, Registered
  <2>3. CASE ~(Bound /\ life.verdict # "vague")
    <3>1. GivesUp /\ BatchStays
      BY <1>6, <2>1, <2>3 DEF Register, BatchStays
    <3>2. QED
      BY <3>1, GivenUp
  <2>4. QED
    BY <2>2, <2>3
<1>7. CASE PrepareRegeneration
  <2>1. /\ UNCHANGED <<known, overlay, round>> /\ life.at = "regenerate" /\ life.at \in Walking
        /\ "pass" \in Verdicts /\ 0 \in {0} \cup Rewrites
    BY <1>1, <1>7 DEF PrepareRegeneration, Session, Walking, Verdicts
  <2>2. CASE GivesUp /\ UNCHANGED batch
    BY <2>1, <2>2, GivenUp DEF BatchStays
  <2>3. CASE Bound /\ batch' = [batch EXCEPT !.asked = @ \cup {life.item}] /\ GoesTo("rewrite")
    <3>1. batch # NoBatch /\ life' = [life EXCEPT !.at = "rewrite"]
      BY <2>3 DEF Bound, GoesTo
    <3>2. LifeStays /\ life'.at = "rewrite" /\ life'.item = life.item
      BY <1>1, <3>1 DEF Lives, LifeStays
    <3>3. life.item \in batch.items
      BY <2>1, <3>1 DEF ShapeInv
    <3>4. QED
      BY <2>1, <2>3, <3>1, <3>2, <3>3, Registered
  <2>4. QED
    BY <1>7, <2>2, <2>3 DEF PrepareRegeneration
<1>8. CASE Rewrite
  <2>1. BatchStays /\ life.at = "rewrite" /\ life.at \in Walking
    BY <1>1, <1>8 DEF Rewrite, Session, BatchStays, Walking
  <2>2. CASE GivesUp
    BY <2>1, <2>2, GivenUp
  <2>3. CASE \E n \in Rewrites : life' = [life EXCEPT !.at = "rewritten", !.rewrite = n]
    <3>1. PICK n \in Rewrites : life' = [life EXCEPT !.at = "rewritten", !.rewrite = n]
      BY <2>3
    <3>2. n # 0 /\ n \in {0} \cup Rewrites
      BY BudgetsAssumption
    <3>3. LifeStays /\ life'.item = life.item /\ life'.rewrite = n
      BY <1>1, <3>1, <3>2 DEF Lives, LifeStays
    <3>4. QED
      BY <2>1, <3>2, <3>3 DEF ShapeInv, LifeStays, BatchStays, BatchShape
  <2>4. QED
    BY <1>8, <2>2, <2>3 DEF Rewrite
<1>9. CASE FinalizeRegeneration
  <2>1. /\ UNCHANGED <<known, overlay, round>> /\ life.at = "rewritten" /\ life.at \in Walking
        /\ "pass" \in Verdicts /\ life.rewrite \in {0} \cup Rewrites /\ ~life.lost
    BY <1>1, <1>9 DEF FinalizeRegeneration, Session, Walking, Verdicts, Lives, HostKnows
  <2>2. CASE GivesUp /\ UNCHANGED batch
    BY <2>1, <2>2, GivenUp DEF BatchStays
  <2>3. CASE Bound /\ batch' = [batch EXCEPT !.rewrites[life.item] = life.rewrite] /\ GoesTo("judge_again")
    <3>1. batch # NoBatch /\ life' = [life EXCEPT !.at = "judge_again"]
      BY <2>3 DEF Bound, GoesTo
    <3>2. LifeStays /\ life'.at = "judge_again" /\ life'.item = life.item /\ life'.rewrite = life.rewrite
      BY <1>1, <3>1 DEF Lives, LifeStays
    <3>3. life.item \in batch.items /\ life.rewrite # 0
      BY <2>1, <3>1 DEF ShapeInv
    <3>4. QED
      BY <2>1, <2>3, <3>1, <3>2, <3>3, Registered
  <2>4. QED
    BY <1>9, <2>2, <2>3 DEF FinalizeRegeneration
<1>10. CASE RegisterAgain
  <2>1. /\ UNCHANGED <<known, overlay, round>> /\ life.at = "register_again" /\ life.at \in Walking
        /\ life.verdict \in Verdicts /\ 0 \in {0} \cup Rewrites
    BY <1>1, <1>10 DEF RegisterAgain, Session, Walking, Lives
  <2>2. CASE GivesUp /\ UNCHANGED batch
    BY <2>1, <2>2, GivenUp DEF BatchStays
  <2>3. CASE Bound /\ batch' = [batch EXCEPT !.second[life.item] = life.verdict] /\ Proceeds
    <3>1. batch # NoBatch
      BY <2>3 DEF Bound
    <3>2. /\ LifeStays /\ life'.at \in {"resolve", "finalize"}
          /\ life'.at \in Walking => life'.item \in batch.items
      BY <2>3, <3>1, ProceedsTo DEF LifeStays, Walking
    <3>3. QED
      BY <2>1, <2>3, <3>1, <3>2, Registered
  <2>4. QED
    BY <1>10, <2>2, <2>3 DEF RegisterAgain
<1>11. CASE Finalize
  <2>1. /\ batch' = NoBatch /\ life' = [life EXCEPT !.at = "move"]
        /\ UNCHANGED <<known, overlay, round>>
    BY <1>11 DEF Finalize, GoesTo, Session
  <2>2. life' \in Lives /\ life'.at = "move"
    BY <1>1, <2>1 DEF Lives
  <2>3. QED
    BY <2>1, <2>2 DEF ShapeInv
<1>12. CASE EndPhase \/ PhaseFails
  <2>1. batch' = NoBatch /\ life' = Idle /\ UNCHANGED <<known, overlay, round>>
    BY <1>12 DEF EndPhase, PhaseFails, Session, ShapeInv
  <2>2. QED
    BY <1>2, <2>1 DEF ShapeInv
<1>13. CASE JudgesForNobody
  <2>1. BatchStays /\ life' = [life EXCEPT !.at = "register"] /\ life.lost /\ batch = NoBatch
    BY <1>13 DEF JudgesForNobody, Session, ShapeInv, BatchStays
  <2>2. LifeStays /\ life'.at = "register"
    BY <1>1, <2>1 DEF Lives, LifeStays
  <2>3. QED
    BY <2>1, <2>2 DEF ShapeInv, LifeStays, BatchStays
<1>14. CASE \E who \in Characters, e \in Events : Learn(who, e) \/ Unlearn(who, e)
  <2>1. PICK who \in Characters, e \in Events : Learn(who, e) \/ Unlearn(who, e)
    BY <1>14
  <2>2. known' \in [Characters -> SUBSET Events]
    BY <2>1 DEF Learn, Unlearn, ShapeInv
  <2>3. UNCHANGED <<overlay, round, batch, life>>
    BY <2>1 DEF Learn, Unlearn, Undisturbed
  <2>4. QED
    BY <2>2, <2>3 DEF ShapeInv, BatchShape
<1>15. CASE FallBehind \/ CatchUp \/ NextRound
  <2>1. overlay' \in [revision : Nat, authority : Nat, goals : Nat] /\ round' \in Nat
    <3>1. CASE FallBehind
      BY <3>1 DEF FallBehind, ShapeInv
    <3>2. CASE CatchUp
      BY <3>2 DEF CatchUp, ShapeInv
    <3>3. CASE NextRound
      BY <3>3 DEF NextRound, ShapeInv
    <3>4. QED
      BY <1>15, <3>1, <3>2, <3>3
  <2>2. UNCHANGED <<known, batch, life>>
    BY <1>15 DEF FallBehind, CatchUp, NextRound, Undisturbed
  <2>3. QED
    BY <2>1, <2>2 DEF ShapeInv, BatchShape
<1>16. CASE Crash
  <2> DEFINE b == life.at # "idle"
  <2>1. batch' = NoBatch /\ life' = [life EXCEPT !.lost = b] /\ UNCHANGED <<known, overlay, round>>
    BY <1>16 DEF Crash, Session
  <2>2. b \in BOOLEAN /\ (~b => life.at = "idle")
    OBVIOUS
  <2> HIDE DEF b
  <2>3. life' \in Lives /\ life'.at = life.at /\ life'.lost = b
    BY <1>1, <2>1, <2>2 DEF Lives
  <2>4. QED
    BY <2>1, <2>2, <2>3 DEF ShapeInv
<1>20. QED
  BY <1>3, <1>4, <1>5, <1>6, <1>7, <1>8, <1>9, <1>10, <1>11, <1>12, <1>13, <1>14, <1>15, <1>16
    DEF Next, Walk

-----------------------------------------------------------------------------
(* What an evaluator has passed *)

Passed(b, text) == [who |-> b.who, text |-> text, known |-> b.known] \in passed
Judged(text) == Passed(batch, text)

\* The cache remembers only verdicts that were given, each under the knowledge
\* it was given for.
CacheInv ==
    \A entry \in cache :
        /\ entry.verdict \in Verdicts
        /\ entry.verdict = "pass" =>
             [who |-> entry.key.who, text |-> entry.key.text, known |-> entry.key.known] \in passed

\* A verdict registered as a pass, or about to be, was given for the text it
\* is registered for; no second verdict is there before its item's turn.
BatchInv ==
    batch # NoBatch =>
        /\ \A c \in batch.items :
             /\ batch.first[c] = "pass" => Judged(BatchText(c))
             /\ batch.second[c] = "pass" /\ batch.rewrites[c] # 0 => Judged(Rewritten(c, batch.rewrites[c]))
             /\ life.at \in Walking /\ c >= life.item => batch.second[c] = "none"
        /\ life.at = "register" /\ life.verdict = "pass" => Judged(BatchText(life.item))
        /\ life.at \in {"judge_again", "register_again"} => batch.rewrites[life.item] = life.rewrite
        /\ life.at = "register_again" /\ life.verdict = "pass" =>
             Judged(Rewritten(life.item, life.rewrite))

AdviceInv == AdviceWasJudged /\ AdviceIsKnowable /\ AllAccountedFor

ProjectionInv == ShapeInv /\ CacheInv /\ BatchInv /\ AdviceInv

\* What the Host makes of the verdicts on an item, told by what they are.
LEMMA Outcomes ==
    ASSUME NEW c
    PROVE  /\ Outcome(c) = "passed" => batch.first[c] = "pass"
           /\ Outcome(c) = "regenerated_passed" => batch.rewrites[c] # 0 /\ batch.second[c] = "pass"
           /\ Outcome(c) \in {"unavailable", "withheld", "passed", "regenerated_passed",
                              "regeneration_failed"}
BY DEF Outcome

\* What is finalized was judged word for word, and hides nothing.
LEMMA FinalizedIsJudged ==
    ASSUME ShapeInv, BatchInv, Bound
    PROVE  \A line \in Finalized.lines :
              /\ [who |-> Finalized.who, text |-> line.text, known |-> Finalized.known] \in passed
              /\ IF line.mode = "full" THEN Basis[line.text.of] \subseteq Finalized.known
                 ELSE Basis[line.text.of] \cap Finalized.known # {}
<1>1. /\ Finalized.who = batch.who /\ Finalized.known = batch.known
      /\ Finalized.lines = {[text |-> FinalText(c), mode |-> FinalMode(c)] : c \in Included}
  BY DEF Finalized, Bound
<1>2. batch # NoBatch /\ BatchShape(batch)
  BY DEF Bound, ShapeInv
<1>3. SUFFICES ASSUME NEW c \in Included
               PROVE  /\ Judged(FinalText(c))
                      /\ FinalText(c).of = c
                      /\ IF FinalMode(c) = "full" THEN Basis[c] \subseteq batch.known
                         ELSE Basis[c] \cap batch.known # {}
  BY <1>1 DEF Judged, Passed
<1>4. c \in batch.items /\ Outcome(c) \in {"passed", "regenerated_passed"}
  BY DEF Included, Approved, FirstOf
<1>5. Judged(FinalText(c))
  <2>1. CASE Outcome(c) = "passed"
    <3>1. FinalText(c) = BatchText(c) /\ batch.first[c] = "pass"
      BY <2>1, Outcomes DEF FinalText
    <3>2. QED
      BY <1>2, <1>4, <3>1 DEF BatchInv
  <2>2. CASE Outcome(c) = "regenerated_passed"
    <3>1. FinalText(c) = Rewritten(c, batch.rewrites[c])
      BY <2>2 DEF FinalText
    <3>2. batch.rewrites[c] # 0 /\ batch.second[c] = "pass"
      BY <2>2, Outcomes
    <3>3. QED
      BY <1>2, <1>4, <3>1, <3>2 DEF BatchInv
  <2>3. QED
    BY <1>4, <2>1, <2>2
<1>6. FinalText(c).of = c
  BY DEF FinalText, Rewritten, BatchText
<1>7. Knowable(c, batch.known)
  BY <1>2, <1>4 DEF BatchShape
<1>8. IF FinalMode(c) = "full" THEN Basis[c] \subseteq batch.known
      ELSE Basis[c] \cap batch.known # {}
  BY <1>7 DEF FinalMode, Knowable
<1>9. QED
  BY <1>5, <1>6, <1>8

\* The records of a finalized batch account for it.
LEMMA FinalizedIsAccountedFor ==
    ASSUME ShapeInv, Bound
    PROVE  LET said == {r[1] : r \in {q \in Finalized.records : q[2] \in {"passed", "regenerated_passed"}}}
               shown == {line.text.of : line \in Finalized.lines}
               excluded == {r[1] : r \in {q \in Finalized.records : q[2] = "projection_excluded"}}
           IN  /\ {r[1] : r \in Finalized.records} = Finalized.offered
               /\ said = shown \cup excluded /\ shown \cap excluded = {}
<1> DEFINE A == {<<c, "structurally_ineligible">> : c \in batch.offered \ batch.admissible}
           B == {<<c, "evaluation_excluded">> : c \in batch.admissible \ batch.items}
           C == {<<c, Outcome(c)>> : c \in batch.items}
           D == {<<c, "projection_excluded">> : c \in Approved \ Included}
           records == A \cup B \cup C \cup D
<1>1. Finalized.records = records /\ Finalized.offered = batch.offered
  BY DEF Finalized, Account
<1>2. /\ batch.items \subseteq batch.admissible /\ batch.admissible \subseteq batch.offered
      /\ Approved \subseteq batch.items /\ Included \subseteq Approved
  BY DEF Bound, ShapeInv, BatchShape, Approved, Included, FirstOf
<1>3. {line.text.of : line \in Finalized.lines} = Included
  <2>1. Finalized.lines = {[text |-> FinalText(c), mode |-> FinalMode(c)] : c \in Included}
    BY DEF Finalized
  <2>2. \A c : FinalText(c).of = c
    BY DEF FinalText, Rewritten, BatchText
  <2>3. \A line \in Finalized.lines : line.text.of \in Included
    BY <2>1, <2>2
  <2>4. ASSUME NEW c \in Included PROVE \E line \in Finalized.lines : line.text.of = c
    <3>1. [text |-> FinalText(c), mode |-> FinalMode(c)] \in Finalized.lines
      BY <2>1
    <3>2. [text |-> FinalText(c), mode |-> FinalMode(c)].text.of = c
      BY <2>2
    <3>3. QED
      BY <3>1, <3>2
  <2>5. QED
    BY <2>3, <2>4
<1>4. \A c \in batch.items : c \in Approved <=> Outcome(c) \in {"passed", "regenerated_passed"}
  BY DEF Approved
<1>5. \A c \in batch.items : Outcome(c) \in
          {"unavailable", "withheld", "passed", "regenerated_passed", "regeneration_failed"}
  BY Outcomes
<1>6. {r[1] : r \in records} = batch.offered
  <2>1. \A r \in records : r[1] \in batch.offered
    BY <1>2
  <2>2. ASSUME NEW c \in batch.offered PROVE \E r \in records : r[1] = c
    <3>1. CASE c \notin batch.admissible
      <4>1. <<c, "structurally_ineligible">> \in records
        BY <3>1
      <4>2. QED
        BY <4>1
    <3>2. CASE c \in batch.admissible \ batch.items
      <4>1. <<c, "evaluation_excluded">> \in records
        BY <3>2
      <4>2. QED
        BY <4>1
    <3>3. CASE c \in batch.items
      <4>1. <<c, Outcome(c)>> \in records
        BY <3>3
      <4>2. QED
        BY <4>1
    <3>4. QED
      BY <3>1, <3>2, <3>3
  <2> HIDE DEF records
  <2>3. QED
    BY <2>1, <2>2
<1>7. {q \in records : q[2] \in {"passed", "regenerated_passed"}} = {<<c, Outcome(c)>> : c \in Approved}
  BY <1>2, <1>4
<1>8. {q \in records : q[2] = "projection_excluded"} = {<<c, "projection_excluded">> : c \in Approved \ Included}
  BY <1>5
<1>9. {r[1] : r \in {<<c, Outcome(c)>> : c \in Approved}} = Approved
  <2> DEFINE P == {<<c, Outcome(c)>> : c \in Approved}
  <2>1. \A r \in P : r[1] \in Approved
    OBVIOUS
  <2>2. ASSUME NEW c \in Approved PROVE \E r \in P : r[1] = c
    <3>1. <<c, Outcome(c)>> \in P
      OBVIOUS
    <3>2. QED
      BY <3>1
  <2> HIDE DEF P
  <2>3. {r[1] : r \in P} = Approved
    BY <2>1, <2>2
  <2>4. QED
    BY <2>3 DEF P
<1>10. {r[1] : r \in {<<c, "projection_excluded">> : c \in Approved \ Included}} = Approved \ Included
  <2> DEFINE P == {<<c, "projection_excluded">> : c \in Approved \ Included}
  <2>1. \A r \in P : r[1] \in Approved \ Included
    OBVIOUS
  <2>2. ASSUME NEW c \in Approved \ Included PROVE \E r \in P : r[1] = c
    <3>1. <<c, "projection_excluded">> \in P
      OBVIOUS
    <3>2. QED
      BY <3>1
  <2> HIDE DEF P
  <2>3. {r[1] : r \in P} = Approved \ Included
    BY <2>1, <2>2
  <2>4. QED
    BY <2>3 DEF P
<1> HIDE DEF records
<1>11. QED
  BY <1>1, <1>2, <1>3, <1>6, <1>7, <1>8, <1>9, <1>10

-----------------------------------------------------------------------------
(* The invariant is kept *)

\* What the phase is about to register is what was judged.
Pending ==
    batch # NoBatch =>
        /\ life.at = "register" /\ life.verdict = "pass" => Judged(BatchText(life.item))
        /\ life.at \in {"judge_again", "register_again"} => batch.rewrites[life.item] = life.rewrite
        /\ life.at = "register_again" /\ life.verdict = "pass" =>
             Judged(Rewritten(life.item, life.rewrite))

\* A batch nobody touches keeps its verdicts, while the phase stays on its item
\* or ends its walk.
LEMMA VerdictsKept ==
    ASSUME BatchInv, batch' = batch, passed \subseteq passed',
           life'.at \in Walking => life.at \in Walking /\ life'.item = life.item,
           Pending'
    PROVE  BatchInv'
BY DEF BatchInv, Pending, Judged, Passed, BatchText, Rewritten

\* A batch with a verdict or a rewriting more says the same of the same texts.
LEMMA VerdictsChanged ==
    ASSUME batch # NoBatch,
           /\ batch'.items = batch.items /\ batch'.who = batch.who /\ batch'.known = batch.known
           /\ batch'.round = batch.round /\ batch'.goals = batch.goals,
           passed' = passed,
           \A c \in batch.items : batch'.first[c] = "pass" => Judged(BatchText(c)),
           \A c \in batch.items : batch'.second[c] = "pass" /\ batch'.rewrites[c] # 0 =>
                                     Judged(Rewritten(c, batch'.rewrites[c])),
           \A c \in batch.items : life'.at \in Walking /\ c >= life'.item => batch'.second[c] = "none",
           life'.at \notin {"register", "judge_again", "register_again"}
               \/ (life'.at = "judge_again" /\ batch'.rewrites[life'.item] = life'.rewrite)
    PROVE  BatchInv'
<1>1. \A c : BatchText(c)' = BatchText(c)
  BY DEF BatchText
<1>2. \A c, n : Rewritten(c, n)' = Rewritten(c, n)
  BY <1>1 DEF Rewritten
<1>3. \A text : Judged(text)' = Judged(text)
  BY DEF Judged, Passed
<1>4. QED
  BY <1>1, <1>2, <1>3 DEF BatchInv

\* Away from the steps that register, nothing is pending.
LEMMA NothingPending ==
    ASSUME life'.at \notin {"register", "judge_again", "register_again"}
    PROVE  Pending'
BY DEF Pending

\* More passed, the same remembered.
LEMMA CacheKept ==
    ASSUME CacheInv, cache' = cache, passed \subseteq passed'
    PROVE  CacheInv'
BY DEF CacheInv

\* More passed, the same advised.
LEMMA AdviceKept ==
    ASSUME AdviceInv, advice' = advice, passed \subseteq passed'
    PROVE  AdviceInv'
BY DEF AdviceInv, AdviceWasJudged, AdviceIsKnowable, AllAccountedFor

\* At the end of a phase only what the cache rests on is still needed.
LEMMA PhaseOver ==
    ASSUME CacheInv, cache' = cache, passed' = RememberedPasses, batch' = NoBatch, advice' = NoAdvice
    PROVE  CacheInv' /\ BatchInv' /\ AdviceInv'
<1>1. CacheInv'
  <2>1. SUFFICES ASSUME NEW entry \in cache, entry.verdict = "pass"
                 PROVE  [who |-> entry.key.who, text |-> entry.key.text, known |-> entry.key.known] \in passed'
    BY DEF CacheInv
  <2> DEFINE p == [who |-> entry.key.who, text |-> entry.key.text, known |-> entry.key.known]
  <2>2. p \in passed /\ p.who = entry.key.who /\ p.text = entry.key.text
    BY <2>1 DEF CacheInv
  <2>3. QED
    BY <2>1, <2>2 DEF RememberedPasses
<1>2. QED
  BY <1>1 DEF BatchInv, AdviceInv, AdviceWasJudged, AdviceIsKnowable, AllAccountedFor

\* After an item the walk is past every verdict registered.
LEMMA Walked ==
    ASSUME ShapeInv, batch # NoBatch, Proceeds
    PROVE  /\ life'.at \in {"resolve", "finalize"}
           /\ \A c \in batch.items : life'.at \in Walking /\ c >= life'.item => c > life.item
<1>1. /\ life' \in Lives /\ life'.at \in {"resolve", "finalize"}
      /\ life'.at = "resolve" => life'.item \in batch.items /\ life'.item > life.item
  BY ProceedsTo
<1>2. \A c \in batch.items : c \in Nat
  BY CandidatesAssumption DEF ShapeInv, BatchShape, Batches
<1>3. life.item \in Nat /\ life'.item \in Nat
  BY <1>1 DEF ShapeInv, Lives
<1>4. QED
  BY <1>1, <1>2, <1>3 DEF Walking

\* Every step of the Host, the runtime and the others keeps the invariant.
LEMMA ProjectionStep == ASSUME ProjectionInv, Next PROVE ProjectionInv'
<1> USE DEF ProjectionInv
<1>1. ShapeInv'
  BY ShapeStep DEF CacheInv
<1>2. life \in Lives /\ Places = {"idle", "resolve", "judge", "register", "regenerate", "rewrite",
          "rewritten", "judge_again", "register_again", "finalize", "move"}
  BY DEF Places, ShapeInv
<1>3. CASE \E who \in Characters : Prepare(who)
  <2>1. PICK who \in Characters : Prepare(who)
    BY <1>3
  <2>2. UNCHANGED <<cache, advice, passed>> /\ batch' = Prepared(who)
    BY <2>1 DEF Prepare
  <2>3. life'.at \in {"resolve", "finalize"}
    BY <2>1 DEF Prepare, Idle
  <2>4. /\ Prepared(who).items = Evaluated(who)
        /\ \A c \in Evaluated(who) : Prepared(who).first[c] = "none" /\ Prepared(who).second[c] = "none"
    BY PreparedShape
  <2>5. BatchInv'
    BY <2>2, <2>3, <2>4 DEF BatchInv
  <2>6. QED
    BY <1>1, <2>2, <2>5, CacheKept, AdviceKept
<1>4. CASE Resolve
  <2>1. UNCHANGED <<batch, cache, advice, passed>> /\ life.at = "resolve"
    BY <1>4 DEF Resolve, Session
  <2>2. CASE life' = [life EXCEPT !.at = "judge"]
    <3>1. life'.at = "judge" /\ life'.item = life.item
      BY <1>2, <2>2 DEF Lives
    <3>2. QED
      BY <1>1, <1>2, <2>1, <3>1, NothingPending, VerdictsKept, CacheKept, AdviceKept DEF Walking
  <2>3. CASE \E entry \in Remembered(ReuseKey(life.item, overlay.authority)) :
                 life' = [life EXCEPT !.at = "register", !.verdict = entry.verdict]
    <3>1. PICK entry \in Remembered(ReuseKey(life.item, overlay.authority)) :
                 life' = [life EXCEPT !.at = "register", !.verdict = entry.verdict]
      BY <2>3
    <3> DEFINE key == ReuseKey(life.item, overlay.authority)
    <3>8. key.who = batch.who /\ key.text = BatchText(life.item) /\ key.known = batch.known
      BY DEF ReuseKey
    <3>9. entry \in cache /\ entry.key = key
      BY <3>1 DEF Remembered
    <3> HIDE DEF key
    <3>2. /\ entry \in cache /\ entry.verdict \in Verdicts
          /\ entry.key.who = batch.who /\ entry.key.text = BatchText(life.item)
          /\ entry.key.known = batch.known
      BY <3>8, <3>9 DEF CacheInv
    <3>3. life'.at = "register" /\ life'.item = life.item /\ life'.verdict = entry.verdict
      BY <1>2, <3>1, <3>2 DEF Lives
    <3>4. entry.verdict = "pass" => Judged(BatchText(life.item))
      BY <3>2 DEF CacheInv, Judged, Passed
    <3>5. Pending'
      BY <2>1, <3>3, <3>4 DEF Pending, Judged, Passed, BatchText
    <3>6. QED
      BY <1>1, <1>2, <2>1, <3>3, <3>5, VerdictsKept, CacheKept, AdviceKept DEF Walking
  <2>4. QED
    BY <1>4, <2>2, <2>3 DEF Resolve, GoesTo
<1>5. CASE Judge
  <2>1. PICK v \in Verdicts :
           /\ life' = [life EXCEPT !.at = "register", !.verdict = v]
           /\ passed' = IF v = "pass"
                        THEN passed \cup {[who |-> life.who, text |-> BatchText(life.item), known |-> batch.known]}
                        ELSE passed
    BY <1>5 DEF Judge, Judges
  <2>2. UNCHANGED <<batch, cache, advice>> /\ life.at = "judge" /\ passed \subseteq passed'
    BY <1>5 DEF Judge, Judges, Session
  <2>3. life'.at = "register" /\ life'.item = life.item /\ life'.verdict = v
    BY <1>2, <2>1 DEF Lives
  <2>4. batch # NoBatch => life.who = batch.who
    BY DEF ShapeInv
  <2>5. Pending'
    BY <2>1, <2>2, <2>3, <2>4 DEF Pending, Judged, Passed, BatchText
  <2>6. QED
    BY <1>1, <1>2, <2>2, <2>3, <2>5, VerdictsKept, CacheKept, AdviceKept DEF Walking
<1>6. CASE JudgeAgain
  <2>1. PICK v \in Verdicts :
           /\ life' = [life EXCEPT !.at = "register_again", !.verdict = v]
           /\ passed' = IF v = "pass"
                        THEN passed \cup {[who |-> life.who, text |-> Rewritten(life.item, life.rewrite),
                                           known |-> batch.known]}
                        ELSE passed
    BY <1>6 DEF JudgeAgain, Judges
  <2>2. UNCHANGED <<batch, cache, advice>> /\ life.at = "judge_again" /\ passed \subseteq passed'
    BY <1>6 DEF JudgeAgain, Judges, Session
  <2>3. /\ life'.at = "register_again" /\ life'.item = life.item /\ life'.verdict = v
        /\ life'.rewrite = life.rewrite
    BY <1>2, <2>1 DEF Lives
  <2>4. batch # NoBatch => life.who = batch.who /\ batch.rewrites[life.item] = life.rewrite
    BY <2>2 DEF ShapeInv, BatchInv
  <2>5. Pending'
    BY <2>1, <2>2, <2>3, <2>4 DEF Pending, Judged, Passed, BatchText, Rewritten
  <2>6. QED
    BY <1>1, <1>2, <2>2, <2>3, <2>5, VerdictsKept, CacheKept, AdviceKept DEF Walking
<1>7. CASE Register
  <2>1. UNCHANGED <<advice, passed>> /\ life.at = "register" /\ life.verdict \in Verdicts
    BY <1>2, <1>7 DEF Register, Session, Lives
  <2>2. AdviceInv'
    BY <2>1, AdviceKept
  <2>3. CASE Bound /\ life.verdict # "vague"
    <3> DEFINE key == ReuseKey(life.item, batch.authority)
    <3>1. /\ batch # NoBatch /\ BatchShape(batch) /\ life.item \in batch.items
          /\ batch' = [batch EXCEPT !.first[life.item] = life.verdict]
          /\ cache' = (cache \ Remembered(key)) \cup {[key |-> key, verdict |-> life.verdict]}
      BY <1>2, <1>7, <2>1, <2>3 DEF Register, Bound, ShapeInv, Walking
    <3>2. life.verdict = "pass" => Judged(BatchText(life.item))
      BY <2>1, <3>1 DEF BatchInv
    <3>3. key.who = batch.who /\ key.text = BatchText(life.item) /\ key.known = batch.known
      BY DEF ReuseKey
    <3> HIDE DEF key
    <3>4. CacheInv'
      <4>1. SUFFICES ASSUME NEW entry \in cache', entry \notin cache
                     PROVE  /\ entry.verdict \in Verdicts
                            /\ entry.verdict = "pass" =>
                                 [who |-> entry.key.who, text |-> entry.key.text,
                                  known |-> entry.key.known] \in passed
        BY <2>1 DEF CacheInv
      <4>2. entry = [key |-> key, verdict |-> life.verdict]
        BY <3>1, <4>1
      <4>3. entry.key = key /\ entry.verdict = life.verdict
        BY <4>2
      <4>4. QED
        BY <2>1, <3>2, <3>3, <4>3 DEF Judged, Passed
    <3>5. /\ batch'.items = batch.items /\ batch'.second = batch.second /\ batch'.rewrites = batch.rewrites
          /\ batch'.who = batch.who /\ batch'.known = batch.known
          /\ batch'.round = batch.round /\ batch'.goals = batch.goals
          /\ batch'.first = [batch.first EXCEPT ![life.item] = life.verdict]
          /\ batch.first \in [batch.items -> Verdicts \cup {"none"}]
      BY <3>1 DEF BatchShape, Batches
    <3>6. \A c \in batch.items : life'.at \in Walking /\ c >= life'.item => batch.second[c] = "none"
      <4>1. CASE life.verdict = "rewrite"
        <5>1. life' = [life EXCEPT !.at = "regenerate"]
          BY <1>7, <2>3, <4>1 DEF Register, GoesTo
        <5>2. life'.item = life.item /\ life.at \in Walking
          BY <1>2, <2>1, <5>1 DEF Lives, Walking
        <5>3. QED
          BY <3>1, <5>2 DEF BatchInv
      <4>2. CASE life.verdict # "rewrite"
        <5>1. Proceeds
          BY <1>7, <2>3, <4>2 DEF Register
        <5>2. \A c \in batch.items : life'.at \in Walking /\ c >= life'.item => c > life.item
          BY <3>1, <5>1, Walked
        <5>3. \A c \in batch.items : c > life.item => c >= life.item
          BY <1>2, <3>1, CandidatesAssumption DEF BatchShape, Batches, Lives
        <5>4. life.at \in Walking
          BY <1>2, <2>1 DEF Walking
        <5>5. QED
          BY <3>1, <5>2, <5>3, <5>4 DEF BatchInv
      <4>3. QED
        BY <4>1, <4>2
    <3>7. life'.at \in {"regenerate", "resolve", "finalize"}
      <4>1. life.verdict = "rewrite" => life' = [life EXCEPT !.at = "regenerate"]
        BY <1>7, <2>3 DEF Register, GoesTo
      <4>2. life.verdict # "rewrite" => Proceeds
        BY <1>7, <2>3 DEF Register
      <4>3. QED
        BY <1>2, <3>1, <4>1, <4>2, Walked DEF Lives
    <3>8. \A c \in batch.items : batch'.first[c] = "pass" => Judged(BatchText(c))
      BY <3>1, <3>2, <3>5 DEF BatchInv
    <3>11. \A c \in batch.items : batch'.second[c] = "pass" /\ batch'.rewrites[c] # 0 =>
                                     Judged(Rewritten(c, batch'.rewrites[c]))
      BY <3>1, <3>5 DEF BatchInv
    <3>12. /\ passed' = passed
           /\ \A c \in batch.items : life'.at \in Walking /\ c >= life'.item => batch'.second[c] = "none"
           /\ life'.at \notin {"register", "judge_again", "register_again"}
      BY <2>1, <3>5, <3>6, <3>7
    <3>14. life'.at \notin {"register", "judge_again", "register_again"}
              \/ (life'.at = "judge_again" /\ batch'.rewrites[life'.item] = life'.rewrite)
      BY <3>12
    <3>13. BatchInv'
      BY <3>1, <3>5, <3>8, <3>11, <3>12, <3>14, VerdictsChanged
    <3>10. QED
      BY <1>1, <2>2, <3>4, <3>13
  <2>4. CASE ~(Bound /\ life.verdict # "vague")
    <3>1. life' = [life EXCEPT !.at = "move"] /\ UNCHANGED <<batch, cache>>
      BY <1>7, <2>4 DEF Register, GivesUp, GoesTo
    <3>2. life'.at = "move"
      BY <1>2, <3>1 DEF Lives
    <3>3. QED
      BY <1>1, <2>1, <2>2, <3>1, <3>2, NothingPending, VerdictsKept, CacheKept DEF Walking
  <2>5. QED
    BY <2>3, <2>4
<1>8. CASE PrepareRegeneration
  <2>1. UNCHANGED <<cache, advice, passed>> /\ life.at = "regenerate"
    BY <1>8 DEF PrepareRegeneration, Session
  <2>2. CASE GivesUp /\ UNCHANGED batch
    <3>1. life'.at = "move"
      BY <1>2, <2>2 DEF Lives, GivesUp, GoesTo
    <3>2. QED
      BY <1>1, <2>1, <2>2, <3>1, NothingPending, VerdictsKept, CacheKept, AdviceKept DEF Walking
  <2>3. CASE Bound /\ batch' = [batch EXCEPT !.asked = @ \cup {life.item}] /\ GoesTo("rewrite")
    <3>1. batch # NoBatch /\ life' = [life EXCEPT !.at = "rewrite"] /\ BatchShape(batch)
      BY <2>3 DEF Bound, GoesTo, ShapeInv
    <3>2. life'.at = "rewrite" /\ life'.item = life.item /\ life.at \in Walking
      BY <1>2, <2>1, <3>1 DEF Lives, Walking
    <3>3. /\ batch'.items = batch.items /\ batch'.first = batch.first
          /\ batch'.second = batch.second /\ batch'.rewrites = batch.rewrites
          /\ batch'.who = batch.who /\ batch'.known = batch.known
          /\ batch'.round = batch.round /\ batch'.goals = batch.goals
      BY <2>3, <3>1 DEF BatchShape, Batches
    <3>4. /\ passed' = passed
          /\ \A c \in batch.items : batch'.first[c] = "pass" => Judged(BatchText(c))
          /\ \A c \in batch.items : batch'.second[c] = "pass" /\ batch'.rewrites[c] # 0 =>
                                     Judged(Rewritten(c, batch'.rewrites[c]))
          /\ \A c \in batch.items : life'.at \in Walking /\ c >= life'.item => batch'.second[c] = "none"
      BY <2>1, <3>1, <3>2, <3>3 DEF BatchInv
    <3>5. life'.at \notin {"register", "judge_again", "register_again"}
              \/ (life'.at = "judge_again" /\ batch'.rewrites[life'.item] = life'.rewrite)
      BY <3>2
    <3>6. BatchInv'
      BY <3>1, <3>3, <3>4, <3>5, VerdictsChanged
    <3>7. QED
      BY <1>1, <2>1, <3>6, CacheKept, AdviceKept
  <2>4. QED
    BY <1>8, <2>2, <2>3 DEF PrepareRegeneration
<1>9. CASE Rewrite
  <2>1. UNCHANGED <<batch, cache, advice, passed>> /\ life.at = "rewrite"
    BY <1>9 DEF Rewrite, Session
  <2>2. CASE GivesUp
    <3>1. life'.at = "move"
      BY <1>2, <2>2 DEF Lives, GivesUp, GoesTo
    <3>2. QED
      BY <1>1, <2>1, <3>1, NothingPending, VerdictsKept, CacheKept, AdviceKept DEF Walking
  <2>3. CASE \E n \in Rewrites : life' = [life EXCEPT !.at = "rewritten", !.rewrite = n]
    <3>1. life'.at = "rewritten" /\ life'.item = life.item
      BY <1>2, <2>3 DEF Lives
    <3>2. QED
      BY <1>1, <1>2, <2>1, <3>1, NothingPending, VerdictsKept, CacheKept, AdviceKept DEF Walking
  <2>4. QED
    BY <1>9, <2>2, <2>3 DEF Rewrite
<1>10. CASE FinalizeRegeneration
  <2>1. UNCHANGED <<cache, advice, passed>> /\ life.at = "rewritten"
    BY <1>10 DEF FinalizeRegeneration, Session
  <2>2. CASE GivesUp /\ UNCHANGED batch
    <3>1. life'.at = "move"
      BY <1>2, <2>2 DEF Lives, GivesUp, GoesTo
    <3>2. QED
      BY <1>1, <2>1, <2>2, <3>1, NothingPending, VerdictsKept, CacheKept, AdviceKept DEF Walking
  <2>3. CASE Bound /\ batch' = [batch EXCEPT !.rewrites[life.item] = life.rewrite] /\ GoesTo("judge_again")
    <3>1. /\ batch # NoBatch /\ life' = [life EXCEPT !.at = "judge_again"] /\ BatchShape(batch)
          /\ life.at \in Walking /\ life.item \in batch.items
      BY <1>2, <2>1, <2>3 DEF Bound, GoesTo, ShapeInv, Walking
    <3>2. life'.at = "judge_again" /\ life'.item = life.item /\ life'.rewrite = life.rewrite
      BY <1>2, <2>1, <3>1 DEF Lives
    <3>3. /\ batch'.items = batch.items /\ batch'.first = batch.first
          /\ batch'.second = batch.second
          /\ batch'.who = batch.who /\ batch'.known = batch.known
          /\ batch'.round = batch.round /\ batch'.goals = batch.goals
          /\ batch'.rewrites = [batch.rewrites EXCEPT ![life.item] = life.rewrite]
          /\ batch.rewrites \in [batch.items -> {0} \cup Rewrites]
      BY <2>3, <3>1 DEF BatchShape, Batches
    <3>4. batch.second[life.item] = "none"
      BY <1>2, <3>1 DEF BatchInv, Lives
    <3>5. /\ passed' = passed
          /\ \A c \in batch.items : batch'.first[c] = "pass" => Judged(BatchText(c))
          /\ \A c \in batch.items : batch'.second[c] = "pass" /\ batch'.rewrites[c] # 0 =>
                                     Judged(Rewritten(c, batch'.rewrites[c]))
          /\ \A c \in batch.items : life'.at \in Walking /\ c >= life'.item => batch'.second[c] = "none"
      BY <2>1, <3>1, <3>2, <3>3, <3>4 DEF BatchInv
    <3>6. life'.at = "judge_again" /\ batch'.rewrites[life'.item] = life'.rewrite
      BY <3>1, <3>2, <3>3
    <3>7. BatchInv'
      BY <3>1, <3>3, <3>5, <3>6, VerdictsChanged
    <3>8. QED
      BY <1>1, <2>1, <3>7, CacheKept, AdviceKept
  <2>4. QED
    BY <1>10, <2>2, <2>3 DEF FinalizeRegeneration
<1>11. CASE RegisterAgain
  <2>1. /\ UNCHANGED <<cache, advice, passed>> /\ life.at = "register_again"
        /\ life.verdict \in Verdicts
    BY <1>2, <1>11 DEF RegisterAgain, Session, Lives
  <2>2. CASE GivesUp /\ UNCHANGED batch
    <3>1. life'.at = "move"
      BY <1>2, <2>2 DEF Lives, GivesUp, GoesTo
    <3>2. QED
      BY <1>1, <2>1, <2>2, <3>1, NothingPending, VerdictsKept, CacheKept, AdviceKept DEF Walking
  <2>3. CASE Bound /\ batch' = [batch EXCEPT !.second[life.item] = life.verdict] /\ Proceeds
    <3>1. batch # NoBatch /\ BatchShape(batch) /\ life.at \in Walking /\ life.item \in batch.items
      BY <1>2, <2>1, <2>3 DEF Bound, ShapeInv, Walking
    <3>2. /\ batch'.items = batch.items /\ batch'.first = batch.first
          /\ batch'.rewrites = batch.rewrites
          /\ batch'.who = batch.who /\ batch'.known = batch.known
          /\ batch'.round = batch.round /\ batch'.goals = batch.goals
          /\ batch'.second = [batch.second EXCEPT ![life.item] = life.verdict]
          /\ batch.second \in [batch.items -> Verdicts \cup {"none"}]
      BY <2>3, <3>1 DEF BatchShape, Batches
    <3>3. /\ life'.at \in {"resolve", "finalize"}
          /\ \A c \in batch.items : life'.at \in Walking /\ c >= life'.item => c > life.item
      BY <2>3, <3>1, Walked
    <3>4. \A c \in batch.items : c \in Nat
      BY <3>1, CandidatesAssumption DEF BatchShape, Batches
    <3>5. \A c \in batch.items : life'.at \in Walking /\ c >= life'.item =>
              c # life.item /\ c >= life.item
      BY <1>2, <3>3, <3>4 DEF Lives
    <3>6. \A c \in batch.items : life'.at \in Walking /\ c >= life'.item => batch'.second[c] = "none"
      BY <3>1, <3>2, <3>5 DEF BatchInv
    <3>7. \A c \in batch.items : batch'.second[c] = "pass" /\ batch'.rewrites[c] # 0 =>
                                     Judged(Rewritten(c, batch'.rewrites[c]))
      <4>1. batch.rewrites[life.item] = life.rewrite
        BY <2>1, <3>1 DEF BatchInv
      <4>2. life.verdict = "pass" => Judged(Rewritten(life.item, life.rewrite))
        BY <2>1, <3>1 DEF BatchInv
      <4>3. QED
        BY <3>1, <3>2, <4>1, <4>2 DEF BatchInv
    <3>8. /\ passed' = passed
          /\ \A c \in batch.items : batch'.first[c] = "pass" => Judged(BatchText(c))
          /\ life'.at \notin {"register", "judge_again", "register_again"}
      BY <2>1, <3>1, <3>2, <3>3 DEF BatchInv
    <3>11. life'.at \notin {"register", "judge_again", "register_again"}
              \/ (life'.at = "judge_again" /\ batch'.rewrites[life'.item] = life'.rewrite)
      BY <3>8
    <3>9. BatchInv'
      BY <3>1, <3>2, <3>6, <3>7, <3>8, <3>11, VerdictsChanged
    <3>10. QED
      BY <1>1, <2>1, <3>9, CacheKept, AdviceKept
  <2>4. QED
    BY <1>11, <2>2, <2>3 DEF RegisterAgain
<1>12. CASE Finalize
  <2>1. UNCHANGED <<cache, passed>> /\ batch' = NoBatch
    BY <1>12 DEF Finalize, Session
  <2>2. BatchInv'
    BY <2>1 DEF BatchInv
  <2>3. AdviceInv'
    <3>1. CASE UNCHANGED advice
      BY <2>1, <3>1, AdviceKept
    <3>2. CASE Bound /\ advice' = Finalized
      <4>1. AdviceWasJudged' /\ AdviceIsKnowable'
        BY <2>1, <3>2, FinalizedIsJudged DEF AdviceWasJudged, AdviceIsKnowable
      <4>2. AllAccountedFor'
        BY <3>2, FinalizedIsAccountedFor DEF AllAccountedFor
      <4>3. QED
        BY <4>1, <4>2 DEF AdviceInv
    <3>3. QED
      BY <1>12, <3>1, <3>2 DEF Finalize
  <2>4. QED
    BY <1>1, <2>1, <2>2, <2>3, CacheKept
<1>13. CASE EndPhase \/ PhaseFails
  <2>1. cache' = cache /\ passed' = RememberedPasses /\ batch' = NoBatch /\ advice' = NoAdvice
    BY <1>13 DEF EndPhase, PhaseFails, Session, ShapeInv
  <2>2. QED
    BY <1>1, <2>1, PhaseOver
<1>14. CASE JudgesForNobody
  <2>1. UNCHANGED <<batch, cache, advice, passed>> /\ batch = NoBatch
    BY <1>14 DEF JudgesForNobody, Session, ShapeInv
  <2>2. BatchInv'
    BY <2>1 DEF BatchInv
  <2>3. QED
    BY <1>1, <2>1, <2>2, CacheKept, AdviceKept
<1>15. CASE (\E who \in Characters, e \in Events : Learn(who, e) \/ Unlearn(who, e))
                \/ FallBehind \/ CatchUp \/ NextRound
  <2>1. UNCHANGED <<batch, cache, life, advice, passed>>
    BY <1>15 DEF Learn, Unlearn, FallBehind, CatchUp, NextRound, Undisturbed
  <2>2. Pending'
    BY <2>1 DEF Pending, BatchInv, Judged, Passed, BatchText, Rewritten
  <2>3. QED
    BY <1>1, <2>1, <2>2, VerdictsKept, CacheKept, AdviceKept
<1>16. CASE Crash
  <2>1. batch' = NoBatch /\ cache' = {} /\ UNCHANGED <<advice, passed>>
    BY <1>16 DEF Crash
  <2>2. BatchInv' /\ CacheInv'
    BY <2>1 DEF BatchInv, CacheInv
  <2>3. QED
    BY <1>1, <2>1, <2>2, AdviceKept
<1>17. QED
  BY <1>3, <1>4, <1>5, <1>6, <1>7, <1>8, <1>9, <1>10, <1>11, <1>12, <1>13, <1>14, <1>15, <1>16
    DEF Next, Walk

-----------------------------------------------------------------------------
(* The theorems *)

LEMMA ProjectionInit == ASSUME Init PROVE ProjectionInv
<1>1. Idle \in Lives /\ Idle.at = "idle" /\ Idle.lost = FALSE
  BY DEF Idle, Lives, Places, Verdicts
<1>2. ShapeInv
  BY <1>1 DEF Init, ShapeInv
<1>3. CacheInv /\ BatchInv /\ AdviceInv
  BY DEF Init, CacheInv, BatchInv, AdviceInv, AdviceWasJudged, AdviceIsKnowable, AllAccountedFor
<1>4. QED
  BY <1>2, <1>3 DEF ProjectionInv

\* The inductive invariant of the character phase, whatever the interleaving.
THEOREM ProjectionInvariant == Spec => []ProjectionInv
<1>1. ASSUME ProjectionInv, [Next]_vars PROVE ProjectionInv'
  <2>1. CASE Next
    BY <1>1, <2>1, ProjectionStep
  <2>2. CASE UNCHANGED vars
    BY <1>1, <2>2 DEF vars, ProjectionInv, ShapeInv, BatchShape, CacheInv, BatchInv, AdviceInv, Judged, Passed,
      BatchText, Rewritten, AdviceWasJudged, AdviceIsKnowable, AllAccountedFor
  <2>3. QED
    BY <1>1, <2>1, <2>2
<1>2. QED
  BY <1>1, ProjectionInit, PTL DEF Spec

\* Nothing becomes advice but a text an evaluator passed for what the character
\* knows (finalize_character_projection_batch): AdviceWasJudged, for all values.
THEOREM AdviceJudged == Spec => []AdviceWasJudged
BY ProjectionInvariant, PTL DEF ProjectionInv, AdviceInv

\* Advice hides nothing the character must not know (_projection_mode_for).
THEOREM AdviceKnowable == Spec => []AdviceIsKnowable
BY ProjectionInvariant, PTL DEF ProjectionInv, AdviceInv

\* The forensic record accounts for every candidate (ProjectionForensicHandoff):
\* AllAccountedFor, for all values.
THEOREM CandidatesAccountedFor == Spec => []AllAccountedFor
BY ProjectionInvariant, PTL DEF ProjectionInv, AdviceInv

-----------------------------------------------------------------------------
(* Perception: who reads which line of speech, for any cast, setups, turns *)
(* of the player, moves and narrators.                                     *)

\* A character remembers of entries there are, and no line it could not hear.
MemoryInv ==
    \A m \in memory :
        /\ m.entry \in DOMAIN history
        /\ WithinEarshot(history, m.who, [entry |-> m.entry, unit |-> m.unit])

LanesInv ==
    /\ setup \in Setups
    /\ Recorded(history)
    /\ MemoryInv

\* The voice of a line said to some is heard by them and its speaker.
LEMMA NarrowVoice ==
    ASSUME NEW beat \in Deeds, NEW actor \in Cast, NEW v,
           beat.to.scope \in NarrowScopes, Audible(BeatVoice(beat, actor), v)
    PROVE  v \in beat.to.names \cup {actor}
<1>1. BeatVoice(beat, actor) = Voice(actor, beat.to.scope, beat.to.names)
  BY DEF BeatVoice, NarrowScopes, OpenScopes
<1>2. beat.to \in Reaches
  BY DEF Deeds
<1>3. beat.to.names \subseteq Cast
  BY <1>2 DEF Reaches
<1>4. Voice(actor, beat.to.scope, beat.to.names) \in Voices
  BY <1>3 DEF Voice, Voices
<1>5. Voice(actor, beat.to.scope, beat.to.names) # NoVoice
  BY <1>4, ProjectionAssumption
<1>6. beat.to.scope # "public"
  BY DEF NarrowScopes
<1>7. QED
  BY <1>1, <1>5, <1>6 DEF Audible, Voice

\* What the record of a move shows, whether derived with the commit or later.
LEMMA CommitSeen ==
    ASSUME NEW past, Recorded(past), NEW i \in DOMAIN past, past[i].kind = "commit",
           NEW v, NEW now, NEW context, NEW k \in SeenOf(past, i, v, now, context)
    PROVE  WithinEarshot(past, v, [entry |-> i, unit |-> k])
<1> DEFINE e == past[i]
           beat == e.beats[k]
           f == [entry |-> i, unit |-> k]
           units == IF e.status = "valid" THEN CharacterUnits(e.beats, e.by)
                    ELSE HistoricalUnits(e.beats, e.by)
<1>1. e.by \in Cast /\ e.beats \in Seq(Deeds)
  BY DEF Recorded
<1>2. k \in DOMAIN units /\ CharacterUnitSeen(units[k], e.by, v, now)
  BY DEF SeenOf
<1>3. LinesOf(past, f) = {<< i, k >>}
  BY DEF LinesOf
<1>4. SUFFICES ASSUME k \in DOMAIN e.beats, beat.type = "speech", beat.to.scope \in NarrowScopes
               PROVE  v \in beat.to.names \cup {e.by}
  BY <1>3 DEF WithinEarshot, MayHear
<1>5. beat \in Deeds
  BY <1>1, <1>4
<1>6. \E to : units[k] = SpeechUnit(to, beat, k, e.by)
  BY <1>4 DEF CharacterUnits, HistoricalUnits
<1>7. units[k].kind = "speech" /\ units[k].voice = BeatVoice(beat, e.by)
  BY <1>6 DEF SpeechUnit, Unit
<1>8. v = e.by \/ Audible(units[k].voice, v)
  BY <1>2, <1>7 DEF CharacterUnitSeen, NarratedUnitSeen
<1> HIDE DEF units, e, beat
<1>9. QED
  BY <1>1, <1>4, <1>5, <1>7, <1>8, NarrowVoice

\* What a narrator's units show of a line, unless nothing compared them with it.
LEMMA ToldUnitSeen ==
    ASSUME NEW unit, NEW beats \in Seq(Deeds), NEW actor \in Cast,
           OwnsItsLine(unit, beats, actor),
           NEW v, NEW now, NarratedUnitSeen(unit, v, now),
           NEW b \in DOMAIN beats, beats[b].type = "speech", beats[b].to.scope \in NarrowScopes
    PROVE  \/ unit.kind = "internal"
           \/ unit.kind = "speech" /\ unit.tells # b
           \/ unit.kind \in Observable /\ ~ Holds(unit, b, {"whole"})
           \/ v \in beats[b].to.names \cup {actor}
<1>1. b \in SpokenLines(beats)
  BY DEF SpokenLines
<1>2. CASE unit.kind = "speech" /\ unit.tells = b
  <2>1. unit.voice = BeatVoice(beats[b], actor)
    BY <1>2 DEF OwnsItsLine
  <2>2. Audible(BeatVoice(beats[b], actor), v)
    BY <1>2, <2>1 DEF NarratedUnitSeen
  <2>3. beats[b] \in Deeds
    OBVIOUS
  <2>4. QED
    BY <2>2, <2>3, NarrowVoice
<1>3. QED
  BY <1>1, <1>2 DEF OwnsItsLine

\* What a presentation shows, with units of its own or recovered ones.
LEMMA PresentationSeen ==
    ASSUME NEW past, Recorded(past), NEW i \in DOMAIN past, past[i].kind = "shown",
           NEW v, NEW now, NEW context, NEW k \in SeenOf(past, i, v, now, context)
    PROVE  WithinEarshot(past, v, [entry |-> i, unit |-> k])
<1> DEFINE e == past[i]
           commit == past[e.of]
           f == [entry |-> i, unit |-> k]
<1>1. commit.by \in Cast /\ commit.beats \in Seq(Deeds)
  BY DEF Recorded
<1>2. f.entry = i /\ f.unit = k
  OBVIOUS
<1>3. CASE e.status = "valid"
  <2>1. k \in DOMAIN e.units /\ NarratedUnitSeen(e.units[k], v, now)
    BY <1>3 DEF SeenOf
  <2>2. OwnsItsLine(e.units[k], commit.beats, commit.by)
    BY <1>3, <2>1 DEF Recorded
  <2>3. LinesOf(past, f) = {<< e.of, b >> : b \in DOMAIN e.units[k].quotes}
    <3> HIDE DEF f
    <3>1. QED
      BY <1>2, <1>3 DEF LinesOf
  <2>4. ASSUME NEW b, ~ Unscreened(past, f, << e.of, b >>)
        PROVE  MayHear(past, v, << e.of, b >>)
    <3>1. << e.of, b >>[1] = e.of /\ << e.of, b >>[2] = b
      OBVIOUS
    <3>2. SUFFICES ASSUME b \in DOMAIN commit.beats, commit.beats[b].type = "speech",
                          commit.beats[b].to.scope \in NarrowScopes
                   PROVE  v \in commit.beats[b].to.names \cup {commit.by}
      BY <3>1 DEF MayHear
    <3>3. /\ e.units[k].kind # "internal"
          /\ ~ (e.units[k].kind = "speech" /\ e.units[k].tells # b)
          /\ ~ (e.units[k].kind \in Observable /\ ~ Holds(e.units[k], b, {"whole"}))
      <4> HIDE DEF f
      <4>1. QED
        BY <1>2, <1>3, <2>4, <3>1 DEF Unscreened
    <3> HIDE DEF f, e, commit
    <3>4. QED
      BY <1>1, <2>1, <2>2, <3>2, <3>3, ToldUnitSeen
  <2> HIDE DEF f, e
  <2>5. WithinEarshot(past, v, f)
    BY <2>3, <2>4 DEF WithinEarshot
  <2>6. QED
    BY <2>5 DEF f
<1>4. CASE e.status # "valid"
  <2> DEFINE beat == commit.beats[k]
             units == RecoveredUnits(commit.beats, commit.by)
  <2>1. k \in DOMAIN units /\ NarratedUnitSeen(units[k], v, now)
    BY <1>4 DEF SeenOf
  <2>2. LinesOf(past, f) = {<< e.of, k >>}
    <3> HIDE DEF f
    <3>1. QED
      BY <1>2, <1>4 DEF LinesOf
  <2>3. SUFFICES ASSUME k \in DOMAIN commit.beats, beat.type = "speech",
                        beat.to.scope \in NarrowScopes
                 PROVE  v \in beat.to.names \cup {commit.by}
    BY <2>2 DEF WithinEarshot, MayHear
  <2>4. beat \in Deeds
    BY <1>1, <2>3
  <2>5. units[k] = SpeechUnit(Reach("public", {}), beat, k, commit.by)
    BY <2>3 DEF RecoveredUnits
  <2> HIDE DEF units, beat, commit
  <2>6. units[k].kind = "speech" /\ units[k].voice = BeatVoice(beat, commit.by)
    BY <2>5 DEF SpeechUnit, Unit
  <2>7. Audible(units[k].voice, v)
    BY <2>1, <2>6 DEF NarratedUnitSeen
  <2>8. QED
    BY <1>1, <2>3, <2>4, <2>6, <2>7, NarrowVoice
<1>5. QED
  BY <1>3, <1>4

\* Nothing a character is shown of a history is a line it could not hear.
LEMMA SeenIsHeard ==
    ASSUME NEW past, Recorded(past), NEW i \in DOMAIN past,
           NEW v, NEW now, NEW context, NEW k \in SeenOf(past, i, v, now, context)
    PROVE  WithinEarshot(past, v, [entry |-> i, unit |-> k])
<1>1. CASE past[i].kind \in {"commit", "shown"}
  BY <1>1, CommitSeen, PresentationSeen
<1>2. CASE past[i].kind \notin {"commit", "shown"}
  <2>1. LinesOf(past, [entry |-> i, unit |-> k]) = {}
    BY <1>2 DEF LinesOf
  <2>2. QED
    BY <2>1 DEF WithinEarshot
<1>3. QED
  BY <1>1, <1>2

-----------------------------------------------------------------------------
(* The history only grows.                                                 *)

Listed(q) == q \in Seq({q[i] : i \in DOMAIN q})

\* A recorded history with one more entry.
LEMMA OneMoreEntry ==
    ASSUME NEW past, Recorded(past), NEW e
    PROVE  /\ Listed(Append(past, e))
           /\ Len(Append(past, e)) \in Nat
           /\ Len(Append(past, e)) \notin DOMAIN past
           /\ DOMAIN Append(past, e) = DOMAIN past \cup {Len(Append(past, e))}
           /\ Append(past, e)[Len(Append(past, e))] = e
           /\ \A i \in DOMAIN past : Append(past, e)[i] = past[i]
<1> DEFINE R == {past[i] : i \in DOMAIN past} \cup {e}
<1>1. past \in Seq({past[i] : i \in DOMAIN past})
  BY DEF Recorded
<1>2. past \in Seq(R) /\ e \in R
  BY <1>1
<1> HIDE DEF R
<1>3. /\ Append(past, e) \in Seq(R) /\ Len(past) \in Nat /\ DOMAIN past = 1..Len(past)
      /\ Len(Append(past, e)) = Len(past) + 1
      /\ DOMAIN Append(past, e) = 1..(Len(past) + 1)
      /\ Append(past, e)[Len(past) + 1] = e
      /\ \A i \in 1..Len(past) : Append(past, e)[i] = past[i]
  BY <1>2
<1>4. 1..(Len(past) + 1) = 1..Len(past) \cup {Len(past) + 1}
  BY <1>3
<1>5. Listed(Append(past, e))
  <2> DEFINE q == Append(past, e)
  <2>1. q \in Seq(R)
    BY <1>3
  <2> HIDE DEF q
  <2>2. Listed(q)
    BY <2>1 DEF Listed
  <2>3. QED
    BY <2>2 DEF q
<1>6. QED
  BY <1>3, <1>4, <1>5

\* What makes an entry fit to be the next.
Fits(past, e) ==
    /\ e.kind = "commit" => e.by \in Cast /\ e.beats \in Seq(Deeds)
    /\ e.kind = "shown" =>
           /\ e.of \in DOMAIN past /\ past[e.of].kind = "commit"
           /\ e.status = "valid" =>
                  \A k \in DOMAIN e.units :
                      OwnsItsLine(e.units[k], past[e.of].beats, past[e.of].by)

LEMMA EntryFits ==
    ASSUME NEW past, Recorded(past), NEW e, Fits(past, e)
    PROVE  Recorded(Append(past, e))
<1> DEFINE grown == Append(past, e)
           n == Len(grown)
<1>1. Listed(grown)
  BY OneMoreEntry
<1>8. n \notin DOMAIN past /\ DOMAIN grown = DOMAIN past \cup {n} /\ grown[n] = e
  BY OneMoreEntry
<1>9. \A i \in DOMAIN past : grown[i] = past[i]
  BY OneMoreEntry
<1> HIDE DEF grown, n
<1>4. ASSUME NEW i \in DOMAIN grown, grown[i].kind = "commit"
      PROVE  grown[i].by \in Cast /\ grown[i].beats \in Seq(Deeds)
  BY <1>8, <1>9, <1>4 DEF Recorded, Fits
<1>5. ASSUME NEW i \in DOMAIN grown, grown[i].kind = "shown"
      PROVE  /\ grown[i].of \in DOMAIN past
             /\ past[grown[i].of].kind = "commit"
             /\ grown[i].status = "valid" =>
                    \A k \in DOMAIN grown[i].units :
                        OwnsItsLine(grown[i].units[k], past[grown[i].of].beats,
                                    past[grown[i].of].by)
  BY <1>8, <1>9, <1>5 DEF Recorded, Fits
<1>6. ASSUME NEW i \in DOMAIN grown, grown[i].kind = "shown"
      PROVE  LET told == grown[i].of
             IN /\ told \in DOMAIN grown /\ grown[told].kind = "commit"
                /\ grown[i].status = "valid" =>
                       \A k \in DOMAIN grown[i].units :
                           OwnsItsLine(grown[i].units[k], grown[told].beats, grown[told].by)
  BY <1>8, <1>9, <1>5, <1>6
<1>7. QED
  BY <1>1, <1>4, <1>6 DEF Recorded, Listed, grown

\* What was heard of an entry does not change when others follow it.
LEMMA StillHeard ==
    ASSUME NEW past, Recorded(past), NEW e, NEW v, NEW k, NEW i \in DOMAIN past,
           WithinEarshot(past, v, [entry |-> i, unit |-> k])
    PROVE  WithinEarshot(Append(past, e), v, [entry |-> i, unit |-> k])
<1> DEFINE grown == Append(past, e)
           f == [entry |-> i, unit |-> k]
<1>1. \A j \in DOMAIN past : grown[j] = past[j]
  BY OneMoreEntry
<1>2. LinesOf(grown, f) = LinesOf(past, f)
  BY <1>1 DEF LinesOf
<1>3. ASSUME NEW line \in LinesOf(past, f) PROVE line[1] \in DOMAIN past
  <2>1. CASE past[i].kind \in {"commit", "shown"}
    BY <1>3, <2>1 DEF LinesOf, Recorded
  <2>2. CASE past[i].kind \notin {"commit", "shown"}
    BY <1>3, <2>2 DEF LinesOf
  <2>3. QED
    BY <2>1, <2>2
<1>4. ASSUME NEW line PROVE Unscreened(past, f, line) <=> Unscreened(grown, f, line)
  BY <1>1 DEF Unscreened
<1> HIDE DEF grown, f
<1>5. ASSUME NEW line \in LinesOf(past, f), MayHear(past, v, line) PROVE MayHear(grown, v, line)
  BY <1>1, <1>3, <1>5 DEF MayHear
<1>6. WithinEarshot(past, v, f) => WithinEarshot(grown, v, f)
  BY <1>2, <1>4, <1>5 DEF WithinEarshot
<1>7. QED
  BY <1>6 DEF grown, f

\* The units a presentation keeps answer for the lines they name.
LEMMA KeptUnitsOwnTheirLines ==
    ASSUME NEW units, NEW beats, NEW actor,
           \A k \in DOMAIN units : units[k].kind \in UnitKinds,
           NEW k \in DOMAIN ValidatedUnits(units, beats, actor)
    PROVE  OwnsItsLine(ValidatedUnits(units, beats, actor)[k], beats, actor)
<1> DEFINE u == units[k]
           kept == ValidatedUnits(units, beats, actor)[k]
<1>1. /\ k \in DOMAIN units /\ Keeps(u, beats) /\ ~ Rejects(u, beats)
      /\ kept = IF u.kind = "speech" THEN Attached(u, beats, actor) ELSE u
  BY DEF ValidatedUnits
<1>2. u.kind \in {"speech", "internal"} \cup Observable
  BY <1>1 DEF UnitKinds, Keeps, Rejects, Observable
<1> HIDE DEF u, kept
<1>3. CASE u.kind = "speech"
  <2>1. u.tells \in SpokenLines(beats)
    BY <1>1, <1>3 DEF Rejects
  <2>2. /\ kept.kind = "speech" /\ kept.tells = u.tells
        /\ kept.voice = BeatVoice(beats[u.tells], actor)
    BY <1>1, <1>3 DEF Attached, Unit
  <2>3. QED
    BY <2>1, <2>2 DEF OwnsItsLine, Observable, kept
<1>4. CASE u.kind # "speech"
  <2>1. kept = u
    BY <1>1, <1>4
  <2>2. QED
    BY <1>1, <1>2, <1>4, <2>1 DEF OwnsItsLine, Keeps, kept
<1>5. QED
  BY <1>3, <1>4

-----------------------------------------------------------------------------
(* Steps.                                                                  *)

LEMMA RecordTurnKeeps ==
    ASSUME LanesInv, RecordTurn
    PROVE  LanesInv'
<1> DEFINE entry == UserEntry(intake)
           grown == Append(history, entry)
<1>1. /\ history' = grown /\ setup' = setup
      /\ memory' = memory \cup
             (IF ~ Remembers(entry) THEN {}
              ELSE UNION {Kept(v, Len(grown),
                               SeenOf(grown, Len(grown), v, Here, setup.context)) :
                          v \in Here})
  BY DEF RecordTurn
<1>2. entry.kind = "user"
  BY DEF UserEntry
<1> HIDE DEF entry
<1>3. Recorded(grown)
  BY <1>2, EntryFits DEF Fits, LanesInv
<1>4. Len(grown) \in DOMAIN grown /\ DOMAIN history \subseteq DOMAIN grown
  BY OneMoreEntry DEF LanesInv
<1>5. ASSUME NEW m \in memory
      PROVE  m.entry \in DOMAIN grown
             /\ WithinEarshot(grown, m.who, [entry |-> m.entry, unit |-> m.unit])
  BY <1>4, <1>5, StillHeard DEF LanesInv, MemoryInv
<1> HIDE DEF grown
<1>6. ASSUME NEW m \in memory' \ memory
      PROVE  m.entry \in DOMAIN grown
             /\ WithinEarshot(grown, m.who, [entry |-> m.entry, unit |-> m.unit])
  <2>1. PICK v \in Here : m \in Kept(v, Len(grown),
                                     SeenOf(grown, Len(grown), v, Here, setup.context))
    BY <1>1, <1>6
  <2>2. m.who = v /\ m.entry = Len(grown)
        /\ m.unit \in SeenOf(grown, Len(grown), v, Here, setup.context)
    BY <2>1 DEF Kept
  <2>3. WithinEarshot(grown, v, [entry |-> Len(grown), unit |-> m.unit])
    BY <1>3, <1>4, <2>2, SeenIsHeard
  <2>4. QED
    BY <1>4, <2>2, <2>3
<1>7. QED
  BY <1>1, <1>3, <1>5, <1>6 DEF LanesInv, MemoryInv

\* What those who act and those who watch remember of a move.
LEMMA MoveRemembered ==
    ASSUME LanesInv, NEW move,
           move \in [who : Cast, beats : Seq(Deeds), leaves : SUBSET Cast, enters : SUBSET Cast],
           NEW grown,
           grown = Append(history, Entry("commit", move.who, "valid", << >>, move.beats, 0)),
           NEW now, NEW m,
           \/ m \in Kept(move.who, Len(grown), DOMAIN move.beats)
           \/ \E v \in Cast : m \in Kept(v, Len(grown), Observed(grown, v, move.who, now))
    PROVE  /\ Recorded(grown)
           /\ m.entry = Len(grown) /\ m.entry \in DOMAIN grown
           /\ m.unit \in SeenOf(grown, m.entry, m.who, IF now = {} THEN Cast ELSE now,
                                setup.context)
<1> DEFINE entry == Entry("commit", move.who, "valid", << >>, move.beats, 0)
           place == Len(grown)
           there == IF now = {} THEN Cast ELSE now
<1>1. /\ entry.kind = "commit" /\ entry.by = move.who /\ entry.status = "valid"
      /\ entry.beats = move.beats
  BY DEF Entry
<1>2. move.who \in Cast /\ move.beats \in Seq(Deeds)
  OBVIOUS
<1> HIDE DEF entry
<1>3. Recorded(grown)
  BY <1>1, <1>2, EntryFits DEF Fits, LanesInv, entry
<1>4. place \in DOMAIN grown /\ grown[place] = entry
  BY OneMoreEntry DEF LanesInv, entry
<1>5. ASSUME m \in Kept(move.who, place, DOMAIN move.beats)
      PROVE  m.entry = place /\ m.unit \in SeenOf(grown, place, m.who, there, setup.context)
  <2> DEFINE units == CharacterUnits(move.beats, move.who)
  <2>1. m.who = move.who /\ m.entry = place /\ m.unit \in DOMAIN move.beats
    BY <1>5 DEF Kept
  <2>2. DOMAIN units = DOMAIN move.beats
    BY DEF CharacterUnits
  <2>3. \A k \in DOMAIN units : CharacterUnitSeen(units[k], move.who, move.who, there)
    BY DEF CharacterUnitSeen
  <2> HIDE DEF units, place, there
  <2>4. SeenOf(grown, place, move.who, there, setup.context)
          = {k \in DOMAIN units : CharacterUnitSeen(units[k], move.who, move.who, there)}
    BY <1>1, <1>4 DEF SeenOf, units
  <2>5. QED
    BY <2>1, <2>2, <2>3, <2>4
<1>6. ASSUME NEW v, m \in Kept(v, place, Observed(grown, v, move.who, now))
      PROVE  m.entry = place /\ m.unit \in SeenOf(grown, place, m.who, there, setup.context)
  BY <1>6 DEF Kept, Observed
<1>7. QED
  BY <1>3, <1>4, <1>5, <1>6

LEMMA CommitMoveKeeps ==
    ASSUME LanesInv, CommitMove
    PROVE  LanesInv'
<1>1. PICK move \in Moves[setup.theme] :
        LET now == (present \ move.leaves) \cup move.enters
            grown == Append(history, Entry("commit", move.who, "valid", << >>, move.beats, 0))
        IN /\ present' = now
           /\ history' = grown
           /\ memory' = memory
                  \cup Kept(move.who, Len(grown), DOMAIN move.beats)
                  \cup UNION {Kept(v, Len(grown), Observed(grown, v, move.who, now)) :
                              v \in Cast \ {move.who}}
  BY DEF CommitMove
<1> DEFINE now == (present \ move.leaves) \cup move.enters
           entry == Entry("commit", move.who, "valid", << >>, move.beats, 0)
           grown == Append(history, entry)
<1>2. setup' = setup
  BY DEF CommitMove
<1>3. move \in [who : Cast, beats : Seq(Deeds), leaves : SUBSET Cast, enters : SUBSET Cast]
  BY <1>1, LanesAssumption DEF LanesInv
<1>4. /\ entry.kind = "commit" /\ entry.by \in Cast /\ entry.beats \in Seq(Deeds)
  BY <1>3 DEF Entry
<1> HIDE DEF entry
<1>5. Recorded(grown)
  BY <1>4, EntryFits DEF Fits, LanesInv
<1>6. DOMAIN history \subseteq DOMAIN grown
  BY OneMoreEntry DEF LanesInv
<1>7. ASSUME NEW m \in memory
      PROVE  m.entry \in DOMAIN grown
             /\ WithinEarshot(grown, m.who, [entry |-> m.entry, unit |-> m.unit])
  BY <1>6, <1>7, StillHeard DEF LanesInv, MemoryInv
<1>8. ASSUME NEW m \in memory' \ memory
      PROVE  m.entry \in DOMAIN grown
             /\ WithinEarshot(grown, m.who, [entry |-> m.entry, unit |-> m.unit])
  <2>1. \/ m \in Kept(move.who, Len(grown), DOMAIN move.beats)
        \/ \E v \in Cast : m \in Kept(v, Len(grown), Observed(grown, v, move.who, now))
    BY <1>1, <1>8 DEF entry
  <2>2. /\ m.entry \in DOMAIN grown
        /\ m.unit \in SeenOf(grown, m.entry, m.who, IF now = {} THEN Cast ELSE now,
                             setup.context)
    BY <1>3, <2>1, MoveRemembered DEF entry
  <2>3. QED
    BY <1>5, <2>2, SeenIsHeard
<1>9. history' = grown
  BY <1>1 DEF entry
<1> HIDE DEF grown, now
<1>10. QED
  BY <1>2, <1>5, <1>7, <1>8, <1>9 DEF LanesInv, MemoryInv

LEMMA SkipKeeps ==
    ASSUME LanesInv, Skip
    PROVE  LanesInv'
<1> DEFINE entry == Entry("skip", Player, "valid", << >>, << >>, 0)
<1>1. history' = Append(history, entry) /\ setup' = setup /\ memory' = memory
  BY DEF Skip
<1>2. entry.kind = "skip"
  BY DEF Entry
<1> HIDE DEF entry
<1>3. Recorded(Append(history, entry))
  BY <1>2, EntryFits DEF Fits, LanesInv
<1>4. DOMAIN history \subseteq DOMAIN Append(history, entry)
  BY OneMoreEntry DEF LanesInv
<1>5. \A m \in memory :
        /\ m.entry \in DOMAIN Append(history, entry)
        /\ WithinEarshot(Append(history, entry), m.who, [entry |-> m.entry, unit |-> m.unit])
  BY <1>4, StillHeard DEF LanesInv, MemoryInv
<1>6. QED
  BY <1>1, <1>3, <1>5 DEF LanesInv, MemoryInv

LEMMA PresentKeeps ==
    ASSUME LanesInv, Present
    PROVE  LanesInv'
<1>1. PICK i \in DOMAIN history, units \in Tales[setup.theme], failed \in BOOLEAN :
        /\ history[i].kind = "commit"
        /\ LET kept == ValidatedUnits(units, history[i].beats, history[i].by)
               status == IF failed THEN "failed"
                         ELSE IF DOMAIN kept = {} THEN "none" ELSE "valid"
           IN history' = Append(history,
                             Entry("shown", history[i].by, status, kept, << >>, i))
  BY DEF Present
<1> DEFINE kept == ValidatedUnits(units, history[i].beats, history[i].by)
           status == IF failed THEN "failed"
                     ELSE IF DOMAIN kept = {} THEN "none" ELSE "valid"
           entry == Entry("shown", history[i].by, status, kept, << >>, i)
<1>2. history' = Append(history, entry) /\ setup' = setup /\ memory' = memory
  BY <1>1 DEF Present
<1>3. entry.kind = "shown" /\ entry.of = i /\ entry.units = kept
  BY DEF Entry
<1>4. \A k \in DOMAIN units : units[k].kind \in UnitKinds
  BY LanesAssumption DEF LanesInv
<1>6. \A k \in DOMAIN kept : OwnsItsLine(kept[k], history[i].beats, history[i].by)
  BY <1>4, KeptUnitsOwnTheirLines
<1> HIDE DEF entry, kept
<1>7. Recorded(Append(history, entry))
  BY <1>1, <1>3, <1>6, EntryFits DEF Fits, LanesInv
<1>8. DOMAIN history \subseteq DOMAIN Append(history, entry)
  BY OneMoreEntry DEF LanesInv
<1>9. \A m \in memory :
        /\ m.entry \in DOMAIN Append(history, entry)
        /\ WithinEarshot(Append(history, entry), m.who, [entry |-> m.entry, unit |-> m.unit])
  BY <1>8, StillHeard DEF LanesInv, MemoryInv
<1>10. QED
  BY <1>2, <1>7, <1>9 DEF LanesInv, MemoryInv

\* While a turn of the player is taken in, nobody is shown or remembers more.
LEMMA TakingInKeeps ==
    ASSUME Submit \/ TriageNotSafe \/ TriageSafe \/ VerificationBlocks \/ VerificationClears
             \/ AttemptFails \/ AttemptAbandoned \/ AttemptAnswered \/ RecordTurnUnsaved
    PROVE  UNCHANGED << setup, history, present, memory >>
<1>1. CASE Submit \/ TriageNotSafe \/ TriageSafe \/ VerificationBlocks \/ VerificationClears
  BY <1>1 DEF Submit, TriageNotSafe, TriageSafe, VerificationBlocks, VerificationClears
<1>2. CASE AttemptFails \/ AttemptAbandoned \/ AttemptAnswered
  BY <1>2 DEF AttemptFails, AttemptAbandoned, AttemptAnswered
<1>3. CASE RecordTurnUnsaved
  BY <1>3 DEF RecordTurnUnsaved, Unsaved
<1>4. QED
  BY <1>1, <1>2, <1>3

LEMMA LanesInitially == LanesInit => LanesInv
BY LanesAssumption DEF LanesInit, LanesInv, MemoryInv

LEMMA LanesStep ==
    ASSUME LanesInv, [LanesNext]_lanesVars
    PROVE  LanesInv'
<1>1. CASE UNCHANGED << setup, history, present, memory >>
  BY <1>1 DEF LanesInv, MemoryInv
<1>2. CASE RecordTurn
  BY <1>2, RecordTurnKeeps
<1>3. CASE Skip
  BY <1>3, SkipKeeps
<1>4. CASE CommitMove
  BY <1>4, CommitMoveKeeps
<1>5. CASE Present
  BY <1>5, PresentKeeps
<1>6. QED
  BY <1>1, <1>2, <1>3, <1>4, <1>5, TakingInKeeps DEF LanesNext, Intake, lanesVars

\* There is a last entry among some.
LEMMA LastExists ==
    ASSUME NEW past, Recorded(past), NEW T \in SUBSET DOMAIN past, T # {}
    PROVE  (CHOOSE i \in T : \A j \in T : j <= i) \in T
<1> DEFINE n == Len(past)
           S == {n - i : i \in T}
<1>1. n \in Nat /\ DOMAIN past = 1..n
  BY DEF Recorded
<1>2. S \in SUBSET Nat /\ S # {}
  BY <1>1
<1>3. PICK c \in S : \A d \in S : c <= d
  BY <1>2, SomeFirst
<1>4. PICK i \in T : c = n - i
  BY <1>3
<1>5. \A j \in T : j <= i
  <2> SUFFICES ASSUME NEW j \in T PROVE j <= i
    OBVIOUS
  <2>1. c <= n - j
    BY <1>3
  <2>2. QED
    BY <1>1, <1>4, <2>1
<1>6. QED
  BY <1>5

\* The four lanes show what projecting some record of the history shows, or
\* what was remembered.
LEMMA LanesShowRecords ==
    ASSUME LanesInv, NEW v, NEW f \in Reached(v)
    PROVE  \/ /\ f.entry \in DOMAIN history
              /\ f = [entry |-> f.entry, unit |-> f.unit]
              /\ f.unit \in SeenOf(history, f.entry, v, Here, setup.context)
           \/ \E m \in memory : m.who = v /\ f = [entry |-> m.entry, unit |-> m.unit]
<1> DEFINE Seen(i) == SeenOf(history, i, v, Here, setup.context)
           Shown == f.entry \in DOMAIN history /\ f = [entry |-> f.entry, unit |-> f.unit]
                    /\ f.unit \in Seen(f.entry)
<1>1. \A i \in Read(history) : RecordAt(history, i) \in DOMAIN history
  BY DEF Read, RecordAt, LanesInv, Recorded
<1>2. ASSUME NEW S, S \subseteq DOMAIN history, f \in Fragments(S, Seen)
      PROVE  Shown
  BY <1>2 DEF Fragments
<1>3. CASE f \in Of(v, Transcript)
  BY <1>1, <1>2, <1>3 DEF Of, Transcript
<1>4. CASE f \in Of(v, Trigger)
  <2>1. TriggerEntry(history) \subseteq DOMAIN history
    <3> DEFINE turns == {i \in DOMAIN history : history[i].kind \in {"user", "skip"}}
    <3>1. turns # {} => (CHOOSE i \in turns : \A j \in turns : j <= i) \in turns
      BY LastExists DEF LanesInv
    <3>2. QED
      BY <3>1 DEF TriggerEntry
  <2>2. QED
    BY <1>2, <1>4, <2>1 DEF Of, Trigger
<1>5. CASE f \in Of(v, Inventory)
  BY <1>1, <1>2, <1>5 DEF Of, Inventory, Citable
<1>6. CASE f \in {[entry |-> m.entry, unit |-> m.unit] : m \in {x \in memory : x.who = v}}
  BY <1>6
<1>7. QED
  BY <1>3, <1>4, <1>5, <1>6 DEF Reached

\* The inductive invariant: histories are as the kernel writes them, and no
\* memory holds a line its owner could not hear.
THEOREM PerceptionInvariant == LanesSpec => []LanesInv
<1>1. LanesInv /\ [LanesNext]_lanesVars => LanesInv'
  BY LanesStep
<1>2. QED
  BY <1>1, LanesInitially, PTL DEF LanesSpec

\* A line a character said to some stays with them and its speaker, in whichever
\* lane it is read: transcript, trigger, inventory or memory.  A narrator's unit
\* carries it further only where the Host compares nothing: Unscreened.
THEOREM WhispersHeardByTheirOwn == LanesSpec => []WhispersStayWithinEarshot
<1>1. ASSUME LanesInv, NEW v \in Cast, NEW f \in Reached(v)
      PROVE  WithinEarshot(history, v, f)
  <2>1. CASE /\ f.entry \in DOMAIN history
             /\ f = [entry |-> f.entry, unit |-> f.unit]
             /\ f.unit \in SeenOf(history, f.entry, v, Here, setup.context)
    <3>1. WithinEarshot(history, v, [entry |-> f.entry, unit |-> f.unit])
      BY <1>1, <2>1, SeenIsHeard DEF LanesInv
    <3>2. QED
      BY <2>1, <3>1
  <2>2. CASE \E m \in memory : m.who = v /\ f = [entry |-> m.entry, unit |-> m.unit]
    BY <1>1, <2>2 DEF LanesInv, MemoryInv
  <2>3. QED
    BY <1>1, <2>1, <2>2, LanesShowRecords
<1>2. LanesInv => WhispersStayWithinEarshot
  BY <1>1 DEF WhispersStayWithinEarshot
<1>3. QED
  BY <1>2, PerceptionInvariant, PTL

-----------------------------------------------------------------------------
(* What is remembered is shown.                                            *)

\* The transcript of a history whose last entry presents nothing shows what
\* projecting that entry shows.
LEMMA LastIsRead ==
    ASSUME NEW past, NEW i \in DOMAIN past, past[i].kind # "shown", ~ Presented(past, i),
           NEW v, NEW now, NEW context, NEW k \in SeenOf(past, i, v, now, context)
    PROVE  [entry |-> i, unit |-> k] \in Transcript(past, v, now, context)
<1> DEFINE S == {RecordAt(past, j) : j \in Read(past)}
<1>1. i \in Read(past) /\ RecordAt(past, i) = i
  BY DEF Read, RecordAt
<1>2. i \in S
  BY <1>1
<1>3. QED
  BY <1>2 DEF Transcript, Fragments

\* Nothing presents the entry just appended.
LEMMA NewIsUnpresented ==
    ASSUME NEW past, Recorded(past), NEW e, e.kind # "shown"
    PROVE  ~ Presented(Append(past, e), Len(Append(past, e)))
<1> DEFINE grown == Append(past, e)
           n == Len(grown)
<1>1. /\ n \notin DOMAIN past /\ DOMAIN grown = DOMAIN past \cup {n} /\ grown[n] = e
      /\ \A i \in DOMAIN past : grown[i] = past[i]
  BY OneMoreEntry
<1>2. \A j \in DOMAIN past : past[j].kind = "shown" => past[j].of \in DOMAIN past
  BY DEF Recorded
<1> HIDE DEF grown, n
<1>3. ~ Presented(grown, n)
  BY <1>1, <1>2 DEF Presented
<1>4. QED
  BY <1>3 DEF grown, n

LEMMA TurnRememberedIsShown ==
    ASSUME LanesInv, RecordTurn, NEW m \in memory' \ memory
    PROVE  [entry |-> m.entry, unit |-> m.unit]
             \in Transcript(history', m.who, IF present' = {} THEN Cast ELSE present',
                            setup'.context)
<1> DEFINE entry == UserEntry(intake)
           grown == Append(history, entry)
           n == Len(grown)
<1>1. /\ history' = grown /\ setup' = setup /\ present' = present
      /\ memory' = memory \cup
             (IF ~ Remembers(entry) THEN {}
              ELSE UNION {Kept(v, n, SeenOf(grown, n, v, Here, setup.context)) : v \in Here})
  BY DEF RecordTurn
<1>2. entry.kind = "user"
  BY DEF UserEntry
<1> HIDE DEF entry
<1>3. n \in DOMAIN grown /\ grown[n] = entry /\ ~ Presented(grown, n)
  BY <1>2, OneMoreEntry, NewIsUnpresented DEF LanesInv
<1> HIDE DEF grown, n
<1>4. PICK v \in Here : m \in Kept(v, n, SeenOf(grown, n, v, Here, setup.context))
  BY <1>1
<1>5. m.who = v /\ m.entry = n /\ m.unit \in SeenOf(grown, n, v, Here, setup.context)
  BY <1>4 DEF Kept
<1>6. [entry |-> n, unit |-> m.unit] \in Transcript(grown, v, Here, setup.context)
  BY <1>2, <1>3, <1>5, LastIsRead
<1>7. QED
  BY <1>1, <1>5, <1>6 DEF Here

LEMMA MoveRememberedIsShown ==
    ASSUME LanesInv, CommitMove, NEW m \in memory' \ memory
    PROVE  [entry |-> m.entry, unit |-> m.unit]
             \in Transcript(history', m.who, IF present' = {} THEN Cast ELSE present',
                            setup'.context)
<1>1. PICK move \in Moves[setup.theme] :
        LET now == (present \ move.leaves) \cup move.enters
            grown == Append(history, Entry("commit", move.who, "valid", << >>, move.beats, 0))
        IN /\ present' = now
           /\ history' = grown
           /\ memory' = memory
                  \cup Kept(move.who, Len(grown), DOMAIN move.beats)
                  \cup UNION {Kept(v, Len(grown), Observed(grown, v, move.who, now)) :
                              v \in Cast \ {move.who}}
  BY DEF CommitMove
<1> DEFINE now == (present \ move.leaves) \cup move.enters
           entry == Entry("commit", move.who, "valid", << >>, move.beats, 0)
           grown == Append(history, entry)
           n == Len(grown)
           there == IF now = {} THEN Cast ELSE now
<1>2. setup' = setup /\ history' = grown /\ present' = now
  BY <1>1 DEF CommitMove
<1>3. move \in [who : Cast, beats : Seq(Deeds), leaves : SUBSET Cast, enters : SUBSET Cast]
  BY <1>1, LanesAssumption DEF LanesInv
<1>4. \/ m \in Kept(move.who, n, DOMAIN move.beats)
      \/ \E v \in Cast : m \in Kept(v, n, Observed(grown, v, move.who, now))
  BY <1>1
<1>5. entry.kind = "commit"
  BY DEF Entry
<1>6. grown[n] = entry /\ ~ Presented(grown, n)
  <2> HIDE DEF entry
  <2>1. QED
    BY <1>5, OneMoreEntry, NewIsUnpresented DEF LanesInv
<1>7. /\ m.entry = Len(grown) /\ m.entry \in DOMAIN grown
      /\ m.unit \in SeenOf(grown, m.entry, m.who, IF now = {} THEN Cast ELSE now,
                           setup.context)
  BY <1>3, <1>4, MoveRemembered
<1> HIDE DEF grown, now, entry
<1>10. /\ m.entry = n /\ n \in DOMAIN grown
       /\ m.unit \in SeenOf(grown, n, m.who, there, setup.context)
  BY <1>7
<1> HIDE DEF n, there
<1>8. [entry |-> n, unit |-> m.unit] \in Transcript(grown, m.who, there, setup.context)
  BY <1>5, <1>6, <1>10, LastIsRead
<1>9. QED
  BY <1>2, <1>8, <1>10 DEF there

\* What a character starts to remember, it is shown at that moment: the
\* filter of memories and the filter of transcripts agree.
THEOREM RememberedShown == LanesSpec => RememberedIsShown
<1>1. ASSUME LanesInv, LanesNext, NEW m \in memory' \ memory
      PROVE  [entry |-> m.entry, unit |-> m.unit]
               \in Transcript(history', m.who, IF present' = {} THEN Cast ELSE present',
                              setup'.context)
  <2>1. CASE RecordTurn
    BY <1>1, <2>1, TurnRememberedIsShown
  <2>2. CASE CommitMove
    BY <1>1, <2>2, MoveRememberedIsShown
  <2>3. CASE UNCHANGED memory
    BY <1>1, <2>3
  <2>4. CASE Skip \/ Present
    BY <2>3, <2>4 DEF Skip, Present
  <2>5. QED
    BY <1>1, <2>1, <2>2, <2>3, <2>4, TakingInKeeps DEF LanesNext, Intake
<1>2. LanesInv /\ [LanesNext]_lanesVars =>
        [\A m \in memory' \ memory :
            [entry |-> m.entry, unit |-> m.unit]
                \in Transcript(history', m.who, IF present' = {} THEN Cast ELSE present',
                               setup'.context)]_lanesVars
  BY <1>1
<1>3. QED
  BY <1>2, PerceptionInvariant, PTL DEF LanesSpec, RememberedIsShown

=============================================================================
