--------------------------- MODULE ExcerptMatching ---------------------------
(***************************************************************************)
(* How the Host turns what a model says of a player's turn into a record:  *)
(* the model quotes excerpts and says of each what it is and who may       *)
(* perceive it; the Host finds where each excerpt stands in the turn.  A   *)
(* turn is a sequence of letters, spaces and punctuation marks.            *)
(***************************************************************************)
EXTENDS Naturals, Sequences, FiniteSets, SequencesExt

CONSTANTS
    Letters,    \* the letters of a turn
    Space,      \* whitespace
    Mark        \* punctuation

ASSUME ExcerptAssumption == {Space, Mark} \cap Letters = {} /\ Space # Mark

Substantive(source) == {i \in DOMAIN source : source[i] # Space}

\* _find_occurrences
Occurrences(source, text) ==
    {p \in DOMAIN source : /\ p + Len(text) - 1 <= Len(source)
                           /\ SubSeq(source, p, p + Len(text) - 1) = text}

SpanAt(unit, p) == p .. (p + Len(unit.text) - 1)

\* Every way of giving each excerpt a place without two of them overlapping.
Placements(source, units) ==
    {at \in [DOMAIN units -> UNION {Occurrences(source, units[u].text) : u \in DOMAIN units}] :
        /\ \A u \in DOMAIN units : at[u] \in Occurrences(source, units[u].text)
        /\ \A u, w \in DOMAIN units :
               u # w => SpanAt(units[u], at[u]) \cap SpanAt(units[w], at[w]) = {}}

CoveredBy(units, at, who) == UNION {SpanAt(units[u], at[u]) : u \in who}

Complete(source, units) ==
    {at \in Placements(source, units) :
        Substantive(source) \subseteq CoveredBy(units, at, DOMAIN units)}

InOrder(units, at) == SetToSortSeq(DOMAIN units, LAMBDA u, w : at[u] < at[w])

\* _canonical_semantic_fingerprint: what a placement says, in source order.
Reading(units, at) ==
    LET order == InOrder(units, at) IN [k \in DOMAIN order |-> units[order[k]]]

Readings(source, units) == {Reading(units, at) : at \in Complete(source, units)}

\* Sequences of numbers of one length, the first difference deciding.
Precedes(f, g, order) ==
    \E k \in DOMAIN order :
        /\ f[order[k]] < g[order[k]]
        /\ \A j \in 1 .. (k - 1) : f[order[j]] = g[order[j]]

FirstPlacement(placements, order) ==
    CHOOSE at \in placements : \A other \in placements \ {at} : Precedes(at, other, order)

-----------------------------------------------------------------------------
(* Punctuation left over at the end of the turn.                           *)

\* The search takes the excerpts with the fewest places first.
SearchOrder(source, units) ==
    SetToSortSeq(DOMAIN units,
        LAMBDA u, w :
            LET many(x) == Cardinality(Occurrences(source, units[x].text))
            IN many(u) < many(w) \/ (many(u) = many(w) /\ u < w))

Lengths(units, who) ==
    FoldSet(LAMBDA u, total : total + Len(units[u].text), 0, who)

\* What the search prunes: more is uncovered than the excerpts still to be
\* placed could cover, the final punctuation counted.
Survives(source, units, at) ==
    LET order == SearchOrder(source, units)
        placed(k) == {order[j] : j \in 1 .. (k - 1)}
    IN \A k \in DOMAIN order :
           Cardinality(Substantive(source) \ CoveredBy(units, at, placed(k)))
               <= Lengths(units, DOMAIN units \ placed(k))

LastUnit(units, at) == CHOOSE u \in DOMAIN units : \A w \in DOMAIN units : at[w] <= at[u]

\* All that is uncovered is one run of punctuation that ends the turn, right
\* after the last excerpt.
TailOnly(source, units, at) ==
    LET left == Substantive(source) \ CoveredBy(units, at, DOMAIN units)
    IN \E i \in DOMAIN source :
           /\ left = i .. Len(source)
           /\ \A j \in left : source[j] = Mark
           /\ CoveredBy(units, at, DOMAIN units) \cap left = {}

Absorbable(source, units) ==
    {at \in Placements(source, units) :
        Survives(source, units, at) /\ TailOnly(source, units, at)}

-----------------------------------------------------------------------------
(* The verdict.                                                            *)

Placed(units, at, absorbing, source) ==
    [k \in DOMAIN units |->
        LET u == InOrder(units, at)[k]
        IN [kind |-> units[u].kind, to |-> units[u].to, first |-> at[u],
            last |-> IF absorbing /\ u = LastUnit(units, at) THEN Len(source)
                     ELSE at[u] + Len(units[u].text) - 1]]

Refusal(class, again) == [ok |-> FALSE, class |-> class, again |-> again, absorbed |-> FALSE,
                          units |-> << >>]

Accepted(placed, absorbed) ==
    [ok |-> TRUE, class |-> "", again |-> FALSE, absorbed |-> absorbed, units |-> placed]

\* Mutant: the first placement that covers the turn is taken, as for punctuation.
Assigned_TakesTheFirst(source, units, attempt, enough) ==
    IF Complete(source, units) # {}
        THEN Accepted(Placed(units, FirstPlacement(Complete(source, units),
                                            [u \in DOMAIN units |-> u]), FALSE, source), FALSE)
    ELSE Refusal("sir_substantive_omission", TRUE)

\* _search_and_resolve_assignment: `enough` is the work budget holding out.
\* Excerpts that cannot be placed without overlap come out as an omission:
\* the search notes a blocked place as a partial cover, so the class kept for
\* overlaps is never the answer.
Assigned(source, units, attempt, enough) ==
    IF \E u \in DOMAIN units : Occurrences(source, units[u].text) = {}
        THEN Refusal("sir_non_verbatim_excerpt", TRUE)
    ELSE IF ~ enough
        THEN Refusal("normalization_search_budget_exceeded", attempt = 0)
    ELSE IF Cardinality(Readings(source, units)) > 1
        THEN IF attempt = 0 THEN Refusal("fragment_assignment_ambiguous", TRUE)
             ELSE Refusal("fragment_assignment_ambiguous_terminal", FALSE)
    ELSE IF Complete(source, units) # {}
        THEN Accepted(Placed(units, FirstPlacement(Complete(source, units),
                                            [u \in DOMAIN units |-> u]), FALSE, source), FALSE)
    ELSE IF Absorbable(source, units) # {}
        THEN Accepted(Placed(units, FirstPlacement(Absorbable(source, units),
                                            SearchOrder(source, units)), TRUE, source), TRUE)
    ELSE Refusal("sir_substantive_omission", TRUE)

\* validate_source_accounting and the linkage check: the stretches of the turn
\* a record projects, with those between them, tile it.
Tiles(source, placed) ==
    /\ \A k \in 1 .. (Len(placed) - 1) : placed[k].last < placed[k + 1].first
    /\ \A k \in DOMAIN placed :
           placed[k].first >= 1 /\ placed[k].last <= Len(source)

\* validate_player_perceptual_decomposition, on what the search placed: an
\* excerpt of blanks is dropped, so its stretch names an unknown unit.
RecordValid(source, placed) ==
    /\ Tiles(source, placed)
    /\ \A k \in DOMAIN placed : \E i \in placed[k].first .. placed[k].last : source[i] # Space
    /\ \A k \in DOMAIN placed :
           placed[k].kind = "internal" => placed[k].to.scope # "public"

\* normalize_player_semantic_decomposition
Normalized(source, units, attempt, enough) ==
    IF units = << >> \/ \E u \in DOMAIN units : units[u].text = << >>
        THEN Refusal("sir_malformed", TRUE)
    ELSE LET resolved == Assigned(source, units, attempt, enough)
         IN IF resolved.ok /\ ~ RecordValid(source, resolved.units)
                THEN Refusal("validation_rejected", TRUE)
                ELSE resolved

=============================================================================
