----------------------------- MODULE LegalChunker -----------------------------
(***************************************************************************)
(* build_legal_chunks: the units and tables of one article become chunks   *)
(* that fit the token budget of the embedding model.                       *)
(*                                                                         *)
(* A word of the text is <<unit, position>>; every word, every breadcrumb  *)
(* and the heading of the repeated context count as one token. A phrase    *)
(* that cannot be broken is a run of words whose end is "glue".            *)
(***************************************************************************)
EXTENDS Integers, Sequences, FiniteSets, SequencesExt

CONSTANTS
    Shapes,      \* Shapes[a][n]: the units an article of shape a may have at n
    Tables,      \* Tables[a]: the tables it may have, with their header and rows
    MaxTokens,   \* ChunkingConfig.max_tokens
    TargetTokens,\* ChunkingConfig.target_tokens, the budget of tables
    PrefixLimit, \* the longest repeated context (320 characters)
    Blank        \* no clause, no label, no unit

ASSUME ChunkerAssumption ==
    /\ MaxTokens \in Nat \ {0} /\ TargetTokens \in 1..MaxTokens /\ PrefixLimit \in Nat \ {0}
    /\ DOMAIN Tables = DOMAIN Shapes
    /\ \A a \in DOMAIN Tables : \A t \in Tables[a] : t.header \in Nat /\ t.rows \in Seq(Nat)
    /\ \A a \in DOMAIN Shapes : Shapes[a] \in Seq(Range(Shapes[a]))
    /\ \A a \in DOMAIN Shapes : \A n \in DOMAIN Shapes[a] : \A unit \in Shapes[a][n] :
          unit.text # <<>> /\ unit.text \in Seq(Range(unit.text))

VARIABLES
    shape,    \* the shape of the article
    units,    \* its text units so far, in the order of the document
    table,    \* its table, or no rows and no header
    opening,  \* units before the first clause (preamble_units)
    groups,   \* clause groups: clause, occurrence and units
    orphans,  \* units that belong to no clause
    active,   \* the group that continuations belong to, or 0
    drafts,   \* chunks of the first phase
    segments, \* chunks of the table
    chunks,   \* final chunks
    at,       \* the next group or draft
    phase     \* what the builder does next, or how it ended

chunkerVars ==
    <<shape, units, table, opening, groups, orphans, active, drafts, segments, chunks, at, phase>>

-----------------------------------------------------------------------------
(* Lists and their pieces *)

FirstIn(S) == CHOOSE x \in S : \A y \in S : x <= y
LastIn(S) == CHOOSE x \in S : \A y \in S : y <= x

\* A list cut in front of each of these places
Pieces(s, places) ==
    LET pieces[n \in 0..Len(s)] ==
            IF n = 0 THEN <<>>
            ELSE IF n = 1 \/ n \in places THEN Append(pieces[n - 1], <<s[n]>>)
            ELSE [pieces[n - 1] EXCEPT ![Len(pieces[n - 1])] = Append(@, s[n])]
    IN pieces[Len(s)]

\* A list cut into pieces that each go on as long as joins[b, n] says that n
\* still joins the piece that begins at b
Greedy(s, joins) ==
    LET begin[n \in DOMAIN s] ==
            IF n > 1 /\ joins[begin[n - 1], n] THEN begin[n - 1] ELSE n
    IN Pieces(s, {n \in DOMAIN s : begin[n] = n})

-----------------------------------------------------------------------------
(* Texts and their cost *)

WordsOf(u) == [w \in 1..Len(units[u].text) |-> <<u, w>>]
EndOf(word) == units[word[1]].text[word[2]].end
Body(us) == FlattenSeq([i \in DOMAIN us |-> WordsOf(us[i])])

\* The article is always named; clause, points and context cost one line each.
Tokens(body, contexts, clause, labels) ==
    1 + Len(body) + Len(FlattenSeq(contexts))
      + (IF contexts # <<>> THEN 1 ELSE 0)
      + (IF clause # Blank THEN 1 ELSE 0) + (IF labels # <<>> THEN 1 ELSE 0)

Fits(body, contexts, clause, labels) == Tokens(body, contexts, clause, labels) <= MaxTokens
FitsIn(frame, body) == Fits(body, frame.contexts, frame.clause, frame.labels)

\* The labels of the points, each with its number among equal labels
Labels(us) == LET points == SelectSeq(us, LAMBDA u : units[u].type = "point")
              IN [i \in DOMAIN points |-> <<units[points[i]].label, units[points[i]].occurrence>>]

\* _point_context_prefix: up to the first end of a sentence or enumeration
ContextPrefix(text) ==
    LET ends == {i \in DOMAIN text : EndOf(text[i]) \in {"sentence", "semicolon", "colon"}}
    IN IF ends # {} /\ FirstIn(ends) <= PrefixLimit THEN SubSeq(text, 1, FirstIn(ends))
       ELSE SubSeq(text, 1, FirstIn({Len(text), PrefixLimit}))

-----------------------------------------------------------------------------
(* split_main_text_to_fit *)

\* The boundaries in order of preference
Boundaries ==
    <<{"sentence"}, {"semicolon"}, {"comma"}, {"sentence", "semicolon", "colon", "comma", "space"}>>

Cuts(text, ends, frame) ==
    {n \in 1..(Len(text) - 1) : EndOf(text[n]) \in ends /\ FitsIn(frame, SubSeq(text, 1, n))}

\* Without a boundary that fits the first phrase is broken where it fits, or
\* kept whole when the context alone fills the budget.
PhraseCut(text, frame) ==
    LET phrase == FirstIn({n \in DOMAIN text : EndOf(text[n]) # "glue" \/ n = Len(text)})
        broken == {n \in 1..phrase : FitsIn(frame, SubSeq(text, 1, n))}
    IN IF broken # {} THEN LastIn(broken) ELSE phrase

CutOf(text, frame) ==
    IF FitsIn(frame, text) THEN Len(text)
    ELSE LET strong == {b \in DOMAIN Boundaries : Cuts(text, Boundaries[b], frame) # {}}
         IN IF strong # {} THEN LastIn(Cuts(text, Boundaries[FirstIn(strong)], frame))
            ELSE PhraseCut(text, frame)

\* Each part goes on to where the rest of the text is cut next.
SplitText(text, frame) ==
    Greedy(text, [b, n \in DOMAIN text |-> n < b + CutOf(SubSeq(text, b, Len(text)), frame)])

-----------------------------------------------------------------------------
(* Chunks *)

Draft(kind, clause, occurrence, us, lead) ==
    [kind |-> kind, clause |-> clause, occurrence |-> occurrence, units |-> us,
     labels |-> IF kind \in {"clause", "points"} THEN Labels(us) ELSE <<>>, lead |-> lead,
     over |-> kind \in {"lead", "unbroken", "article_over"}
              \/ ~Fits(Body(lead \o us), <<>>, clause,
                       IF kind = "points" THEN Labels(us) ELSE <<>>)]

Chunk(kind, clause, occurrence, labels, segment, primary, contexts, ids, origin, sub, parent) ==
    [sub |-> sub, parent |-> parent,
     key |-> [kind |-> kind, clause |-> clause, occurrence |-> occurrence,
              labels |-> labels, segment |-> segment],
     primary |-> primary, contexts |-> contexts, ids |-> ids, origin |-> origin,
     tokens |-> Tokens(primary, contexts, clause, labels)]

\* A group of points repeats the lead of its clause in front of the points.
Whole(d, n) ==
    Chunk(IF d.kind \in {"article", "preamble"} THEN d.kind ELSE "part",
          d.clause, d.occurrence, d.labels, 0, Body(d.lead \o d.units), <<>>,
          Range(d.lead \o d.units), n, Blank, 0)

-----------------------------------------------------------------------------
(* Reading the units: _group_text_units *)

NoTable == [header |-> 0, rows |-> <<>>]

ChunkerInit ==
    /\ shape \in DOMAIN Shapes
    /\ units = <<>> /\ table \in Tables[shape] \cup {NoTable}
    /\ opening = <<>> /\ groups = <<>> /\ orphans = <<>> /\ active = 0
    /\ drafts = <<>> /\ segments = <<>> /\ chunks = <<>> /\ at = 1 /\ phase = "reading"

NextUnits == IF Len(units) < Len(Shapes[shape]) THEN Shapes[shape][Len(units) + 1] ELSE {}

\* A point goes to the active clause or to the last one with its number.
GroupOfPoint(unit) ==
    IF active # 0 /\ groups[active].clause = unit.clause THEN active
    ELSE LET same == {g \in DOMAIN groups : groups[g].clause = unit.clause}
         IN IF same = {} THEN 0 ELSE LastIn(same)

AddToGroup(g, n) == groups' = [groups EXCEPT ![g].units = Append(@, n)]

ReadUnit ==
    /\ phase = "reading"
    /\ \E unit \in NextUnits : LET n == Len(units) + 1 IN
        /\ units' = Append(units, unit)
        /\ opening' = IF unit.type = "preamble" THEN Append(opening, n) ELSE opening
        /\ active' = IF unit.type = "clause" THEN Len(groups) + 1 ELSE active
        /\ CASE unit.type = "preamble" -> UNCHANGED <<groups, orphans>>
             [] unit.type = "clause" ->
                    /\ groups' = Append(groups, [clause |-> unit.clause,
                                                 occurrence |-> unit.occurrence, units |-> <<n>>])
                    /\ UNCHANGED orphans
             [] unit.type = "clause_continuation" /\ active # 0 ->
                    AddToGroup(active, n) /\ UNCHANGED orphans
             [] unit.type = "point" /\ GroupOfPoint(unit) # 0 ->
                    AddToGroup(GroupOfPoint(unit), n) /\ UNCHANGED orphans
             [] OTHER -> orphans' = Append(orphans, n) /\ UNCHANGED groups
    /\ UNCHANGED <<shape, table, drafts, segments, chunks, at, phase>>

-----------------------------------------------------------------------------
(* First phase: the structure decides *)

AllUnits == [i \in DOMAIN units |-> i]

\* A short article is one chunk; otherwise its opening joins the first clause
\* if both fit together.
StartArticle ==
    /\ phase = "reading"
    /\ IF units = <<>> THEN phase' = "tables" /\ UNCHANGED <<drafts, groups>>
       ELSE IF Fits(Body(AllUnits), <<>>, Blank, <<>>)
       THEN /\ drafts' = <<Draft("article", Blank, 1, AllUnits, <<>>)>>
            /\ phase' = "tables" /\ UNCHANGED groups
       ELSE /\ phase' = "groups"
            /\ IF opening # <<>> /\ groups # <<>>
               THEN IF Fits(Body(opening \o groups[1].units), <<>>, groups[1].clause, <<>>)
                    THEN groups' = [groups EXCEPT ![1].units = opening \o @] /\ UNCHANGED drafts
                    ELSE drafts' = <<Draft("preamble", Blank, 1, opening, <<>>)>> /\ UNCHANGED groups
               ELSE /\ drafts' = IF opening # <<>>
                                 THEN <<Draft("article_over", Blank, 1, opening, <<>>)>> ELSE <<>>
                    /\ UNCHANGED groups
    /\ UNCHANGED <<shape, units, table, opening, orphans, active, segments, chunks, at>>

\* Blocks are gathered as long as they fit behind the lead of the clause.
Gather(blocks, lead, clause) ==
    LET gathered(b, n) == FlattenSeq(SubSeq(blocks, b, n))
        groupsOf == Greedy(blocks, [b, n \in DOMAIN blocks |->
                        Fits(Body(lead \o gathered(b, n)), <<>>, clause, Labels(gathered(b, n)))])
    IN [i \in DOMAIN groupsOf |-> FlattenSeq(groupsOf[i])]

\* The lead of a clause stands before its first point; a block is a point with
\* the continuations that follow it.
DraftsOf(g) ==
    LET pointsOf(us) == {i \in DOMAIN us : units[us[i]].type = "point"}
        first == FirstIn(pointsOf(g.units))
        lead == SubSeq(g.units, 1, first - 1)
        rest == SubSeq(g.units, first, Len(g.units))
        long == ~Fits(Body(lead), <<>>, g.clause, <<>>)
        gathered == Gather(Pieces(rest, pointsOf(rest)), IF long THEN <<>> ELSE lead, g.clause)
    IN CASE Fits(Body(g.units), <<>>, g.clause, Labels(g.units)) ->
                <<Draft("clause", g.clause, g.occurrence, g.units, <<>>)>>
         [] pointsOf(g.units) = {} ->
                <<Draft("unbroken", g.clause, g.occurrence, g.units, <<>>)>>
         [] OTHER ->
                (IF long THEN <<Draft("lead", g.clause, g.occurrence, lead, <<>>)>> ELSE <<>>)
                \o [b \in DOMAIN gathered |->
                        Draft("points", g.clause, g.occurrence, gathered[b],
                              IF long THEN <<>> ELSE lead)]

ChunkGroup ==
    /\ phase = "groups" /\ at <= Len(groups)
    /\ drafts' = drafts \o DraftsOf(groups[at])
    /\ at' = at + 1
    /\ UNCHANGED <<shape, units, table, opening, groups, orphans, active, segments, chunks, phase>>

Covered == UNION {Range(drafts[i].lead \o drafts[i].units) : i \in DOMAIN drafts}

ChunkOrphans ==
    /\ phase = "groups" /\ at > Len(groups)
    /\ drafts' = IF orphans # <<>> THEN Append(drafts, Draft("orphan", Blank, 1, orphans, <<>>))
                 ELSE drafts
    /\ phase' = IF Covered \cup Range(orphans) = DOMAIN units THEN "tables" ELSE "lost"
    /\ UNCHANGED <<shape, units, table, opening, groups, orphans, active, segments, chunks, at>>

-----------------------------------------------------------------------------
(* Tables: _build_table_chunks. A cell word is <<row, position>>. *)

RowWords(r) == [w \in 1..table.rows[r] |-> <<r, w>>]
TableTokens(words) == 1 + table.header + Len(words)
InTarget(words) == TableTokens(words) <= TargetTokens
InMax(words) == TableTokens(words) <= MaxTokens
RowsText(rs) == FlattenSeq([i \in DOMAIN rs |-> RowWords(rs[i])])

\* split_row_text: words are gathered up to the target; one that fits only
\* the maximum stands alone.
SplitRow(words) == Greedy(words, [b, n \in DOMAIN words |-> InTarget(SubSeq(words, b, n))])

\* Whole rows are gathered up to the target; a row that does not fit alone is
\* split and the next row starts a segment of its own.
AllRows == [r \in DOMAIN table.rows |-> r]
GatherRows ==
    LET gathered == Greedy(AllRows, [b, n \in DOMAIN AllRows |-> InTarget(RowsText(SubSeq(AllRows, b, n)))])
        text(g) == RowsText(gathered[g])
    IN FlattenSeq([g \in DOMAIN gathered |->
            IF InTarget(text(g)) THEN <<text(g)>> ELSE SplitRow(text(g))])

\* A header beyond the target is repeated for each row as long as the whole
\* table fits the maximum.
TableSegments ==
    LET all == RowsText(AllRows)
    IN IF InTarget(all) THEN <<all>>
       ELSE IF ~InTarget(<<>>) /\ InMax(all)
            THEN IF table.rows = <<>> THEN <<<<>>>>
                 ELSE [r \in DOMAIN table.rows |-> RowWords(r)]
            ELSE GatherRows

\* A header that leaves no room for one word stops the build.
ChunkTables ==
    /\ phase = "tables"
    /\ segments' = IF table = NoTable THEN <<>> ELSE TableSegments
    /\ phase' = IF InMax(<<>>) /\ \A i \in DOMAIN segments' : InMax(segments'[i])
                THEN "splitting" ELSE "table_refused"
    /\ at' = 1
    /\ UNCHANGED <<shape, units, table, opening, groups, orphans, active, drafts, chunks>>

-----------------------------------------------------------------------------
(* Second phase: drafts that are too long are split into segments *)

Marks(u) == {w \in DOMAIN units[u].text : units[u].text[w].sub # Blank}

Item(u, words, label, prefix, parent, sub) ==
    [unit |-> u, type |-> units[u].type, words |-> words,
     label |-> label, prefix |-> prefix, parent |-> parent, sub |-> sub]

\* Mutant: a point is replaced by its subpoints.
SubpointsOnly(u) ==
    LET pieces == Pieces(WordsOf(u), Marks(u))
        prefix == IF 1 \in Marks(u) THEN <<>> ELSE pieces[1]
        before == IF Marks(u) = {} \/ prefix = <<>> THEN 0 ELSE 1
    IN [i \in 1..(Len(pieces) - before) |->
            LET begin == pieces[i + before][1][2]
            IN IF begin \in Marks(u)
               THEN Item(u, pieces[i + before], units[u].label, prefix, u, units[u].text[begin].sub)
               ELSE Item(u, pieces[i + before], units[u].label, <<>>, 0, Blank)]

\* split_point_into_subpoints: what stands before the first subpoint is an
\* item of its own and the context of every subpoint.
PointItems(u) ==
    LET pieces == Pieces(WordsOf(u), Marks(u))
        prefix == IF 1 \in Marks(u) THEN <<>> ELSE pieces[1]
    IN [i \in DOMAIN pieces |->
            LET begin == pieces[i][1][2]
            IN IF begin \in Marks(u)
               THEN Item(u, pieces[i], units[u].label, prefix, u, units[u].text[begin].sub)
               ELSE Item(u, pieces[i], units[u].label, <<>>, 0, Blank)]

\* _index_subpoint_parents: a line that opens with a subpoint number belongs
\* to the last point of that letter in the same clause.
ParentPoint(u) ==
    LET since == {i \in 1..u : units[i].type = "clause"}
        parents == {i \in 1..u :
            /\ units[i].type = "point" /\ units[i].clause = units[u].clause
            /\ units[i].label = units[u].text[1].of
            /\ \A c \in since : c < i}
    IN IF units[u].text[1].sub = Blank \/ parents = {} THEN 0 ELSE LastIn(parents)

LineItem(u) ==
    LET p == ParentPoint(u)
    IN Item(u, WordsOf(u), IF p # 0 THEN units[p].label ELSE Blank,
            IF p # 0 THEN WordsOf(p) ELSE <<>>, p, units[u].text[1].sub)

\* The clause of a group of points is context and not text of its segments.
Items(d) ==
    LET us == d.lead \o d.units
    IN FlattenSeq([i \in DOMAIN us |->
            CASE units[us[i]].type = "point" -> PointItems(us[i])
              [] d.kind = "points" /\ units[us[i]].type = "clause" -> <<>>
              [] OTHER -> <<LineItem(us[i])>>])

\* The clause that a draft stands in: the one with its occurrence, or else the
\* first with its number
IntroUnit(d) ==
    LET named == {u \in DOMAIN units : units[u].type = "clause" /\ units[u].clause = d.clause}
        exact == {u \in named : units[u].occurrence = d.occurrence}
    IN IF d.clause = Blank \/ named = {} THEN 0
       ELSE IF exact # {} THEN FirstIn(exact) ELSE FirstIn(named)

Intro(d) == IF IntroUnit(d) = 0 THEN <<>> ELSE ContextPrefix(WordsOf(IntroUnit(d)))

Distinct(s) == FoldLeft(LAMBDA acc, x : IF x \in Range(acc) THEN acc ELSE Append(acc, x), <<>>, s)

Given(s, none) == SelectSeq(s, LAMBDA x : x # none)

\* What a segment repeats: its clause, and the points its items continue
ContextsOf(d, items) ==
    (IF Intro(d) # <<>> /\ \E i \in DOMAIN items : items[i].type # "clause"
     THEN <<Intro(d)>> ELSE <<>>)
    \o Distinct(Given([i \in DOMAIN items |-> items[i].prefix], <<>>))

LabelsOf(items) == Distinct(Given([i \in DOMAIN items |-> items[i].label], Blank))

TextOf(items) == FlattenSeq([i \in DOMAIN items |-> items[i].words])

ItemsFit(d, items) ==
    Fits(TextOf(items), ContextsOf(d, items), d.clause, LabelsOf(items))

\* Later parts of a point repeat how the point begins, and every part leaves
\* room for it.
SplitItem(d, item) ==
    IF ItemsFit(d, <<item>>) THEN <<item>>
    ELSE LET again == IF item.type = "point" /\ item.sub = Blank
                      THEN ContextPrefix(item.words) ELSE <<>>
             contexts == ContextsOf(d, <<item>>) \o (IF again # <<>> THEN <<again>> ELSE <<>>)
             parts == SplitText(item.words, [contexts |-> contexts, clause |-> d.clause,
                                             labels |-> LabelsOf(<<item>>)])
         IN [p \in DOMAIN parts |->
                [item EXCEPT !.words = parts[p],
                             !.prefix = IF @ # <<>> \/ p = 1 THEN @ ELSE again]]

\* Clauses, points and subpoints never share a segment.
Apart(a, b) ==
    \/ a.type = "clause" \/ b.type = "clause"
    \/ a.sub # b.sub \/ a.parent # b.parent

Pack(d, items) ==
    Greedy(items, [b, n \in DOMAIN items |->
                     ~Apart(items[n - 1], items[n]) /\ ItemsFit(d, SubSeq(items, b, n))])

\* dict(zip(labels, occurrences)): of equal labels the last one counts.
OccurrenceIn(d, label) ==
    LET same == {i \in DOMAIN d.labels : d.labels[i][1] = label}
    IN IF same = {} THEN 1 ELSE d.labels[LastIn(same)][2]

ContextIds(d, items) ==
    ({IntroUnit(d) : i \in {j \in DOMAIN items : items[j].type # "clause"}} \ {0}) \cup
    {IF items[i].parent # 0 THEN items[i].parent ELSE items[i].unit :
        i \in {j \in DOMAIN items : items[j].prefix # <<>>}}

Segment(d, items, n, origin) ==
    Chunk("part", d.clause, d.occurrence,
          [i \in DOMAIN LabelsOf(items) |->
                <<LabelsOf(items)[i], OccurrenceIn(d, LabelsOf(items)[i])>>],
          n, TextOf(items), ContextsOf(d, items),
          {items[i].unit : i \in DOMAIN items} \cup ContextIds(d, items), origin,
          items[1].sub, items[1].parent)

SegmentsOf(d, origin) ==
    LET items == Items(d)
        groupsOf == Pack(d, FlattenSeq([i \in DOMAIN items |-> SplitItem(d, items[i])]))
    IN [n \in DOMAIN groupsOf |-> Segment(d, groupsOf[n], n, origin)]

SplitDraft ==
    /\ phase = "splitting" /\ at <= Len(drafts)
    /\ chunks' = chunks \o (IF drafts[at].over THEN SegmentsOf(drafts[at], at)
                            ELSE <<Whole(drafts[at], at)>>)
    /\ at' = at + 1
    /\ UNCHANGED <<shape, units, table, opening, groups, orphans, active, drafts, segments, phase>>

\* A unit counts as kept when a chunk names it, as text or as context.
NamedUnits == UNION {chunks[i].ids : i \in DOMAIN chunks}

\* Finally every unit is named by a chunk, as text or as context, and every
\* key is unique, or the build stops.
Finish ==
    /\ phase = "splitting" /\ at > Len(drafts)
    /\ phase' = CASE NamedUnits # DOMAIN units -> "lost"
                  [] ~IsInjective([i \in DOMAIN chunks |-> chunks[i].key]) -> "duplicate_key"
                  [] OTHER -> "built"
    /\ UNCHANGED <<shape, units, table, opening, groups, orphans, active, drafts, segments, chunks, at>>

-----------------------------------------------------------------------------
(* validate_chunks: what it recomputes from the article *)

IsSegment(c) == c.key.kind = "part" /\ (c.key.segment > 0 \/ c.key.clause = Blank)

\* A subpoint names its point and repeats it; what is repeated is the beginning
\* of the point, so that a line of it is visible.
SubpointOrphaned(c) ==
    \/ (c.sub = Blank) # (c.parent = 0)
    \/ /\ c.parent # 0
       /\ \/ units[c.parent].label \notin {c.key.labels[i][1] : i \in DOMAIN c.key.labels}
          \/ c.parent \notin {c.contexts[i][1][1] : i \in DOMAIN c.contexts}

\* A segment with point labels opens with a point or repeats one.
PointUnseen(c) ==
    /\ IsSegment(c) /\ c.key.labels # <<>>
    /\ Cardinality({i \in DOMAIN c.contexts : units[c.contexts[i][1][1]].type = "point"}) = 0
    /\ LET first == c.primary[1]
           unit == units[first[1]]
           label == IF unit.text[first[2]].sub # Blank THEN unit.text[first[2]].of
                    ELSE IF unit.type = "point" /\ first[2] = 1 THEN unit.label ELSE Blank
       IN \A i \in DOMAIN c.key.labels : c.key.labels[i][1] # label

\* Segments that differ in their number only say all of the units they name,
\* in order.
Reconstructed(c) ==
    LET family == SelectSeq(chunks, LAMBDA e : IsSegment(e) /\
                        [e.key EXCEPT !.segment = 0] = [c.key EXCEPT !.segment = 0])
        said == FlattenSeq([i \in DOMAIN family |-> family[i].primary])
    IN said = Body(Distinct([i \in DOMAIN said |-> said[i][1]]))

\* Every key is there once and every chunk says something; the header of a
\* table counts in each of its segments.
KeysDistinct == IsInjective([i \in DOMAIN chunks |-> chunks[i].key])

BodiesFilled == \A i \in DOMAIN chunks : chunks[i].primary \o FlattenSeq(chunks[i].contexts) # <<>>

WithinBudget ==
    /\ \A i \in DOMAIN chunks : chunks[i].tokens <= MaxTokens
    /\ \A i \in DOMAIN segments : InMax(segments[i])

\* Neither the article, nor a unit, nor the table may be missing.
NothingMissing ==
    /\ chunks # <<>> \/ segments # <<>>
    /\ NamedUnits = DOMAIN units

TableKept == table # NoTable => segments # <<>>

Accepted ==
    /\ KeysDistinct /\ BodiesFilled /\ WithinBudget /\ NothingMissing /\ TableKept
    /\ \A i \in DOMAIN chunks :
          /\ ~SubpointOrphaned(chunks[i]) /\ ~PointUnseen(chunks[i])
          /\ IsSegment(chunks[i]) => Reconstructed(chunks[i])

ValidateChunks ==
    /\ phase = "built"
    /\ phase' = IF Accepted THEN "accepted" ELSE "rejected"
    /\ UNCHANGED <<shape, units, table, opening, groups, orphans, active, drafts, segments, chunks, at>>

ChunkerNext ==
    \/ ReadUnit \/ StartArticle \/ ChunkGroup \/ ChunkOrphans \/ ChunkTables
    \/ SplitDraft \/ Finish \/ ValidateChunks

-----------------------------------------------------------------------------

Built == phase \in {"built", "duplicate_key", "accepted", "rejected"}

\* What the chunks made from draft o say, and what they say of unit u
Primaries(o) ==
    FlattenSeq([i \in DOMAIN chunks |-> IF chunks[i].origin = o THEN chunks[i].primary ELSE <<>>])
Keep(text, u) == FlattenSeq([w \in DOMAIN text |-> IF text[w][1] = u THEN <<text[w]>> ELSE <<>>])
Said(o, u) == Keep(Primaries(o), u)

\* No word is lost or displaced on the way from the units to the chunks: the
\* chunks of every draft that says anything of a unit say all of it in order,
\* and every unit but a clause is said by some draft. The rows of the table
\* are all there, in order.
TextKept ==
    /\ Built => \A u \in DOMAIN units :
        LET said == {o \in DOMAIN drafts : Said(o, u) # <<>>}
        IN /\ units[u].type # "clause" => said # {}
           /\ \A o \in said : Said(o, u) = WordsOf(u)
    /\ phase \notin {"reading", "groups", "tables"} =>
        FlattenSeq(segments) = RowsText(AllRows)

\* What the comment of the coverage check says of the units counted as
\* preserved: the chunks hold them in full, be it as repeated context.
ContextIsExact ==
    phase = "accepted" => \A u \in DOMAIN units :
        \E i \in DOMAIN chunks : u \in chunks[i].ids /\
            \A w \in Range(WordsOf(u)) :
                \E j \in DOMAIN chunks : w \in Range(chunks[j].primary \o FlattenSeq(chunks[j].contexts))
=============================================================================
