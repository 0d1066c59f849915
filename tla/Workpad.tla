------------------------------- MODULE Workpad -------------------------------
(***************************************************************************)
(* The text of a Shea Symphony workpad comment and the merge that every    *)
(* upsert applies to it (src/tracker/workpad.rs).  A body is a sequence of *)
(* entries, separated by `---` in the comment; an entry has an H2 heading  *)
(* (or none) and H3 sections; a section has a text and may hold the two    *)
(* marked blocks that exist at most once in a workpad, the runtime         *)
(* ownership block and the workspace adoption block.  The marker line of   *)
(* the comment is kept by Tracker.tla: every body here is a marked one.    *)
(***************************************************************************)
EXTENDS Integers, Sequences, SequencesExt

CONSTANTS NoHeading,   \* the entry has no H2 line
          NoText,      \* the section is empty once trimmed
          NoBlock,     \* the section holds no marked block of that kind
          Begins       \* the pairs of different texts of which the second starts with the first

-----------------------------------------------------------------------------
(* Entries and sections.                                                   *)

CanonicalHeadings == {"Shea Symphony Workpad", "Workpad"}

IsCanonical(e) == e.h2 \in CanonicalHeadings

Section(k, t) == [key |-> k, text |-> t, own |-> NoBlock, adopt |-> NoBlock]

Entry(h, secs) == [h2 |-> h, secs |-> secs]

EmptyEntry(e) ==
    /\ e.h2 = NoHeading
    /\ \A i \in DOMAIN e.secs :
           e.secs[i].text = NoText /\ e.secs[i].own = NoBlock /\ e.secs[i].adopt = NoBlock

\* The H2 line with the first H3 line after it; an entry without H2 has no key.
EntryKey(e) == <<e.h2, IF e.secs = <<>> THEN NoHeading ELSE e.secs[1].key>>

TextBegins(t, u) == t = u \/ t = NoText \/ <<t, u>> \in Begins

\* A section is its text and then its blocks, each with a closing marker.
SectionBegins(s, u) ==
    /\ s.key = u.key
    /\ IF s.own = NoBlock /\ s.adopt = NoBlock THEN TextBegins(s.text, u.text)
       ELSE s.text = u.text /\ s.own = u.own /\ s.adopt \in {NoBlock, u.adopt}

\* The entry occurs in the body, as a piece of its text: it starts at its heading, or, if
\* it has none, at any section, and may end within a text that goes on.
TextOccurs(body, e) ==
    \E i \in DOMAIN body :
        \E k \in 0..(Len(body[i].secs) - Len(e.secs)) :
            /\ e.h2 # NoHeading => k = 0 /\ body[i].h2 = e.h2
            /\ \A j \in DOMAIN e.secs :
                   IF j = Len(e.secs) THEN SectionBegins(e.secs[j], body[i].secs[k + j])
                   ELSE e.secs[j] = body[i].secs[k + j]

-----------------------------------------------------------------------------
(* The marked blocks.                                                      *)

HoldsBlock(e, f) == \E j \in DOMAIN e.secs : e.secs[j][f] # NoBlock

HasBlock(body, f) == \E i \in DOMAIN body : HoldsBlock(body[i], f)

FirstBlock(body, f) ==
    LET i == SelectInSeq(body, LAMBDA e : HoldsBlock(e, f))
    IN  <<i, SelectInSeq(body[i].secs, LAMBDA s : s[f] # NoBlock)>>

Block(body, f) == LET p == FirstBlock(body, f) IN body[p[1]].secs[p[2]][f]

SetBlock(body, f, v) ==
    LET p == FirstBlock(body, f) IN [body EXCEPT ![p[1]].secs[p[2]][f] = v]

\* One kind of block: the incoming block takes the place of the existing one and
\* leaves the incoming text; without an existing one it stays in the incoming
\* text, unless this kind is stripped when it is missing.
ReplaceBlock(pair, f, stripWhenMissing) ==
    IF ~HasBlock(pair.incoming, f) THEN pair
    ELSE LET stripped == SetBlock(pair.incoming, f, NoBlock)
         IN  IF HasBlock(pair.merged, f)
             THEN [merged   |-> SetBlock(pair.merged, f, Block(pair.incoming, f)),
                   incoming |-> stripped]
             ELSE [pair EXCEPT !.incoming = IF stripWhenMissing THEN stripped ELSE @]

ReplaceSingletons(existing, incoming) ==
    LET start == [merged |-> existing, incoming |-> incoming]
        owned == IF \E i \in DOMAIN incoming : IsCanonical(incoming[i])
                 THEN start
                 ELSE ReplaceBlock(start, "own", TRUE)
    IN  ReplaceBlock(owned, "adopt", FALSE)

-----------------------------------------------------------------------------
(* Entries are merged one by one.                                          *)

MergeSection(secs, s) ==
    LET i == SelectInSeq(secs, LAMBDA t : t.key = s.key)
    IN  IF i = 0 THEN Append(secs, s) ELSE [secs EXCEPT ![i] = s]

MergeSections(secs, new) == FoldLeft(MergeSection, secs, new)

\* Every canonical or legacy entry is folded into one, which moves to the end.
MergeCanonical(body, e) ==
    LET canonical == SelectSeq(body, IsCanonical)
        others    == SelectSeq(body, LAMBDA o : ~IsCanonical(o))
        secs      == FoldLeft(LAMBDA acc, o : MergeSections(acc, o.secs), <<>>,
                              Append(canonical, e))
    IN  Append(others, Entry("Shea Symphony Workpad", secs))

\* The first entry with the key is replaced and later ones are dropped.
ReplaceOrAppend(body, e) ==
    LET Matches(o) == o.h2 # NoHeading /\ EntryKey(o) = EntryKey(e)
        first      == SelectInSeq(body, Matches)
    IN  IF first = 0
        THEN Append(body, e)
        ELSE SubSeq(body, 1, first - 1) \o <<e>>
                 \o SelectSeq(SubSeq(body, first + 1, Len(body)),
                              LAMBDA o : ~Matches(o))

MergeEntry(body, e) ==
    IF EmptyEntry(e) \/ TextOccurs(body, e) THEN body
    ELSE IF e.h2 = NoHeading THEN Append(body, e)
    ELSE IF IsCanonical(e) THEN MergeCanonical(body, e)
    ELSE ReplaceOrAppend(body, e)

\* Mutant of MergeBody: the upsert overwrites the comment with the new text.
MutOverwrite(existing, incoming) == incoming

MergeBody(existing, incoming) ==
    LET pair == ReplaceSingletons(existing, incoming)
    IN  FoldLeft(MergeEntry, pair.merged, pair.incoming)

-----------------------------------------------------------------------------
(* What a reader of the workpad finds.                                     *)

CanonicalCount(body) == Len(SelectSeq(body, IsCanonical))

\* The texts under one section key of the entries with heading h; the canonical and
\* the legacy heading name the same entry.
SectionTexts(body, h, k) ==
    UNION {{s.text : s \in {t \in ToSet(e.secs) : t.key = k}} :
              e \in {o \in ToSet(body) : o.h2 = h \/ ({o.h2, h} \subseteq CanonicalHeadings)}}

=============================================================================
