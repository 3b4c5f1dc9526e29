------------------------------ MODULE PIIVault ------------------------------
(***************************************************************************)
(* The token store of a session and the scan that decides what of a text     *)
(* goes into it (services/gateway/app/observability/pii.py).                 *)
(*                                                                         *)
(* A text is a sequence of cells, each a character, a token of the vault or   *)
(* the mark of a redaction.  What the regular expressions find in a text is   *)
(* an input: "found" holds the matches of the structured patterns in the      *)
(* order of PATTERNS and, within one, of the text; "hints" those of            *)
(* ADDRESS_HINT.  A span runs from one position up to, not including, the      *)
(* other.                                                                    *)
(***************************************************************************)
EXTENDS Naturals, Sequences, FiniteSets, SequencesExt

CONSTANTS
    Kinds,                 \* what a structured pattern finds: "PHONE", "PINCODE", ...
    MinAddressFragment     \* MIN_ADDRESS_FRAGMENT

ASSUME ScanAssumption == MinAddressFragment \in Nat \ {0} /\ "char" \notin Kinds

Char(c) == [kind |-> "char", n |-> c]
Token(kind, n) == [kind |-> kind, n |-> n]
Mark(kind) == [kind |-> kind, n |-> 0]

Span(from, to, kind) == [from |-> from, to |-> to, kind |-> kind]
Overlap(a, b) == a.from < b.to /\ a.to > b.from
OverlapsAny(a, claimed) == \E c \in claimed : Overlap(a, c)
Value(text, span) == SubSeq(text, span.from, span.to - 1)

AllKinds == Kinds \cup {"ADDRESS"}

(* What the patterns may find: matches that are not empty, of ADDRESS_HINT one *)
(* after the other, as finditer yields them.                                  *)
Characters == [kind : {"char"}, n : Nat]
Cells == [kind : AllKinds \cup {"char"}, n : Nat]
SpansOf(text, kinds) ==
    {span \in [from : 1..Len(text), to : 2..(Len(text) + 1), kind : kinds] : span.from < span.to}
IsUtterance(u) ==
    /\ u = [text |-> u.text, found |-> u.found, hints |-> u.hints]
    /\ u.text \in Seq(Characters)
    /\ u.found \in Seq(SpansOf(u.text, Kinds))
    /\ u.hints \in Seq(SpansOf(u.text, {"ADDRESS"}))
    /\ \A i, j \in 1..Len(u.hints) : i < j => u.hints[i].to <= u.hints[j].from

-----------------------------------------------------------------------------
(* _iter_matches *)

(* A structured match claims its span whole, or not at all. *)
Claim(claimed, match) ==
    IF OverlapsAny(match, claimed) THEN claimed ELSE claimed \cup {match}

Structured(u) == FoldLeft(Claim, {}, u.found)

(* Spans that do not overlap, by where they start. *)
InTextOrder(spans) ==
    CHOOSE q \in [1..Cardinality(spans) -> spans] :
       /\ \A span \in spans : \E i \in 1..Cardinality(spans) : q[i] = span
       /\ \A i, j \in 1..Cardinality(spans) : i < j => q[i].from < q[j].from

(* Mutant: an address is given up at the first claimed span inside it. *)
TrimOnce(hint, at, span) ==
    IF span.to <= at.cursor \/ span.from >= hint.to THEN at
    ELSE [cursor |-> hint.to, claimed |-> at.claimed]

(* The piece of an address before a claimed span, and where the next begins. *)
Trim(hint, at, span) ==
    IF span.to <= at.cursor \/ span.from >= hint.to THEN at
    ELSE [cursor  |-> IF span.to > at.cursor THEN span.to ELSE at.cursor,
          claimed |-> IF span.from >= at.cursor + MinAddressFragment
                      THEN at.claimed \cup {Span(at.cursor, span.from, "ADDRESS")}
                      ELSE at.claimed]

(* An address is trimmed around what the structured patterns have claimed. *)
ClaimAddress(structured, claimed, hint) ==
    LET at == FoldLeft(LAMBDA a, span : Trim(hint, a, span),
                       [cursor |-> hint.from, claimed |-> claimed], structured)
        tail == Span(at.cursor, hint.to, "ADDRESS")
    IN  IF hint.to >= at.cursor + MinAddressFragment /\ ~OverlapsAny(tail, at.claimed)
        THEN at.claimed \cup {tail} ELSE at.claimed

IterMatches(u) ==
    LET structured == InTextOrder(Structured(u))
    IN  FoldLeft(LAMBDA claimed, hint : ClaimAddress(structured, claimed, hint),
                 Structured(u), u.hints)

(* Matches are replaced from the end, so that the spans before stay valid. *)
FromTheEnd(u) == Reverse(InTextOrder(IterMatches(u)))

Replaced(text, span, cell) ==
    SubSeq(text, 1, span.from - 1) \o <<cell>> \o SubSeq(text, span.to, Len(text))

(* redact: irreversible, toward traces. *)
Redact(u) == FoldLeft(LAMBDA text, m : Replaced(text, m, Mark(m.kind)), u.text, FromTheEnd(u))

-----------------------------------------------------------------------------
(* PIIVault.  forward and reverse are dictionaries: functions on what they hold. *)

NewVault == [forward |-> <<>>, reverse |-> <<>>, counters |-> [k \in AllKinds |-> 0]]

Put(dict, key, value) ==
    [x \in DOMAIN dict \cup {key} |-> IF x = key THEN value ELSE dict[x]]
Without(dict, key) == Restrict(dict, DOMAIN dict \ {key})

(* A value that is known keeps its token, whatever kind it is found as now. *)
TokenizeValue(vault, kind, value) ==
    IF value \in DOMAIN vault.reverse
    THEN [vault |-> vault, token |-> vault.reverse[value]]
    ELSE LET token == Token(kind, vault.counters[kind] + 1)
         IN  [token |-> token,
              vault |-> [forward  |-> Put(vault.forward, token, value),
                         reverse  |-> Put(vault.reverse, value, token),
                         counters |-> [vault.counters EXCEPT ![kind] = @ + 1]]]

(* tokenize: reversible, toward the model. *)
TokenizeMatch(u, at, m) ==
    LET known == TokenizeValue(at.vault, m.kind, Value(u.text, m))
    IN  [text |-> Replaced(at.text, m, known.token), vault |-> known.vault]

Tokenize(u, vault) ==
    FoldLeft(LAMBDA at, m : TokenizeMatch(u, at, m), [text |-> u.text, vault |-> vault],
             FromTheEnd(u))

(* rehydrate: values hold no tokens, so the order of the replacements is free. *)
Rehydrate(text, vault) ==
    FlattenSeq([i \in 1..Len(text) |-> IF text[i] \in DOMAIN vault.forward
                                       THEN vault.forward[text[i]] ELSE <<text[i]>>])

-----------------------------------------------------------------------------
(* What a scan may leave in the clear, stated without the algorithm: a         *)
(* position in no match; one in structured matches that all overlap another   *)
(* structured match, at least as long; or one of an address's gaps between     *)
(* structured matches that is shorter than MIN_ADDRESS_FRAGMENT.               *)

Covers(span, i) == span.from <= i /\ i < span.to
Length(span) == span.to - span.from

(* "longer/more specific first so they win the overlap": what the order of       *)
(* PATTERNS is for, and what the matches of some texts do not keep to.        *)
LongerFirst(u) ==
    \A j \in 1..Len(u.found) : \A k \in 1..(j - 1) :
       Overlap(u.found[k], u.found[j]) => Length(u.found[k]) >= Length(u.found[j])

Outdone(u, j) ==
    \E k \in 1..Len(u.found) \ {j} :
       Overlap(u.found[k], u.found[j]) /\ Length(u.found[k]) >= Length(u.found[j])

ShortGap(u, hint, i) ==
    LET cut(p) == \E c \in Structured(u) : Covers(c, p)
        inside == {p \in hint.from..(hint.to - 1) : ~cut(p)}
        around == {p \in inside : \A q \in (IF p < i THEN p..i ELSE i..p) : q \in inside}
    IN  Cardinality(around) < MinAddressFragment

MayStayClear(u, i) ==
    /\ \A j \in 1..Len(u.found) : Covers(u.found[j], i) => Outdone(u, j)
    /\ \A j \in 1..Len(u.hints) :
          Covers(u.hints[j], i) =>
             \/ \E c \in Structured(u) : Covers(c, i)
             \/ ShortGap(u, u.hints[j], i)

(* The characters a scan leaves, by their position in the text. *)
Clear(u) == {i \in 1..Len(u.text) : ~\E m \in IterMatches(u) : Covers(m, i)}

CharactersOf(text) ==
    FlattenSeq([i \in 1..Len(text) |-> IF text[i].kind = "char" THEN <<text[i]>> ELSE <<>>])
CharactersAt(text, positions) ==
    FlattenSeq([i \in 1..Len(text) |-> IF i \in positions THEN <<text[i]>> ELSE <<>>])
=============================================================================
