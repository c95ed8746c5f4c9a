------------------------------ MODULE Candidates ------------------------------
(***************************************************************************)
(* Which documents the trigram index lets a search look at                 *)
(* (search-core/src/planner.rs and trigram.rs, search-index/src/engine.rs),*)
(* and which documents match.  The first must include the second: what is  *)
(* no candidate is never read.                                             *)
(*                                                                         *)
(* A document is a sequence of characters, ASCII ones, so that a character *)
(* is a byte and case folding is to_ascii_lowercase.  A posting list is    *)
(* the set of its documents.  The regex crate is external: a regex request *)
(* carries, beside its pattern, the words the pattern matches.             *)
(***************************************************************************)
EXTENDS Naturals, Sequences, FiniteSets, SequencesExt

CONSTANTS
  Docs,      \* documents of the index
  Chars,     \* characters
  Lower,     \* Lower[c]: c.to_ascii_lowercase()
  Newline,   \* the character that ends lines
  Content,   \* Content[d]: the text of document d
  Requests   \* the requests made

FilterKinds == {"exact_paths", "exact_names", "extensions", "path_substrings",
                "path_prefixes", "globs"}

(* A filter is the set of documents it lets through; so is named, which is *)
(* the path pattern of a path request.  The limit max_results may be more  *)
(* than all lines together.                                                *)
IsRequest(r) ==
  /\ r.kind \in {"literal", "regex", "path"}
  /\ r.pattern \in Seq(Chars) /\ r.pattern # <<>>
  /\ r.words \subseteq Seq(Chars)
  /\ r.insensitive \in BOOLEAN
  /\ r.filters \in [FilterKinds -> SUBSET SUBSET Docs]
  /\ r.named \subseteq Docs
  /\ r.max \in Nat

ASSUME CandidatesAssumption ==
  /\ IsFiniteSet(Docs)
  /\ Lower \in [Chars -> Chars]
  /\ Newline \in Chars
  /\ DOMAIN Content = Docs
  /\ \A d \in Docs : Content[d] \in Seq(Chars)
  /\ \A r \in Requests : IsRequest(r)

-----------------------------------------------------------------------------
(* What matches: build_matcher and match_lines.                            *)

Words(r) == IF r.kind = "literal" THEN {r.pattern} ELSE r.words

Alike(r, c, e) == IF r.insensitive THEN Lower[c] = Lower[e] ELSE c = e

(* Word w stands at position i of document d, within one line. *)
StandsAt(d, r, w, i) ==
  /\ i + Len(w) - 1 <= Len(Content[d])
  /\ \A k \in 1..Len(w) : /\ Content[d][i + k - 1] # Newline
                          /\ Alike(r, w[k], Content[d][i + k - 1])

LineOf(d, i) == Cardinality({j \in 1..(i - 1) : Content[d][j] = Newline})

MatchPositions(d, r) ==
  {i \in 1..Len(Content[d]) : \E w \in Words(r) : StandsAt(d, r, w, i)}

MatchingLines(d, r) == {LineOf(d, i) : i \in MatchPositions(d, r)}

LineCount(d, r) == Cardinality(MatchingLines(d, r))

(* path_matches_filters: what a direct scan looks at. *)
PathMatchesFilters(d, r) ==
  /\ \A k \in FilterKinds : r.filters[k] = {} \/ d \in UNION r.filters[k]
  /\ r.kind = "path" => d \in r.named

-----------------------------------------------------------------------------
(* extract_regex_literals reads a pattern from left to right.  Its mode    *)
(* says what the next character is part of; current is the literal so far. *)

RegexEscapes == {"A", "b", "B", "d", "D", "f", "n", "r", "s", "S", "t", "v",
                 "w", "W", "z"}
Flushing == {"(", ")", "|", "+", ".", "^", "$"}

Flushed(st) ==
  [st EXCEPT !.current = <<>>,
             !.seeds = IF Len(st.current) >= 2 THEN @ \cup {st.current} ELSE @]

(* What the previous character began may be absent. *)
OptionalKept(st) == Flushed(st)
Optional(st) ==
  IF st.current = <<>> THEN st ELSE Flushed([st EXCEPT !.current = Front(@)])

Enter(st, mode) == [st EXCEPT !.mode = mode]
Pushed(st, c) == [st EXCEPT !.current = Append(@, c)]

ReadPlain(st, c) ==
  CASE c = "\\"                 -> Enter(st, "escape")
    [] c = "["                  -> Enter(Flushed(st), "class")
    [] c = "{"                  -> Enter(st, "count")
    [] c \in {"?", "*"}         -> Optional(st)
    [] c \in Flushing           -> Flushed(st)
    [] OTHER                    -> Pushed(st, c)

ReadEscaped(st, c) ==
  Enter(IF c \in RegexEscapes THEN Flushed(st) ELSE Pushed(st, c), "plain")

ReadClass(st, c) ==
  CASE c = "\\" -> Enter(st, "classEscape")
    [] c = "]"  -> Enter(st, "plain")
    [] OTHER    -> st

(* The first character of a counted repetition decides: {0,...} makes the  *)
(* previous character optional.                                            *)
ReadCount(st, c) ==
  Enter(IF c = "0" THEN Optional(st) ELSE Flushed(st),
        IF c = "}" THEN "plain" ELSE "skip")

ReadChar(st, c) ==
  CASE st.mode = "plain"       -> ReadPlain(st, c)
    [] st.mode = "escape"      -> ReadEscaped(st, c)
    [] st.mode = "class"       -> ReadClass(st, c)
    [] st.mode = "classEscape" -> Enter(st, "class")
    [] st.mode = "count"       -> ReadCount(st, c)
    [] st.mode = "skip"        -> IF c = "}" THEN Enter(st, "plain") ELSE st

NothingRead == [mode |-> "plain", current |-> <<>>, seeds |-> {}]

(* Reading(pattern)[n]: what n characters lead to. *)
Reading(pattern) ==
  LET st[n \in 0..Len(pattern)] ==
        IF n = 0 THEN NothingRead ELSE ReadChar(st[n - 1], pattern[n])
  IN st

ExtractRegexLiterals(pattern) == Flushed(Reading(pattern)[Len(pattern)]).seeds

(* The seeds long enough for a trigram: without any, the plan is to scan.  *)
Seeds(r) == {s \in ExtractRegexLiterals(r.pattern) : Len(s) >= 3}

(* regex_has_unescaped_alternation *)
AfterChar(st, c) ==
  CASE st.mode = "escape"               -> [st EXCEPT !.mode = st.back]
    [] c = "\\"                         -> [st EXCEPT !.mode = "escape",
                                                      !.back = st.mode]
    [] st.mode = "plain" /\ c = "["     -> [st EXCEPT !.mode = "class"]
    [] st.mode = "class" /\ c = "]"     -> [st EXCEPT !.mode = "plain"]
    [] st.mode = "plain" /\ c = "|"     -> [st EXCEPT !.found = TRUE]
    [] OTHER                            -> st

HasAlternation(pattern) ==
  FoldLeft(AfterChar, [mode |-> "plain", back |-> "plain", found |-> FALSE],
           pattern).found

-----------------------------------------------------------------------------
(* What the index lets through: trigrams_from_bytes and the postings.      *)

Trigrams(text) ==
  {<<Lower[text[i]], Lower[text[i + 1]], Lower[text[i + 2]]>> :
     i \in 1..(Len(text) - 2)}

CaseSensitivePostings(seed) ==
  {d \in Docs : \E i \in 1..(Len(Content[d]) - Len(seed) + 1) :
                  \A k \in 1..Len(seed) : Content[d][i + k - 1] = seed[k]}

CandidatesForSeed(seed) ==
  IF Trigrams(seed) = {} THEN {}
  ELSE {d \in Docs : Trigrams(seed) \subseteq Trigrams(Content[d])}

(* path_filtered_docs: the union of each kind of filter, intersected.  The *)
(* pattern of a path request is one of its path_substrings.                *)
FiltersUnited(r) ==
  {d \in Docs : \/ \A k \in FilterKinds : r.filters[k] = {}
                \/ \E k \in FilterKinds : d \in UNION r.filters[k]}
PathFilteredDocs(r) ==
  LET items(k) == r.filters[k] \cup
                    (IF k = "path_substrings" /\ r.kind = "path" THEN {r.named}
                                                                 ELSE {})
  IN {d \in Docs : \A k \in FilterKinds : items(k) = {} \/ d \in UNION items(k)}

(* Seeds of an alternation are united, others are all required. *)
SeedsTogetherAll(r) ==
  {d \in Docs : \A s \in Seeds(r) : d \in CandidatesForSeed(s)}
SeedsTogether(r) ==
  IF HasAlternation(r.pattern)
  THEN {d \in Docs : \E s \in Seeds(r) : d \in CandidatesForSeed(s)}
  ELSE {d \in Docs : \A s \in Seeds(r) : d \in CandidatesForSeed(s)}

(* search, fast_index_candidates and legacy_index_candidates *)
CandidateDocs(r) ==
  PathFilteredDocs(r) \cap
    (IF r.kind = "literal" /\ Len(r.pattern) >= 3
     THEN CandidatesForSeed(r.pattern)
     ELSE IF r.kind = "regex" /\ Seeds(r) # {} THEN SeedsTogether(r) ELSE Docs)

-----------------------------------------------------------------------------
(* What the extraction owes the search: every word of an alternation has   *)
(* the trigrams of one seed, and every word of another pattern has those   *)
(* of all seeds.                                                           *)
SeedsRequired(r) ==
  r.kind = "regex" /\ Seeds(r) # {} =>
    /\ Seeds(r) \subseteq Seq(Chars)
    /\ \A w \in r.words :
         IF HasAlternation(r.pattern)
         THEN \E s \in Seeds(r) : Trigrams(s) \subseteq Trigrams(w)
         ELSE \A s \in Seeds(r) : Trigrams(s) \subseteq Trigrams(w)
=============================================================================
