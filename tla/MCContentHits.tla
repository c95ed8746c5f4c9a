---------------------------- MODULE MCContentHits ----------------------------
(* Model-checking instance of ContentHits and Routing: four documents,     *)
(* three threads and requests of every kind.  Only A has a lower case of   *)
(* its own, a.                                                             *)
EXTENDS Routing

CONSTANTS d1, d2, d3, d4, t1, t2, t3

MCDocs == {d1, d2, d3, d4}
MCThreads == {t1, t2, t3}

MCLetters == {"a", "b", "c", "A", "n", "w"}
MCDash == "-"
MCChars == MCLetters \cup {MCDash, "v", ">","\\", "[", "]", "(", ")", "|", "?", "*", "+", "{",
                           "}", ".", "^", "$", "0", "1", "2", ",", ":", "/"}
MCNewline == "/"
MCLower == [c \in MCChars |-> IF c = "A" THEN "a" ELSE c]

MCContent ==
  [d \in MCDocs |->
     CASE d = d1 -> <<"a", "b", "c", "/", "n", "/",
                      "A", "b", "c", "c", "b", "a">>
       [] d = d2 -> <<"c", "a", "b", "b", "a", "/", "a", "b", "c">>
       [] d = d3 -> <<"c", "b", "a", "a", "/", "b", "c", "n", "a", "a", "a">>
       [] OTHER  -> <<"a", "b", "/", "c", "b", "/", "-", "v">>]

AllDocs == [k \in FilterKinds |-> {}]
Req(kind, pattern, words, insensitive, filters, max) ==
  [kind |-> kind, pattern |-> pattern, words |-> words,
   insensitive |-> insensitive, filters |-> filters, named |-> {d1, d2},
   max |-> max]
Regex(pattern, words) == Req("regex", pattern, words, FALSE, AllDocs, 9)

(* The words a dot or a class between two literals stands for. *)
Around(prefix, set, suffix) == {prefix \o <<c>> \o suffix : c \in set}

MCPlain ==
  LET abc == <<"a", "b", "c">>
      some == [AllDocs EXCEPT !["extensions"] = {{d1}, {d2}},
                              !["exact_names"] = {{d2, d3}}]
  IN { Req("literal", abc, {}, FALSE, AllDocs, 9),
       Req("literal", abc, {}, TRUE, AllDocs, 9),
       Req("literal", <<"a">>, {}, TRUE, AllDocs, 3),
       Req("literal", <<"c", "b", "a">>, {}, FALSE, some, 9),
       Req("literal", <<"c", "/", "n">>, {}, FALSE, AllDocs, 9),
       Req("literal", abc, {}, TRUE, AllDocs, 1),
       Req("literal", abc, {}, TRUE, AllDocs, 2),
       Req("literal", abc, {}, TRUE, AllDocs, 0),
       Req("path", abc, {}, FALSE, AllDocs, 9),
       Req("path", abc, {}, FALSE, some, 9) }

(* Sizes below, at and above the bounds of the categories.                 *)
MCSizes ==
  {[files |-> f, mib |-> 1] : f \in {4999, 5000, 50000, 500001}}
    \cup {[files |-> 9, mib |-> m] : m \in {200, 2047, 20481}}

(* The requests of the tools, and filters ripgrep knows nothing of.        *)
MCTools ==
  LET ab == <<"a", "b">>
      part(k) == [NoFilters EXCEPT ![k] = {{d1, d3}}]
  IN { SearchContent("literal", ab, {}, limit) : limit \in {0, 3, 9} } \cup
     { SearchContent("literal", <<"-", c>>, {}, 9) : c \in {"v", ">"} } \cup
     { SearchPathAndContent("literal", {d2, d4}, ab, {}, 9),
       FindFiles(<<"a", "b", "c">>, {d1, d4}, 9), FindFiles(ab, {d1, d2, d4}, 2),
       Req("literal", ab, {}, FALSE, part("path_substrings"), 9),
       Req("path", ab, {}, FALSE, part("path_substrings"), 9),
       Req("literal", <<"a", "b", "c">>, {}, FALSE, part("exact_paths"), 9) }

(* Regexes with their words, those that can stand in the documents.        *)
MCRegexes ==
  { Regex(<<"a", "b", "c", "c", "?", "b">>,                        \* abcc?b
          {<<"a", "b", "c", "b">>, <<"a", "b", "c", "c", "b">>}),
    Regex(<<"a", "b", "a", "*">>,                                  \* aba*
          {<<"a", "b">>, <<"a", "b", "a">>}),
    Regex(<<"b", "a", "a", "+">>,                                  \* baa+
          {<<"b", "a", "a">>, <<"b", "a", "a", "a">>}),
    Regex(<<"a", "b", "b", "{", "0", ",", "2", "}", "a">>,         \* abb{0,2}a
          {<<"a", "b", "a">>, <<"a", "b", "b", "a">>}),
    Regex(<<"n", "a", "{", "2", "}", "a">>, {<<"n", "a", "a", "a">>}),
    Regex(<<"a", "b", "c", "|", "c", "b", "a">>,                   \* abc|cba
          {<<"a", "b", "c">>, <<"c", "b", "a">>}),
    Regex(<<"c", "a", "b", "[", "|", "b", "]">>,                   \* cab[|b]
          {<<"c", "a", "b", "b">>, <<"c", "a", "b", "|">>}),
    Regex(<<"b", "c", "[", "\\", "]", "n", "]", "a", "a", "a">>,
          Around(<<"b", "c">>, {"n", "]"}, <<"a", "a", "a">>)),
    Regex(<<"(", "c", "b", "a", ")", "a">>, {<<"c", "b", "a", "a">>}),
    Regex(<<"a", "b", ".", "b">>, Around(<<"a", "b">>, MCLetters, <<"b">>)),
    Regex(<<"c", "b", "a", "\\", "w">>,
          Around(<<"c", "b", "a">>, MCLetters, <<>>)) }

MCRequests == MCPlain \cup MCTools \cup MCRegexes

(* To ripgrep -v asks for the lines without a dot, and -> is no flag.      *)
MCFlagAnswer ==
  [r \in MCRequests |->
     IF r.pattern # <<MCDash, "v">> THEN Refused
     ELSE [d \in MCDocs |->
             1 + Cardinality({i \in DOMAIN MCContent[d] : MCContent[d][i] = MCNewline})]]

(* An optional group, a branch too short for a trigram, a group that does  *)
(* not capture, a class that begins with a bracket.                        *)
MCHardRegexes ==
  { Regex(<<"(", "n", "n", "n", ")", "?", "a", "b", "c">>,         \* (nnn)?abc
          {<<"a", "b", "c">>, <<"n", "n", "n", "a", "b", "c">>}),
    Regex(<<"c", "b", "a", "|", "a", "b">>,                        \* cba|ab
          {<<"c", "b", "a">>, <<"a", "b">>}),
    Regex(<<"(", "?", ":", "a", "b", "c", ")">>, {<<"a", "b", "c">>}),
    Regex(<<"[", "]", "a", "]", "b", "c">>,                        \* []a]bc
          {<<"]", "b", "c">>, <<"a", "b", "c">>}) }
=============================================================================
