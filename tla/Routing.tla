-------------------------------- MODULE Routing --------------------------------
(***************************************************************************)
(* Which backend serves a search, and what the tools of the MCP server make*)
(* of its answer (search-core/src/planner.rs and repo.rs, search-cli/src/  *)
(* search_runner.rs, rg.rs and mcp/tools.rs).  Three backends read the same*)
(* documents: the index of ContentHits, a direct scan, and ripgrep.  When  *)
(* the search on the index has finished, its answer is compared with what  *)
(* the other two return for the same request.                              *)
(***************************************************************************)
EXTENDS ContentHits

CONSTANTS
  Sizes,       \* sizes of the repository: files, and MiB of text
  NoStats,     \* the metadata of the index cannot be read
  Dash,        \* the character that begins a flag of a command
  FlagAnswer,  \* what ripgrep answers when the pattern is a flag to it
  Refused      \* the answer to a flag it does not know

ASSUME RoutingAssumption ==
  /\ Sizes \subseteq [files : Nat, mib : Nat] /\ NoStats \notin Sizes
  /\ FlagAnswer \in [Requests -> [Docs -> Nat] \cup {Refused}]

(* The circumstances of a search: the engine asked for, whether the index  *)
(* may be used (IndexMode), the size it records and the session hint.      *)
Engines == {"indexed", "direct", "ripgrep"}
Circumstances ==
  [engine : Engines \cup {"auto"},
   index : {"available", "unavailable", "unavailable_with_metadata"},
   size : Sizes \cup {NoStats}, repeated : BOOLEAN]

-----------------------------------------------------------------------------
(* The requests of the tools.  They ask for one result more than they show.*)

ClampLimit(requested) == Smaller(100, IF requested = 0 THEN 1 ELSE requested)
NoFilters == [k \in FilterKinds |-> {}]

SearchContent(mode, query, words, limit) ==
  [kind |-> mode, pattern |-> query, words |-> words, insensitive |-> FALSE,
   filters |-> NoFilters, named |-> {}, max |-> ClampLimit(limit) + 1]
SearchPathAndContent(mode, glob, query, words, limit) ==
  [SearchContent(mode, query, words, limit) EXCEPT !.filters["globs"] = {glob}]
FindFiles(query, named, limit) ==
  [SearchContent("path", query, {}, limit) EXCEPT !.insensitive = TRUE,
                                                  !.named = named]

-----------------------------------------------------------------------------
(* plan_query: how much of the pattern the index can use.                  *)

Prunable(r) ==
  CASE r.kind = "literal" -> Len(r.pattern)
    [] r.kind = "regex"   -> Max({0} \cup {Len(s) : s \in ExtractRegexLiterals(r.pattern)})
    [] r.kind = "path"    -> IF r.filters["exact_names"] # {} THEN 3
                             ELSE Len(r.pattern)

Selectivity(r) ==
  IF r.kind = "path" THEN IF Prunable(r) >= 3 THEN "high" ELSE "medium"
  ELSE IF Prunable(r) > 5 THEN "high"
  ELSE IF Prunable(r) >= 3 THEN "medium" ELSE "low"

Strategy(r) ==
  IF r.kind = "path" THEN "path_index"
  ELSE IF Prunable(r) >= 3 THEN "indexed" ELSE "direct"

ClassifyRepo(size) ==
  IF size.files > 500000 \/ size.mib > 20480 THEN "very_large"
  ELSE IF size.files >= 50000 \/ size.mib >= 2048 THEN "large"
  ELSE IF size.files >= 5000 \/ size.mib >= 200 THEN "medium"
  ELSE "small"

(* route_query.  Without an index only its metadata may be known. *)
StatsKnown(c) == c.index # "unavailable" /\ c.size # NoStats

PrefersRipgrep(r, c) ==
  /\ ~c.repeated
  /\ \/ ClassifyRepo(c.size) = "small"
     \/ ClassifyRepo(c.size) = "medium" /\ Selectivity(r) = "low"

RouteQuery(r, c) ==
  IF c.engine # "auto" THEN c.engine
  ELSE IF ~StatsKnown(c)
  THEN IF c.index = "available" THEN "indexed" ELSE "direct"
  ELSE IF c.index # "available" \/ Strategy(r) = "direct"
  THEN IF r.kind = "path" THEN "direct" ELSE "ripgrep"
  ELSE IF PrefersRipgrep(r, c) THEN "ripgrep" ELSE "indexed"

(* adjust_route_for_filters: ripgrep knows neither paths nor substrings.   *)
AdjustPathsOnly(r, route) ==
  IF r.kind = "path" /\ route # "indexed" THEN "direct" ELSE route
AdjustForFilters(r, route) ==
  IF r.kind = "path" THEN IF route = "indexed" THEN "indexed" ELSE "direct"
  ELSE IF r.filters["path_substrings"] \cup r.filters["exact_paths"] # {}
  THEN "direct" ELSE route

SelectedRoute(r, c) == AdjustForFilters(r, RouteQuery(r, c))

-----------------------------------------------------------------------------
(* The answers: the number of lines of each document, 1 for a path.        *)

DirectAnswer(r) ==
  [d \in Docs |->
     IF ~PathMatchesFilters(d, r) THEN 0
     ELSE IF r.kind = "path" THEN 1
     ELSE Smaller(LineCount(d, r), IF r.max = 0 THEN 1 ELSE r.max)]

(* run_rg_search: every filter becomes a glob, and one of them is enough.  *)
(* The limit is one of each file.                                          *)
GlobKinds == FilterKinds \ {"path_substrings"}
RgAdmits(d, r) ==
  \/ \A k \in GlobKinds : r.filters[k] = {}
  \/ \E k \in GlobKinds : d \in UNION r.filters[k]

(* The pattern is passed as it is, without -e or --: one that begins with a*)
(* dash is a flag to ripgrep, which then searches for the next argument,   *)
(* ".", in whatever way the flag says, or refuses it.                      *)
IsFlag(r) == Len(r.pattern) > 1 /\ r.pattern[1] = Dash

RgAnswer(r) ==
  IF IsFlag(r) THEN FlagAnswer[r]
  ELSE [d \in Docs |->
          IF RgAdmits(d, r) THEN Smaller(LineCount(d, r), r.max) ELSE 0]

OneLine(r) == Newline \notin ToSet(r.pattern)
RgFails(r) ==
  \/ r.kind = "path"
  \/ ~OneLine(r)
  \/ IsFlag(r) /\ FlagAnswer[r] = Refused

(* execute_search_inner and dispatch *)
ExecutionFails(r, c) ==
  \/ c.index = "available" /\ c.size = NoStats
  \/ SelectedRoute(r, c) = "indexed" /\ c.index # "available"
  \/ SelectedRoute(r, c) = "ripgrep" /\ RgFails(r)

Answer(r, c) ==
  CASE SelectedRoute(r, c) = "indexed" -> kept
    [] SelectedRoute(r, c) = "direct"  -> DirectAnswer(r)
    [] SelectedRoute(r, c) = "ripgrep" -> RgAnswer(r)

-----------------------------------------------------------------------------
(* build_envelope and its mappers.  A hit is left out only when the limit  *)
(* is reached, so that files_with_matches tells nothing more.              *)

Lines(answer) == MapThenSumSet(LAMBDA d : answer[d], Docs)
HitCount(answer) == Cardinality({d \in Docs : answer[d] > 0})

Shown(answer, limit) == Smaller(Lines(answer), limit)

TruncatedByHits(answer, limit) == HitCount(answer) > limit
Truncated(answer, limit) ==
  HitCount(answer) > limit \/ Shown(answer, limit) >= limit

-----------------------------------------------------------------------------
(* Properties.                                                             *)

WantedLines ==
  [d \in Docs |-> IF ~Wanted(d) THEN 0
                  ELSE IF request.kind = "path" THEN 1
                  ELSE LineCount(d, request)]
AllRead == Finished /\ unreadable = {}

(* Whichever backend the size of the repository, the session hint, the     *)
(* state of the index or the user selects, an answer below the limit is the*)
(* same.  Three exceptions: ripgrep with filters of several kinds, or with *)
(* a pattern it takes for a flag (rg.rs:73 passes "-v" as it is, and the   *)
(* other backends look for it), and a path request with path_substrings on *)
(* the index.                                                              *)
ReadAsFlag(r, c) == IsFlag(r) /\ SelectedRoute(r, c) = "ripgrep"
SameFilters(r, route) ==
  CASE route = "ripgrep" -> Cardinality({k \in GlobKinds : r.filters[k] # {}}) <= 1
    [] route = "indexed" -> r.kind = "path" => r.filters["path_substrings"] = {}
    [] route = "direct"  -> TRUE
RoutesAgree ==
  AllRead /\ (request.kind = "path" \/ Lines(WantedLines) < request.max) =>
    \A c \in Circumstances :
      /\ ~ExecutionFails(request, c)
      /\ SameFilters(request, SelectedRoute(request, c))
      /\ ~ReadAsFlag(request, c)
      => Answer(request, c) = WantedLines

(* A tool that does not say truncated shows every line there is, although  *)
(* the index limits the whole answer and the other backends each file;     *)
(* unless ripgrep took the pattern for a flag, when it shows other lines.  *)
IsToolRequest(r) ==
  r.max >= 2 /\ \A k \in FilterKinds \ {"globs"} : r.filters[k] = {}
TruncationIsTold ==
  AllRead /\ IsToolRequest(request) =>
    \A c \in Circumstances :
      /\ c.engine = "auto" /\ c.repeated
      /\ ~ExecutionFails(request, c) /\ ~ReadAsFlag(request, c)
      /\ ~Truncated(Answer(request, c), request.max - 1)
      => Shown(Answer(request, c), request.max - 1) = Lines(WantedLines)
=============================================================================
