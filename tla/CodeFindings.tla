---------------------------- MODULE CodeFindings ----------------------------
(* services/context_reviewer.py: the findings of one file. Patterns come      *)
(* first; a language model is asked about some files, and what it answers is  *)
(* kept only where it is well formed and new.                                 *)
(*                                                                            *)
(* The model's answer is a set of items; explanations and the prompt are left *)
(* out, a title is the pattern's or the model's, and a snippet is there or    *)
(* blank.                                                                     *)
EXTENDS RepoGraph

Categories == {"security", "performance", "reliability", "maintainability",
               "dead_code", "type_safety", "error_handling"}
Severities == {"critical", "high", "medium", "low"}

SCORE_DEDUCTIONS ==
  [security        |-> [critical |-> 25, high |-> 15, medium |-> 8, low |-> 3],
   performance     |-> [critical |-> 20, high |-> 12, medium |-> 6, low |-> 2],
   reliability     |-> [critical |-> 20, high |-> 12, medium |-> 6, low |-> 2],
   maintainability |-> [critical |-> 15, high |-> 8, medium |-> 4, low |-> 1],
   dead_code       |-> [critical |-> 5, high |-> 4, medium |-> 2, low |-> 1],
   type_safety     |-> [critical |-> 10, high |-> 6, medium |-> 3, low |-> 1],
   error_handling  |-> [critical |-> 15, high |-> 10, medium |-> 5, low |-> 2]]

DETERMINISTIC_DEDUCTIONS ==
  [hardcoded_secret |-> 20, eval_exec |-> 15, subprocess_shell |-> 12, raw_sql_format |-> 25,
   sql_fstring |-> 25, os_system |-> 10, pickle_load |-> 15, yaml_load_unsafe |-> 10,
   open_redirect |-> 12, debug_mode_enabled |-> 8]

\* open_redirect is a pattern and has a deduction, but no meaning.
PATTERN_META ==
  [hardcoded_secret   |-> <<"security", "critical">>, eval_exec        |-> <<"security", "high">>,
   raw_sql_format     |-> <<"security", "critical">>, sql_fstring      |-> <<"security", "critical">>,
   subprocess_shell   |-> <<"security", "high">>,     os_system        |-> <<"security", "medium">>,
   pickle_load        |-> <<"security", "high">>,     yaml_load_unsafe |-> <<"security", "high">>,
   debug_mode_enabled |-> <<"reliability", "medium">>]

Finding(path, title, category, severity, source, start, end, impact, confidence) ==
  [file_path |-> path, title |-> title, category |-> category, severity |-> severity, source |-> source,
   line_start |-> start, line_end |-> end, score_impact |-> impact, confidence |-> confidence]

\* One finding for each line that matches a pattern the scan saw in the file; a
\* match that spans lines is seen by the scan and found on none of them.
DeterministicFindings(file, matches) ==
  { Finding(file.path, m.op, PATTERN_META[m.op][1], PATTERN_META[m.op][2], "deterministic",
            m.line, m.line, -DETERMINISTIC_DEDUCTIONS[m.op], 1000) :
    m \in {n \in matches : n.op \in file.sensitive \cap DOMAIN PATTERN_META /\ n.line > 0} }

\* An item as the model writes it; its file, source, impact and confidence are
\* the reviewer's.
Item(category, severity, start, end, snippet) ==
  [category |-> category, severity |-> severity, line_start |-> start, line_end |-> end, snippet |-> snippet]

\* The validators of CodeFinding.
ValidItem(item) == /\ item.category \in Categories
                   /\ item.severity \in Severities
                   /\ item.line_start >= 1
                   /\ item.line_end >= item.line_start
                   /\ item.snippet # "blank"

ValidateLLMFindings(items, path) ==
  { Finding(path, "llm", i.category, i.severity, "llm_assisted", i.line_start, i.line_end,
            -SCORE_DEDUCTIONS[i.category][i.severity], 750) : i \in {j \in items : ValidItem(j)} }

\* Ranges are compared, not lines: the second finding of the same range goes.
RangeOf(finding) == <<finding.file_path, finding.line_start, finding.line_end>>
Deduplicate(existing, new) ==
  LET ranges == {RangeOf(f) : f \in new} \ {RangeOf(f) : f \in existing}
  IN  {CHOOSE f \in new : RangeOf(f) = r : r \in ranges}

ShouldInvokeLLM(file, graph) ==
  \/ file.path \in graph.critical
  \/ /\ file.role \notin {"test", "config", "migration", "infra"}
     /\ \/ file.long /\ file.sensitive # {}
        \/ file.complex
        \/ CallerCount(graph, file.path) >= 3

\* review_file. A model that is not configured, raises or does not answer with
\* a list has found nothing.
ReviewFile(file, matches, graph, items) ==
  LET found == DeterministicFindings(file, matches)
  IN  IF ShouldInvokeLLM(file, graph)
      THEN found \cup Deduplicate(found, ValidateLLMFindings(items, file.path))
      ELSE found

\* review_repo: files without content have no findings. content[p] is the set
\* of matches in the file p that was fetched.
ReviewRepo(files, graph, content, answers) ==
  UNION {ReviewFile(f, content[f.path], graph, answers[f.path]) :
           f \in {g \in Range(files) : g.path \in DOMAIN content}}
=============================================================================
