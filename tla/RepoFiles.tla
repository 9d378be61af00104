----------------------------- MODULE RepoFiles -----------------------------
(* A repository as services/deep_scanner.py sees it, and what it makes of     *)
(* one file: language, role, place in the queue and FileIntelligence.         *)
(*                                                                            *)
(* Text is left out. A file has the keywords its name contains (words), the   *)
(* detector patterns its content matches with their lines (matches, line 0    *)
(* for a match that spans lines), its import statements, and traits.          *)
EXTENDS Integers, Sequences, FiniteSets, TLC, SequencesExt, Functions

CONSTANTS
    Capitalised,    \* imported names that start with a capital: members of a module
    Scoped          \* first parts of TypeScript imports that start with @, but "@" itself

\* An import statement as it is parsed. A "python" import has dots and dotted
\* parts, a "relative" one of TypeScript goes dots directories up, and a "path"
\* is any other import of TypeScript, split at its slashes.
Import(form, dots, parts) == [form |-> form, dots |-> dots, parts |-> parts]

PathOf(f) == <<f.dir, f.stem, f.ext>>
Named(f, names) == <<f.stem, f.ext>> \in names
Under(f, dirs) == \E d \in dirs : d \in Range(f.dir)
Words(f, words) == f.words \cap words # {}

EXTENSION_MAP == [e \in {".py"} |-> "python"] @@ [e \in {".ts", ".tsx"} |-> "typescript"]
                 @@ [e \in {".js", ".jsx", ".mjs"} |-> "javascript"] @@ [e \in {".go"} |-> "go"]
                 @@ [e \in {".yml", ".yaml"} |-> "yaml"] @@ [e \in {".json"} |-> "json"]
                 @@ [e \in {".md", ".mdx"} |-> "markdown"]

\* By extension, else by shebang or content, which a file that was not fetched
\* does not have.
LanguageOf(f, fetched) ==
  CASE f.ext \in DOMAIN EXTENSION_MAP                -> EXTENSION_MAP[f.ext]
    [] fetched /\ "looks_python" \in f.traits        -> "python"
    [] fetched /\ "looks_javascript" \in f.traits    -> "javascript"
    [] OTHER                                         -> "unknown"

SKIP_PATHS == {"node_modules", "__pycache__", "venv", "dist", "build", "vendor"}
ShouldSkip(f) == Under(f, SKIP_PATHS) \/ f.ext \in {".png", ".pyc"}
IsGenerated(f) == \/ Words(f, {"package-lock.json", ".pb.", ".min.js", ".d.ts"})
                  \/ Under(f, {"generated", "gen", "proto", "dist", "out"})

FRAMEWORKS == {"fastapi", "flask", "django", "sqlalchemy", "pydantic", "pytest",
               "react", "next", "express"}
WebFrameworks == {"fastapi", "flask", "django", "express", "next"}

(* The rules of classify_role in the order they are tried. *)
RoleRules(f, signals) ==
  << <<"test",       Under(f, {"test", "tests", "spec"}) \/ Words(f, {"test_", "_test.py", ".spec.", ".test."})>>,
     <<"infra",      Named(f, {<<"Dockerfile", "">>, <<"docker-compose", ".yml">>})
                       \/ Under(f, {"infra", "terraform", "k8s", "deploy", "helm", ".github", ".gitlab"})
                       \/ (f.ext \in {".yml", ".yaml"} /\ Words(f, {"ci", "workflow", "pipeline"}))>>,
     <<"config",     Named(f, {<<"settings", ".py">>, <<"config", ".py">>, <<"pyproject", ".toml">>,
                               <<"package", ".json">>, <<"tsconfig", ".json">>})>>,
     <<"migration",  Under(f, {"migration", "migrations", "alembic"})>>,
     <<"schema",     Words(f, {"schema", "model", "entity", "type"})>>,
     <<"entrypoint", \/ Named(f, {<<"main", ".py">>, <<"app", ".py">>, <<"server", ".py">>,
                                  <<"index", ".ts">>, <<"index", ".js">>, <<"index", ".tsx">>})
                     \/ (Under(f, {"app"}) /\ Named(f, {<<"page", ".tsx">>, <<"layout", ".tsx">>, <<"route", ".ts">>}))
                     \/ (signals \cap WebFrameworks # {} /\ Named(f, {<<"application", ".py">>, <<"app", ".ts">>}))>>,
     <<"service",    \/ Words(f, {"service", "manager", "handler", "worker", "processor"})
                     \/ Under(f, {"services", "handlers", "workers"})
                     \/ Words(f, {"route", "router", "api", "endpoint", "view", "controller"})
                     \/ Under(f, {"api", "routes", "routers", "endpoints", "views", "controllers"})>>,
     <<"utility",    \/ Words(f, {"util", "helper", "common", "shared", "mixin"})
                     \/ Under(f, {"utils", "helpers", "lib", "common", "shared"})>>,
     <<"module",     f.ext \in {".py", ".ts", ".js", ".go", ".rs", ".java"}>>,
     <<"unknown",    TRUE>> >>

ClassifyRole(f, signals) ==
  LET rules == RoleRules(f, signals)
  IN  rules[CHOOSE i \in DOMAIN rules : rules[i][2] /\ \A j \in 1..(i - 1) : ~rules[j][2]][1]

FILE_PRIORITY == [entrypoint |-> 1, service |-> 2, schema |-> 3, config |-> 4, module |-> 5,
                  utility |-> 6, infra |-> 7, migration |-> 8, test |-> 9, unknown |-> 10]

\* What the scanner fetches: blobs that are neither skipped nor generated.
Scannable(tree) == {i \in DOMAIN tree : /\ "directory" \notin tree[i].traits
                                        /\ ~ShouldSkip(tree[i])
                                        /\ ~IsGenerated(tree[i])}

\* How many files are fetched.
Chosen(tree, max) == LET n == Cardinality(Scannable(tree)) IN IF n > max THEN max ELSE n

\* In order of priority, small files first (sizes are in units of 10 kB), and
\* the first max of them. The sort is stable.
PrioritizeFiles(tree, max) ==
  LET kept == Scannable(tree)
      priority == [i \in kept |-> IF tree[i].ext = ".lock" THEN 997
                                  ELSE FILE_PRIORITY[ClassifyRole(tree[i], {})]]
      penalty(i) == IF tree[i].size > 5 THEN 5 ELSE tree[i].size
      less(i, j) == \/ priority[i] < priority[j]
                    \/ /\ priority[i] = priority[j]
                       /\ penalty(i) < penalty(j) \/ (penalty(i) = penalty(j) /\ i < j)
      place(i) == 1 + Cardinality({j \in kept : less(j, i)})
  IN  [n \in 1..Chosen(tree, max) |-> tree[CHOOSE i \in kept : place(i) = n]]

\* "from m import a, B" counts as an import of m and of what may be its modules
\* (a, with a small letter). After "from . import a" the text ".": "." "a" has
\* two dots.
PythonImports(statement) ==
  LET base  == Import("python", statement.dots, statement.parts)
      dots  == IF statement.parts = <<>> THEN statement.dots + 1 ELSE statement.dots
  IN  {base} \cup {Import("python", dots, statement.parts \o <<n>>) : n \in statement.names \ Capitalised}

ParsedImports(f, language) ==
  CASE language = "python"                       -> UNION {PythonImports(s) : s \in f.imports}
    [] language \in {"typescript", "javascript"} -> {Import(s.form, s.dots, s.parts) : s \in f.imports}
    [] OTHER                                     -> {}

FrameworkSignals(imports) ==
  {fw \in FRAMEWORKS : \E i \in imports : i.parts # <<>> /\ i.form # "relative" /\ i.parts[1] = fw}

MAX_SIZE == 15

\* A parser that raises leaves an empty result and one error.
Parses(f) == "parser_raises" \notin f.traits

\* build_file_intelligence, of a file that was fetched. Confidence and all
\* rates below are in thousandths.
FileIntelligence(f) ==
  LET language == LanguageOf(f, TRUE)
      has(t)   == Parses(f) /\ t \in f.traits
      imports  == IF Parses(f) THEN ParsedImports(f, language) ELSE {}
      signals  == FrameworkSignals(imports)
      role     == ClassifyRole(f, signals)
  IN  [path |-> PathOf(f), language |-> language, role |-> role, imports |-> imports,
       sensitive |-> IF Parses(f) THEN {m.op : m \in f.matches} ELSE {}, signals |-> signals,
       is_entrypoint |-> role = "entrypoint" \/ (signals # {} /\ Named(f,
           {<<"main", ".py">>, <<"app", ".py">>, <<"server", ".py">>, <<"index", ".ts">>, <<"index", ".js">>})),
       is_test |-> role = "test", has_docstrings |-> has("docstrings"),
       long |-> has("long"), complex |-> has("complex"),
       confidence |-> IF Parses(f) THEN 1000 ELSE 800,
       fetched |-> TRUE, was_truncated |-> f.size > MAX_SIZE]

\* The record of a file that could not be fetched.
NotFetched(f) ==
  [path |-> PathOf(f), language |-> LanguageOf(f, FALSE), role |-> ClassifyRole(f, {}), imports |-> {},
   sensitive |-> {}, signals |-> {}, is_entrypoint |-> FALSE, is_test |-> FALSE,
   has_docstrings |-> FALSE, long |-> FALSE, complex |-> FALSE,
   confidence |-> 0, fetched |-> FALSE, was_truncated |-> FALSE]
=============================================================================
