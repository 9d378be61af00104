----------------------------- MODULE RepoGraph -----------------------------
(* The dependency graph of services/deep_scanner.py: how imports find files,  *)
(* what an import that finds none is called, and what follows for each file   *)
(* (build_code_contexts). Everything is built from the files in the order in  *)
(* which they arrived.                                                        *)
EXTENDS RepoFiles

CONSTANTS
    External,      \* first parts of imports that are known as packages
    PackageDirs,   \* usual names of package directories
    Nowhere         \* Python's None

\* Keys of the index. A key of one part is the same text in both notations.
Key(sep, parts) == IF Len(parts) = 1 THEN parts ELSE <<sep>> \o parts

Entry(key, path, overwrites) == [key |-> key, path |-> path, overwrites |-> overwrites]

\* Mutant of EntriesOf: what is there stays, a file's own key too.
EntriesFirstCome(file) ==
  LET parts == file.path[1] \o <<file.path[2]>>
  IN  CASE file.language = "python" ->
             [i \in 1..Len(parts) |-> Entry(Key(".", SubSeq(parts, i, Len(parts))), file.path, FALSE)]
        [] OTHER -> <<Entry(Key("/", parts), file.path, FALSE)>>

\* The entries a file makes: itself, then what is only kept if it is new. A
\* Python file has every suffix of its module path, any file its stem.
EntriesOf(file) ==
  LET parts == file.path[1] \o <<file.path[2]>>
      suffix(i) == Entry(Key(".", SubSeq(parts, i, Len(parts))), file.path, FALSE)
      stem == Entry(<<file.path[2]>>, file.path, FALSE)
  IN  CASE file.language = "python" ->
             <<Entry(Key(".", parts), file.path, TRUE)>> \o [i \in 1..Len(parts) |-> suffix(i)]
        [] file.language \in {"typescript", "javascript"} ->
             <<Entry(Key("/", parts), file.path, TRUE), stem>>
        [] OTHER -> <<>>

AddEntry(index, e) ==
  IF e.overwrites \/ e.key \notin DOMAIN index
  THEN [k \in DOMAIN index \cup {e.key} |-> IF k = e.key THEN e.path ELSE index[k]]
  ELSE index

AddFile(index, file) == FoldLeft(AddEntry, index, EntriesOf(file))
FileIndex(files) == FoldLeft(AddFile, <<>>, files)

At(index, key) == IF key \in DOMAIN index THEN index[key] ELSE Nowhere
Up(dir, n) == SubSeq(dir, 1, IF n > Len(dir) THEN 0 ELSE Len(dir) - n)
FirstFound(found) == LET hits == {i \in DOMAIN found : found[i] # Nowhere}
                     IN  IF hits = {} THEN Nowhere ELSE found[Min(hits)]
Indexed(index, path) == IF path \in Range(index) THEN path ELSE Nowhere

\* One dot is the importer's own directory; then a module, or a package's
\* __init__.py.
ResolveRelativePython(import, importer, index) ==
  LET target == Up(importer[1], import.dots - 1) \o import.parts
      module(ext) == IF target = <<>> THEN Nowhere
                     ELSE Indexed(index, <<Front(target), Last(target), ext>>)
  IN  FirstFound(<<module(".py"), module(".ts"), module(".js"), module(".tsx"), module(".jsx"),
                   Indexed(index, <<target, "__init__", ".py">>)>>)

\* The longest suffix of the import that is a key.
ResolveAbsolutePython(import, index) ==
  LET parts == import.parts
  IN  FirstFound([i \in 1..Len(parts) |-> At(index, Key(".", SubSeq(parts, i, Len(parts))))])

ResolvePython(import, importer, index) ==
  IF import.dots > 0 THEN ResolveRelativePython(import, importer, index)
  ELSE ResolveAbsolutePython(import, index)

\* The aliases of _extract_ts_aliases are tried in order, without their slash:
\* the first, "@", takes every import that starts with @.
ApplyAlias(parts) == CASE parts[1] \in {"@", "~"} -> <<"src">> \o Tail(parts)
                       [] parts[1] \in Scoped     -> <<"src...">> \o Tail(parts)
                       [] OTHER                   -> parts

ResolveTypeScript(import, importer, index) ==
  IF import.form = "relative"
  THEN LET target == Up(importer[1], import.dots) \o import.parts
       IN  FirstFound(<<At(index, Key("/", target)), At(index, Key("/", target \o <<"index">>))>>)
  ELSE At(index, Key("/", ApplyAlias(import.parts)))

Resolve(import, file, index) ==
  IF import.form = "python" THEN ResolvePython(import, file.path, index)
  ELSE ResolveTypeScript(import, file.path, index)

\* "m.name" of a module that was found, but has no such submodule, is a member.
IsMember(import, file, index) ==
  /\ import.form = "python"
  /\ import.dots = 0
  /\ Len(import.parts) > 1
  /\ ResolveAbsolutePython([import EXCEPT !.parts = Front(@)], index) # Nowhere

\* Only the dots of a relative import of TypeScript are taken off, so that its
\* first part is empty and no package's.
IsExternal(import) == /\ import.form # "relative"
                      /\ import.parts # <<>>
                      /\ import.parts[1] \in External

KnownAliases == {"@", "~", "@components", "@lib", "@utils"}
Dynamic(import) == \E p \in Range(import.parts) : p \in {"importlib", "import_module"}

UnresolvedReason(import) ==
  CASE Dynamic(import) -> "dynamic_import"
    [] import.form = "path" /\ import.parts[1] \in Scoped \ KnownAliases -> "alias_unknown"
    [] import.form = "python" /\ Len(import.parts) >= 2 /\ Last(import.parts) \in PackageDirs
         -> "ambiguous_package_import"
    [] OTHER -> "file_not_scanned"

Edge(file, import, target, reason) ==
  [source_path |-> file.path, raw_import |-> import, target_path |-> target,
   confidence |-> IF target = Nowhere THEN "unresolved" ELSE "confirmed",
   unresolved_reason |-> reason]

\* The edges of one file: to another file, or unresolved and of no known package.
EdgesOf(file, index, known) ==
  { IF Resolve(i, file, index) \in known \ {file.path}
      THEN Edge(file, i, Resolve(i, file, index), Nowhere)
      ELSE Edge(file, i, Nowhere, UnresolvedReason(i)) :
    i \in { j \in file.imports :
              LET target == Resolve(j, file, index)
              IN  /\ ~(target = Nowhere /\ IsMember(j, file, index))
                  /\ target \in known \ {file.path} \/ ~IsExternal(j) } }

Confirmed(edges) == {e \in edges : e.confidence = "confirmed"}
Unresolved(edges) == {e \in edges : e.confidence = "unresolved"}

\* a / b in thousandths, to the nearest.
Rate(a, b) == (2000 * a + b) \div (2 * b)

\* Dynamic imports do not count.
GraphConfidence(edges) ==
  LET counted == {e \in edges : e.unresolved_reason # "dynamic_import"}
  IN  IF counted = {} THEN 500 ELSE Rate(Cardinality(Confirmed(edges)), Cardinality(counted))

Downstream(edges, path) == {e.target_path : e \in {d \in Confirmed(edges) : d.source_path = path}}
Upstream(edges, path) == {e.source_path : e \in {d \in Confirmed(edges) : d.target_path = path}}

\* Mutant of Visit: depth first, as the scanner once did.
VisitDeepFirst(edges, search) ==
  IF search.queue = <<>> THEN search
  ELSE LET path  == search.queue[1][1]
           depth == search.queue[1][2]
           next  == IF depth < 2 THEN SetToSeq(Downstream(edges, path) \ search.visited) ELSE <<>>
       IN  IF path \in search.visited THEN [search EXCEPT !.queue = Tail(@)]
           ELSE [visited |-> search.visited \cup {path},
                 queue   |-> [i \in DOMAIN next |-> <<next[i], depth + 1>>] \o Tail(search.queue)]

\* _mark_critical_path_bfs: one turn of its loop. An entry of the queue is a
\* file and its depth.
Visit(edges, search) ==
  IF search.queue = <<>> THEN search
  ELSE LET path  == search.queue[1][1]
           depth == search.queue[1][2]
           next  == IF depth < 2 THEN SetToSeq(Downstream(edges, path) \ search.visited) ELSE <<>>
       IN  IF path \in search.visited THEN [search EXCEPT !.queue = Tail(@)]
           ELSE [visited |-> search.visited \cup {path},
                 queue   |-> Tail(search.queue) \o [i \in DOMAIN next |-> <<next[i], depth + 1>>]]

\* No file is queued more often than once, and once for each edge into it.
CriticalFrom(edges, entrypoint) ==
  FoldLeft(LAMBDA search, turn : Visit(edges, search),
           [visited |-> {}, queue |-> <<<<entrypoint, 0>>>>],
           [turn \in 1..(1 + Cardinality(Confirmed(edges))) |-> turn]).visited

\* build_code_contexts
Graph(files) ==
  LET index == FileIndex(files)
      all   == Range(files)
      edges == UNION {EdgesOf(f, index, {g.path : g \in all}) : f \in all}
  IN  [edges |-> edges, graph_confidence |-> GraphConfidence(edges),
       critical |-> UNION {CriticalFrom(edges, f.path) : f \in {g \in all : g.is_entrypoint}}]

CallerCount(graph, path) == Cardinality(Upstream(graph.edges, path))
=============================================================================
