--------------------------- MODULE MCIntelligence ---------------------------
(* Repositories of a few files: a service, a diamond of imports, two files    *)
(* whose paths end alike, two languages, and one in good order.               *)
EXTENDS Intelligence

Source(dir, stem, ext, words, traits, imports, matches) ==
  [dir |-> dir, stem |-> stem, ext |-> ext, words |-> words, traits |-> traits,
   imports |-> imports, matches |-> matches, size |-> IF "big" \in traits THEN 16 ELSE 0]
Plain(dir, stem, ext, imports) == Source(dir, stem, ext, {}, {}, imports, {})
Statement(form, dots, parts, names) == [form |-> form, dots |-> dots, parts |-> parts, names |-> names]
Py(parts) == Statement("python", 0, parts, {})
Ts(form, dots, parts) == Statement(form, dots, parts, {})
Match(op, line) == [op |-> op, line |-> line]

Service ==
  << Source(<<"app">>, "main", ".py", {}, {"long"},
          {Py(<<"fastapi">>), Statement("python", 0, <<"app", "services">>, {"billing", "Cart"})}, {Match("debug_mode_enabled", 3)}),
     Source(<<"app", "services">>, "billing", ".py", {"service"}, {"complex"},
          {Statement("python", 1, <<>>, {"tax"})}, {Match("eval_exec", 2), Match("hardcoded_secret", 0)}),
     Plain(<<"app", "services">>, "tax", ".py", {Py(<<"import_module", "rates">>)}),
     Source(<<"tests">>, "test_tax", ".py", {"test_"}, {"parser_raises"}, {Py(<<"app", "services", "tax">>)}, {}),
     Source(<<>>, "uv", ".lock", {"package-lock.json"}, {}, {}, {}) >>

Diamond ==
  << Plain(<<>>, "main", ".py", {Py(<<"a">>), Py(<<"c">>)}),
     Plain(<<>>, "a", ".py", {Py(<<"c">>)}),
     Plain(<<>>, "c", ".py", {Py(<<"d">>)}),
     Plain(<<>>, "d", ".py", {}) >>

Alike ==
  << Plain(<<>>, "main", ".py", {Py(<<"app", "db">>), Py(<<"db">>)}),
     Plain(<<"pkg", "app">>, "db", ".py", {}),
     Plain(<<"app">>, "db", ".py", {Py(<<"models">>), Py(<<"app", "models">>)}),
     [Plain(<<>>, "pkg", "", {}) EXCEPT !.traits = {"directory"}] >>

Mixed ==
  << Plain(<<>>, "index", ".ts", {Ts("relative", 0, <<"utils">>), Ts("path", 0, <<"@", "lib", "api">>)}),
     Plain(<<"src">>, "utils", ".py", {}),
     Source(<<"src", "lib">>, "api", ".ts", {"api"}, {"big"},
          {Ts("path", 0, <<"@lib", "api">>), Ts("path", 0, <<"@other", "x">>), Ts("relative", 2, <<"index">>)}, {}) >>

Tidy ==
  << Source(<<>>, "main", ".py", {}, {"docstrings"}, {}, {}),
     Source(<<>>, "test_main", ".py", {"test_"}, {"docstrings"}, {Py(<<"main">>)}, {}),
     Plain(<<>>, "pyproject", ".toml", {}),
     Plain(<<>>, "README", ".md", {}) >>

MCTrees == {Service, Diamond, Alike, Mixed, Tidy}

MCAnswers == { {}, {Item("dead_code", "low", 1, 1, "x")},
               {Item("reliability", "critical", 3, 3, "x"), Item("security", "high", 2, 2, "x"),
                Item("maintainability", "low", 4, 3, "x"), Item("style", "low", 1, 1, "x")} }
=============================================================================
