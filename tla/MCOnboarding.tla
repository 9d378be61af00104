--------------------------- MODULE MCOnboarding ---------------------------
(* Files that between them match every group of detector rules, and the      *)
(* practices among them.                                                     *)
EXTENDS Onboarding, TLC

File(place, path, traits) == [path |-> path, place |-> place, traits |-> traits]

MCPractices ==
  { File("root", ".env.example", {}),
    File("root", "package.json", {"parses", "npm_script", "@playwright/test"}),
    File("root", "Makefile", {"makefile_target"}),
    File("root", "requirements.txt", {"requirements_uvicorn_hint"}),
    File("root", "setup.cfg", {}),
    File("workflows", "ci.yml", {"parses", "ci_test_gate"}),
    File("workflows", "lint.yml", {"parses", "ci_lint_gate"}),
    File("src", "logs.py", {"python_structlog"}),
    File("src", "errors.py", {"fastapi_exception_handler"}),
    File("src", "health.py", {"health_route_decorator", "python_sentry_sdk"}),
    File("src", "test_models.py", {"test_file_name", "pytest_import", "migration_test_file"}) }

MCFiles ==
  MCPractices \cup
  { File("root", "package.json", {"vitest"}),
    File("root", "docker-compose.yml", {"docker_compose_service"}),
    File("root", "docker-compose.yml", {"service_name_not_a_string"}),
    File("root", ".gitlab-ci.yml", {"parses", "ci_test_gate"}),
    File("src", "app.py", {"python_os_getenv", "auth_pattern_detected"}),
    File("src", "routes.py", {"route_hub_detected"}),
    File("src", "test_auth.py", {"test_file_name", "auth_pattern_detected"}),
    File("src", "migrations", {"migration_directory"}),
    File("hidden", "settings.py", {"settings_class_or_env_load", "python_os_getenv"}),
    File("node_modules", "test_dep.py", {"test_file_name", "pytest_import"}),
    File("venv", "site.py", {"python_os_environ_bracket", "python_loguru"}) }

Of(names) == {f \in MCFiles : f.path \in names /\ f.traits # {"vitest"}}

\* At most one file, a service in good order, one whose CI only lints, and a legacy one.
MCOrigins ==
  {{}} \cup {{f} : f \in MCFiles} \cup
  { Of({"requirements.txt", "setup.cfg", "ci.yml", "logs.py", "errors.py"}),
    Of({"package.json", "lint.yml", "app.py", "settings.py"}),
    Of({"routes.py", "migrations", "test_auth.py", "health.py", "Makefile"}) }

MCSymmetry == Permutations(Lanes)
=============================================================================
