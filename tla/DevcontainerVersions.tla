------------------------- MODULE DevcontainerVersions -------------------------
(***************************************************************************)
(* The numbered devcontainer versions of one Atlas job: the requests that  *)
(* generate, update and download them, and the audit log kept beside them. *)
(*                                                                         *)
(* The next version number is read by one statement and inserted by a      *)
(* later one; what keeps two requests apart is the unique constraint on    *)
(* (job_id, version_number), which is one for all organisations.  An       *)
(* INSERT waits for an uncommitted row with its key, and fails if that row *)
(* is committed.  The policies of migration 0024 show a request only rows  *)
(* of the organisation that get_rls_db has set, its user's login.          *)
(***************************************************************************)
EXTENDS Integers

CONSTANTS
    Requests,       \* API requests that can be in flight at once
    Orgs,           \* GitHub logins
    RowSecurity,    \* whether policies bind the connection: not those of a
                    \* superuser, and there are none in SQLite
    MaxVersion      \* bound: no request goes past this version

ASSUME MaxVersionAssumption == MaxVersion \in Nat
ASSUME RowSecurityAssumption == RowSecurity \in BOOLEAN

Versions == 1 .. MaxVersion
Actions == {"generate", "update", "download"}

\* A row of devcontainers, and an entry of audit_logs.
Rows == [version : Versions, org : Orgs]
Entries == [action : Actions, version : Versions, org : Orgs]

VARIABLES
    rows,           \* committed devcontainers of the job
    log,            \* committed audit entries
    req             \* requests in flight

vars == <<rows, log, req>>

\* seen: the versions there were for the request when it read the table.
Idle == [pc |-> "idle"]
InFlight == [pc : {"insert", "audit", "commit", "log"}, action : Actions,
             org : Orgs, version : Versions, seen : SUBSET Versions]

TypeOK ==
    /\ rows \subseteq Rows
    /\ log \subseteq Entries
    /\ req \in [Requests -> InFlight \cup {Idle}]

Init ==
    /\ rows = {}
    /\ log = {}
    /\ req = [r \in Requests |-> Idle]

Committed == {row.version : row \in rows}

\* devcontainers as a request of org can read it: the committed rows, or those
\* of them that the policy lets through.
Visible(org) == {row \in rows : RowSecurity => row.org = org}
VersionsFor(org) == {row.version : row \in Visible(org)}

Entry(r) == [action |-> req[r].action, version |-> req[r].version, org |-> req[r].org]

-----------------------------------------------------------------------------
(* Generating and updating                                                 *)

\* Mutant of Latest: the session is that of get_db, which sets no organisation
\* and is given to a role that sees every row.
LatestOfAll(org) ==
    IF Committed = {} THEN 0 ELSE CHOOSE v \in Committed : \A w \in Committed : w <= v

\* Mutant of Latest: ORDER BY version_number without DESC.
Oldest(org) ==
    IF VersionsFor(org) = {} THEN 0
    ELSE CHOOSE v \in VersionsFor(org) : \A w \in VersionsFor(org) : v <= w

\* SELECT ... WHERE job_id = ... ORDER BY version_number DESC LIMIT 1: the
\* statement does not ask for org_id, the policy does.
Latest(org) ==
    IF VersionsFor(org) = {} THEN 0
    ELSE CHOOSE v \in VersionsFor(org) : \A w \in VersionsFor(org) : w <= v

\* The request has read what it needs and is about to insert.
Begin(r, action, org, version) ==
    /\ version <= MaxVersion
    /\ req' = [req EXCEPT ![r] =
         [pc |-> "insert", action |-> action, org |-> org, version |-> version,
          seen |-> VersionsFor(org)]]
    /\ UNCHANGED <<rows, log>>

\* POST /{job_id}/generate: the number after the latest.
Generate(r) ==
    /\ req[r].pc = "idle"
    /\ \E org \in Orgs : Begin(r, "generate", org, Latest(org) + 1)

\* PUT /{job_id}/versions/{n}: the number after n, if n is one's own.
Update(r) ==
    /\ req[r].pc = "idle"
    /\ \E row \in rows : Begin(r, "update", row.org, row.version + 1)

\* Rows inserted by a transaction that is still open.
Uncommitted(r) == req[r].pc \in {"audit", "commit"}

\* Mutant of Free: a table without the unique constraint.
Anything(r) == TRUE

\* The unique constraint lets the row in ...
Free(r) == req[r].version \notin Committed

Insert(r) ==
    /\ req[r].pc = "insert"
    /\ \A q \in Requests : Uncommitted(q) => req[q].version # req[r].version
    /\ Free(r)
    /\ req' = [req EXCEPT ![r] = [@ EXCEPT !.pc = "audit"]]
    /\ UNCHANGED <<rows, log>>

\* ... or flush() raises and the request ends in an error.
Conflict(r) ==
    /\ req[r].pc = "insert" /\ ~Free(r)
    /\ req' = [req EXCEPT ![r] = Idle]
    /\ UNCHANGED <<rows, log>>

\* The audit entry joins the open transaction.
Audit(r) ==
    /\ req[r].pc = "audit"
    /\ req' = [req EXCEPT ![r] = [@ EXCEPT !.pc = "commit"]]
    /\ UNCHANGED <<rows, log>>

\* Mutant of Commit: the audit entry is left to a transaction of its own.
CommitRowOnly(r) ==
    /\ req[r].pc = "commit"
    /\ rows' = rows \cup {[version |-> req[r].version, org |-> req[r].org]}
    /\ req' = [req EXCEPT ![r] = Idle]
    /\ UNCHANGED log

Commit(r) ==
    /\ req[r].pc = "commit"
    /\ rows' = rows \cup {[version |-> req[r].version, org |-> req[r].org]}
    /\ log' = log \cup {Entry(r)}
    /\ req' = [req EXCEPT ![r] = Idle]

\* The transaction is rolled back: the process dies, the commit fails, or the
\* entry's flush failed, which the route swallows but the session does not
\* forget, so that the commit raises, or the next read of a downloaded row.
RollBack(r) ==
    /\ Uncommitted(r) \/ req[r].pc = "log"
    /\ req' = [req EXCEPT ![r] = Idle]
    /\ UNCHANGED <<rows, log>>

-----------------------------------------------------------------------------
(* Downloading                                                             *)

\* GET /{job_id}/download finds a version of one's own ...
Download(r) ==
    /\ req[r].pc = "idle"
    /\ \E row \in rows :
         req' = [req EXCEPT ![r] =
           [pc |-> "log", action |-> "download", org |-> row.org,
            version |-> row.version, seen |-> VersionsFor(row.org)]]
    /\ UNCHANGED <<rows, log>>

\* ... and serves it, after logging that, or after a commit that failed.
Serve(r) ==
    /\ req[r].pc = "log"
    /\ log' \in {log, log \cup {Entry(r)}}
    /\ req' = [req EXCEPT ![r] = Idle]
    /\ UNCHANGED rows

Next ==
    \E r \in Requests :
        \/ Generate(r) \/ Update(r)
        \/ Insert(r) \/ Conflict(r) \/ Audit(r) \/ Commit(r) \/ RollBack(r)
        \/ Download(r) \/ Serve(r)

Spec == Init /\ [][Next]_vars

-----------------------------------------------------------------------------
(* Properties                                                              *)

\* However requests of several users interleave, the versions of a job are
\* numbered 1, 2, ... without a gap and no number names two configurations.
Numbered ==
    /\ \A row, other \in rows : row.version = other.version => row = other
    /\ \E n \in 0 .. MaxVersion : Committed = 1 .. n

\* A version and its audit entry exist together or not at all, although the
\* routes swallow whatever the audit service raises.
VersionsAudited ==
    /\ \A row \in rows : \E entry \in log :
         /\ entry.action # "download"
         /\ entry.version = row.version /\ entry.org = row.org
    /\ \A entry \in log : entry.version \in Committed

\* Under the policies a job's versions all belong to the organisation whose
\* first version was committed first. The numbers are one sequence for all, so
\* whoever else generates tries 1 again, for ever, and has nothing to update.
OneOrganisation ==
    RowSecurity => \A row, other \in rows : row.org = other.org

\* Generating fails on the unique constraint only because a version was
\* committed since the request looked for the latest one, or because another
\* organisation holds the number and the policy hides that: an organisation
\* that has the job to itself, and is alone or tries again, succeeds.
GenerateFailsToARace ==
    \A r \in Requests :
        req[r].pc = "insert" /\ req[r].action = "generate" /\ ~Free(r) =>
            \/ req[r].seen # VersionsFor(req[r].org)
            \/ /\ RowSecurity
               /\ \E row \in rows : row.version = req[r].version /\ row.org # req[r].org

\* What makes them inductive: no two open transactions hold one number, and
\* what a request is about to insert follows a version its user can read.
OpenTransactions ==
    \A r \in Requests :
        /\ Uncommitted(r) => Free(r)
        /\ \A q \in Requests : Uncommitted(r) /\ Uncommitted(q)
               /\ req[r].version = req[q].version => r = q
        /\ req[r].pc # "idle" => req[r].seen \subseteq VersionsFor(req[r].org)
        /\ req[r].pc \in {"insert", "audit", "commit"} =>
             /\ req[r].version = 1 \/ req[r].version - 1 \in VersionsFor(req[r].org)
             /\ req[r].action # "download"
        /\ req[r].pc = "insert" /\ req[r].action = "generate" =>
             req[r].version \notin req[r].seen
        /\ req[r].pc = "log" =>
             /\ req[r].action = "download"
             /\ [version |-> req[r].version, org |-> req[r].org] \in rows

VersionsInvariant ==
    /\ TypeOK /\ Numbered /\ VersionsAudited
    /\ OneOrganisation /\ OpenTransactions
=============================================================================
