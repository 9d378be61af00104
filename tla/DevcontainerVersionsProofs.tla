---------------------- MODULE DevcontainerVersionsProofs ----------------------
(***************************************************************************)
(* The versions of a job stay numbered and audited for any number of       *)
(* requests and users.  The argument: a request that has inserted its row  *)
(* holds a number nobody else holds and no committed row has, and that     *)
(* number follows a committed one, so committing it extends 1 .. n by n+1. *)
(* The one it follows is a version its user can read; where policies bind, *)
(* whoever has no version yet must therefore start at 1, which one         *)
(* organisation only can commit.                                           *)
(***************************************************************************)
EXTENDS DevcontainerVersions, TLAPS

USE MaxVersionAssumption, RowSecurityAssumption

LEMMA InFlightFields ==
  ASSUME TypeOK, NEW r \in Requests, req[r].pc # "idle"
  PROVE  /\ req[r] \in InFlight
         /\ req[r].version \in Versions /\ req[r].org \in Orgs
         /\ req[r].action \in Actions
  BY DEF TypeOK, Idle, InFlight

\* A request can read all versions or none.
LEMMA AllOrNothing ==
  ASSUME OneOrganisation, NEW org
  PROVE  VersionsFor(org) \in {{}, Committed}
<1>1. CASE VersionsFor(org) = {}
  BY <1>1
<1>2. ASSUME NEW own \in rows, RowSecurity => own.org = org
      PROVE  VersionsFor(org) = Committed
  BY <1>2 DEF OneOrganisation, VersionsFor, Visible, Committed
<1> QED
  BY <1>1, <1>2 DEF VersionsFor, Visible

\* The number a generation tries follows one it can read, or is the first, and
\* is none of those it can read.
LEMMA AfterLatest ==
  ASSUME Numbered, OneOrganisation, NEW org \in Orgs
  PROVE  /\ Latest(org) \in Nat
         /\ Latest(org) = 0 \/ Latest(org) \in VersionsFor(org)
         /\ Latest(org) + 1 \notin VersionsFor(org)
<1>1. PICK n \in 0 .. MaxVersion : Committed = 1 .. n
  BY DEF Numbered
<1>2. CASE VersionsFor(org) = {}
  BY <1>2 DEF Latest
<1>3. CASE VersionsFor(org) = Committed /\ Committed # {}
  <2>1. n \in Committed /\ \A w \in Committed : w <= n
    BY <1>1, <1>3
  <2>2. Latest(org) \in Committed /\ \A w \in Committed : w <= Latest(org)
    BY <1>3, <2>1 DEF Latest
  <2> QED
    BY <1>1, <1>3, <2>2
<1> QED
  BY <1>2, <1>3, AllOrNothing

\* Committing a number that follows a committed one, or the first, adds the
\* next number.
LEMMA NextNumber ==
  ASSUME NEW n \in 0 .. MaxVersion, NEW v \in Versions, v \notin 1 .. n,
         v = 1 \/ v - 1 \in 1 .. n
  PROVE  v = n + 1 /\ (1 .. n) \cup {v} = 1 .. n + 1
  BY DEF Versions

-----------------------------------------------------------------------------

\* No rows, no entries, no requests: the routes start with the invariant.
THEOREM InvariantInit == Init => VersionsInvariant
<1> SUFFICES ASSUME Init PROVE VersionsInvariant
  OBVIOUS
<1>1. Committed = {}
  BY DEF Init, Committed
<1>2. Numbered
  <2>1. Committed = 1 .. 0
    BY <1>1
  <2> QED
    BY <2>1 DEF Numbered, Init
<1> QED
  BY <1>2 DEF Init, VersionsInvariant, TypeOK, VersionsAudited, OneOrganisation,
         OpenTransactions, Uncommitted, Idle

\* What is about rows and entries holds as before.
RowsAsBefore == /\ Numbered' /\ VersionsAudited' /\ OneOrganisation'
                /\ Committed' = Committed
                /\ rows' = rows

\* A step that commits nothing and changes one request keeps everything that
\* is about rows and entries.
LEMMA RowsKept ==
  ASSUME VersionsInvariant, UNCHANGED rows,
         log' = log \/ \E e \in Entries : e.action = "download"
                          /\ e.version \in Committed /\ log' = log \cup {e}
  PROVE  RowsAsBefore
  BY DEF RowsAsBefore, VersionsInvariant, Numbered, VersionsAudited, OneOrganisation,
         Committed, VersionsFor, Visible

\* A request that begins to insert keeps the invariant if its number is sound.
LEMMA Beginning ==
  ASSUME VersionsInvariant, NEW r \in Requests, NEW org \in Orgs,
         NEW action \in {"generate", "update"}, NEW version \in Nat,
         version = 1 \/ version - 1 \in VersionsFor(org), version # 0,
         action = "generate" => version \notin VersionsFor(org),
         Begin(r, action, org, version)
  PROVE  VersionsInvariant'
<1>1. version \in Versions
  BY DEF Begin, Versions
<1>2. VersionsFor(org) \in SUBSET Versions
  BY DEF VersionsInvariant, TypeOK, VersionsFor, Visible, Rows
<1>3. TypeOK'
  BY <1>1, <1>2 DEF Begin, VersionsInvariant, TypeOK, InFlight, Actions
<1>4. RowsAsBefore
  BY RowsKept DEF Begin
<1>5. OpenTransactions'
  BY <1>4 DEF RowsAsBefore, VersionsFor, Visible, Begin, VersionsInvariant, TypeOK,
              OpenTransactions, Uncommitted, Free
<1> QED
  BY <1>3, <1>4, <1>5 DEF VersionsInvariant, RowsAsBefore

\* A request that changes its place, or ends, keeps the invariant if it may
\* hold its number there.
LEMMA Moving ==
  ASSUME VersionsInvariant, NEW r \in Requests, UNCHANGED rows,
         log' = log \/ \E e \in Entries : e.action = "download"
                          /\ e.version \in Committed /\ log' = log \cup {e},
         req' = [req EXCEPT ![r] = Idle]
  PROVE  VersionsInvariant'
<1>1. TypeOK'
  BY DEF VersionsInvariant, TypeOK, Idle
<1>2. RowsAsBefore
  BY RowsKept
<1>3. OpenTransactions'
  BY <1>2 DEF RowsAsBefore, VersionsFor, Visible, VersionsInvariant, TypeOK,
              OpenTransactions, Uncommitted, Free, Idle
<1> QED
  BY <1>1, <1>2, <1>3 DEF VersionsInvariant, RowsAsBefore

\* Every statement of every request keeps the invariant.
THEOREM InvariantStep == VersionsInvariant /\ [Next]_vars => VersionsInvariant'
<1> SUFFICES ASSUME VersionsInvariant, [Next]_vars PROVE VersionsInvariant'
  OBVIOUS
<1> USE DEF VersionsInvariant
<1>1. ASSUME NEW r \in Requests, Generate(r) PROVE VersionsInvariant'
  <2>1. PICK org \in Orgs : Begin(r, "generate", org, Latest(org) + 1)
    BY <1>1 DEF Generate
  <2> QED
    BY <2>1, AfterLatest, Beginning
<1>2. ASSUME NEW r \in Requests, Update(r) PROVE VersionsInvariant'
  <2>1. PICK row \in rows : Begin(r, "update", row.org, row.version + 1)
    BY <1>2 DEF Update
  <2>2. row.org \in Orgs /\ row.version \in Nat \ {0} /\ row.version \in VersionsFor(row.org)
    BY DEF TypeOK, Rows, Versions, VersionsFor, Visible
  <2> QED
    BY <2>1, <2>2, Beginning
<1>3. ASSUME NEW r \in Requests, Insert(r) PROVE VersionsInvariant'
  <2>1. TypeOK'
    BY <1>3 DEF Insert, TypeOK, InFlight, Idle
  <2>2. RowsAsBefore
    BY <1>3, RowsKept DEF Insert
  <2>3. OpenTransactions'
    BY <1>3, <2>2 DEF RowsAsBefore, VersionsFor, Visible, Insert, TypeOK,
                     OpenTransactions, Uncommitted, Free
  <2> QED
    BY <2>1, <2>2, <2>3 DEF RowsAsBefore
<1>4. ASSUME NEW r \in Requests, Conflict(r) PROVE VersionsInvariant'
  BY <1>4, Moving DEF Conflict, TypeOK
<1>5. ASSUME NEW r \in Requests, Audit(r) PROVE VersionsInvariant'
  <2>1. TypeOK'
    BY <1>5 DEF Audit, TypeOK, InFlight, Idle
  <2>2. RowsAsBefore
    BY <1>5, RowsKept DEF Audit
  <2>3. OpenTransactions'
    BY <1>5, <2>2 DEF RowsAsBefore, VersionsFor, Visible, Audit, TypeOK,
                     OpenTransactions, Uncommitted, Free
  <2> QED
    BY <2>1, <2>2, <2>3 DEF RowsAsBefore
<1>6. ASSUME NEW r \in Requests, Commit(r) PROVE VersionsInvariant'
  <2> DEFINE v == req[r].version
             new == [version |-> v, org |-> req[r].org]
  <2>1. /\ v \in Versions /\ req[r].org \in Orgs /\ req[r].action \in Actions
        /\ v \notin Committed
        /\ v = 1 \/ v - 1 \in VersionsFor(req[r].org)
        /\ req[r].action # "download"
    BY <1>6, InFlightFields DEF Commit, OpenTransactions, Uncommitted, Free
  <2>2. Committed' = Committed \cup {v}
    <3>1. rows' = rows \cup {new} /\ new.version = v
      BY <1>6 DEF Commit
    <3> QED
      BY <3>1 DEF Committed
  <2>3. TypeOK'
    BY <1>6, <2>1 DEF Commit, TypeOK, Entry, Entries, Rows
  <2>4. Numbered'
    <3>1. PICK n \in 0 .. MaxVersion : Committed = 1 .. n
      BY DEF Numbered
    <3>2. v = n + 1 /\ Committed' = 1 .. n + 1
      BY <2>1, <2>2, <3>1, NextNumber DEF VersionsFor, Visible, Committed
    <3>3. n + 1 \in 0 .. MaxVersion
      BY <2>1, <3>2 DEF Versions
    <3>4. rows' = rows \cup {new} /\ \A row \in rows : row.version # v
      BY <1>6, <2>1 DEF Commit, Committed
    <3>5. \A row, other \in rows' : row.version = other.version => row = other
      BY <3>4 DEF Numbered
    <3> QED
      BY <3>2, <3>3, <3>5 DEF Numbered
  <2>5. VersionsAudited'
    <3> DEFINE entry == [action |-> req[r].action, version |-> v, org |-> req[r].org]
    <3>1. rows' = rows \cup {new} /\ log' = log \cup {entry}
      BY <1>6 DEF Commit, Entry
    <3>2. /\ entry.action # "download"
          /\ entry.version = new.version /\ entry.org = new.org
          /\ entry.version \in Committed'
      BY <2>1, <2>2
    <3>3. \A row \in rows' : \E e \in log' :
             e.action # "download" /\ e.version = row.version /\ e.org = row.org
      BY <3>1, <3>2 DEF VersionsAudited
    <3>4. \A e \in log' : e.version \in Committed'
      BY <2>2, <3>1, <3>2 DEF VersionsAudited
    <3> QED
      BY <3>3, <3>4 DEF VersionsAudited
  <2>6. OpenTransactions'
    <3>1. \A q \in Requests : q # r => req'[q] = req[q]
      BY <1>6 DEF Commit
    <3>2. req'[r] = Idle
      BY <1>6 DEF Commit, TypeOK
    <3>3. \A q \in Requests : q # r /\ Uncommitted(q) => req[q].version # v
      BY <1>6 DEF Commit, OpenTransactions, Uncommitted
    <3>4. rows \subseteq rows'
      BY <1>6 DEF Commit
    <3>5. \A org : VersionsFor(org) \subseteq {row.version : row \in {w \in rows' : RowSecurity => w.org = org}}
      BY <3>4 DEF VersionsFor, Visible
    <3> QED
      BY <2>2, <3>1, <3>2, <3>3, <3>4, <3>5
         DEF OpenTransactions, Uncommitted, Free, Idle, VersionsFor, Visible
  <2>7. OneOrganisation'
    <3>1. rows' = rows \cup {new} /\ new.org = req[r].org
      BY <1>6 DEF Commit
    <3>2. CASE v = 1
      <4>1. Committed = {}
        BY <2>1, <3>2 DEF Numbered
      <4> QED
        BY <3>1, <4>1 DEF Committed, OneOrganisation
    <3>3. ASSUME RowSecurity, v - 1 \in VersionsFor(req[r].org)
          PROVE  OneOrganisation'
      <4>1. PICK own \in rows : own.org = req[r].org
        BY <3>3 DEF VersionsFor, Visible
      <4> QED
        BY <3>1, <3>3, <4>1 DEF OneOrganisation
    <3> QED
      BY <2>1, <3>2, <3>3 DEF OneOrganisation
  <2> QED
    BY <2>3, <2>4, <2>5, <2>6, <2>7
<1>7. ASSUME NEW r \in Requests, RollBack(r) PROVE VersionsInvariant'
  BY <1>7, Moving DEF RollBack, TypeOK
<1>8. ASSUME NEW r \in Requests, Download(r) PROVE VersionsInvariant'
  <2>1. PICK row \in rows : req' = [req EXCEPT ![r] =
           [pc |-> "log", action |-> "download", org |-> row.org,
            version |-> row.version, seen |-> VersionsFor(row.org)]]
    BY <1>8 DEF Download
  <2>2. row \in Rows /\ row = [version |-> row.version, org |-> row.org]
    BY DEF TypeOK, Rows
  <2>3. VersionsFor(row.org) \in SUBSET Versions
    BY DEF TypeOK, VersionsFor, Visible, Rows
  <2>4. TypeOK'
    BY <1>8, <2>1, <2>2, <2>3 DEF Download, TypeOK, InFlight, Actions, Rows
  <2>5. RowsAsBefore
    BY <1>8, RowsKept DEF Download
  <2>6. OpenTransactions'
    BY <1>8, <2>1, <2>2, <2>5
       DEF RowsAsBefore, VersionsFor, Visible, Download, TypeOK,
           OpenTransactions, Uncommitted, Free
  <2> QED
    BY <2>4, <2>5, <2>6 DEF RowsAsBefore
<1>9. ASSUME NEW r \in Requests, Serve(r) PROVE VersionsInvariant'
  <2>1. req[r].version \in Versions /\ req[r].org \in Orgs
    BY <1>9, InFlightFields DEF Serve
  <2>2. req[r].action = "download" /\ req[r].version \in Committed
    <3>1. /\ req[r].action = "download"
          /\ [version |-> req[r].version, org |-> req[r].org] \in rows
      BY <1>9 DEF Serve, OpenTransactions
    <3> QED
      BY <3>1 DEF Committed
  <2>3. Entry(r) \in Entries
    BY <2>1, <2>2 DEF Entry, Entries, Actions
  <2> QED
    BY <1>9, <2>2, <2>3, Moving DEF Serve, Entry
<1>10. CASE UNCHANGED vars
  BY <1>10 DEF vars, TypeOK, Numbered, VersionsAudited, Committed, Entry,
               OneOrganisation, VersionsFor, Visible, OpenTransactions, Uncommitted, Free
<1> QED
  BY <1>1, <1>2, <1>3, <1>4, <1>5, <1>6, <1>7, <1>8, <1>9, <1>10 DEF Next

-----------------------------------------------------------------------------

\* The routes keep the invariant in every reachable state.
THEOREM InvariantHolds == Spec => []VersionsInvariant
  BY InvariantInit, InvariantStep, PTL DEF Spec

\* The versions of a job are numbered 1 .. n and no number is used twice.
THEOREM VersionsAreNumbered == Spec => []Numbered
  BY InvariantHolds, PTL DEF VersionsInvariant

\* A version and its audit entry are committed together.
THEOREM VersionsAreAudited == Spec => []VersionsAudited
  BY InvariantHolds, PTL DEF VersionsInvariant

\* The versions of a job belong to one organisation where policies bind.
THEOREM VersionsAreOfOne == Spec => []OneOrganisation
  BY InvariantHolds, PTL DEF VersionsInvariant

\* A generation that meets the unique constraint has lost a race, or meets a
\* version of another organisation that it could not read.
THEOREM GenerationsFailToRaces == Spec => []GenerateFailsToARace
<1>1. VersionsInvariant => GenerateFailsToARace
  BY DEF VersionsInvariant, OpenTransactions, GenerateFailsToARace, Free,
         Committed, VersionsFor, Visible
<1> QED
  BY InvariantHolds, <1>1, PTL
=============================================================================
