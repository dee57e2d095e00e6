----------------------------- MODULE BulkResults -----------------------------
(***************************************************************************)
(* Downloading the results of one bulk job, page by page, from             *)
(* /v0/bulk/{id}/results and /v1/bulk/{id}/results, while the job's tasks  *)
(* store their rows and prune_db deletes the rows of a finished v0 job.    *)
(* The two handlers are the same but for their tables and error types; what*)
(* differs is who writes the rows: in v1 a task that failed stores a row   *)
(* without a result.  In both a task may be run twice and store two rows   *)
(* (BulkV0 and Worker say when).                                           *)
(*                                                                         *)
(* A row becomes visible when its INSERT commits; its id was drawn from    *)
(* the sequence before, so rows need not appear in the order of their ids. *)
(***************************************************************************)
EXTENDS Integers, FiniteSets

CONSTANTS
  Emails,        \* the emails of the job
  DefaultLimit,  \* 50
  Limits,        \* the limits a client may ask for
  MaxI64,        \* the largest signed integer, 2^63 - 1
  MaxDuplicates  \* bound on the tasks of the job that are run twice

Null == 0

ASSUME ResultsAssumption ==
  /\ IsFiniteSet(Emails)
  /\ DefaultLimit \in Nat \ {0}
  /\ MaxI64 \in Nat \ {0}
  /\ DefaultLimit <= MaxI64
  /\ Limits \subseteq 1 .. 2 * MaxI64 + 1
  /\ MaxDuplicates \in Nat

VARIABLES
  version,     \* "v0" or "v1"; never changes
  request,     \* the format and limit the client asks for; never changes
  rows,        \* the rows of the job
  writing,     \* the rows whose INSERT has not committed
  nextId,      \* the sequence behind the ids
  duplicates,  \* tasks that were run twice so far
  pruned,      \* has prune_db deleted rows
  pc,          \* the handler: "idle", then the query it runs next
  offset,      \* the offset of the page, the rows the client has asked for
  got,         \* the rows the client has received
  status       \* the client: "paging", "done", or "failed"

jobVars    == <<rows, writing, nextId, duplicates, pruned>>
clientVars == <<offset, got, status>>
vars == <<version, request, jobVars, pc, clientVars>>

Rows == [id : Nat \ {0}, email : Emails, ok : BOOLEAN]

Init ==
  /\ version \in {"v0", "v1"}
  /\ request \in [format : {"json", "csv"}, limit : Limits \cup {Null}]
  /\ rows = {}
  /\ writing = {}
  /\ nextId = 1
  /\ duplicates = 0
  /\ pruned = FALSE
  /\ pc = "idle"
  /\ offset = 0
  /\ got = {}
  /\ status = "paging"

-----------------------------------------------------------------------------
(* The tables.                                                             *)

Visible(e) == \E r \in rows \cup writing : r.email = e

\* A task stores its result, and may have done so before; in v1 an error is
\* stored instead of a result.
Insert(e) ==
  /\ ~ Visible(e) \/ duplicates < MaxDuplicates
  /\ ~ pruned
  /\ duplicates' = IF Visible(e) THEN duplicates + 1 ELSE duplicates
  /\ \E ok \in IF version = "v1" THEN BOOLEAN ELSE {TRUE} :
       writing' = writing \cup {[id |-> nextId, email |-> e, ok |-> ok]}
  /\ nextId' = nextId + 1
  /\ UNCHANGED <<version, request, rows, pruned, pc, clientVars>>

Commit(r) ==
  /\ rows' = rows \cup {r}
  /\ writing' = writing \ {r}
  /\ UNCHANGED <<version, request, nextId, duplicates, pruned, pc, clientVars>>

\* prune_db deletes the rows of a job that has as many as emails.  Module
\* BulkV0 has the whole of it; here it is over before the next query.
Prune ==
  /\ version = "v0"
  /\ ~ pruned
  /\ Cardinality(rows) >= Cardinality(Emails)
  /\ rows' = {}
  /\ pruned' = TRUE
  /\ UNCHANGED <<version, request, writing, nextId, duplicates, pc, clientVars>>

\* The position of a row in the order of the ids.
Rank(r) == Cardinality({s \in rows : s.id <= r.id})

-----------------------------------------------------------------------------
(* The handler.                                                            *)

Reply(outcome) ==
  /\ pc' = "idle"
  /\ status' = outcome
  /\ UNCHANGED <<version, request, jobVars, offset, got>>

\* The SELECT of total_records, which is an error when the job is gone.
ReadTotal ==
  /\ pc = "total"
  /\ IF pruned THEN Reply("failed")
     ELSE pc' = "count" /\ UNCHANGED <<version, request, jobVars, clientVars>>

\* Bug: one row that is missing is overlooked.
ReadCountLess ==
  /\ pc = "count"
  /\ IF Cardinality(rows) + 1 < Cardinality(Emails) THEN Reply("paging")
     ELSE pc' = "page" /\ UNCHANGED <<version, request, jobVars, clientVars>>

\* Bug: a job with all its rows still counts as running.
ReadCountStrict ==
  /\ pc = "count"
  /\ IF Cardinality(rows) <= Cardinality(Emails) THEN Reply("paging")
     ELSE pc' = "page" /\ UNCHANGED <<version, request, jobVars, clientVars>>

\* The SELECT of COUNT(*).  While the job is running, the request is refused
\* and the client will ask again.
ReadCount ==
  /\ pc = "count"
  /\ IF Cardinality(rows) < Cardinality(Emails) THEN Reply("paging")
     ELSE pc' = "page" /\ UNCHANGED <<version, request, jobVars, clientVars>>

\* u64 as i64: Postgres refuses a LIMIT or OFFSET that comes out negative.
AsI64(n) == IF n > MaxI64 THEN n - 2 * (MaxI64 + 1) ELSE n

\* Bug: the default applies to CSV too.
LimitAlways == IF request.limit # Null THEN request.limit ELSE DefaultLimit

\* job_result_json asks for DefaultLimit rows unless the client does otherwise,
\* job_result_csv for all of them (Null).
Limit ==
  IF request.limit # Null THEN request.limit
  ELSE IF request.format = "json" THEN DefaultLimit
  ELSE Null

\* ORDER BY id LIMIT ... OFFSET ...
Page ==
  {r \in rows : /\ AsI64(offset) < Rank(r)
                /\ Limit # Null => Rank(r) <= AsI64(offset) + AsI64(Limit)}

\* The rows as JSON: the row of a failed task has no result, and reading one
\* panics.  The CSV of v1 cannot convert any row (module Report, CsvServed).
Convertible(r) == r.ok /\ ~ (version = "v1" /\ request.format = "csv")

\* A client that asks for CSV without a limit expects all rows.
AllAtOnce == request.format = "csv" /\ request.limit = Null

\* The page is read and converted and the client has it, or one of its rows or
\* its numbers made the request fail.
ReadPage ==
  /\ pc = "page"
  /\ IF /\ AsI64(offset) >= 0
        /\ Limit # Null => AsI64(Limit) >= 0
        /\ \A r \in Page : Convertible(r)
     THEN /\ got' = got \cup Page
          /\ offset' = IF AllAtOnce THEN offset ELSE offset + Limit
          /\ status' = IF AllAtOnce \/ Cardinality(Page) < Limit THEN "done" ELSE "paging"
          /\ pc' = "idle"
          /\ UNCHANGED <<version, request, jobVars>>
     ELSE Reply("failed")

\* The client asks for the next page until one is not full; to a CSV without a
\* limit there is no next.
Ask ==
  /\ pc = "idle"
  /\ status = "paging"
  /\ pc' = "total"
  /\ UNCHANGED <<version, request, jobVars, clientVars>>

Store == (\E e \in Emails : Insert(e)) \/ (\E r \in writing : Commit(r))
Serve == Ask \/ ReadTotal \/ ReadCount \/ ReadPage

Next == Store \/ Serve \/ Prune

Spec == Init /\ [][Next]_vars

\* A client that is told to wait asks again, and a request is served.  Nothing
\* says that an email gets its row: its check may never end and its result may
\* be lost.
FairSpec == Spec /\ WF_vars(Serve)

-----------------------------------------------------------------------------
(* Properties.                                                             *)

\* Type invariant; the ids are unique.
TypeOK ==
  /\ version \in {"v0", "v1"}
  /\ request \in [format : {"json", "csv"}, limit : Limits \cup {Null}]
  /\ rows \subseteq Rows
  /\ writing \subseteq Rows
  /\ \A r, s \in rows \cup writing : r.id = s.id => r = s
  /\ nextId \in Nat
  /\ duplicates \in 0 .. MaxDuplicates
  /\ pruned \in BOOLEAN
  /\ pc \in {"idle", "total", "count", "page"}
  /\ offset \in Nat
  /\ got \subseteq Rows
  /\ status \in {"paging", "done", "failed"}

\* The first n rows of the job.
First(n) == {r \in rows : Rank(r) <= n}

Undisturbed == duplicates = 0 /\ ~ pruned

\* Each page is a query of its own, after two others, and nothing locks the
\* table; still the pages received so far are the first rows of the job: no row
\* slips in before the offset once the first page was served.  Unless a task
\* was run twice or the job was pruned.
ListingIsPrefix ==
  Undisturbed => got = IF status = "done" THEN rows ELSE First(offset)

\* A client that has read to the end has a row of every email, and one only.
ListingComplete ==
  Undisturbed /\ status = "done" =>
    \A e \in Emails : Cardinality({r \in got : r.email = e}) = 1

\* No page can be served: the limit is negative as a signed integer, a task
\* failed, or rows of v1 are wanted as CSV.
Unservable ==
  \/ AsI64(Limit) < 0
  \/ \E r \in rows : ~ Convertible(r)

\* Once the job has as many rows as emails every client reads to the end: it is
\* told to wait no longer, and its pages come to an end.  Whether the rows ever
\* come is another matter (BulkV0, Worker), and a job with a row that cannot be
\* served, or a client with such a limit, gets nothing.
Downloaded ==
  Cardinality(rows) >= Cardinality(Emails) ~>
    status = "done" \/ pruned \/ Unservable

\* bulk.md: "Once the job_status field in from the previous step is Completed,
\* this endpoint will show the results of all the emails in the list."
ShowsAllEmails ==
  status = "done" /\ ~ pruned => \A e \in Emails : \E r \in got : r.email = e
=============================================================================
