-------------------------- MODULE BulkResultsProofs --------------------------
(***************************************************************************)
(* Proofs about BulkResults: for any emails, limits and duplicates, in     *)
(* whatever order the rows are committed, the pages a client has received  *)
(* are the first rows of the job.  Nothing locks the table; what holds the *)
(* rows still is that the handler counts them before it serves any.        *)
(***************************************************************************)
EXTENDS BulkResults, FiniteSetTheorems, TLAPS

-----------------------------------------------------------------------------
(* The invariant.                                                          *)

(* An id is drawn before its row is visible and never drawn again.         *)
Ids ==
  /\ nextId # 0
  /\ IsFiniteSet(rows)
  /\ rows \cap writing = {}
  /\ \A r \in rows \cup writing : r.id < nextId

(* A request is made while the client pages; an offset that is too large   *)
(* for a signed integer is never served, so it does not wrap around.       *)
Paging ==
  /\ pc # "idle" => status = "paging"
  /\ offset <= 2 * MaxI64

(* Unless a task is run twice, an email has one row, committed or not.     *)
OneRowEach ==
  Undisturbed => \A r, s \in rows \cup writing : r.email = s.email => r = s

AllStored == \A e \in Emails : \E r \in rows : r.email = e

(* A page is served only after the count was large enough.                 *)
CountedFirst ==
  Undisturbed /\ (pc = "page" \/ offset > 0 \/ status = "done") => AllStored

IInv == TypeOK /\ Ids /\ Paging /\ OneRowEach /\ CountedFirst /\ ListingIsPrefix

-----------------------------------------------------------------------------
(* Positions of rows.                                                      *)

\* The rows before r and r itself.
UpTo(r) == {s \in rows : s.id <= r.id}

LEMMA RankFinite ==
  ASSUME TypeOK, Ids, NEW r \in rows
  PROVE  /\ IsFiniteSet(UpTo(r)) /\ Rank(r) = Cardinality(UpTo(r))
         /\ Rank(r) \in 1 .. Cardinality(rows)
<1>1. IsFiniteSet(rows) /\ UpTo(r) \subseteq rows
  BY DEF Ids, UpTo
<1>2. /\ IsFiniteSet(UpTo(r)) /\ Cardinality(UpTo(r)) <= Cardinality(rows)
      /\ Cardinality(UpTo(r)) \in Nat /\ Cardinality(rows) \in Nat
  BY <1>1, FS_Subset, FS_CardinalityType
<1>3. r \in UpTo(r)
  BY DEF UpTo, TypeOK, Rows
<1>4. Cardinality(UpTo(r)) # 0
  BY <1>2, <1>3, FS_EmptySet
<1>5. Rank(r) = Cardinality(UpTo(r))
  BY DEF Rank, UpTo
<1>6. QED
  BY <1>2, <1>4, <1>5

(* Different rows have different positions.                                *)
LEMMA RankInjective ==
  ASSUME TypeOK, Ids, NEW r \in rows, NEW s \in rows, Rank(r) = Rank(s)
  PROVE  r = s
<1>1. ASSUME NEW a \in rows, NEW b \in rows, a.id < b.id PROVE Rank(a) # Rank(b)
  <2>1. a.id \in Nat /\ b.id \in Nat /\ \A c \in rows : c.id \in Nat
    BY DEF TypeOK, Rows
  <2>2. UpTo(a) \subseteq UpTo(b) /\ b \in UpTo(b) /\ b \notin UpTo(a)
    BY <1>1, <2>1 DEF UpTo
  <2>3. Cardinality(UpTo(a)) # Cardinality(UpTo(b))
    BY <2>2, RankFinite, FS_Subset
  <2>4. QED
    BY <2>3, RankFinite
<1>2. r.id \in Nat /\ s.id \in Nat
  BY DEF TypeOK, Rows
<1>3. r.id = s.id
  BY <1>1, <1>2
<1>4. QED
  BY <1>3 DEF TypeOK

(* Every position up to the number of rows is taken.                       *)
LEMMA RankOnto ==
  ASSUME TypeOK, Ids
  PROVE  /\ Cardinality(rows) \in Nat
         /\ \A n \in 1 .. Cardinality(rows) : \E r \in rows : Rank(r) = n
<1> DEFINE f == [r \in rows |-> Rank(r)]
           I == 1 .. Cardinality(rows)
<1>1. IsFiniteSet(rows) /\ Cardinality(rows) \in Nat
  BY FS_CardinalityType DEF Ids
<1>2. IsFiniteSet(I) /\ Cardinality(I) = Cardinality(rows)
  BY <1>1, FS_Interval
<1>3. f \in Injection(rows, I)
  <2>1. \A r \in rows : Rank(r) \in I
    BY RankFinite
  <2>2. \A r, s \in rows : Rank(r) = Rank(s) => r = s
    BY RankInjective
  <2>3. QED
    BY <2>1, <2>2 DEF Injection, IsInjective
<1>4. f \in Surjection(rows, I)
  BY <1>2, <1>3, FS_Injection
<1>5. \A n \in I : \E r \in rows : f[r] = n
  BY <1>4 DEF Surjection
<1>6. QED
  BY <1>1, <1>5

-----------------------------------------------------------------------------
(* Numbers.                                                                *)

(* A limit is positive.                                                    *)
LEMMA LimitType ==
  ASSUME TypeOK
  PROVE  /\ Limit \in Nat
         /\ ~ AllAtOnce => Limit \in 1 .. 2 * MaxI64 + 1
<1>1. request \in [format : {"json", "csv"}, limit : Limits \cup {Null}]
  BY DEF TypeOK
<1>2. request.limit \in Limits \cup {Null} /\ request.format \in {"json", "csv"}
  BY <1>1
<1>3. DefaultLimit \in 1 .. 2 * MaxI64 + 1
  BY ResultsAssumption
<1>4. Limits \subseteq 1 .. 2 * MaxI64 + 1
  BY ResultsAssumption
<1>5. CASE request.limit # Null
  <2>1. Limit = request.limit /\ request.limit \in Limits
    BY <1>2, <1>5 DEF Limit
  <2>2. Limit \in 1 .. 2 * MaxI64 + 1
    BY <1>4, <2>1
  <2>3. QED
    BY <2>2
<1>6. CASE request.limit = Null /\ request.format = "json"
  BY <1>3, <1>6 DEF Limit, AllAtOnce
<1>7. CASE request.limit = Null /\ request.format = "csv"
  BY <1>7 DEF Limit, AllAtOnce, Null
<1>8. QED
  BY <1>2, <1>5, <1>6, <1>7

(* A number that is served is what the client meant: the conversion of one *)
(* that is too large is negative.                                          *)
LEMMA NoWrap ==
  ASSUME NEW n \in 0 .. 2 * MaxI64 + 1, AsI64(n) >= 0
  PROVE  AsI64(n) = n /\ n <= MaxI64
BY ResultsAssumption DEF AsI64

\* ReadPage when it succeeds.
ServePage ==
  /\ pc = "page"
  /\ AsI64(offset) >= 0
  /\ Limit # Null => AsI64(Limit) >= 0
  /\ got' = got \cup Page
  /\ offset' = IF AllAtOnce THEN offset ELSE offset + Limit
  /\ status' = IF AllAtOnce \/ Cardinality(Page) < Limit THEN "done" ELSE "paging"
  /\ pc' = "idle"
  /\ UNCHANGED <<version, request, jobVars>>

LEMMA ReadPageCases ==
  ReadPage => ServePage \/ (pc = "page" /\ Reply("failed"))
BY DEF ReadPage, ServePage

(* The window of a page that is served.                                    *)
LEMMA ServedNumbers ==
  ASSUME TypeOK, Paging, ServePage
  PROVE  /\ AsI64(offset) = offset /\ offset <= MaxI64
         /\ ~ AllAtOnce => AsI64(Limit) = Limit /\ Limit \in 1 .. MaxI64
<1>1. offset \in 0 .. 2 * MaxI64 + 1
  BY ResultsAssumption DEF TypeOK, Paging
<1>2. AsI64(offset) = offset /\ offset <= MaxI64
  BY <1>1, NoWrap DEF ServePage
<1>3. ASSUME ~ AllAtOnce PROVE AsI64(Limit) = Limit /\ Limit \in 1 .. MaxI64
  <2>1. Limit \in 1 .. 2 * MaxI64 + 1
    BY <1>3, LimitType
  <2>2. AsI64(Limit) >= 0
    BY <2>1 DEF ServePage, Null
  <2>3. QED
    BY <2>1, <2>2, NoWrap, ResultsAssumption
<1>4. QED
  BY <1>2, <1>3

-----------------------------------------------------------------------------
(* Types and ids.                                                          *)

LEMMA InitInv == Init => IInv
<1> SUFFICES ASSUME Init PROVE IInv
  OBVIOUS
<1>1. TypeOK
  <2>1. duplicates \in 0 .. MaxDuplicates
    BY ResultsAssumption DEF Init
  <2>2. QED
    BY <2>1 DEF Init, TypeOK
<1>2. Ids
  BY FS_EmptySet DEF Init, Ids
<1>3. Paging /\ OneRowEach /\ CountedFirst
  BY ResultsAssumption DEF Init, Paging, OneRowEach, CountedFirst
<1>4. ListingIsPrefix
  BY DEF Init, ListingIsPrefix, First
<1>5. QED
  BY <1>1, <1>2, <1>3, <1>4 DEF IInv

LEMMA InsertStep ==
  ASSUME TypeOK, Ids, NEW e \in Emails, Insert(e)
  PROVE  TypeOK' /\ Ids'
<1>1. PICK ok \in BOOLEAN :
        writing' = writing \cup {[id |-> nextId, email |-> e, ok |-> ok]}
  BY DEF Insert
<1> DEFINE new == [id |-> nextId, email |-> e, ok |-> ok]
<1>2. UNCHANGED <<version, request, rows, pruned, pc, offset, got, status>> /\ nextId' = nextId + 1
  BY DEF Insert, clientVars
<1>3. nextId \in Nat \ {0} /\ new \in Rows
  BY DEF TypeOK, Ids, Rows
<1>4. \A r \in rows \cup writing : r.id \in Nat /\ r.id < nextId
  BY DEF TypeOK, Ids, Rows
<1>5. new.id = nextId
  OBVIOUS
<1>6. \A r, s \in rows \cup writing \cup {new} : r.id = s.id => r = s
  BY <1>3, <1>4, <1>5 DEF TypeOK
<1>7. duplicates' \in 0 .. MaxDuplicates
  BY ResultsAssumption DEF Insert, TypeOK
<1>8. rows' \cup writing' = rows \cup writing \cup {new}
  BY <1>1, <1>2
<1>9. TypeOK'
  BY <1>1, <1>2, <1>3, <1>6, <1>7, <1>8 DEF TypeOK
<1>10. new \notin rows
  BY <1>3, <1>4, <1>5
<1>11. Ids'
  BY <1>1, <1>2, <1>3, <1>4, <1>5, <1>8, <1>10 DEF Ids
<1>12. QED
  BY <1>9, <1>11

LEMMA CommitStep ==
  ASSUME TypeOK, Ids, NEW r \in writing, Commit(r)
  PROVE  TypeOK' /\ Ids'
<1>1. rows' = rows \cup {r} /\ writing' = writing \ {r}
  BY DEF Commit
<1>2. rows' \cup writing' = rows \cup writing
  BY <1>1
<1>3. IsFiniteSet(rows')
  BY <1>1, FS_AddElement DEF Ids
<1>4. QED
  BY <1>1, <1>2, <1>3 DEF TypeOK, Ids, Commit, clientVars

LEMMA PruneStep ==
  ASSUME TypeOK, Ids, Prune
  PROVE  TypeOK' /\ Ids'
BY FS_EmptySet DEF Prune, TypeOK, Ids, clientVars

(* A page moves rows to the client and the offset forward.                 *)
LEMMA PageTypes ==
  ASSUME TypeOK, Ids, Paging, ServePage
  PROVE  TypeOK' /\ Ids' /\ Paging'
<1>1. got' \subseteq Rows
  BY DEF ServePage, Page, TypeOK
<1>2. offset' \in Nat /\ offset' <= 2 * MaxI64
  BY ServedNumbers, ResultsAssumption DEF ServePage, TypeOK, Paging
<1>3. status' \in {"paging", "done"}
  BY DEF ServePage
<1>4. QED
  BY <1>1, <1>2, <1>3 DEF ServePage, TypeOK, Ids, Paging, jobVars

LEMMA TypeStep ==
  ASSUME TypeOK, Ids, Paging, [Next]_vars
  PROVE  TypeOK' /\ Ids' /\ Paging'
<1> USE DEF TypeOK, Ids, Paging
<1>1. CASE Store
  <2>1. TypeOK' /\ Ids'
    BY <1>1, InsertStep, CommitStep DEF Store
  <2>2. UNCHANGED <<pc, offset, status>>
    BY <1>1 DEF Store, Insert, Commit, clientVars
  <2>3. QED
    BY <2>1, <2>2
<1>2. CASE Prune
  BY <1>2, PruneStep DEF Prune, clientVars
<1>3. CASE Ask
  BY <1>3 DEF Ask, jobVars, clientVars
<1>4. CASE ReadTotal
  BY <1>4 DEF ReadTotal, Reply, jobVars, clientVars
<1>5. CASE ReadCount
  BY <1>5 DEF ReadCount, Reply, jobVars, clientVars
<1>6. CASE ReadPage
  <2>1. CASE ServePage
    BY <2>1, PageTypes
  <2>2. CASE pc = "page" /\ Reply("failed")
    BY <2>2 DEF Reply, jobVars
  <2>3. QED
    BY <1>6, <2>1, <2>2, ReadPageCases
<1>7. CASE UNCHANGED vars
  BY <1>7 DEF vars, jobVars, clientVars
<1>8. QED
  BY <1>1, <1>2, <1>3, <1>4, <1>5, <1>6, <1>7 DEF Next, Serve

-----------------------------------------------------------------------------
(* The rows hold still.                                                    *)

(* The handler's steps and the client's write no row.                      *)
LEMMA ReadsOnly ==
  ASSUME Serve \/ UNCHANGED vars
  PROVE  UNCHANGED <<rows, writing, duplicates, pruned>>
BY DEF Serve, Ask, ReadTotal, ReadCount, ReadPage, Reply, jobVars, vars

(* A disturbance is never undone.                                          *)
LEMMA DisturbedForEver ==
  ASSUME TypeOK, [Next]_vars, Undisturbed'
  PROVE  Undisturbed
<1>1. CASE Store
  <2>1. UNCHANGED pruned /\ duplicates' \in {duplicates, duplicates + 1}
    BY <1>1 DEF Store, Insert, Commit
  <2>2. duplicates \in Nat
    BY ResultsAssumption DEF TypeOK
  <2>3. QED
    BY <2>1, <2>2 DEF Undisturbed
<1>2. CASE Prune
  BY <1>2 DEF Prune, Undisturbed
<1>3. CASE Serve \/ UNCHANGED vars
  BY <1>3, ReadsOnly DEF Undisturbed
<1>4. QED
  BY <1>1, <1>2, <1>3 DEF Next

LEMMA OneRowStep ==
  ASSUME TypeOK, OneRowEach, [Next]_vars
  PROVE  OneRowEach'
<1> SUFFICES ASSUME Undisturbed'
             PROVE  \A r, s \in rows' \cup writing' : r.email = s.email => r = s
  BY DEF OneRowEach
<1>1. \A r, s \in rows \cup writing : r.email = s.email => r = s
  BY DisturbedForEver DEF OneRowEach
<1>2. ASSUME NEW e \in Emails, Insert(e)
      PROVE  \A r, s \in rows' \cup writing' : r.email = s.email => r = s
  <2>1. PICK ok \in BOOLEAN :
          writing' = writing \cup {[id |-> nextId, email |-> e, ok |-> ok]}
    BY <1>2 DEF Insert
  <2>2. ~ Visible(e)
    BY <1>2 DEF Insert, Undisturbed, TypeOK
  <2>3. \A r \in rows \cup writing : r.email # e
    BY <2>2 DEF Visible
  <2>4. rows' = rows
    BY <1>2 DEF Insert
  <2>5. QED
    BY <1>1, <2>1, <2>3, <2>4
<1>3. ASSUME NEW r \in writing, Commit(r)
      PROVE  rows' \cup writing' = rows \cup writing
  BY <1>3 DEF Commit
<1>4. CASE Prune
  BY <1>4 DEF Prune, Undisturbed
<1>5. CASE Serve \/ UNCHANGED vars
  BY <1>1, <1>5, ReadsOnly
<1>6. QED
  BY <1>1, <1>2, <1>3, <1>4, <1>5 DEF Next, Store

(* As many rows as emails, one of each at most, are one of each.           *)
LEMMA CountIsEnough ==
  ASSUME TypeOK, Ids, OneRowEach, Undisturbed, Cardinality(rows) >= Cardinality(Emails)
  PROVE  AllStored
<1> DEFINE f == [r \in rows |-> r.email]
<1>1. f \in Injection(rows, Emails)
  BY DEF Injection, IsInjective, TypeOK, Rows, OneRowEach
<1>2. IsFiniteSet(Emails) /\ IsFiniteSet(rows)
  BY ResultsAssumption DEF Ids
<1>3. Cardinality(rows) <= Cardinality(Emails)
  BY <1>1, <1>2, FS_Injection
<1>4. Cardinality(rows) = Cardinality(Emails)
  BY <1>2, <1>3, FS_CardinalityType
<1>5. f \in Surjection(rows, Emails)
  BY <1>1, <1>2, <1>4, FS_Injection
<1>6. QED
  BY <1>5 DEF Surjection, AllStored

(* Once each email has its row, nobody writes one unless a task is run     *)
(* again, and nobody deletes one but prune_db.                             *)
LEMMA Frozen ==
  ASSUME TypeOK, Ids, OneRowEach, Undisturbed, AllStored, Store \/ Prune
  PROVE  ~ Undisturbed'
<1>1. ASSUME NEW e \in Emails, Insert(e) PROVE ~ Undisturbed'
  <2>1. Visible(e)
    BY DEF AllStored, Visible
  <2>2. QED
    BY <1>1, <2>1 DEF Insert, Undisturbed
<1>2. ASSUME NEW r \in writing PROVE FALSE
  <2>1. PICK s \in rows : s.email = r.email
    BY <1>2 DEF AllStored, TypeOK, Rows
  <2>2. s = r
    BY <1>2, <2>1 DEF OneRowEach
  <2>3. QED
    BY <1>2, <2>1, <2>2 DEF Ids
<1>3. Prune => ~ Undisturbed'
  BY DEF Prune, Undisturbed
<1>4. QED
  BY <1>1, <1>2, <1>3 DEF Store

LEMMA CountedStep ==
  ASSUME TypeOK, Ids, Paging, OneRowEach, CountedFirst, [Next]_vars
  PROVE  CountedFirst'
<1> SUFFICES ASSUME Undisturbed', pc' = "page" \/ offset' > 0 \/ status' = "done"
             PROVE  AllStored'
  BY DEF CountedFirst
<1>1. Undisturbed
  BY DisturbedForEver
<1>2. CASE Store \/ Prune
  <2>1. UNCHANGED <<pc, offset, status>>
    BY <1>2 DEF Store, Insert, Commit, Prune, clientVars
  <2>2. AllStored
    BY <1>1, <2>1 DEF CountedFirst
  <2>3. QED
    BY <1>1, <1>2, <2>2, Frozen
<1>3. ASSUME AllStored, Serve \/ UNCHANGED vars PROVE AllStored'
  BY <1>3, ReadsOnly DEF AllStored
<1>4. CASE Ask \/ UNCHANGED vars
  <2>1. pc = "page" \/ offset > 0 \/ status = "done"
    BY <1>4 DEF Ask, clientVars, vars
  <2>2. QED
    BY <1>1, <1>3, <1>4, <2>1 DEF CountedFirst, Serve
<1>5. CASE ReadTotal
  <2>1. offset > 0
    BY <1>5 DEF ReadTotal, Reply, clientVars, Paging
  <2>2. QED
    BY <1>1, <1>3, <1>5, <2>1 DEF CountedFirst, Serve
<1>6. CASE ReadCount
  <2>1. offset > 0 \/ Cardinality(rows) >= Cardinality(Emails)
    <3>1. Cardinality(rows) \in Nat /\ Cardinality(Emails) \in Nat
      BY ResultsAssumption, FS_CardinalityType DEF Ids
    <3>2. QED
      BY <1>6, <3>1 DEF ReadCount, Reply, clientVars, Paging
  <2>2. AllStored
    BY <1>1, <2>1, CountIsEnough DEF CountedFirst
  <2>3. QED
    BY <1>3, <1>6, <2>2 DEF Serve
<1>7. CASE ReadPage
  <2>1. AllStored
    BY <1>1, <1>7 DEF ReadPage, CountedFirst
  <2>2. QED
    BY <1>3, <1>7, <2>1 DEF Serve
<1>8. QED
  BY <1>2, <1>4, <1>5, <1>6, <1>7 DEF Next, Serve

-----------------------------------------------------------------------------
(* Pages.                                                                  *)

LEMMA FirstNone == TypeOK /\ Ids => First(0) = {}
<1> SUFFICES ASSUME TypeOK, Ids, NEW r \in rows PROVE ~ Rank(r) <= 0
  BY DEF First
<1>1. Rank(r) \in 1 .. Cardinality(rows)
  BY RankFinite
<1>2. QED
  BY <1>1

(* A page that is not full is the last one: the positions have no gaps.    *)
LEMMA LastPage ==
  ASSUME TypeOK, Ids, Paging, ServePage, ~ AllAtOnce, Cardinality(Page) < Limit
  PROVE  \A r \in rows : Rank(r) <= offset + Limit
<1> SUFFICES ASSUME NEW r \in rows, ~ Rank(r) <= offset + Limit PROVE FALSE
  OBVIOUS
<1> DEFINE I == offset + 1 .. offset + Limit
           g == [s \in Page |-> Rank(s)]
<1>1. /\ AsI64(offset) = offset /\ offset \in Nat
      /\ AsI64(Limit) = Limit /\ Limit \in Nat /\ Limit # Null
  BY ServedNumbers DEF TypeOK, Null
<1>2. \A s \in Page : Rank(s) \in I
  <2> SUFFICES ASSUME NEW s \in Page PROVE Rank(s) \in I
    OBVIOUS
  <2>1. s \in rows /\ offset < Rank(s) /\ Rank(s) <= offset + Limit
    BY <1>1 DEF Page
  <2>2. Rank(s) \in 1 .. Cardinality(rows)
    BY <2>1, RankFinite
  <2>3. QED
    BY <1>1, <2>1, <2>2
<1>3. ASSUME NEW n \in I PROVE \E s \in Page : Rank(s) = n
  <2>1. Rank(r) \in 1 .. Cardinality(rows) /\ Cardinality(rows) \in Nat
    BY RankFinite, RankOnto
  <2>2. n \in 1 .. Cardinality(rows)
    BY <1>1, <2>1
  <2>3. PICK s \in rows : Rank(s) = n
    BY <2>2, RankOnto
  <2>4. s \in Page
    BY <1>1, <2>3 DEF Page
  <2>5. QED
    BY <2>3, <2>4
<1>4. g \in Surjection(Page, I)
  BY <1>2, <1>3 DEF Surjection
<1>5. IsFiniteSet(Page)
  BY FS_Subset DEF Ids, Page
<1>6. Cardinality(I) <= Cardinality(Page)
  BY <1>4, <1>5, FS_Surjection
<1>7. Cardinality(I) = Limit
  <2>1. offset + 1 \in Int /\ offset + Limit \in Int
    BY <1>1
  <2>2. Cardinality(I) = IF offset + 1 > offset + Limit THEN 0
                         ELSE (offset + Limit) - (offset + 1) + 1
    BY <2>1, FS_Interval
  <2>3. Limit > 0
    BY <1>1 DEF Null
  <2>4. QED
    BY <1>1, <2>2, <2>3
<1>8. Cardinality(Page) \in Nat
  BY <1>5, FS_CardinalityType
<1>9. QED
  BY <1>1, <1>6, <1>7, <1>8

(* What the client has after a page: the rows up to the new offset, or all *)
(* of them.                                                                *)
LEMMA PageExtends ==
  ASSUME TypeOK, Ids, Paging, ServePage, got = First(offset)
  PROVE  got' = IF status' = "done" THEN rows ELSE First(offset')
<1>1. AsI64(offset) = offset /\ offset \in Nat
  BY ServedNumbers DEF TypeOK
<1>2. \A r \in rows : Rank(r) \in Nat
  <2>1. \A r \in rows : Rank(r) \in 1 .. Cardinality(rows)
    BY RankFinite
  <2>2. QED
    BY <2>1
<1>3. got' = First(offset) \cup Page
  BY DEF ServePage
<1>4. CASE AllAtOnce
  <2>1. Limit = Null /\ status' = "done"
    BY <1>4 DEF ServePage, Limit, AllAtOnce, Null
  <2>2. Page = {r \in rows : offset < Rank(r)}
    BY <1>1, <2>1 DEF Page
  <2>3. First(offset) \cup Page = rows
    BY <1>1, <1>2, <2>2 DEF First
  <2>4. QED
    BY <1>3, <2>1, <2>3
<1>5. CASE ~ AllAtOnce
  <2>1. /\ AsI64(Limit) = Limit /\ Limit \in Nat /\ Limit # Null
        /\ offset' = offset + Limit
    BY <1>5, ServedNumbers DEF ServePage, Null
  <2>2. Page = {r \in rows : offset < Rank(r) /\ Rank(r) <= offset + Limit}
    BY <1>1, <2>1 DEF Page
  <2>3. First(offset) \cup Page = First(offset + Limit)
    BY <1>1, <1>2, <2>1, <2>2 DEF First
  <2>4. CASE Cardinality(Page) < Limit
    <3>1. status' = "done"
      BY <2>4 DEF ServePage
    <3>2. First(offset + Limit) = rows
      BY <1>5, <2>4, LastPage DEF First
    <3>3. QED
      BY <1>3, <2>3, <3>1, <3>2
  <2>5. CASE ~ Cardinality(Page) < Limit
    <3>1. status' = "paging"
      BY <1>5, <2>5 DEF ServePage
    <3>2. First(offset') = First(offset + Limit)
      BY <2>1
    <3>3. QED
      BY <1>3, <2>3, <3>1, <3>2
  <2>6. QED
    BY <2>4, <2>5
<1>6. QED
  BY <1>4, <1>5

LEMMA PrefixStep ==
  ASSUME IInv, [Next]_vars, TypeOK', Ids'
  PROVE  ListingIsPrefix'
<1> USE DEF IInv
<1> SUFFICES ASSUME Undisturbed'
             PROVE  got' = IF status' = "done" THEN rows' ELSE First(offset)'
  BY DEF ListingIsPrefix
<1>1. Undisturbed
  BY DisturbedForEver
<1>2. got = IF status = "done" THEN rows ELSE First(offset)
  BY <1>1 DEF ListingIsPrefix
<1>3. CASE Store \/ Prune
  <2>1. UNCHANGED <<pc, offset, got, status>>
    BY <1>3 DEF Store, Insert, Commit, Prune, clientVars
  <2>2. ~ AllStored
    BY <1>1, <1>3, Frozen
  <2>3. ~ offset > 0 /\ status # "done"
    BY <1>1, <2>2 DEF CountedFirst
  <2>4. offset = 0
    BY <2>3 DEF TypeOK
  <2>5. First(0) = {} /\ First(0)' = {}
    <3>1. (TypeOK /\ Ids => First(0) = {})'
      BY FirstNone, PTL
    <3>2. QED
      BY <3>1, FirstNone
  <2>6. First(offset)' = First(0)'
    BY <2>1, <2>4 DEF First
  <2>7. QED
    BY <1>2, <2>1, <2>3, <2>4, <2>5, <2>6
<1>4. ASSUME Serve \/ UNCHANGED vars, UNCHANGED <<offset, got>>,
             status' = "done" <=> status = "done"
      PROVE  got' = IF status' = "done" THEN rows' ELSE First(offset)'
  <2>1. rows' = rows
    BY <1>4, ReadsOnly
  <2>2. First(offset)' = First(offset)
    BY <1>4, <2>1 DEF First, Rank
  <2>3. QED
    BY <1>2, <1>4, <2>1, <2>2
<1>5. CASE Ask \/ ReadTotal \/ ReadCount \/ UNCHANGED vars
  <2>1. UNCHANGED <<offset, got>> /\ (status' = "done" <=> status = "done")
    BY <1>5 DEF Ask, ReadTotal, ReadCount, Reply, clientVars, vars, Paging
  <2>2. QED
    BY <1>4, <1>5, <2>1 DEF Serve
<1>6. CASE ReadPage
  <2>1. CASE ServePage
    <3>1. got = First(offset)
      BY <1>2, <2>1 DEF ServePage, Paging
    <3>2. rows' = rows
      BY <2>1 DEF ServePage, jobVars
    <3>3. got' = IF status' = "done" THEN rows ELSE First(offset')
      BY <2>1, <3>1, PageExtends
    <3>4. First(offset)' = First(offset')
      BY <3>2 DEF First, Rank
    <3>5. QED
      BY <3>2, <3>3, <3>4
  <2>2. CASE pc = "page" /\ Reply("failed")
    <3>1. UNCHANGED <<offset, got>> /\ status' # "done" /\ status # "done"
      BY <2>2 DEF Reply, Paging
    <3>2. QED
      BY <1>4, <1>6, <3>1 DEF Serve
  <2>3. QED
    BY <1>6, <2>1, <2>2, ReadPageCases
<1>7. QED
  BY <1>3, <1>5, <1>6 DEF Next, Serve

LEMMA Invariant == Spec => []IInv
<1>1. IInv /\ [Next]_vars => IInv'
  <2> SUFFICES ASSUME IInv, [Next]_vars PROVE IInv'
    OBVIOUS
  <2>1. TypeOK' /\ Ids' /\ Paging'
    BY TypeStep DEF IInv
  <2>2. OneRowEach' /\ CountedFirst'
    BY OneRowStep, CountedStep DEF IInv
  <2>3. ListingIsPrefix'
    BY <2>1, PrefixStep
  <2>4. QED
    BY <2>1, <2>2, <2>3 DEF IInv
<1>2. QED
  BY <1>1, InitInv, PTL DEF Spec

-----------------------------------------------------------------------------

(* Rows keep their types and no two of a job have the same id.             *)
THEOREM TypeCorrect == Spec => []TypeOK
<1>1. IInv => TypeOK
  BY DEF IInv
<1>2. QED
  BY <1>1, Invariant, PTL

(* What a client has received are the first rows of the job, for any limit *)
(* and any order of commits: no row slips in before the offset.            *)
THEOREM PagesArePrefix == Spec => []ListingIsPrefix
<1>1. IInv => ListingIsPrefix
  BY DEF IInv
<1>2. QED
  BY <1>1, Invariant, PTL

(* A client that has read to the end has one row of every email.           *)
THEOREM ReadToTheEnd == Spec => []ListingComplete
<1>1. IInv => ListingComplete
  <2> SUFFICES ASSUME IInv, Undisturbed, status = "done", NEW e \in Emails
               PROVE  Cardinality({r \in got : r.email = e}) = 1
    BY DEF ListingComplete
  <2>1. got = rows
    BY DEF IInv, ListingIsPrefix
  <2>2. PICK s \in rows : s.email = e
    BY DEF IInv, CountedFirst, AllStored
  <2>3. {r \in got : r.email = e} = {s}
    BY <2>1, <2>2 DEF IInv, OneRowEach
  <2>4. QED
    BY <2>3, FS_Singleton
<1>2. QED
  BY <1>1, Invariant, PTL
=============================================================================
