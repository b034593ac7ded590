------------------------------- MODULE JobListing -------------------------------
(***************************************************************************)
(* A client that pages through GET /v1/jobs with limit and offset while    *)
(* others submit.  Pages are cut from the rows committed when each of them *)
(* is read, newest first by created_at, which a request sets before its    *)
(* INSERT may have to wait and long before its commit: rows do not become  *)
(* visible in the order they are listed in.  Stamps are taken to differ.   *)
(***************************************************************************)
EXTENDS JobSubmission, FiniteSets

CONSTANT PageSize   \* limit

ASSUME PageSizeAssumption == PageSize \in Nat \ {0}

VARIABLES
  older,    \* pairs of rows, open or committed, the first created earlier
  page,     \* pages the client has read
  due,      \* rows committed before it read the first and on no page so far
  paging    \* it has not had a page that is not full

pager == <<page, due, paging>>
listVars == <<vars, older, pager>>

ListInit ==
  /\ Init
  /\ older = {}
  /\ page = 0 /\ due = {} /\ paging = TRUE

-----------------------------------------------------------------------------
\* The rows of open and committed transactions; what is rolled back is gone.
Kept == jobs \cup {Row(c) : c \in {d \in Clients : pc[d] \in {"insert", "commit"}}}

\* jobs.create takes the time between the lookup and the INSERT.
Stamp ==
  LET created == {Row(c) : c \in {d \in Clients : pc[d] = "lookup" /\ pc'[d] = "insert"}}
  IN older' = {p \in older : p[1] \in Kept' /\ p[2] \in Kept'} \cup (Kept \X created)

\* How many committed rows are listed before a row: ORDER BY created_at DESC
Newer(r) == {q \in jobs : <<r, q>> \in older}
Rank(r) == Cardinality(Newer(r))

\* jobs.list: OFFSET offset LIMIT PageSize
list_jobs(offset) == {r \in jobs : offset <= Rank(r) /\ Rank(r) < offset + PageSize}

\* Mutant: the offset is counted in pages of one row more.
NextPageSkips ==
  /\ paging
  /\ LET rows == list_jobs(page * (PageSize + 1))
     IN /\ due' = (IF page = 0 THEN jobs ELSE due) \ rows
        /\ paging' = (Cardinality(rows) = PageSize)
  /\ page' = page + 1

\* The client asks for the next page until one is not full.
NextPage ==
  /\ paging
  /\ LET rows == list_jobs(page * PageSize)
     IN /\ due' = (IF page = 0 THEN jobs ELSE due) \ rows
        /\ paging' = (Cardinality(rows) = PageSize)
  /\ page' = page + 1

ListNext ==
  \/ Next /\ Stamp /\ UNCHANGED pager
  \/ NextPage /\ UNCHANGED <<vars, older>>

ListSpec == ListInit /\ [][ListNext]_listVars /\ \A c \in Clients : WF_vars(Serve(c))

-----------------------------------------------------------------------------
\* However many rows appear between two pages, above or below the point the
\* client has reached, every job committed before it began is on some page.
NoRowMissed == ~ paging => due = {}
=============================================================================
