------------------------------- MODULE Github -------------------------------
(***************************************************************************)
(* The GitHub connector: the comments of an issue, oldest first, of which  *)
(* there is one page of 100.  The issue's title and state are left out.    *)
(***************************************************************************)
EXTENDS Listing

\* created_at is in seconds; here up to three writes fall into one.
Second(n) == (n + 2) \div 3

\* last_updated_at: when the newest comment of the page was made, not changed.
Cursor(t) == IF t = <<>> THEN 0 ELSE Second(CHOOSE i \in DOMAIN t : \A j \in DOMAIN t : j <= i)

Connect == ListConnected(OldestPage(rows))

\* Mutant: only the cursor is looked at.
FetchByCursor == LET page == OldestPage(rows) IN Fetched(page, Cursor(page) # Cursor(sawRows))

Fetch ==
  LET page == OldestPage(rows)
  IN  Fetched(page, Count(page) # Count(sawRows) \/ Cursor(page) # Cursor(sawRows))

Next == ListStep \/ Connect \/ Fetch

Spec == ListInit /\ [][Next]_vars

-----------------------------------------------------------------------------
\* When comments are only added, a page that looks the same is the same, and
\* is all there are unless it is full.
GrowthIsNeverHidden ==
  LET page == OldestPage(rows)
  IN  (Live /\ onlyInserts /\ Count(page) = Count(sawRows) /\ Cursor(page) = Cursor(sawRows)) =>
        page = sawRows /\ SawAll

=============================================================================
