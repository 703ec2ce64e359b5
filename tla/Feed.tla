-------------------------------- MODULE Feed --------------------------------
(***************************************************************************)
(* Reading the social cache page by page (list_posts of social_store.rs    *)
(* behind the command social_list_posts), while posts arrive, arrive again *)
(* and are deleted.  A page is a LIMIT and an OFFSET into a list ordered   *)
(* by date: the reader holds a number, not a place in the list.            *)
(*                                                                         *)
(* Dates are seconds; posts of one second are in the order of their rows,  *)
(* which is the order of the index the query walks.                        *)
(***************************************************************************)
EXTENDS Integers, FiniteSets, FiniteSetsExt

CONSTANTS
  FeedPosts,    \* posts of one platform, community or author
  PageCap,      \* limit.min(100) of the command
  Limits,       \* what readers ask for
  MaxSecond,    \* bound on the clock
  MaxRewrites   \* bound on the rows written

ASSUME FeedAssumption ==
  /\ PageCap \in Nat \ {0} /\ Limits \subseteq Nat \ {0}
  /\ MaxSecond \in Nat /\ MaxRewrites \in Nat /\ IsFiniteSet(FeedPosts)

VARIABLES
  second,   \* unixepoch()
  row,      \* rowid of each post, 0 when it has none
  dated,    \* created_at
  written,  \* rows written so far
  offset,   \* where the reader's next page begins, or Done
  read,     \* posts the reader got
  steady,   \* history: posts there since the reading began, and not written anew
  removed   \* history: posts that since then were deleted, or written anew within their second

feedVars == <<second, row, dated, written, offset, read, steady, removed>>

Done == -1

Stored == {p \in FeedPosts : row[p] # 0}

-----------------------------------------------------------------------------
(* The table *)

\* insert_post, INSERT OR REPLACE: a post received again is a new row, dated now.
Insert(p) ==
  /\ written < MaxRewrites
  /\ written' = written + 1
  /\ row' = [row EXCEPT ![p] = written + 1]
  /\ dated' = [dated EXCEPT ![p] = second]
  /\ steady' = steady \ {p}
  /\ removed' = removed + (IF p \in Stored /\ dated[p] = second THEN 1 ELSE 0)
  /\ UNCHANGED <<second, offset, read>>

\* delete_post
Delete(p) ==
  /\ p \in Stored
  /\ row' = [row EXCEPT ![p] = 0]
  /\ steady' = steady \ {p} /\ removed' = removed + 1
  /\ UNCHANGED <<second, dated, written, offset, read>>

SecondPasses ==
  /\ second < MaxSecond
  /\ second' = second + 1
  /\ UNCHANGED <<row, dated, written, offset, read, steady, removed>>

-----------------------------------------------------------------------------
(* The query *)

\* Slip: the oldest posts first.
BeforeOldest(p, q) == dated[p] < dated[q] \/ (dated[p] = dated[q] /\ row[p] < row[q])

\* ORDER BY created_at DESC
Before(p, q) == dated[p] > dated[q] \/ (dated[p] = dated[q] /\ row[p] < row[q])

Rank(p) == Cardinality({q \in Stored : Before(q, p)})

\* LIMIT and OFFSET
Page(limit) == {p \in Stored : Rank(p) \in offset .. offset + limit - 1}

\* social_list_posts answers a reader who goes on from what it got, to the end.
ReadPage(limit) ==
  /\ offset # Done
  /\ LET page == Page(Min({limit, PageCap})) IN
       /\ read' = read \cup page
       /\ offset' = IF page = {} THEN Done ELSE offset + Cardinality(page)
  /\ UNCHANGED <<second, row, dated, written, steady, removed>>

\* The reader begins again.
Reopen ==
  /\ offset = Done
  /\ offset' = 0 /\ read' = {} /\ removed' = 0 /\ steady' = Stored
  /\ UNCHANGED <<second, row, dated, written>>

FeedInit ==
  /\ second = 0 /\ written = 0 /\ removed = 0
  /\ row = [p \in FeedPosts |-> 0] /\ dated = row
  /\ offset = 0 /\ read = {} /\ steady = {}

FeedNext ==
  \/ SecondPasses \/ Reopen
  \/ \E p \in FeedPosts : Insert(p) \/ Delete(p)
  \/ \E limit \in Limits : ReadPage(limit)

FeedSpec == FeedInit /\ [][FeedNext]_feedVars

-----------------------------------------------------------------------------
\* A reader that reached the end missed, of the posts that were there all the while,
\* no more than were deleted meanwhile: posts that arrive, or arrive again, hide none,
\* except one that arrives again within the second and goes behind others of it.
PagesComplete ==
  offset = Done => Cardinality(steady \ read) <= removed
=============================================================================
