---------------------------- MODULE SocialStore ----------------------------
(***************************************************************************)
(* The cache of social events (social_store.rs) behind the handler that    *)
(* fills it (handle_incoming_social, and the commands of the application). *)
(* The node's lock makes a handler atomic for the others, but every SQL    *)
(* statement commits on its own: job is the handler between two of them,   *)
(* and Abandon is a statement that fails or a crash, after which the       *)
(* statements already done stay.  Events come in any order, and again.     *)
(*                                                                         *)
(* Two replies buffered within one second are ordered by their ids, which  *)
(* say nothing of their arrival: which of the buffered comments are first  *)
(* is left open.                                                           *)
(***************************************************************************)
EXTENDS Integers, FiniteSets, FiniteSetsExt

CONSTANTS
  Posts,
  Comments,
  PostOf,      \* post_id of each comment
  ParentOf,    \* parent_id of each comment, "none" for a direct one
  Voters,
  Rated,       \* the posts and comments that are voted on
  Links,       \* pairs of social_follows, social_community_members, social_bookmarks
  Mail,        \* private messages and reports
  MaxOrphans,  \* MAX_ORPHAN_COMMENTS
  Window,      \* LIMIT of the scan of promote_orphan_comments
  MaxCuts,     \* bound on the handlers abandoned half-way
  MaxCopies,   \* bound on the receptions of one message
  MaxAstray    \* bound on what the votes that name another table take from a score

ASSUME SocialAssumption ==
  /\ PostOf \in [Comments -> Posts]
  /\ ParentOf \in [Comments -> Comments \cup {"none"}]
  /\ Rated \subseteq Posts \cup Comments
  /\ "none" \notin Comments /\ Posts \cap Comments = {}
  /\ IsFiniteSet(Comments) /\ IsFiniteSet(Voters)
  /\ {MaxOrphans, Window, MaxCuts, MaxCopies, MaxAstray} \subseteq Nat

VARIABLES
  posts,     \* social_posts
  comments,  \* social_comments
  orphans,   \* social_orphan_comments
  votes,     \* social_votes: the direction, 0 when there is no row
  score,     \* vote_score of posts and comments that have a row
  links,     \* rows of the tables of pairs
  copies,    \* rows of each message or report
  job,       \* what the handler in progress has still to do
  seen,      \* history: posts received "never", "once" or "more", deletions included
  got,       \* history: comments received
  evicted,   \* history: comments the cap of the buffer pushed out
  base,      \* history: the votes there were when the row was written
  astray,    \* history: what was due to the score since, and went to another table
  cuts       \* handlers abandoned so far

socialVars == <<posts, comments, orphans, votes, score, links, copies, job, seen, got, evicted, base, astray, cuts>>
threads == <<posts, comments, orphans>>
tallies == <<votes, score, base, astray>>
rows == <<links, copies>>
history == <<seen, got, evicted, cuts>>

Present(t) == t \in posts \cup comments
\* The votes for t, less those against it.
Tally(t) ==
  Cardinality({v \in Voters : votes[v][t] = 1}) - Cardinality({v \in Voters : votes[v][t] = -1})

Idle == job.op = "idle"
NoJob == [op |-> "idle"]
Promotion(p) == [op |-> "promote", post |-> p]

\* A row written anew starts at 0, whatever votes there are for it.
Reset(S) ==
  /\ score' = [t \in Rated |-> IF t \in S THEN 0 ELSE score[t]]
  /\ base' = [t \in Rated |-> IF t \in S THEN Tally(t) ELSE base[t]]
  /\ astray' = [t \in Rated |-> IF t \in S THEN 0 ELSE astray[t]]
  /\ UNCHANGED votes

-----------------------------------------------------------------------------
(* Posts *)

CommentsOf(p) == {c \in comments : PostOf[c] = p}

\* The foreign keys: deleting p takes its comments along, and is refused while a
\* comment of another post answers one of them.
Removable(p) ==
  \A c \in comments \ CommentsOf(p) : ParentOf[c] \notin CommentsOf(p)

\* insert_post, INSERT OR REPLACE: the former row goes first, with its comments.
ReceivePost(p) ==
  /\ Idle /\ Removable(p)
  /\ posts' = posts \cup {p}
  /\ comments' = comments \ CommentsOf(p)
  /\ Reset({p})
  /\ job' = Promotion(p)
  /\ seen' = [seen EXCEPT ![p] = IF @ = "never" THEN "once" ELSE "more"]
  /\ UNCHANGED <<orphans, rows, got, evicted, cuts>>

\* delete_post: votes stay.
DeletePost(p) ==
  /\ Idle /\ p \in posts /\ Removable(p)
  /\ posts' = posts \ {p}
  /\ comments' = comments \ CommentsOf(p)
  /\ seen' = [seen EXCEPT ![p] = "more"]
  /\ UNCHANGED <<orphans, tallies, rows, job, got, evicted, cuts>>

-----------------------------------------------------------------------------
(* Comments *)

ParentReady(c) == ParentOf[c] \in comments \cup {"none"}
Ready(c) == PostOf[c] \in posts /\ ParentReady(c)
Waiting(p) == {c \in orphans : PostOf[c] = p}

\* A row of the buffer is deleted once its comment has been stored.
Unbuffering(c) == [op |-> "unbuffer", comment |-> c, next |-> Promotion(PostOf[c])]

\* Slip: only the arrival of a post looks for comments that wait.
UnbufferingOnly(c) == [op |-> "unbuffer", comment |-> c, next |-> NoJob]

\* What insert_comment does after its INSERT.
AfterStoring(c) == Unbuffering(c)

\* insert_comment: stored, replacing a former row, or buffered.
ReceiveComment(c) ==
  /\ Idle
  /\ got' = got \cup {c}
  /\ IF Ready(c)
     THEN /\ comments' = comments \cup {c}
          /\ Reset({c})
          /\ job' = AfterStoring(c)
          /\ UNCHANGED orphans
     ELSE /\ orphans' = orphans \cup {c}
          /\ job' = [op |-> "cap"]
          /\ UNCHANGED <<comments, tallies>>
  /\ UNCHANGED <<posts, rows, seen, evicted, cuts>>

\* Slip: the cap tested one comment too late.
KeptLate(S) == Cardinality(S) = Min({MaxOrphans + 1, Cardinality(orphans)})

Kept(S) == Cardinality(S) = Min({MaxOrphans, Cardinality(orphans)})

\* The oldest comments beyond the cap leave the buffer.
Cap ==
  /\ job.op = "cap"
  /\ \E S \in SUBSET orphans :
       /\ Kept(S)
       /\ orphans' = S
       /\ evicted' = evicted \cup (orphans \ S)
  /\ job' = NoJob
  /\ UNCHANGED <<posts, comments, tallies, rows, seen, got, cuts>>

Unbuffer ==
  /\ job.op = "unbuffer"
  /\ orphans' = orphans \ {job.comment}
  /\ job' = job.next
  /\ UNCHANGED <<posts, comments, tallies, rows, history>>

\* promote_orphan_comments, a comment of the window: INSERT OR IGNORE, then DELETE.
Promote(c) ==
  /\ job.op = "promote" /\ c \in Waiting(job.post) /\ ParentReady(c)
  /\ comments' = comments \cup {c}
  /\ Reset({c} \ comments)
  /\ job' = Unbuffering(c)
  /\ UNCHANGED <<posts, orphans, rows, history>>

\* It ends when the first comments that wait still do.
PromoteEnds ==
  /\ job.op = "promote"
  /\ \E W \in SUBSET Waiting(job.post) :
       /\ Cardinality(W) = Min({Window, Cardinality(Waiting(job.post))})
       /\ \A c \in W : ~ParentReady(c)
  /\ job' = NoJob
  /\ UNCHANGED <<threads, tallies, rows, history>>

-----------------------------------------------------------------------------
(* Votes and rows that stand alone *)

\* Slip: the former vote of the voter is not taken off.
DeltaOf(v, t, d) == d

Delta(v, t, d) == d - votes[v][t]

TableOf(t) == IF t \in Posts THEN "posts" ELSE "comments"

\* The table is the one the vote names, "posts" when it names none; the commands of
\* the application pass any name on.
Tables == {"posts", "comments", "other"}

\* vote: the row of the voter, which the target alone identifies, then the score in
\* the table named, unless nothing changes.  (A direction of 0 passes the handler;
\* social_votes refuses it.)
Vote(v, t, d, table) ==
  /\ Idle /\ d # 0
  /\ table = TableOf(t) \/ astray[t] + Delta(v, t, d) \in -MaxAstray .. MaxAstray
  /\ votes' = [votes EXCEPT ![v][t] = d]
  /\ job' = IF Delta(v, t, d) = 0 THEN NoJob
            ELSE [op |-> "score", target |-> t, table |-> table, delta |-> Delta(v, t, d)]
  /\ UNCHANGED <<threads, score, base, astray, rows, history>>

\* Without a row for the target in the table nothing is updated, and nothing is said.
Score ==
  /\ job.op = "score"
  /\ \/ /\ job.table = TableOf(job.target)
        /\ score' = [score EXCEPT ![job.target] = IF Present(job.target) THEN @ + job.delta ELSE @]
        /\ UNCHANGED astray
     \/ /\ job.table # TableOf(job.target)
        /\ astray' = [astray EXCEPT ![job.target] = @ + job.delta]
        /\ UNCHANGED score
  /\ job' = NoJob
  /\ UNCHANGED <<threads, votes, base, rows, history>>

\* follow, join_community, add_bookmark and their opposites, as they come.
Link(l) ==
  /\ Idle
  /\ links' = links \cup {l}
  /\ UNCHANGED <<threads, tallies, copies, job, history>>

Unlink(l) ==
  /\ Idle
  /\ links' = links \ {l}
  /\ UNCHANGED <<threads, tallies, copies, job, history>>

\* insert_message, submit_report: the id is drawn at each reception.
Deliver(m) ==
  /\ Idle /\ copies[m] < MaxCopies
  /\ copies' = [copies EXCEPT ![m] = @ + 1]
  /\ UNCHANGED <<threads, tallies, links, job, history>>

\* A statement fails, which is only logged, or the process stops.
Abandon ==
  /\ ~Idle /\ cuts < MaxCuts
  /\ job' = NoJob
  /\ cuts' = cuts + 1
  /\ UNCHANGED <<threads, tallies, rows, seen, got, evicted>>

-----------------------------------------------------------------------------
SocialInit ==
  /\ posts = {} /\ comments = {} /\ orphans = {} /\ links = {}
  /\ votes = [v \in Voters |-> [t \in Rated |-> 0]]
  /\ score = [t \in Rated |-> 0] /\ base = [t \in Rated |-> 0] /\ astray = [t \in Rated |-> 0]
  /\ copies = [m \in Mail |-> 0]
  /\ job = NoJob
  /\ seen = [p \in Posts |-> "never"]
  /\ got = {} /\ evicted = {} /\ cuts = 0

ThreadNext ==
  \/ \E p \in Posts : ReceivePost(p) \/ DeletePost(p)
  \/ \E c \in Comments : ReceiveComment(c) \/ Promote(c)
  \/ Cap \/ Unbuffer \/ PromoteEnds \/ Score \/ Abandon
  \/ \E v \in Voters, t \in Rated, d \in {-1, 1}, table \in Tables : Vote(v, t, d, table)

\* Rows that no thread depends on.
RowNext ==
  \/ \E l \in Links : Link(l) \/ Unlink(l)
  \/ \E m \in Mail : Deliver(m)

SocialNext == ThreadNext \/ RowNext

SocialSpec == SocialInit /\ [][SocialNext]_socialVars

-----------------------------------------------------------------------------
(* Properties *)

\* Types and foreign keys, whatever handlers were abandoned; the buffer exceeds
\* its cap only by handlers in progress or abandoned, and a comment is stored and
\* buffered at once only on their account.
StoreConsistent ==
  /\ posts \subseteq Posts /\ got \subseteq Comments /\ evicted \subseteq got
  /\ links \subseteq Links
  /\ \A c \in comments : Ready(c)
  /\ orphans \cup comments \subseteq got
  /\ Cardinality(orphans) <= MaxOrphans + cuts + (IF job.op = "cap" THEN 1 ELSE 0)
  /\ Cardinality(orphans \cap comments) <= cuts + (IF job.op = "unbuffer" THEN 1 ELSE 0)

\* The comments of p that only ever answer comments of p.
OwnComments(p) ==
  {c \in Comments : PostOf[c] = p /\ (ParentOf[c] = "none" \/ PostOf[ParentOf[c]] = p)}

\* S holds c and all its ancestors, up to a direct comment: c is in the least set
\* with the comments of S whose parent is in it or that have none.  (Comments that
\* answer each other in a circle are never rooted.)
Rooted(c, S) ==
  \A A \in SUBSET S :
    (\A d \in S : ParentOf[d] \in A \cup {"none"} => d \in A) => c \in A

\* Whether the post or its comments came first, and in whatever order, repeated or
\* not, the cache shows the same comments: those received with all their ancestors.
\* It holds of a post that came once, within the window of the scan, as long as the
\* buffer pushed nothing out and no handler was abandoned.
OrderIndependent ==
  Idle /\ cuts = 0 /\ evicted = {} =>
    \A p \in Posts :
      seen[p] = "once" /\ {c \in Comments : PostOf[c] = p} = OwnComments(p)
      /\ Cardinality(OwnComments(p)) <= Window
      => CommentsOf(p) = {c \in OwnComments(p) \cap got : Rooted(c, got \cap OwnComments(p))}

\* The score of a row is the sum of the votes cast since it was written, less what
\* votes that named another table moved it by: a voter who votes again or changes
\* sides counts once, and no other handler parts the scores from the votes.
ScoreTracksVotes ==
  Idle /\ cuts = 0 =>
    \A t \in Rated \cap (posts \cup comments) : score[t] = Tally(t) - base[t] - astray[t]
=============================================================================
