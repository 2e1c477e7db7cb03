------------------------------ MODULE Microblog ------------------------------
(***************************************************************************)
(* The microblog example: an HTTP server with the posts of one user, of    *)
(* which the timeline gives the newest, and the identities the user        *)
(* follows.  Every request is one critical section of its lock.  A reader  *)
(* fetches the timeline now and then and goes by the ids.                  *)
(***************************************************************************)
EXTENDS Naturals, SequencesExt

CONSTANTS
  TimelineLength,  \* posts of a timeline (20)
  Targets,         \* identities that may be followed
  MaxPosts         \* bound: posts

ASSUME MicroblogAssumption == TimelineLength \in Nat \ {0} /\ MaxPosts \in Nat

VARIABLES
  posts,      \* ids, oldest first
  next_id,
  following,
  \* the reader
  newest,     \* the largest id it has had
  got,        \* ids it has had
  gaps,       \* ids it knows it has missed
  fetchedAt   \* history: posts there were when it last fetched

microblogVars == <<posts, next_id, following, newest, got, gaps, fetchedAt>>
readerVars == <<newest, got, gaps, fetchedAt>>

BlogInit ==
  /\ posts = <<>>
  /\ next_id = 1
  /\ following = {}
  /\ newest = 0
  /\ got = {}
  /\ gaps = {}
  /\ fetchedAt = 0

-----------------------------------------------------------------------------
CreatePost ==
  /\ next_id <= MaxPosts
  /\ posts' = Append(posts, next_id)
  /\ next_id' = next_id + 1
  /\ UNCHANGED <<following, readerVars>>

Follow(target) ==
  /\ following' = following \cup {target}
  /\ UNCHANGED <<posts, next_id, readerVars>>

Unfollow(target) ==
  /\ following' = following \ {target}
  /\ UNCHANGED <<posts, next_id, readerVars>>

\* take(20)
Taken(s) == SubSeq(s, 1, Min({TimelineLength, Len(s)}))

\* Mutant: cut to its length before it is turned round.
TimelineCutFirst == Reverse(Taken(posts))

\* get_timeline: newest first.
Timeline == Taken(Reverse(posts))

\* The reader has the timeline.  Ids between the newest it had and the oldest
\* of the timeline are posts it will not see.
Fetch ==
  /\ Timeline # <<>>
  /\ got' = got \cup ToSet(Timeline)
  /\ gaps' = gaps \cup (newest + 1 .. Last(Timeline) - 1)
  /\ newest' = Head(Timeline)
  /\ fetchedAt' = Len(posts)
  /\ UNCHANGED <<posts, next_id, following>>

BlogNext ==
  \/ CreatePost
  \/ \E target \in Targets : Follow(target) \/ Unfollow(target)
  \/ Fetch

-----------------------------------------------------------------------------
\* Every variable has its type.
BlogTypeOK ==
  /\ posts \in Seq(1 .. MaxPosts)
  /\ next_id = Len(posts) + 1
  /\ following \subseteq Targets
  /\ got \cup gaps \subseteq ToSet(posts)
  /\ newest <= fetchedAt

\* A reader that goes by the ids knows exactly what it has missed: each post there
\* was when it last fetched is one it had or one it knows of.
GapsAreNoticed ==
  /\ got \cup gaps = 1 .. fetchedAt
  /\ got \cap gaps = {}

=============================================================================
