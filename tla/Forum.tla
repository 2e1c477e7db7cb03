-------------------------------- MODULE Forum --------------------------------
(***************************************************************************)
(* The forum example: an HTTP server that keeps threads with replies and   *)
(* the users who wrote them, and gives both lists page by page.  Every     *)
(* request is one critical section of its lock.  A client fetches page     *)
(* after page of a list while others write.                                *)
(*                                                                         *)
(* A thread and a reply are their ids; the time is the number of what was  *)
(* written.                                                                *)
(***************************************************************************)
EXTENDS Identity, FiniteSets, SequencesExt

CONSTANTS
  Authors,      \* names people write under, one of them possibly empty
  PerPageCap,   \* the most a page has (100)
  Asked,        \* page sizes clients ask for
  U32,          \* 2^32: pages are counted in u32
  MaxWritten    \* bound: threads and replies

ASSUME ForumAssumption ==
  /\ Authors \subseteq Seq(STRING)
  /\ PerPageCap \in Nat \ {0}
  /\ Asked \subseteq Nat \ {0}
  /\ MaxWritten \in Nat
  /\ U32 \in Nat /\ U32 > PerPageCap * (MaxWritten + 1)

VARIABLES
  threads,         \* [id, author, replies, reply_count, last_activity]
  users,           \* identity -> post_count
  next_thread_id,
  next_reply_id,
  walk             \* the client's walk through a list, or NoWalk

forumVars == <<threads, users, next_thread_id, next_reply_id, walk>>

\* The list of threads; any other list is that of the replies of a thread.
ThreadList == 0

\* `due` is the history's: what was in the list when the walk began.
NoWalk == [list |-> ThreadList, asked |-> 1, page |-> 0, more |-> FALSE, due |-> {}, seen |-> <<>>]

ForumInit ==
  /\ threads = <<>>
  /\ users = <<>>
  /\ next_thread_id = 1
  /\ next_reply_id = 1
  /\ walk = NoWalk

-----------------------------------------------------------------------------
Now == (next_thread_id - 1) + (next_reply_id - 1)

\* get_or_create_user, and post_count += 1.
CountPost(id) ==
  users' = [i \in DOMAIN users \cup {id} |->
              (IF i \in DOMAIN users THEN users[i] ELSE 0) + (IF i = id THEN 1 ELSE 0)]

NewThread(name) ==
  [id |-> next_thread_id, author |-> Local(name), replies |-> <<>>,
   reply_count |-> 0, last_activity |-> Now + 1]

\* Mutant: the id is handed out again.
CreateThreadKeepsId(name) ==
  /\ Now < MaxWritten
  /\ threads' = Append(threads, NewThread(name))
  /\ CountPost(Local(name))
  /\ UNCHANGED <<next_thread_id, next_reply_id, walk>>

CreateThread(name) ==
  /\ Now < MaxWritten
  /\ threads' = Append(threads, NewThread(name))
  /\ next_thread_id' = next_thread_id + 1
  /\ CountPost(Local(name))
  /\ UNCHANGED <<next_reply_id, walk>>

\* find(|t| t.thread.id == id), 0 if there is none.
Place(id) == SelectInSeq(threads, LAMBDA t : t.id = id)

AddReply(name, n) ==
  threads' = [threads EXCEPT
                ![n].replies = Append(@, [id |-> next_reply_id, author |-> Local(name)]),
                ![n].reply_count = @ + 1,
                ![n].last_activity = Now + 1]

\* Mutant: the user is counted before the thread is looked for.
ReplyCountsFirst(name, id) ==
  /\ Now < MaxWritten
  /\ CountPost(Local(name))
  /\ IF Place(id) = 0
       THEN UNCHANGED <<threads, next_reply_id>>
       ELSE AddReply(name, Place(id)) /\ next_reply_id' = next_reply_id + 1
  /\ UNCHANGED <<next_thread_id, walk>>

\* A thread that is not there is 404 and changes nothing.
Reply(name, id) ==
  /\ Now < MaxWritten
  /\ Place(id) # 0
  /\ AddReply(name, Place(id))
  /\ next_reply_id' = next_reply_id + 1
  /\ CountPost(Local(name))
  /\ UNCHANGED <<next_thread_id, walk>>

\* get_profile parses what its path has.
HasProfile(written) == Parse(written) \in DOMAIN users

-----------------------------------------------------------------------------
Ids(s) == [i \in DOMAIN s |-> s[i].id]

\* Mutant: the thread written to last comes first.
NewestByActivity ==
  Reverse(Ids(SortSeq(threads, LAMBDA t, u : t.last_activity < u.last_activity)))

NewestThreads == Reverse(Ids(threads))

\* The ids of a list, in the order it is paged through.
Listed(list) ==
  IF list = ThreadList THEN NewestThreads ELSE Ids(threads[Place(list)].replies)

\* skip(start).take(per_page), start computed in u32.
Page(s, page, perPage) ==
  LET start == ((page - 1) * perPage) % U32
  IN  SubSeq(s, start + 1, Min({start + perPage, Len(s)}))

\* Somebody wants to have all there is of a list.
StartWalk ==
  /\ walk = NoWalk
  /\ \E list \in {ThreadList} \cup ToSet(Ids(threads)), asked \in Asked :
       walk' = [list |-> list, asked |-> asked, page |-> 1, more |-> TRUE,
                due |-> ToSet(Listed(list)), seen |-> <<>>]
  /\ UNCHANGED <<threads, users, next_thread_id, next_reply_id>>

\* per_page of the answer.
PerPage == Min({walk.asked, PerPageCap})

\* list_threads or get_thread: a page, and total, page and per_page, by which
\* the client sees whether there is another.
GetPage ==
  /\ walk.more
  /\ walk' = [walk EXCEPT !.seen = @ \o Page(Listed(walk.list), walk.page, PerPage),
                          !.more = walk.page * PerPage < Len(Listed(walk.list)),
                          !.page = @ + 1]
  /\ UNCHANGED <<threads, users, next_thread_id, next_reply_id>>

\* The client has had the last page.
WalkIsDone == walk.page > 0 /\ ~walk.more

EndWalk ==
  /\ WalkIsDone
  /\ walk' = NoWalk
  /\ UNCHANGED <<threads, users, next_thread_id, next_reply_id>>

ForumNext ==
  \/ \E name \in Authors : CreateThread(name)
  \/ \E name \in Authors, id \in 1 .. MaxWritten : Reply(name, id)
  \/ StartWalk
  \/ GetPage
  \/ EndWalk

-----------------------------------------------------------------------------
StartedBy(id) == {i \in DOMAIN threads : threads[i].author = id}

RepliesBy(id) ==
  {r \in UNION {ToSet(threads[i].replies) : i \in DOMAIN threads} : r.author = id}

\* Every variable has its type; ids are handed out in order.
ForumTypeOK ==
  /\ Ids(threads) = [i \in 1 .. next_thread_id - 1 |-> i]
  /\ \A i \in DOMAIN threads : threads[i].last_activity \in 1 .. Now
  /\ DOMAIN users \subseteq {Local(name) : name \in Authors}
  /\ next_reply_id \in 1 .. MaxWritten + 1
  /\ ToSet(walk.seen) \subseteq 1 .. MaxWritten

\* Each user's count is the number of threads and replies under that identity,
\* each thread's the number of its replies; nobody is a user who wrote nothing,
\* and each profile is found under its identity as it is written, whatever
\* characters the name has.
PostsAreAccountedFor ==
  /\ \A id \in DOMAIN users :
       /\ users[id] = Cardinality(StartedBy(id)) + Cardinality(RepliesBy(id))
       /\ users[id] > 0
       /\ Parse(Written(id)) = id /\ HasProfile(Written(id))
  /\ \A i \in DOMAIN threads : threads[i].reply_count = Len(threads[i].replies)

\* Whoever has had all pages of a list has had all that was in it at the start,
\* whatever was written meanwhile: the threads, which are listed newest first,
\* perhaps twice; the replies once each, in order.
WalksMissNothing ==
  WalkIsDone =>
    /\ walk.due \subseteq ToSet(walk.seen)
    /\ walk.list # ThreadList => IsPrefix(walk.seen, Listed(walk.list))

=============================================================================
