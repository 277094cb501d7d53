------------------------- MODULE SlackPoller_proofs -------------------------
(***************************************************************************)
(* Theorems about SlackPoller, for any agents, any number of posts, pages  *)
(* of any size, and any number of failures, requests and restarts.         *)
(***************************************************************************)
EXTENDS SlackPoller, FiniteSetTheorems, WellFoundedInduction, TLAPS

\* What is known of posts refers to posts that are there.
PointsToPosts ==
  /\ \A t \in DOMAIN posts : posts[t].root <= Len(posts)
  /\ channel.last <= Len(posts)
  /\ \A row \in threads : row.last <= Len(posts)
  /\ poll.job.last <= Len(posts) /\ poll.high <= Len(posts)
  /\ \A job \in poll.rest : job.root # 0 /\ job.last <= Len(posts)
  /\ \A message \in open : message[1][1] <= Len(posts)
  /\ \A reply \in posted : reply[1] <= Len(posts) /\ reply[3] <= Len(posts)

\* A mention is dispatched, or will be, because a user wrote it.
WrittenByUser(m) == m[1] \in DOMAIN posts /\ posts[m[1]].by = "user"

FeedbackInv == \A m \in poll.todo \cup handled : WrittenByUser(m)

\* Meanwhile the row of the channel may move on, but not back.
JobIsBehind == poll.job.root = 0 => poll.job.last <= channel.last

\* The mentions the cursor is about to pass are handled, or will be.
TodoIsComplete ==
  poll.phase = "dispatch" =>
    \A t \in Ts, a \in Agents :
      /\ Asks(t, a) /\ posts[t].root = poll.job.root
      /\ poll.job.last < t /\ t <= poll.high
      /\ poll.job.root # 0 => a = poll.job.agent
      => <<t, a>> \in poll.todo \cup handled \cup (IF poll.job.root = 0 THEN excused ELSE {})

SlackInv ==
  /\ SlackTypeOK /\ PointsToPosts /\ FeedbackInv /\ JobIsBehind /\ TodoIsComplete
  /\ CursorIsHonest

------------------------------------------------------------------------------
(* Greatest elements.                                                      *)

Below == {pair \in Nat \X Nat : pair[1] < pair[2]}

LEMMA LessIsWellFounded == IsWellFoundedOn(Below, Nat)
<1>1. Below = OpToRel(<, Nat)
  BY DEF Below, OpToRel
<1> QED
  BY <1>1, NatLessThanWellFounded

LEMMA LeastElement ==
  ASSUME NEW S \in SUBSET Nat, S # {}
  PROVE  \E x \in S : \A y \in S : x <= y
<1>1. PICK x \in S : \A y \in S : ~(<<y, x>> \in Below)
  BY LessIsWellFounded, WFMin
<1>2. ASSUME NEW y \in S PROVE x <= y
  <2>1. ~(<<y, x>> \in Below)
    BY <1>1
  <2>2. y \in Nat /\ x \in Nat
    OBVIOUS
  <2> QED
    BY <2>1, <2>2 DEF Below
<1> QED
  BY <1>2

LEMMA GreatestElement ==
  ASSUME NEW n \in Nat, NEW S \in SUBSET (0..n), S # {}
  PROVE  Max(S) \in S /\ \A y \in S : y <= Max(S)
<1> DEFINE T == {z \in 0..n : n - z \in S}
<1>1. PICK x \in S : TRUE
  OBVIOUS
<1>2. T # {} /\ T \subseteq Nat
  <2>1. n - x \in T
    OBVIOUS
  <2>2. \A z \in T : z \in Nat
    OBVIOUS
  <2> HIDE DEF T
  <2> QED
    BY <2>1, <2>2
<1>3. PICK z \in T : \A y \in T : z <= y
  BY <1>2, LeastElement
<1>4. \A y \in S : n - z >= y
  <2> SUFFICES ASSUME NEW y \in S PROVE n - z >= y
    OBVIOUS
  <2>1. z <= n - y
    BY <1>3
  <2> QED
    BY <2>1
<1>5. \E m \in S : \A y \in S : m >= y
  BY <1>4
<1>6. Max(S) \in S /\ \A y \in S : Max(S) >= y
  BY <1>5 DEF Max
<1> QED
  BY <1>6

------------------------------------------------------------------------------
(* A page and its mentions.                                                *)

LEMMA PageIsFresh ==
  ASSUME SlackTypeOK, NEW job \in Job
  PROVE  /\ DOMAIN posts = 1..Len(posts) /\ Len(posts) \in 0..MaxPosts
         /\ Page(job) \subseteq Fresh(job) /\ Counted(job) \subseteq Page(job)
         /\ \A t \in Fresh(job) : t \in 1..Len(posts) /\ t > job.last
         /\ Fresh(job) \subseteq Ts /\ IsFiniteSet(Fresh(job))
<1>1. DOMAIN posts = 1..Len(posts) /\ Len(posts) \in 0..MaxPosts
  BY SlackConstantsOK DEF SlackConstantsOK, SlackTypeOK
<1>2. \A t \in Fresh(job) : t \in 1..Len(posts) /\ t > job.last
  BY <1>1 DEF Fresh
<1>3. IsFiniteSet(Fresh(job))
  <2>1. IsFiniteSet(1..Len(posts))
    BY <1>1, FS_Interval
  <2> QED
    BY <2>1, <1>2, FS_Subset
<1>4. Fresh(job) \subseteq Ts
  <2> SUFFICES ASSUME NEW t \in Fresh(job) PROVE t \in Ts
    OBVIOUS
  <2> QED
    BY <1>1, <1>2, SlackConstantsOK DEF Ts, SlackConstantsOK
<1> QED
  BY <1>1, <1>2, <1>3, <1>4 DEF Page, Counted

LEMMA NewestIsLast ==
  ASSUME SlackTypeOK, NEW job \in Job
  PROVE  /\ NewestCounted(job) \in 0..MaxPosts
         /\ NewestCounted(job) \in Counted(job) \cup {job.last}
         /\ job.last <= NewestCounted(job)
<1> DEFINE S == Counted(job) \cup {job.last}
<1>1. S \subseteq 0..MaxPosts
  <2>1. Counted(job) \subseteq 1..MaxPosts
    BY PageIsFresh DEF Ts
  <2>2. job.last \in 0..MaxPosts
    BY DEF Job
  <2>3. MaxPosts \in Nat
    BY SlackConstantsOK DEF SlackConstantsOK
  <2> QED
    BY <2>1, <2>2, <2>3
<1>2. Max(S) \in S /\ \A y \in S : y <= Max(S)
  <2> HIDE DEF S
  <2>1. job.last \in S
    BY DEF S
  <2> QED
    BY <1>1, <2>1, GreatestElement, SlackConstantsOK DEF SlackConstantsOK
<1>3. NewestCounted(job) = Max(S)
  BY DEF NewestCounted
<1> QED
  BY <1>1, <1>2, <1>3

\* The page of a thread has the oldest replies: none is left out before one of it.
LEMMA ThreadPageIsPrefix ==
  ASSUME SlackTypeOK, NEW job \in Job, job.root # 0,
         NEW t \in Fresh(job), NEW u \in Page(job), t <= u
  PROVE  t \in Page(job)
<1> DEFINE Before(v) == {w \in Fresh(job) : w < v}
<1>1. Before(t) \subseteq Before(u)
  BY PageIsFresh
<1>2. IsFiniteSet(Before(u)) /\ IsFiniteSet(Before(t))
  BY PageIsFresh, FS_Subset
<1>3. Cardinality(Before(t)) <= Cardinality(Before(u))
  BY <1>1, <1>2, FS_Subset
<1>4. Cardinality(Before(t)) \in Nat /\ Cardinality(Before(u)) \in Nat
  BY <1>2, FS_CardinalityType
<1>5. Cardinality(Before(u)) < Window
  BY DEF Page
<1>6. Cardinality(Before(t)) < Window
  BY <1>3, <1>4, <1>5, SlackConstantsOK DEF SlackConstantsOK
<1> QED
  BY <1>6 DEF Page

------------------------------------------------------------------------------
(* Types.                                                                  *)

LEMMA PostsGrow ==
  ASSUME SlackTypeOK, NEW post \in Post, Add(post)
  PROVE  /\ posts' \in Seq(Post) /\ Len(posts') = Len(posts) + 1 /\ Len(posts') <= MaxPosts
         /\ \A t \in DOMAIN posts : t \in DOMAIN posts' /\ posts'[t] = posts[t]
         /\ posts'[Len(posts')] = post
  BY SlackConstantsOK DEF SlackConstantsOK, SlackTypeOK, Add

\* A user's post, an answer below a mention: the posts there are stay.
LEMMA WriteAdds ==
  ASSUME SlackTypeOK, Write
  PROVE  \E post \in Post : Add(post) /\ post.root \in {0} \cup DOMAIN posts
<1>1. \A t \in DOMAIN posts : t \in 0..MaxPosts
  BY SlackConstantsOK DEF SlackConstantsOK, SlackTypeOK
<1>2. 0 \in 0..MaxPosts
  BY SlackConstantsOK DEF SlackConstantsOK
<1> QED
  BY <1>1, <1>2 DEF Write, Post

LEMMA RootIsPost ==
  ASSUME SlackTypeOK, PointsToPosts, NEW m \in Mention, m[1] <= Len(posts)
  PROVE  RootOf(m) \in Ts /\ RootOf(m) <= Len(posts)
<1>1. m[1] \in DOMAIN posts /\ m[1] \in Ts
  BY SlackConstantsOK DEF SlackConstantsOK, SlackTypeOK, Mention, Ts
<1>2. posts[m[1]].root \in 0..MaxPosts /\ posts[m[1]].root <= Len(posts)
  <2>1. posts[m[1]] \in Post
    BY <1>1 DEF SlackTypeOK
  <2> QED
    BY <1>1, <2>1 DEF PointsToPosts, Post
<1> QED
  BY <1>1, <1>2, SlackConstantsOK DEF SlackConstantsOK, SlackTypeOK, RootOf, Ts

LEMMA AnswerIsPost ==
  ASSUME SlackTypeOK, PointsToPosts, NEW m \in Mention, m[1] <= Len(posts),
         NEW by \in {"agent", "user"}, NEW to \in SUBSET Agents
  PROVE  Answer(m, by, to) \in Post /\ Answer(m, by, to).root <= Len(posts)
<1>1. RootOf(m) \in 0..MaxPosts /\ RootOf(m) <= Len(posts)
  BY RootIsPost, SlackConstantsOK DEF SlackConstantsOK, Ts
<1>2. m[1] \in DOMAIN posts
  BY SlackConstantsOK DEF SlackConstantsOK, SlackTypeOK, Mention, Ts
<1>3. posts[m[1]] \in Post
  BY <1>2 DEF SlackTypeOK
<1>4. posts[m[1]].depth + 1 \in Nat
  BY <1>3 DEF Post
<1> QED
  BY <1>1, <1>4 DEF Answer, Post

\* The answer of a message is posted, or nothing is.
LEMMA ReplyPosts ==
  ASSUME NEW message \in open, PostReply(message)
  PROVE  \/ \E by \in {"agent", "user"}, to \in SUBSET Agents :
              /\ Add(Answer(message[1], by, to))
              /\ posted' = posted \cup {<<RootOf(message[1]), message[1][2], Len(posts) + 1>>}
         \/ /\ UNCHANGED posts
            /\ posted' = posted \cup {<<RootOf(message[1]), message[1][2], RootOf(message[1])>>}
  BY DEF PostReply

LEMMA PollerKeepsTypes == SlackTypeOK /\ (PollerStep \/ ApiError \/ PollFails) => SlackTypeOK'
<1> SUFFICES ASSUME SlackTypeOK, PollerStep \/ ApiError \/ PollFails PROVE SlackTypeOK'
  OBVIOUS
<1> USE SlackConstantsOK DEF SlackConstantsOK, SlackTypeOK
<1>1. poll.job \in Job /\ Done \in Poll /\ Forgiven \in Channel
  <2>1. poll.job \in Job
    BY DEF Poll
  <2>2. NoJob \in Job
    BY DEF NoJob, Job
  <2>3. Done \in Poll
    <3>1. 0 \in 0..MaxPosts
      OBVIOUS
    <3> QED
      BY <2>2, <3>1 DEF Done, Poll
  <2>4. Forgiven \in Channel
    BY DEF Forgiven, Channel
  <2> QED
    BY <2>1, <2>3, <2>4
<1>2. CASE PollChannel
  <2>1. [root |-> 0, agent |-> Nobody, last |-> channel.last, live |-> TRUE] \in Job
    BY DEF Channel, Job
  <2>2. poll' \in Poll
    BY <1>2, <2>1 DEF PollChannel, Poll
  <2> QED
    BY <1>2, <2>2 DEF PollChannel
<1>3. CASE PollActiveThreads
  <2>1. \A row \in threads : JobOf(row) \in Job
    BY DEF JobOf, Thread, Job, Ts
  <2>2. PICK due \in SUBSET Followed(threads) : poll' = [poll EXCEPT !.phase = "threads", !.rest = due]
    BY <1>3 DEF PollActiveThreads
  <2>3. due \subseteq Job
    BY <2>1, <2>2 DEF Followed
  <2>4. poll' \in Poll
    BY <2>2, <2>3 DEF Poll
  <2>5. channel' \in Channel
    BY <1>3 DEF PollActiveThreads, Channel
  <2> QED
    BY <1>3, <2>4, <2>5 DEF PollActiveThreads
<1>4. ASSUME NEW job \in poll.rest, PollThread(job) PROVE SlackTypeOK'
  BY <1>4 DEF PollThread, Poll
<1>5. CASE Arrives
  <2>1. Mentions(poll.job) \subseteq Mention /\ Addressed(poll.job) \subseteq Mention
    BY <1>1, PageIsFresh DEF Mentions, Addressed, Mention
  <2>2. NewestCounted(poll.job) \in 0..MaxPosts
    BY <1>1, NewestIsLast
  <2>3. poll' \in Poll
    BY <1>1, <1>5, <2>1, <2>2 DEF Arrives, Poll
  <2> QED
    BY <1>1, <1>5, <2>1, <2>3 DEF Arrives
<1>6. CASE ApiError
  BY <1>1, <1>6 DEF ApiError
<1>7. CASE PollFails
  <2>1. channel' \in Channel
    <3>1. channel.fails \in 0..MaxRetry /\ MaxRetry \in Nat
      BY DEF Channel
    <3>2. \/ channel' = channel
          \/ channel.fails < MaxRetry /\ channel' = [channel EXCEPT !.fails = channel.fails + 1]
          \/ channel' = [channel EXCEPT !.fails = 0, !.status = "off"]
      BY <1>7 DEF PollFails
    <3>3. channel.fails < MaxRetry => channel.fails + 1 \in 0..MaxRetry
      BY <3>1
    <3>4. 0 \in 0..MaxRetry
      BY <3>1
    <3> QED
      BY <3>2, <3>3, <3>4 DEF Channel
  <2> QED
    BY <1>1, <1>7, <2>1 DEF PollFails
<1>8. CASE Dispatch
  <2>1. PICK m \in poll.todo : /\ poll' = [poll EXCEPT !.todo = @ \ {m}]
                               /\ handled' = handled \cup {m}
                               /\ \/ /\ open' = open \cup {<<m, sent[m]>>}
                                     /\ sent' = [sent EXCEPT ![m] = @ + 1]
                                  \/ UNCHANGED <<open, sent>>
    BY <1>8 DEF Dispatch
  <2>2. m \in Mention /\ poll' \in Poll
    BY <2>1 DEF Poll
  <2> QED
    BY <1>8, <2>1, <2>2 DEF Dispatch
<1>9. CASE Persist
  <2>1. poll.high \in 0..MaxPosts
    BY DEF Poll
  <2>2. channel' \in Channel
    BY <1>1, <1>9, <2>1 DEF Persist, Channel
  <2>3. threads' \subseteq Thread
    BY <1>9, <2>1 DEF Persist, Thread
  <2> QED
    BY <1>1, <1>9, <2>2, <2>3 DEF Persist
<1> QED
  BY <1>2, <1>3, <1>4, <1>5, <1>6, <1>7, <1>8, <1>9 DEF PollerStep

LEMMA OthersKeepTypes ==
  ASSUME SlackTypeOK, PointsToPosts, Write \/ AgentStep \/ Request \/ SlackRestart
  PROVE  SlackTypeOK'
<1> USE SlackConstantsOK DEF SlackConstantsOK, SlackTypeOK
<1>1. CASE Write
  BY <1>1, WriteAdds, PostsGrow DEF Write
<1>2. ASSUME NEW message \in open, PostReply(message) PROVE SlackTypeOK'
  <2>1. message[1] \in Mention /\ message[1][2] \in Agents /\ message[1][1] <= Len(posts)
    BY DEF PointsToPosts, Mention
  <2>2. RootOf(message[1]) \in Ts
    BY <2>1, RootIsPost
  <2>3. CASE \E by \in {"agent", "user"}, to \in SUBSET Agents :
               /\ Add(Answer(message[1], by, to))
               /\ posted' = posted \cup {<<RootOf(message[1]), message[1][2], Len(posts) + 1>>}
    <3>1. PICK by \in {"agent", "user"}, to \in SUBSET Agents :
               /\ Add(Answer(message[1], by, to))
               /\ posted' = posted \cup {<<RootOf(message[1]), message[1][2], Len(posts) + 1>>}
      BY <2>3
    <3>2. Answer(message[1], by, to) \in Post
      BY <2>1, AnswerIsPost
    <3>3. posts' \in Seq(Post) /\ Len(posts') <= MaxPosts /\ Len(posts) + 1 \in Ts
      BY <3>1, <3>2, PostsGrow DEF Ts
    <3> QED
      BY <1>2, <2>1, <2>2, <3>1, <3>3 DEF PostReply
  <2>4. CASE /\ UNCHANGED posts
             /\ posted' = posted \cup {<<RootOf(message[1]), message[1][2], RootOf(message[1])>>}
    BY <1>2, <2>1, <2>2, <2>4 DEF PostReply
  <2> QED
    BY <1>2, <2>3, <2>4, ReplyPosts
<1>3. ASSUME NEW message \in open, Unanswered(message) PROVE SlackTypeOK'
  BY <1>3 DEF Unanswered
<1>4. ASSUME NEW reply \in posted, RegisterReply(reply) PROVE SlackTypeOK'
  BY <1>4 DEF RegisterReply, Follow, Thread, Ts
<1>5. ASSUME NEW root \in DOMAIN posts, NEW agent \in Agents, RegisterThread(root, agent)
      PROVE  SlackTypeOK'
  <2>1. root \in Ts
    BY DEF Ts
  <2> QED
    BY <1>5, <2>1 DEF RegisterThread, Follow, Thread, Ts
<1>6. ASSUME NEW gone \in SUBSET threads, RemoveThreads(gone) PROVE SlackTypeOK'
  <2>1. \A job \in Job : Orphaned(job, gone) \in Job
    BY DEF Orphaned, Job
  <2>2. poll' \in Poll
    BY <1>6, <2>1, ZenonT(60) DEF RemoveThreads, Poll
  <2> QED
    BY <1>6, <2>2 DEF RemoveThreads
<1>7. CASE ToggleChannel
  BY <1>7 DEF ToggleChannel, Channel
<1>8. CASE DeleteChannel
  <2> DEFINE job == [poll.job EXCEPT !.live = @ /\ poll.job.root # 0]
  <2>1. job \in Job
    BY DEF Poll, Job
  <2>2. poll' = [poll EXCEPT !.job = job]
    BY <1>8 DEF DeleteChannel
  <2> HIDE DEF job
  <2>3. poll' \in Poll
    BY <2>1, <2>2 DEF Poll
  <2>4. channel' \in Channel
    <3>1. 0 \in 0..MaxRetry
      OBVIOUS
    <3> QED
      BY <1>8, <3>1 DEF DeleteChannel, Channel
  <2> QED
    BY <1>8, <2>3, <2>4 DEF DeleteChannel
<1>9. CASE AddChannel
  BY <1>9 DEF AddChannel, Channel
<1>10. ASSUME NEW agent \in Agents, ChangeRoster(agent) PROVE SlackTypeOK'
  BY <1>10 DEF ChangeRoster
<1>11. CASE SlackRestart
  <2>1. NoJob \in Job
    BY DEF NoJob, Job
  <2>2. Asleep \in Poll
    BY <2>1 DEF Asleep, Poll
  <2>3. channel' \in Channel
    BY <1>11 DEF SlackRestart, Channel
  <2> QED
    BY <1>11, <2>2, <2>3 DEF SlackRestart
<1> QED
  BY <1>1, <1>2, <1>3, <1>4, <1>5, <1>6, <1>7, <1>8, <1>9, <1>10, <1>11 DEF AgentStep, Request

------------------------------------------------------------------------------
(* References to posts.                                                    *)

LEMMA PollerKeepsPointers ==
  ASSUME SlackTypeOK, PointsToPosts, FeedbackInv, PollerStep \/ ApiError \/ PollFails
  PROVE  PointsToPosts'
<1> USE DEF PointsToPosts
<1>1. poll.job \in Job /\ Len(posts) \in Nat /\ 0 <= Len(posts)
  BY DEF SlackTypeOK, Poll
<1>2. Done.job.last <= Len(posts) /\ Done.high <= Len(posts) /\ Done.rest = poll.rest
  BY <1>1 DEF Done, NoJob, SlackTypeOK, Poll
<1>3. Forgiven.last = channel.last
  BY DEF Forgiven, SlackTypeOK, Channel
<1>4. CASE PollChannel
  BY <1>1, <1>4 DEF PollChannel, SlackTypeOK, Poll
<1>5. CASE PollActiveThreads
  <2>1. PICK due \in SUBSET Followed(threads) : poll' = [poll EXCEPT !.phase = "threads", !.rest = due]
    BY <1>5 DEF PollActiveThreads
  <2>2. \A job \in due : job.root # 0 /\ job.last <= Len(posts)
    BY DEF Followed, JobOf, SlackTypeOK, Thread, Ts
  <2>3. poll'.job = poll.job /\ poll'.high = poll.high /\ poll'.rest = due
    BY <2>1 DEF SlackTypeOK, Poll
  <2>4. channel'.last = channel.last /\ threads' \subseteq threads
    BY <1>5 DEF PollActiveThreads, SlackTypeOK, Channel
  <2>5. UNCHANGED <<posts, open, posted>>
    BY <1>5 DEF PollActiveThreads
  <2> QED
    BY <2>2, <2>3, <2>4, <2>5
<1>6. ASSUME NEW job \in poll.rest, PollThread(job) PROVE PointsToPosts'
  BY <1>6 DEF PollThread, SlackTypeOK, Poll
<1>7. CASE Arrives
  <2>1. NewestCounted(poll.job) <= Len(posts)
    BY <1>1, NewestIsLast, PageIsFresh
  <2>2. poll'.job.last <= Len(posts) /\ poll'.high <= Len(posts) /\ poll'.rest = poll.rest
    BY <1>2, <1>7, <2>1 DEF Arrives, SlackTypeOK, Poll
  <2>3. channel'.last = channel.last
    BY <1>3, <1>7 DEF Arrives
  <2> QED
    BY <1>7, <2>2, <2>3 DEF Arrives
<1>8. CASE ApiError
  BY <1>2, <1>3, <1>8 DEF ApiError
<1>9. CASE PollFails
  <2>1. channel'.last = channel.last
    BY <1>9 DEF PollFails, SlackTypeOK, Channel
  <2> QED
    BY <1>2, <1>9, <2>1 DEF PollFails
<1>10. CASE Dispatch
  <2>1. PICK m \in poll.todo : /\ poll' = [poll EXCEPT !.todo = @ \ {m}]
                               /\ open' \in {open, open \cup {<<m, sent[m]>>}}
    BY <1>10 DEF Dispatch
  <2>2. m[1] <= Len(posts)
    BY <2>1, <1>1 DEF FeedbackInv, WrittenByUser, SlackTypeOK
  <2> QED
    BY <1>10, <2>1, <2>2 DEF Dispatch, SlackTypeOK, Poll
<1>11. CASE Persist
  <2>1. channel'.last <= Len(posts)
    BY <1>3, <1>11 DEF Persist, Forgiven, SlackTypeOK, Channel
  <2>2. \A row \in threads' : row.last <= Len(posts)
    BY <1>11 DEF Persist, SlackTypeOK, Thread
  <2> QED
    BY <1>2, <1>11, <2>1, <2>2 DEF Persist
<1> QED
  BY <1>4, <1>5, <1>6, <1>7, <1>8, <1>9, <1>10, <1>11 DEF PollerStep

LEMMA OthersKeepPointers ==
  ASSUME SlackTypeOK, PointsToPosts, Write \/ AgentStep \/ Request \/ SlackRestart
  PROVE  PointsToPosts'
<1> USE DEF PointsToPosts
<1>1. Len(posts) \in Nat /\ DOMAIN posts = 1..Len(posts)
  BY DEF SlackTypeOK
<1>2. ASSUME NEW post \in Post, Add(post), post.root <= Len(posts),
             UNCHANGED <<channel, threads, poll>>, open' \subseteq open,
             \A reply \in posted' : reply \in posted
                \/ (reply[1] \in 0..Len(posts) /\ reply[3] \in 0..(Len(posts) + 1))
      PROVE  PointsToPosts'
  <2>1. /\ Len(posts') = Len(posts) + 1
        /\ \A t \in DOMAIN posts : posts'[t] = posts[t]
        /\ posts'[Len(posts')] = post /\ DOMAIN posts' = 1..(Len(posts) + 1)
    BY <1>1, <1>2, PostsGrow DEF SlackTypeOK
  <2>2. \A t \in DOMAIN posts' : posts'[t].root <= Len(posts')
    <3> SUFFICES ASSUME NEW t \in DOMAIN posts' PROVE posts'[t].root <= Len(posts')
      OBVIOUS
    <3>1. post.root \in Int
      BY SlackConstantsOK DEF Post, SlackConstantsOK
    <3>2. CASE t = Len(posts')
      BY <1>1, <1>2, <2>1, <3>1, <3>2
    <3>3. CASE t \in DOMAIN posts
      <4>1. posts[t] \in Post
        BY <3>3 DEF SlackTypeOK
      <4>2. posts[t].root \in Int
        BY <4>1, SlackConstantsOK DEF Post, SlackConstantsOK
      <4> QED
        BY <1>1, <2>1, <3>3, <4>2
    <3> QED
      BY <1>1, <2>1, <3>2, <3>3
  <2>3. \A n \in Int : n <= Len(posts) => n <= Len(posts')
    BY <1>1, <2>1
  <2>4. /\ channel.last \in Int /\ poll.job.last \in Int /\ poll.high \in Int
        /\ \A row \in threads : row.last \in Int
        /\ \A job \in poll.rest : job.last \in Int
        /\ \A message \in open : message[1][1] \in Int
        /\ \A reply \in posted : reply[1] \in Int /\ reply[3] \in Int
    BY SlackConstantsOK DEF SlackConstantsOK, SlackTypeOK, Channel, Poll, Job, Thread, Mention, Ts
  <2>5. \A reply \in posted' : reply[1] <= Len(posts') /\ reply[3] <= Len(posts')
    BY <1>1, <1>2, <2>1, <2>3, <2>4
  <2> QED
    BY <1>2, <2>2, <2>3, <2>4, <2>5
<1>3. CASE Write
  <2>1. PICK post \in Post : Add(post) /\ post.root \in {0} \cup DOMAIN posts
    BY <1>3, WriteAdds
  <2>2. post.root <= Len(posts)
    BY <1>1, <2>1
  <2>3. UNCHANGED <<channel, threads, poll, open, posted>>
    BY <1>3 DEF Write
  <2>4. /\ UNCHANGED <<channel, threads, poll>> /\ open' \subseteq open
        /\ \A reply \in posted' : reply \in posted
    BY <2>3
  <2> HIDE DEF PointsToPosts
  <2> QED
    BY <1>2, <2>1, <2>2, <2>4
<1>4. ASSUME NEW message \in open, PostReply(message) PROVE PointsToPosts'
  <2>1. message[1] \in Mention /\ message[1][1] <= Len(posts)
    BY DEF SlackTypeOK
  <2>2. RootOf(message[1]) \in Ts /\ RootOf(message[1]) <= Len(posts)
    BY <2>1, RootIsPost
  <2>3. ASSUME NEW by \in {"agent", "user"}, NEW to \in SUBSET Agents,
               Add(Answer(message[1], by, to)),
               posted' = posted \cup {<<RootOf(message[1]), message[1][2], Len(posts) + 1>>}
        PROVE  PointsToPosts'
    <3> DEFINE post == Answer(message[1], by, to)
    <3>1. post \in Post /\ post.root <= Len(posts)
      BY <2>1, AnswerIsPost
    <3>2. \A reply \in posted' : reply \in posted
                \/ (reply[1] \in 0..Len(posts) /\ reply[3] \in 0..(Len(posts) + 1))
      <4>1. /\ RootOf(message[1]) \in 0..Len(posts)
            /\ Len(posts) + 1 \in 0..(Len(posts) + 1)
        BY <1>1, <2>2 DEF Ts
      <4> SUFFICES ASSUME NEW reply \in posted', reply \notin posted
                   PROVE  reply[1] \in 0..Len(posts) /\ reply[3] \in 0..(Len(posts) + 1)
        OBVIOUS
      <4>2. reply = <<RootOf(message[1]), message[1][2], Len(posts) + 1>>
        BY <2>3
      <4>3. reply[1] = RootOf(message[1]) /\ reply[3] = Len(posts) + 1
        BY <4>2
      <4> QED
        BY <4>1, <4>3
    <3> HIDE DEF post
    <3>3. Add(post)
      BY <2>3 DEF post
    <3> QED
      BY <1>2, <1>4, <3>1, <3>2, <3>3 DEF PostReply
  <2>4. CASE /\ UNCHANGED posts
             /\ posted' = posted \cup {<<RootOf(message[1]), message[1][2], RootOf(message[1])>>}
    BY <1>4, <2>2, <2>4 DEF PostReply
  <2> QED
    BY <1>4, <2>3, <2>4, ReplyPosts
<1>5. ASSUME NEW message \in open, Unanswered(message) PROVE PointsToPosts'
  BY <1>5 DEF Unanswered
<1>6. ASSUME NEW reply \in posted, RegisterReply(reply) PROVE PointsToPosts'
  BY <1>6 DEF RegisterReply, Follow
<1>7. ASSUME NEW root \in DOMAIN posts, NEW agent \in Agents, RegisterThread(root, agent)
      PROVE  PointsToPosts'
  <2>1. root <= Len(posts)
    BY <1>1
  <2> QED
    BY <1>7, <2>1 DEF RegisterThread, Follow
<1>8. ASSUME NEW gone \in SUBSET threads, RemoveThreads(gone) PROVE PointsToPosts'
  <2>1. \A job \in Job : Orphaned(job, gone).root = job.root /\ Orphaned(job, gone).last = job.last
    BY DEF Orphaned, Job
  <2>2. /\ poll'.job = Orphaned(poll.job, gone) /\ poll'.high = poll.high
        /\ poll'.rest = {Orphaned(job, gone) : job \in poll.rest}
    BY <1>8 DEF RemoveThreads, SlackTypeOK, Poll
  <2>3. poll.job \in Job /\ poll.rest \subseteq Job
    BY DEF SlackTypeOK, Poll
  <2> QED
    BY <1>8, <2>1, <2>2, <2>3 DEF RemoveThreads
<1>9. CASE ToggleChannel
  BY <1>9 DEF ToggleChannel, SlackTypeOK, Channel
<1>10. CASE DeleteChannel
  <2> DEFINE job == [poll.job EXCEPT !.live = @ /\ poll.job.root # 0]
  <2>1. job.last = poll.job.last
    BY DEF SlackTypeOK, Poll, Job
  <2>2. poll' = [poll EXCEPT !.job = job]
    BY <1>10 DEF DeleteChannel
  <2> HIDE DEF job
  <2>3. poll'.job = job /\ poll'.high = poll.high /\ poll'.rest = poll.rest
    BY <2>2 DEF SlackTypeOK, Poll
  <2>4. channel'.last = channel.last
    BY <1>10 DEF DeleteChannel, SlackTypeOK, Channel
  <2> QED
    BY <1>10, <2>1, <2>3, <2>4 DEF DeleteChannel
<1>11. CASE AddChannel
  BY <1>1, <1>11 DEF AddChannel
<1>12. ASSUME NEW agent \in Agents, ChangeRoster(agent) PROVE PointsToPosts'
  BY <1>12 DEF ChangeRoster
<1>13. CASE SlackRestart
  <2>1. channel'.last = channel.last
    BY <1>13 DEF SlackRestart, SlackTypeOK, Channel
  <2> QED
    BY <1>1, <1>13, <2>1 DEF SlackRestart, Asleep, NoJob
<1> QED
  BY <1>3, <1>4, <1>5, <1>6, <1>7, <1>8, <1>9, <1>10, <1>11, <1>12, <1>13 DEF AgentStep, Request

------------------------------------------------------------------------------
(* Mentions and cursors.                                                   *)

\* What is read of a post does not change.
LEMMA PostsStay ==
  ASSUME SlackTypeOK, PointsToPosts, [SlackNext]_slackVars
  PROVE  /\ DOMAIN posts \subseteq DOMAIN posts'
         /\ \A t \in DOMAIN posts' :
              (t \in DOMAIN posts /\ posts'[t] = posts[t]) \/ t > Len(posts)
<1>1. DOMAIN posts = 1..Len(posts) /\ Len(posts) \in Nat
  BY DEF SlackTypeOK
<1>2. ASSUME NEW post \in Post, Add(post)
      PROVE  /\ DOMAIN posts \subseteq DOMAIN posts'
             /\ \A t \in DOMAIN posts' :
                  (t \in DOMAIN posts /\ posts'[t] = posts[t]) \/ t > Len(posts)
  <2>1. /\ posts' \in Seq(Post) /\ Len(posts') = Len(posts) + 1
        /\ \A t \in DOMAIN posts : posts'[t] = posts[t]
    BY <1>2, PostsGrow
  <2> QED
    BY <1>1, <2>1
<1>3. CASE Write
  BY <1>2, <1>3, WriteAdds
<1>4. ASSUME NEW message \in open, PostReply(message)
      PROVE  UNCHANGED posts \/ \E post \in Post : Add(post)
  <2>1. message[1] \in Mention /\ message[1][1] <= Len(posts)
    BY DEF SlackTypeOK, PointsToPosts
  <2>2. \A by \in {"agent", "user"}, to \in SUBSET Agents : Answer(message[1], by, to) \in Post
    BY <2>1, AnswerIsPost
  <2> QED
    BY <1>4, <2>2, ReplyPosts
<1>5. CASE UNCHANGED posts
  BY <1>5
<1>6. CASE PollerStep \/ ApiError \/ PollFails
  BY <1>5, <1>6 DEF PollerStep, PollChannel, PollActiveThreads, Arrives, Dispatch, Persist,
                    PollThread, ApiError, PollFails
<1>7. CASE Request \/ SlackRestart
  BY <1>5, <1>7 DEF Request, SlackRestart, RegisterThread, RemoveThreads, ToggleChannel,
                    DeleteChannel, AddChannel, ChangeRoster
<1>8. CASE AgentStep
  BY <1>2, <1>4, <1>5, <1>8 DEF AgentStep, Unanswered, RegisterReply
<1> QED
  BY <1>3, <1>5, <1>6, <1>7, <1>8 DEF SlackNext, slackVars

\* A row is added where nothing is behind its cursor.
RowsAreNewOrSame ==
  /\ channel.last <= channel'.last
  /\ (channel'.from = channel.from /\ channel'.last = channel.last) \/ channel'.from = channel'.last
  /\ \A row \in threads' : row \in threads \/ row.from = row.last

\* What a poll is about to do is not touched by others.
PollGoesOn ==
  /\ poll'.phase = poll.phase /\ poll'.todo = poll.todo /\ poll'.high = poll.high
  /\ poll'.job.root = poll.job.root /\ poll'.job.last = poll.job.last
  /\ poll'.job.agent = poll.job.agent
  /\ UNCHANGED <<handled, excused>>

LEMMA OthersGoBeside ==
  ASSUME SlackTypeOK, PointsToPosts, Write \/ AgentStep \/ Request
  PROVE  RowsAreNewOrSame /\ PollGoesOn
<1>1. channel.last \in Int /\ channel.last <= Len(posts)
  BY SlackConstantsOK DEF SlackConstantsOK, SlackTypeOK, PointsToPosts, Channel
<1>2. CASE UNCHANGED <<channel, threads, poll, handled, excused>>
  BY <1>1, <1>2 DEF RowsAreNewOrSame, PollGoesOn
<1>3. ASSUME NEW root, NEW agent, NEW last, threads' = Follow(root, agent, last),
             UNCHANGED <<channel, poll, handled, excused>>
      PROVE  RowsAreNewOrSame /\ PollGoesOn
  BY <1>1, <1>3 DEF RowsAreNewOrSame, PollGoesOn, Follow
<1>4. CASE Write
  BY <1>2, <1>4 DEF Write
<1>5. CASE AgentStep
  BY <1>2, <1>3, <1>5 DEF AgentStep, PostReply, Unanswered, RegisterReply
<1>6. ASSUME NEW root \in DOMAIN posts, NEW agent \in Agents, RegisterThread(root, agent)
      PROVE  RowsAreNewOrSame /\ PollGoesOn
  BY <1>3, <1>6 DEF RegisterThread
<1>7. ASSUME NEW gone \in SUBSET threads, RemoveThreads(gone)
      PROVE  RowsAreNewOrSame /\ PollGoesOn
  <2>1. poll'.job = Orphaned(poll.job, gone)
    BY <1>7 DEF RemoveThreads, SlackTypeOK, Poll
  <2>2. /\ poll'.job.root = poll.job.root /\ poll'.job.last = poll.job.last
        /\ poll'.job.agent = poll.job.agent
    BY <2>1 DEF Orphaned, SlackTypeOK, Poll, Job
  <2>3. poll'.phase = poll.phase /\ poll'.todo = poll.todo /\ poll'.high = poll.high
    BY <1>7 DEF RemoveThreads, SlackTypeOK, Poll
  <2> QED
    BY <1>1, <1>7, <2>2, <2>3 DEF RemoveThreads, RowsAreNewOrSame, PollGoesOn
<1>8. CASE ToggleChannel
  BY <1>1, <1>8 DEF ToggleChannel, RowsAreNewOrSame, PollGoesOn, SlackTypeOK, Channel
<1>9. CASE DeleteChannel
  <2> DEFINE job == [poll.job EXCEPT !.live = @ /\ poll.job.root # 0]
  <2>1. job.root = poll.job.root /\ job.last = poll.job.last /\ job.agent = poll.job.agent
    BY DEF SlackTypeOK, Poll, Job
  <2>2. poll' = [poll EXCEPT !.job = job]
    BY <1>9 DEF DeleteChannel
  <2> HIDE DEF job
  <2>3. /\ poll'.job = job /\ poll'.phase = poll.phase /\ poll'.todo = poll.todo
        /\ poll'.high = poll.high
    BY <2>2 DEF SlackTypeOK, Poll
  <2>4. channel'.last = channel.last /\ channel'.from = channel.from
    BY <1>9 DEF DeleteChannel, SlackTypeOK, Channel
  <2> QED
    BY <1>1, <1>9, <2>1, <2>3, <2>4 DEF DeleteChannel, RowsAreNewOrSame, PollGoesOn
<1>10. CASE AddChannel
  BY <1>1, <1>10 DEF AddChannel, RowsAreNewOrSame, PollGoesOn
<1>11. ASSUME NEW agent \in Agents, ChangeRoster(agent) PROVE RowsAreNewOrSame /\ PollGoesOn
  BY <1>2, <1>11 DEF ChangeRoster
<1> QED
  BY <1>4, <1>5, <1>6, <1>7, <1>8, <1>9, <1>10, <1>11 DEF Request

\* Until a page is dispatched a poll leaves the cursors alone.
PollerLeavesCursors ==
  /\ channel'.last = channel.last /\ channel'.from = channel.from /\ threads' \subseteq threads
  /\ handled \subseteq handled' /\ excused \subseteq excused' /\ UNCHANGED posts

LEMMA PollingLeavesCursors ==
  ASSUME SlackTypeOK,
         \/ PollerStep /\ ~Persist
         \/ ApiError \/ PollFails \/ SlackRestart
  PROVE  PollerLeavesCursors
<1> USE DEF PollerLeavesCursors, SlackTypeOK, Channel
<1>1. CASE PollChannel \/ \E job \in poll.rest : PollThread(job)
  BY <1>1 DEF PollChannel, PollThread
<1>2. CASE PollActiveThreads
  BY <1>2 DEF PollActiveThreads
<1>3. CASE Arrives \/ ApiError
  BY <1>3 DEF Arrives, ApiError, Forgiven
<1>4. CASE PollFails
  BY <1>4 DEF PollFails
<1>5. CASE Dispatch
  BY <1>5 DEF Dispatch
<1>6. CASE SlackRestart
  BY <1>6 DEF SlackRestart
<1> QED
  BY <1>1, <1>2, <1>3, <1>4, <1>5, <1>6 DEF PollerStep

LEMMA DoneIsIdle ==
  ASSUME SlackTypeOK
  PROVE  /\ Done.phase # "dispatch" /\ Done.todo = {} /\ Done.job.root = 0 /\ Done.job.last = 0
         /\ Asleep.phase # "dispatch" /\ Asleep.todo = {} /\ Asleep.job.root = 0
         /\ Asleep.job.last = 0
  BY DEF SlackTypeOK, Poll, Done, NoJob, Asleep

LEMMA FeedbackKept ==
  ASSUME SlackTypeOK, PointsToPosts, FeedbackInv, [SlackNext]_slackVars
  PROVE  FeedbackInv'
<1>1. \A m : WrittenByUser(m) => WrittenByUser(m)'
  <2>1. DOMAIN posts = 1..Len(posts) /\ Len(posts) \in Nat
    BY DEF SlackTypeOK
  <2> QED
    BY <2>1, PostsStay DEF WrittenByUser
<1> SUFFICES poll'.todo \subseteq poll.todo \cup {m \in Mention : WrittenByUser(m)}
               /\ handled' \subseteq handled \cup poll.todo
  BY <1>1 DEF FeedbackInv
<1> USE DEF SlackTypeOK, Poll
<1>2. CASE Write \/ AgentStep \/ Request
  BY <1>2, OthersGoBeside DEF PollGoesOn
<1>3. CASE PollChannel \/ PollActiveThreads \/ \E job \in poll.rest : PollThread(job)
  BY <1>3 DEF PollChannel, PollActiveThreads, PollThread
<1>4. CASE Arrives
  <2>1. \A m \in Mentions(poll.job) : m \in Mention /\ WrittenByUser(m)
    BY PageIsFresh DEF Mentions, Addressed, WrittenByUser, Mention
  <2> QED
    BY <1>4, <2>1, DoneIsIdle DEF Arrives
<1>5. CASE Dispatch
  BY <1>5 DEF Dispatch
<1>6. CASE Persist \/ ApiError \/ PollFails \/ SlackRestart
  BY <1>6, DoneIsIdle DEF Persist, ApiError, PollFails, SlackRestart
<1>7. CASE UNCHANGED slackVars
  BY <1>7 DEF slackVars
<1> QED
  BY <1>2, <1>3, <1>4, <1>5, <1>6, <1>7 DEF SlackNext, PollerStep

LEMMA BehindKept ==
  ASSUME SlackTypeOK, PointsToPosts, JobIsBehind, [SlackNext]_slackVars
  PROVE  JobIsBehind'
<1> USE DEF JobIsBehind
<1>1. channel.last \in Nat /\ poll.job.last \in Nat
  BY SlackConstantsOK DEF SlackConstantsOK, SlackTypeOK, Channel, Poll, Job
<1>2. CASE Write \/ AgentStep \/ Request
  <2>1. channel'.last \in Nat
    BY <1>2, OthersKeepTypes, SlackConstantsOK DEF SlackConstantsOK, SlackTypeOK, Channel
  <2> QED
    BY <1>1, <1>2, <2>1, OthersGoBeside DEF PollGoesOn, RowsAreNewOrSame
<1>3. CASE PollChannel
  BY <1>1, <1>3 DEF PollChannel, SlackTypeOK, Poll
<1>4. CASE PollActiveThreads
  <2>1. channel'.last = channel.last /\ poll'.job = poll.job
    BY <1>4 DEF PollActiveThreads, SlackTypeOK, Poll, Channel
  <2> QED
    BY <2>1
<1>5. ASSUME NEW job \in poll.rest, PollThread(job) PROVE JobIsBehind'
  BY <1>5 DEF PollThread, PointsToPosts, SlackTypeOK, Poll
<1>6. CASE Arrives
  <2>1. channel'.last = channel.last /\ poll'.job \in {poll.job, NoJob}
    BY <1>6 DEF Arrives, Done, Forgiven, SlackTypeOK, Poll, Channel
  <2> QED
    BY <1>1, <2>1 DEF NoJob
<1>7. CASE Dispatch
  BY <1>7 DEF Dispatch, SlackTypeOK, Poll
<1>8. CASE Persist \/ ApiError \/ PollFails \/ SlackRestart
  <2>1. channel'.last \in Nat
    <3>1. SlackTypeOK'
      BY <1>8, PollerKeepsTypes, OthersKeepTypes, SlackConstantsOK DEF PollerStep
    <3> QED
      BY <3>1, SlackConstantsOK DEF SlackConstantsOK, SlackTypeOK, Channel
  <2> QED
    BY <1>8, <2>1, DoneIsIdle DEF Persist, ApiError, PollFails, SlackRestart
<1>9. CASE UNCHANGED slackVars
  BY <1>9 DEF slackVars
<1> QED
  BY <1>2, <1>3, <1>4, <1>5, <1>6, <1>7, <1>8, <1>9 DEF SlackNext, PollerStep

LEMMA TodoKept ==
  ASSUME SlackTypeOK, PointsToPosts, TodoIsComplete, [SlackNext]_slackVars
  PROVE  TodoIsComplete'
<1>1. /\ poll.high \in Int /\ poll.high <= Len(posts) /\ poll.job \in Job /\ Len(posts) \in Nat
      /\ \A t \in Ts : t \in Int
  BY SlackConstantsOK DEF SlackConstantsOK, SlackTypeOK, PointsToPosts, Poll, Ts
<1>2. CASE Write \/ AgentStep \/ Request
  <2> SUFFICES ASSUME NEW t \in Ts, NEW a \in Agents, poll'.phase = "dispatch", Asks(t, a)',
                      posts'[t].root = poll'.job.root, poll'.job.last < t, t <= poll'.high,
                      poll'.job.root # 0 => a = poll'.job.agent
               PROVE  <<t, a>> \in poll'.todo \cup handled' \cup
                                     (IF poll'.job.root = 0 THEN excused' ELSE {})
    BY DEF TodoIsComplete
  <2>1. PollGoesOn
    BY <1>2, OthersGoBeside
  <2>2. t <= Len(posts)
    BY <1>1, <2>1 DEF PollGoesOn
  <2>3. t \in DOMAIN posts /\ posts'[t] = posts[t]
    BY <1>1, <2>2, PostsStay DEF Asks
  <2>4. Asks(t, a)
    BY <2>3 DEF Asks
  <2> QED
    BY <2>1, <2>3, <2>4 DEF PollGoesOn, TodoIsComplete
<1>3. CASE PollChannel \/ PollActiveThreads \/ \E job \in poll.rest : PollThread(job)
  <2>1. poll'.phase # "dispatch"
    BY <1>3 DEF PollChannel, PollActiveThreads, PollThread, SlackTypeOK, Poll
  <2> QED
    BY <2>1 DEF TodoIsComplete
<1>4. CASE Arrives
  <2> DEFINE job == poll.job
  <2> SUFFICES ASSUME NEW t \in Ts, NEW a \in Agents, poll'.phase = "dispatch", Asks(t, a)',
                      posts'[t].root = poll'.job.root, poll'.job.last < t, t <= poll'.high,
                      poll'.job.root # 0 => a = poll'.job.agent
               PROVE  <<t, a>> \in poll'.todo \cup handled' \cup
                                     (IF poll'.job.root = 0 THEN excused' ELSE {})
    BY DEF TodoIsComplete
  <2>1. UNCHANGED <<posts, handled>>
    BY <1>4 DEF Arrives
  <2>2. ~(Page(job) = {} \/ (job.root = 0 /\ roster = {}))
    BY <1>4, DoneIsIdle DEF Arrives
  <2>3. /\ poll' = [poll EXCEPT !.phase = "dispatch", !.todo = Mentions(job),
                                !.high = NewestCounted(job)]
        /\ excused' = IF job.root = 0 THEN excused \cup (Addressed(job) \ Mentions(job))
                      ELSE excused
    BY <1>4, <2>2 DEF Arrives
  <2>4. poll'.job = job /\ poll'.todo = Mentions(job) /\ poll'.high = NewestCounted(job)
    BY <2>3 DEF SlackTypeOK, Poll
  <2>5. Asks(t, a) /\ posts[t].root = job.root /\ job.last < t /\ t <= NewestCounted(job)
    BY <2>1, <2>4 DEF Asks
  <2>6. t \in Fresh(job)
    BY <2>5 DEF Fresh, Asks
  <2>7. <<t, a>> \in Addressed(job)
    BY <2>5, <2>6 DEF Addressed, Asks
  <2>8. CASE job.root = 0
    BY <2>3, <2>4, <2>7, <2>8
  <2>9. CASE job.root # 0
    <3>1. job.last \in Int
      BY <1>1, SlackConstantsOK DEF Job, SlackConstantsOK
    <3>2. NewestCounted(job) \in Page(job)
      BY <1>1, <2>5, <3>1, NewestIsLast, PageIsFresh
    <3>3. t \in Page(job)
      BY <1>1, <2>5, <2>6, <2>9, <3>2, ThreadPageIsPrefix
    <3>4. <<t, a>> \in Mentions(job)
      BY <2>4, <2>7, <2>9, <3>3 DEF Mentions
    <3> QED
      BY <2>4, <3>4
  <2> QED
    BY <2>8, <2>9
<1>5. CASE Dispatch
  <2>1. PICK m \in poll.todo : poll' = [poll EXCEPT !.todo = @ \ {m}] /\ handled' = handled \cup {m}
    BY <1>5 DEF Dispatch
  <2>2. /\ poll'.phase = poll.phase /\ poll'.job = poll.job /\ poll'.high = poll.high
        /\ poll'.todo = poll.todo \ {m} /\ UNCHANGED <<posts, excused>>
    BY <1>5, <2>1 DEF SlackTypeOK, Poll, Dispatch
  <2>3. poll'.todo \cup handled' = poll.todo \cup handled
    BY <2>1, <2>2
  <2> QED
    BY <2>2, <2>3 DEF TodoIsComplete, Asks
<1>6. CASE Persist \/ ApiError \/ PollFails \/ SlackRestart
  BY <1>6, DoneIsIdle DEF Persist, ApiError, PollFails, SlackRestart, TodoIsComplete
<1>7. CASE UNCHANGED slackVars
  BY <1>7 DEF slackVars, TodoIsComplete, Asks
<1> QED
  BY <1>2, <1>3, <1>4, <1>5, <1>6, <1>7 DEF SlackNext, PollerStep

\* What a cursor has passed stays passed and posts that are new are beyond it.
LEMMA CursorKept ==
  ASSUME SlackTypeOK, PointsToPosts, JobIsBehind, TodoIsComplete, CursorIsHonest,
         [SlackNext]_slackVars
  PROVE  CursorIsHonest'
<1>1. /\ channel.last \in Int /\ channel.last <= Len(posts) /\ channel.from \in Int
      /\ poll.high \in Int /\ poll.job \in Job /\ poll.job.last \in Int /\ Len(posts) \in Nat
      /\ \A row \in threads : /\ row.last \in Int /\ row.last <= Len(posts) /\ row.from \in Int
                              /\ row.agent \in Agents /\ row.root # 0
      /\ \A t \in Ts : t \in Int
  BY SlackConstantsOK DEF SlackConstantsOK, SlackTypeOK, PointsToPosts, Channel, Thread, Job,
                          Poll, Ts
<1>2. handled \subseteq handled' /\ excused \subseteq excused'
  <2>1. CASE Write \/ AgentStep \/ Request
    BY <2>1, OthersGoBeside DEF PollGoesOn
  <2>2. CASE PollerStep \/ ApiError \/ PollFails \/ SlackRestart
    BY <2>2, PollingLeavesCursors DEF PollerLeavesCursors, Persist
  <2>3. CASE UNCHANGED slackVars
    BY <2>3 DEF slackVars
  <2> QED
    BY <2>1, <2>2, <2>3 DEF SlackNext
\* a mention an old cursor had passed
<1>3. ASSUME NEW t \in Ts, NEW a, Asks(t, a)', t <= Len(posts)
      PROVE  Asks(t, a) /\ posts'[t] = posts[t]
  BY <1>1, <1>3, PostsStay DEF Asks
<1>4. ASSUME NEW t \in Ts, NEW a \in Agents, Asks(t, a)', posts'[t].root = 0,
             channel.from < t, t <= channel.last
      PROVE  <<t, a>> \in handled' \cup excused'
  <2>1. t <= Len(posts)
    BY <1>1, <1>4
  <2>2. Asks(t, a) /\ posts'[t] = posts[t]
    BY <1>3, <1>4, <2>1
  <2> QED
    BY <1>2, <1>4, <2>2 DEF CursorIsHonest
<1>5. ASSUME NEW row \in threads, NEW t \in Ts, Asks(t, row.agent)', posts'[t].root = row.root,
             row.from < t, t <= row.last
      PROVE  <<t, row.agent>> \in handled'
  <2>1. t <= Len(posts)
    BY <1>1, <1>5
  <2>2. Asks(t, row.agent) /\ posts'[t] = posts[t]
    BY <1>3, <1>5, <2>1
  <2> QED
    BY <1>2, <1>5, <2>2 DEF CursorIsHonest
<1>6. CASE Write \/ AgentStep \/ Request
  <2>1. RowsAreNewOrSame
    BY <1>6, OthersGoBeside
  <2>2. /\ channel'.last \in Int /\ channel'.from \in Int
        /\ \A row \in threads' : row.last \in Int /\ row.from \in Int
    <3>1. channel' \in Channel /\ threads' \subseteq Thread
      <4>1. SlackTypeOK'
        BY <1>6, OthersKeepTypes
      <4> QED
        BY <4>1 DEF SlackTypeOK
    <3>2. /\ channel'.last \in 0..MaxPosts /\ channel'.from \in 0..MaxPosts
          /\ \A row \in threads' : row.last \in 0..MaxPosts /\ row.from \in 0..MaxPosts
      BY <3>1 DEF Channel, Thread
    <3> QED
      BY <3>2
  <2>3. ASSUME NEW t \in Ts, NEW a \in Agents, Asks(t, a)', posts'[t].root = 0,
               channel'.from < t, t <= channel'.last
        PROVE  <<t, a>> \in handled' \cup excused'
    BY <1>1, <1>4, <2>1, <2>2, <2>3 DEF RowsAreNewOrSame
  <2>4. ASSUME NEW row \in threads', NEW t \in Ts, Asks(t, row.agent)',
               posts'[t].root = row.root, row.from < t, t <= row.last
        PROVE  <<t, row.agent>> \in handled'
    <3>1. row.from # row.last
      BY <1>1, <2>2, <2>4
    <3>2. row \in threads
      BY <2>1, <3>1 DEF RowsAreNewOrSame
    <3> QED
      BY <1>5, <2>4, <3>2
  <2> QED
    BY <2>3, <2>4 DEF CursorIsHonest
<1>7. CASE (PollerStep /\ ~Persist) \/ ApiError \/ PollFails \/ SlackRestart
  <2>1. PollerLeavesCursors
    BY <1>7, PollingLeavesCursors
  <2>2. channel'.last = channel.last /\ channel'.from = channel.from /\ threads' \subseteq threads
    BY <2>1 DEF PollerLeavesCursors
  <2>3. ASSUME NEW row \in threads', NEW t \in Ts, Asks(t, row.agent)',
               posts'[t].root = row.root, row.from < t, t <= row.last
        PROVE  <<t, row.agent>> \in handled'
    BY <1>5, <2>2, <2>3
  <2> QED
    BY <1>4, <2>2, <2>3 DEF CursorIsHonest
<1>8. CASE Persist
  <2>1. /\ poll.phase = "dispatch" /\ poll.todo = {} /\ UNCHANGED <<posts, handled, excused>>
    BY <1>8 DEF Persist, AllDispatched
  <2>2. ASSUME NEW t \in Ts, NEW a \in Agents, Asks(t, a), posts[t].root = poll.job.root,
               poll.job.last < t, t <= poll.high, poll.job.root # 0 => a = poll.job.agent
        PROVE  <<t, a>> \in handled \cup (IF poll.job.root = 0 THEN excused ELSE {})
    BY <2>1, <2>2 DEF TodoIsComplete
  <2>3. ASSUME NEW t \in Ts, NEW a \in Agents, Asks(t, a)', posts'[t].root = 0,
               channel'.from < t, t <= channel'.last
        PROVE  <<t, a>> \in handled' \cup excused'
    <3>1. channel'.from = channel.from
             /\ (channel'.last = channel.last \/ (channel'.last = poll.high /\ poll.job.root = 0))
      BY <1>8 DEF Persist, Forgiven, SlackTypeOK, Channel
    <3>2. Asks(t, a) /\ posts[t].root = 0
      BY <2>1, <2>3 DEF Asks
    <3>3. CASE t <= channel.last
      BY <1>4, <2>3, <3>1, <3>3
    <3>4. CASE ~(t <= channel.last)
      <4>1. poll.job.root = 0 /\ t <= poll.high
        BY <2>3, <3>1, <3>4
      <4>2. poll.job.last < t
        BY <1>1, <3>4, <4>1 DEF JobIsBehind
      <4> QED
        BY <2>1, <2>2, <3>2, <4>1, <4>2
    <3> QED
      BY <3>3, <3>4
  <2>4. ASSUME NEW row \in threads', NEW t \in Ts, Asks(t, row.agent)',
               posts'[t].root = row.root, row.from < t, t <= row.last
        PROVE  <<t, row.agent>> \in handled'
    <3>1. CASE row \in threads
      BY <1>5, <2>4, <3>1
    <3>2. CASE row \notin threads
      <4>1. PICK old \in threads : JobOf(old) = poll.job /\ row = [old EXCEPT !.last = poll.high]
        BY <1>8, <3>2 DEF Persist
      <4>2. /\ row.root = old.root /\ row.agent = old.agent /\ row.from = old.from
            /\ row.last = poll.high
        BY <4>1 DEF SlackTypeOK, Thread
      <4>3. poll.job.root = old.root /\ poll.job.agent = old.agent /\ poll.job.last = old.last
        <5>1. /\ JobOf(old).root = old.root /\ JobOf(old).agent = old.agent
              /\ JobOf(old).last = old.last
          BY DEF JobOf
        <5> QED
          BY <4>1, <5>1
      <4>4. Asks(t, old.agent) /\ posts[t].root = old.root
        BY <2>1, <2>4, <4>2 DEF Asks
      <4>5. CASE t <= old.last
        <5>1. Asks(t, old.agent)' /\ posts'[t].root = old.root /\ old.from < t
          BY <2>4, <4>2
        <5>2. <<t, old.agent>> \in handled'
          BY <1>5, <4>5, <5>1
        <5> QED
          BY <4>2, <5>2
      <4>6. CASE ~(t <= old.last)
        <5>1. poll.job.last < t /\ t <= poll.high
          BY <1>1, <2>4, <4>2, <4>3, <4>6
        <5>2. poll.job.root # 0 /\ old.agent \in Agents
          BY <1>1, <4>3
        <5>3. <<t, old.agent>> \in handled
          BY <2>2, <4>3, <4>4, <5>1, <5>2
        <5> QED
          BY <2>1, <4>2, <5>3
      <4> QED
        BY <4>5, <4>6
    <3> QED
      BY <3>1, <3>2
  <2> QED
    BY <2>3, <2>4 DEF CursorIsHonest
<1>9. CASE UNCHANGED slackVars
  BY <1>9 DEF slackVars, CursorIsHonest, Asks
<1> QED
  BY <1>6, <1>7, <1>8, <1>9 DEF SlackNext

------------------------------------------------------------------------------
(* Repeated dispatches: what they rest on.                                 *)

\* A poll has asked Slack for posts, or is dispatching those that came.
Underway == poll.phase \in {"asked", "dispatch"}

InHand == poll.rest \cup (IF Underway THEN {poll.job} ELSE {})

\* What is counted, and that rows can be counted.
CountsOK ==
  /\ spent \in [events : Nat, cuts : Nat, removals : Nat]
  /\ IsFiniteSet(threads)

\* A thread is followed once for an agent and polled once in a tick; a job whose row was
\* not removed has the cursor of the row.
JobsHaveRows ==
  /\ \A v, w \in threads : v.root = w.root /\ v.agent = w.agent => v = w
  /\ \A job \in InHand : job.live /\ job.root # 0 => \E row \in threads : JobOf(row) = job
  /\ \A i, j \in poll.rest : i.root = j.root /\ i.agent = j.agent => i = j
  /\ Underway => \A i \in poll.rest : ~(i.root = poll.job.root /\ i.agent = poll.job.agent)
  /\ poll.phase = "polled" \/ (Underway /\ poll.job.root = 0) => poll.rest = {}
  /\ ~Underway => poll.job = NoJob

\* The row of the channel was not deleted when its job is alive.
ChannelIsThere == poll.job.root = 0 /\ poll.job.live => channel.status # "gone"

\* The mentions to dispatch are beyond the cursor and belong to the job.
TodoIsAhead ==
  poll.phase = "dispatch" =>
    \A m \in poll.todo :
      /\ posts[m[1]].root = poll.job.root /\ poll.job.last < m[1] /\ m[1] <= poll.high
      /\ poll.job.root # 0 => m[2] = poll.job.agent

SentIsHandled == \A m \in Mention : sent[m] > 0 => m \in handled

\* Will the channel come across the mention, again or for the first time?
AheadOfChannel(m) ==
  \/ poll.phase = "dispatch" /\ poll.job.root = 0 /\ (m \in poll.todo \/ poll.high < m[1])
  \/ poll.phase = "asked" /\ poll.job.root = 0 /\ poll.job.last < m[1]
  \/ ~(Underway /\ poll.job.root = 0) /\ channel.status # "gone" /\ channel.last < m[1]

\* At top level every dispatch but the first took a poll that was cut short.
ChannelRepeats ==
  \A m \in Mention :
    m[1] \in DOMAIN posts /\ posts[m[1]].root = 0 =>
      /\ sent[m] <= 1 + spent.cuts
      /\ AheadOfChannel(m) => sent[m] <= spent.cuts

Bit(b) == IF b THEN 1 ELSE 0

IsJobOf(job, r, m) == job.root = r /\ job.agent = m[2]

\* Dispatched by the poll that is under way, which has not written the cursor yet.
Passed(r, m) ==
  /\ poll.phase = "dispatch" /\ IsJobOf(poll.job, r, m) /\ poll.job.live
  /\ m \notin poll.todo /\ m[1] <= poll.high

\* Will the thread come across the mention: by the row there is or by one there may be?
AheadOfThread(r, m) ==
  \/ ~Follows(r, m[2])
  \/ ~Passed(r, m) /\ \E row \in threads : row.root = r /\ row.agent = m[2] /\ row.last < m[1]

\* Or by a job whose row was removed, which the poller has not noticed?
AheadOfOrphan(r, m) ==
  \/ \E job \in poll.rest : IsJobOf(job, r, m) /\ ~job.live /\ job.last < m[1]
  \/ /\ IsJobOf(poll.job, r, m) /\ ~poll.job.live
     /\ \/ poll.phase = "asked" /\ poll.job.last < m[1]
        \/ poll.phase = "dispatch" /\ m \in poll.todo

\* Does r stand for the thread of the mention, known or to come?
IsThreadOf(r, m) == m[1] \in DOMAIN posts => posts[m[1]].root = r

\* In a thread the dispatches there were and those to come took a removal or a cut each.
ThreadRepeats ==
  \A r \in Ts, m \in Mention :
    IsThreadOf(r, m) =>
      sent[m] + Bit(AheadOfThread(r, m)) + Bit(AheadOfOrphan(r, m))
        <= 1 + spent.cuts + spent.removals

RepeatInv ==
  /\ CountsOK /\ JobsHaveRows /\ ChannelIsThere /\ TodoIsAhead /\ SentIsHandled
  /\ ChannelRepeats /\ ThreadRepeats

------------------------------------------------------------------------------
(* Counts.                                                                 *)

LEMMA RemovalCounts ==
  ASSUME CountsOK, NEW rows \in SUBSET threads, Removal(rows)
  PROVE  /\ spent' \in [events : Nat, cuts : Nat, removals : Nat]
         /\ spent'.cuts = spent.cuts /\ spent.removals + 1 <= spent'.removals
<1>1. IsFiniteSet(rows)
  BY FS_Subset DEF CountsOK
<1>2. Cardinality(rows) \in Nat /\ Cardinality(rows) # 0
  BY <1>1, FS_CardinalityType, FS_EmptySet DEF Removal
<1> DEFINE n == Cardinality(rows)
<1>3. spent' = [events |-> spent.events + 1, cuts |-> spent.cuts + 0, removals |-> spent.removals + n]
  BY DEF Removal, Spend
<1> HIDE DEF n
<1>4. n \in Nat /\ n # 0
  BY <1>2 DEF n
<1> QED
  BY <1>3, <1>4 DEF CountsOK

LEMMA EventCounts ==
  ASSUME CountsOK, Event
  PROVE  /\ spent' \in [events : Nat, cuts : Nat, removals : Nat]
         /\ spent'.cuts = spent.cuts /\ spent'.removals = spent.removals
  BY DEF CountsOK, Event, Spend

LEMMA CutCounts ==
  ASSUME CountsOK, Cut
  PROVE  /\ spent' \in [events : Nat, cuts : Nat, removals : Nat]
         /\ spent'.cuts = IF poll.phase = "dispatch" THEN spent.cuts + 1 ELSE spent.cuts
         /\ spent'.removals = spent.removals
  BY DEF CountsOK, Cut, Spend

LEMMA RowsStayFinite ==
  ASSUME CountsOK, [SlackNext]_slackVars
  PROVE  IsFiniteSet(threads')
<1>1. IsFiniteSet(threads)
  BY DEF CountsOK
<1>2. CASE threads' \subseteq threads
  BY <1>1, <1>2, FS_Subset
<1>3. ASSUME NEW x, threads' = threads \cup {x} PROVE IsFiniteSet(threads')
  BY <1>1, <1>3, FS_AddElement
<1>4. CASE AgentStep
  BY <1>2, <1>3, <1>4 DEF AgentStep, PostReply, Unanswered, RegisterReply, Follow
<1>5. CASE Request
  BY <1>2, <1>3, <1>5 DEF Request, RegisterThread, Follow, RemoveThreads, ToggleChannel,
                          DeleteChannel, AddChannel, ChangeRoster
<1>6. CASE Persist
  <2> DEFINE moved == [row \in threads |-> IF JobOf(row) = poll.job
                                           THEN [row EXCEPT !.last = poll.high] ELSE row]
             rows == {moved[row] : row \in threads}
  <2>1. threads' = threads \/ threads' = rows
    BY <1>6 DEF Persist
  <2>2. moved \in Surjection(threads, rows)
    BY DEF Surjection, Range
  <2>3. IsFiniteSet(rows)
    <3> HIDE DEF moved, rows
    <3> QED
      BY <1>1, <2>2, FS_Surjection
  <2> QED
    BY <1>1, <2>1, <2>3
<1>7. CASE PollerStep /\ ~Persist
  BY <1>2, <1>7 DEF PollerStep, PollChannel, PollActiveThreads, Arrives, Dispatch, PollThread
<1>8. CASE Write \/ ApiError \/ PollFails \/ SlackRestart \/ UNCHANGED slackVars
  BY <1>2, <1>8 DEF Write, ApiError, PollFails, SlackRestart, slackVars
<1> QED
  BY <1>4, <1>5, <1>6, <1>7, <1>8 DEF SlackNext

LEMMA SpentKept ==
  ASSUME CountsOK, [SlackNext]_slackVars
  PROVE  /\ CountsOK'
         /\ spent.cuts <= spent'.cuts /\ spent.removals <= spent'.removals
         /\ spent.cuts \in Nat /\ spent.removals \in Nat
         /\ spent'.cuts \in Nat /\ spent'.removals \in Nat
<1> SUFFICES /\ spent' \in [events : Nat, cuts : Nat, removals : Nat]
             /\ spent.cuts <= spent'.cuts /\ spent.removals <= spent'.removals
  BY RowsStayFinite DEF CountsOK
<1>1. spent.cuts \in Nat /\ spent.removals \in Nat
  BY DEF CountsOK
<1>2. CASE UNCHANGED spent
  BY <1>1, <1>2 DEF CountsOK
<1>3. CASE Event
  BY <1>1, <1>3, EventCounts
<1>4. CASE Cut
  BY <1>1, <1>4, CutCounts
<1>5. ASSUME NEW rows \in SUBSET threads, Removal(rows)
      PROVE  /\ spent' \in [events : Nat, cuts : Nat, removals : Nat]
             /\ spent.cuts <= spent'.cuts /\ spent.removals <= spent'.removals
  BY <1>1, <1>5, RemovalCounts
<1>6. CASE Write \/ UNCHANGED slackVars
  BY <1>2, <1>6 DEF Write, slackVars
<1>7. CASE PollerStep
  <2>1. CASE PollActiveThreads
    BY <1>2, <1>5, <2>1 DEF PollActiveThreads
  <2> QED
    BY <1>2, <1>3, <1>7, <2>1 DEF PollerStep, PollChannel, PollThread, Arrives, Dispatch, Persist
<1>8. CASE ApiError \/ PollFails \/ SlackRestart
  BY <1>3, <1>4, <1>8 DEF ApiError, PollFails, SlackRestart
<1>9. CASE AgentStep
  BY <1>2, <1>3, <1>9 DEF AgentStep, PostReply, Unanswered, RegisterReply
<1>10. CASE Request
  <2>1. ASSUME NEW gone \in SUBSET threads, RemoveThreads(gone)
        PROVE  /\ spent' \in [events : Nat, cuts : Nat, removals : Nat]
               /\ spent.cuts <= spent'.cuts /\ spent.removals <= spent'.removals
    BY <1>5, <2>1 DEF RemoveThreads
  <2> QED
    BY <1>3, <1>10, <2>1 DEF Request, RegisterThread, ToggleChannel, DeleteChannel, AddChannel,
                             ChangeRoster
<1> QED
  BY <1>6, <1>7, <1>8, <1>9, <1>10 DEF SlackNext

------------------------------------------------------------------------------
(* Jobs and rows.                                                          *)

\* A poll that is over.
LEMMA DoneHands ==
  ASSUME SlackTypeOK, JobsHaveRows, Underway, poll' = Done
  PROVE  /\ poll'.phase \in {"polled", "threads"} /\ poll'.job = NoJob
         /\ poll'.rest = poll.rest /\ ~Underway' /\ InHand' = poll.rest
         /\ poll'.phase = "polled" => poll.rest = {}
<1>1. /\ poll'.phase = IF poll.job.root = 0 THEN "polled" ELSE "threads"
      /\ poll'.job = NoJob /\ poll'.rest = poll.rest
  BY DEF Done, SlackTypeOK, Poll
<1> QED
  BY <1>1 DEF Underway, InHand, JobsHaveRows

LEMMA DoneKeepsRows ==
  ASSUME SlackTypeOK, JobsHaveRows, Underway, poll' = Done, UNCHANGED threads
  PROVE  JobsHaveRows'
<1>1. poll.rest \subseteq InHand
  BY DEF InHand
<1> QED
  BY <1>1, DoneHands DEF JobsHaveRows

\* The same jobs in the same phase, some of them orphaned.
LEMMA SameJobsKeepRows ==
  ASSUME JobsHaveRows, poll'.phase = poll.phase, poll'.job = poll.job, poll'.rest = poll.rest,
         UNCHANGED threads
  PROVE  JobsHaveRows'
  BY DEF JobsHaveRows, InHand, Underway

LEMMA FollowKeepsRows ==
  ASSUME JobsHaveRows, NEW root, NEW agent, NEW last, ~Follows(root, agent),
         threads' = Follow(root, agent, last), UNCHANGED poll
  PROVE  JobsHaveRows'
<1> DEFINE new == [root |-> root, agent |-> agent, last |-> last, from |-> last]
<1>1. threads' = threads \cup {new} /\ new.root = root /\ new.agent = agent
  BY DEF Follow
<1>2. \A w \in threads : ~(w.root = root /\ w.agent = agent)
  BY DEF Follows
<1> HIDE DEF new
<1>3. \A v, w \in threads' : v.root = w.root /\ v.agent = w.agent => v = w
  BY <1>1, <1>2 DEF JobsHaveRows
<1>4. \A job \in InHand : job.live /\ job.root # 0 => \E row \in threads' : JobOf(row) = job
  BY <1>1 DEF JobsHaveRows
<1> QED
  BY <1>3, <1>4 DEF JobsHaveRows, InHand, Underway

LEMMA OrphanedJob ==
  ASSUME NEW job \in Job, NEW gone
  PROVE  /\ Orphaned(job, gone).root = job.root /\ Orphaned(job, gone).agent = job.agent
         /\ Orphaned(job, gone).last = job.last
         /\ Orphaned(job, gone).live <=>
              /\ job.live
              /\ ~(\E row \in gone : row.root = job.root /\ row.agent = job.agent)
         /\ Orphaned(job, gone).live => Orphaned(job, gone) = job
         /\ ~job.live => Orphaned(job, gone) = job
  BY DEF Orphaned, Job

LEMMA RemovedHands ==
  ASSUME SlackTypeOK, NEW gone, RemoveThreads(gone)
  PROVE  /\ poll'.phase = poll.phase /\ poll'.todo = poll.todo /\ poll'.high = poll.high
         /\ poll'.job = Orphaned(poll.job, gone)
         /\ poll'.rest = {Orphaned(job, gone) : job \in poll.rest}
         /\ threads' = threads \ gone
         /\ poll.job \in Job /\ poll.rest \subseteq Job
  BY DEF RemoveThreads, SlackTypeOK, Poll

LEMMA RemovalKeepsRows ==
  ASSUME SlackTypeOK, JobsHaveRows, NEW gone \in SUBSET threads, RemoveThreads(gone)
  PROVE  JobsHaveRows'
<1>1. InHand \subseteq Job /\ poll.job \in Job /\ poll.rest \subseteq Job
  BY RemovedHands DEF InHand
<1>2. Underway' = Underway /\ InHand' = {Orphaned(job, gone) : job \in InHand}
  BY RemovedHands DEF Underway, InHand
<1>3. \A v, w \in threads' : v.root = w.root /\ v.agent = w.agent => v = w
  BY RemovedHands DEF JobsHaveRows
<1>4. ASSUME NEW job \in InHand', job.live, job.root # 0
      PROVE  \E row \in threads' : JobOf(row) = job
  <2>1. PICK old \in InHand : job = Orphaned(old, gone)
    BY <1>2
  <2>2. /\ old.live /\ job = old
        /\ ~(\E row \in gone : row.root = old.root /\ row.agent = old.agent)
    BY <1>1, <1>4, <2>1, OrphanedJob
  <2>3. PICK row \in threads : JobOf(row) = old
    BY <1>4, <2>2 DEF JobsHaveRows
  <2>4. row.root = old.root /\ row.agent = old.agent
    BY <2>3 DEF JobOf
  <2>5. row \in threads'
    BY <2>2, <2>4, RemovedHands
  <2> QED
    BY <2>2, <2>3, <2>5
<1>5. \A i, j \in poll'.rest : i.root = j.root /\ i.agent = j.agent => i = j
  <2> SUFFICES ASSUME NEW i \in poll.rest, NEW j \in poll.rest,
                      Orphaned(i, gone).root = Orphaned(j, gone).root,
                      Orphaned(i, gone).agent = Orphaned(j, gone).agent
               PROVE  Orphaned(i, gone) = Orphaned(j, gone)
    BY RemovedHands
  <2>1. i.root = j.root /\ i.agent = j.agent
    BY <1>1, OrphanedJob
  <2> QED
    BY <2>1 DEF JobsHaveRows
<1>6. ASSUME Underway', NEW i \in poll'.rest
      PROVE  ~(i.root = poll'.job.root /\ i.agent = poll'.job.agent)
  <2>1. PICK old \in poll.rest : i = Orphaned(old, gone)
    BY <1>6, RemovedHands
  <2>2. i.root = old.root /\ i.agent = old.agent
    BY <1>1, <2>1, OrphanedJob
  <2>3. poll'.job.root = poll.job.root /\ poll'.job.agent = poll.job.agent
    BY <1>1, RemovedHands, OrphanedJob
  <2> QED
    BY <1>2, <1>6, <2>2, <2>3 DEF JobsHaveRows
<1>7. poll'.phase = "polled" \/ (Underway' /\ poll'.job.root = 0) => poll'.rest = {}
  BY <1>1, <1>2, RemovedHands, OrphanedJob DEF JobsHaveRows
<1>8. ~Underway' => poll'.job = NoJob
  <2>1. NoJob.live = FALSE
    BY DEF NoJob
  <2> QED
    BY <1>1, <1>2, <2>1, RemovedHands, OrphanedJob DEF JobsHaveRows
<1> QED
  BY <1>3, <1>4, <1>5, <1>6, <1>7, <1>8 DEF JobsHaveRows

\* The channel's job is not one of a row.
LEMMA DeletedHands ==
  ASSUME SlackTypeOK, DeleteChannel
  PROVE  /\ poll'.phase = poll.phase /\ poll'.rest = poll.rest /\ poll'.todo = poll.todo
         /\ poll'.high = poll.high
         /\ poll'.job.root = poll.job.root /\ poll'.job.agent = poll.job.agent
         /\ poll'.job.last = poll.job.last
         /\ poll.job.root # 0 \/ ~poll.job.live => poll'.job = poll.job
         /\ UNCHANGED threads
<1> DEFINE job == [poll.job EXCEPT !.live = @ /\ poll.job.root # 0]
<1>1. /\ job.root = poll.job.root /\ job.agent = poll.job.agent /\ job.last = poll.job.last
      /\ poll.job.root # 0 \/ ~poll.job.live => job = poll.job
  BY DEF SlackTypeOK, Poll, Job
<1>2. poll' = [poll EXCEPT !.job = job] /\ UNCHANGED threads
  BY DEF DeleteChannel
<1> HIDE DEF job
<1> QED
  BY <1>1, <1>2 DEF SlackTypeOK, Poll

LEMMA DeletionKeepsRows == ASSUME SlackTypeOK, JobsHaveRows, DeleteChannel PROVE JobsHaveRows'
<1>1. CASE poll'.job = poll.job
  BY <1>1, DeletedHands, SameJobsKeepRows
<1>2. CASE poll'.job # poll.job
  <2>1. poll.job.root = 0 /\ poll.job.live
    BY <1>2, DeletedHands
  <2>2. Underway
    BY <2>1 DEF JobsHaveRows, NoJob
  <2>3. Underway' /\ InHand' = poll.rest \cup {poll'.job} /\ poll'.job.root = 0
    BY <2>1, <2>2, DeletedHands DEF InHand, Underway
  <2>4. poll.rest \subseteq InHand
    BY DEF InHand
  <2> QED
    BY <2>1, <2>2, <2>3, <2>4, DeletedHands DEF JobsHaveRows
<1> QED
  BY <1>1, <1>2

LEMMA PersistHands ==
  ASSUME SlackTypeOK, Persist
  PROVE  /\ Underway /\ poll' = Done /\ poll.phase = "dispatch" /\ poll.todo = {}
         /\ \A row \in threads' :
              \/ row \in threads /\ (poll.high > poll.job.last /\ poll.job.live /\ poll.job.root # 0
                                       => JobOf(row) # poll.job)
              \/ /\ poll.high > poll.job.last /\ poll.job.root # 0 /\ poll.job.live
                 /\ row.last = poll.high
                 /\ \E old \in threads : /\ JobOf(old) = poll.job
                                         /\ row = [old EXCEPT !.last = poll.high]
                                         /\ row.root = old.root /\ row.agent = old.agent
         /\ \A old \in threads :
              /\ JobOf(old) # poll.job => old \in threads'
              /\ \E row \in threads' : row.root = old.root /\ row.agent = old.agent
<1> DEFINE Moved(row) == IF JobOf(row) = poll.job THEN [row EXCEPT !.last = poll.high] ELSE row
           moves == poll.high > poll.job.last /\ poll.job.root # 0 /\ poll.job.live
<1>1. threads' = IF moves THEN {Moved(row) : row \in threads} ELSE threads
  BY DEF Persist
<1>2. \A row \in threads : JobOf(row) # poll.job => Moved(row) = row
  OBVIOUS
<1>3. \A row \in threads : JobOf(row) = poll.job =>
        /\ Moved(row) = [row EXCEPT !.last = poll.high]
        /\ Moved(row).root = row.root /\ Moved(row).agent = row.agent /\ Moved(row).last = poll.high
  BY DEF SlackTypeOK, Thread
<1>4. /\ Underway /\ poll' = Done /\ poll.phase = "dispatch" /\ poll.todo = {}
  BY DEF Persist, AllDispatched, Underway
<1> HIDE DEF Moved
<1>5. CASE ~moves
  BY <1>1, <1>4, <1>5
<1>6. CASE moves
  <2>1. threads' = {Moved(row) : row \in threads}
    BY <1>1, <1>6
  <2>2. ASSUME NEW row \in threads'
        PROVE  \/ row \in threads /\ JobOf(row) # poll.job
               \/ /\ row.last = poll.high
                  /\ \E old \in threads : /\ JobOf(old) = poll.job
                                          /\ row = [old EXCEPT !.last = poll.high]
                                          /\ row.root = old.root /\ row.agent = old.agent
    BY <1>2, <1>3, <2>1
  <2>3. \A old \in threads :
              /\ JobOf(old) # poll.job => old \in threads'
              /\ \E row \in threads' : row.root = old.root /\ row.agent = old.agent
    BY <1>2, <1>3, <2>1
  <2> QED
    BY <1>4, <1>6, <2>2, <2>3
<1> QED
  BY <1>5, <1>6

LEMMA PersistKeepsRows == ASSUME SlackTypeOK, JobsHaveRows, Persist PROVE JobsHaveRows'
<1>1. /\ poll'.phase \in {"polled", "threads"} /\ poll'.job = NoJob
      /\ poll'.rest = poll.rest /\ ~Underway' /\ InHand' = poll.rest
      /\ poll'.phase = "polled" => poll.rest = {}
  BY PersistHands, DoneHands
<1>2. \A v, w \in threads' : v.root = w.root /\ v.agent = w.agent => v = w
  <2> SUFFICES ASSUME NEW v \in threads', NEW w \in threads', v.root = w.root, v.agent = w.agent
               PROVE  v = w
    OBVIOUS
  <2>0. ASSUME NEW x \in threads'
        PROVE  \E i \in threads :
                 /\ i.root = x.root /\ i.agent = x.agent
                 /\ x = i \/ (x = [i EXCEPT !.last = poll.high] /\ JobOf(i) = poll.job)
    <3>1. CASE x \in threads
      BY <3>1
    <3>2. CASE x \notin threads
      BY <3>2, PersistHands
    <3> QED
      BY <3>1, <3>2
  <2>1. PICK i \in threads :
                 /\ i.root = v.root /\ i.agent = v.agent
                 /\ v = i \/ (v = [i EXCEPT !.last = poll.high] /\ JobOf(i) = poll.job)
    BY <2>0
  <2>2. PICK j \in threads :
                 /\ j.root = w.root /\ j.agent = w.agent
                 /\ w = j \/ (w = [j EXCEPT !.last = poll.high] /\ JobOf(j) = poll.job)
    BY <2>0
  <2>3. i = j
    BY <2>1, <2>2 DEF JobsHaveRows
  <2>4. CASE JobOf(i) # poll.job
    BY <2>1, <2>2, <2>3, <2>4
  <2>5. CASE JobOf(i) = poll.job
    <3>1. CASE poll.high > poll.job.last /\ poll.job.live /\ poll.job.root # 0
      BY <2>1, <2>2, <2>3, <2>5, <3>1, PersistHands
    <3>2. CASE ~(poll.high > poll.job.last /\ poll.job.live /\ poll.job.root # 0)
      <4>1. v \in threads /\ w \in threads
        BY <3>2, PersistHands
      <4> QED
        BY <4>1 DEF JobsHaveRows
    <3> QED
      BY <3>1, <3>2
  <2> QED
    BY <2>4, <2>5
<1>3. ASSUME NEW job \in poll.rest, job.live, job.root # 0
      PROVE  \E row \in threads' : JobOf(row) = job
  <2>1. PICK row \in threads : JobOf(row) = job
    BY <1>3 DEF JobsHaveRows, InHand
  <2>2. job # poll.job
    BY PersistHands DEF JobsHaveRows
  <2> QED
    BY <2>1, <2>2, PersistHands
<1> QED
  BY <1>1, <1>2, <1>3 DEF JobsHaveRows

LEMMA JobsKept ==
  ASSUME SlackTypeOK, PointsToPosts, JobsHaveRows, [SlackNext]_slackVars
  PROVE  JobsHaveRows'
<1>1. CASE Write \/ UNCHANGED slackVars
  BY <1>1, SameJobsKeepRows DEF Write, slackVars
<1>2. CASE PollChannel
  <2>1. /\ poll'.phase = "asked" /\ poll'.rest = {} /\ poll'.job.root = 0 /\ UNCHANGED threads
    BY <1>2 DEF PollChannel, LoopSleeps, SlackTypeOK, Poll
  <2>2. Underway' /\ InHand' = {poll'.job}
    BY <2>1 DEF Underway, InHand
  <2> QED
    BY <2>1, <2>2 DEF JobsHaveRows
<1>3. CASE PollActiveThreads
  <2>1. PICK stale \in SUBSET threads, due \in SUBSET Followed(threads) :
          /\ due \subseteq Followed(threads \ stale) /\ threads' = threads \ stale
          /\ poll' = [poll EXCEPT !.phase = "threads", !.rest = due]
    BY <1>3 DEF PollActiveThreads
  <2>2. poll'.phase = "threads" /\ poll'.rest = due /\ poll'.job = poll.job
    BY <2>1 DEF SlackTypeOK, Poll
  <2>3. ~Underway /\ ~Underway' /\ InHand' = due
    BY <1>3, <2>2 DEF Underway, InHand, PollActiveThreads, LoopSleeps
  <2>4. \A job \in due : \E row \in threads' : JobOf(row) = job
    BY <2>1 DEF Followed
  <2>5. \A i, j \in due : i.root = j.root /\ i.agent = j.agent => i = j
    <3> SUFFICES ASSUME NEW i \in due, NEW j \in due, i.root = j.root, i.agent = j.agent PROVE i = j
      OBVIOUS
    <3>1. PICK v \in threads' : JobOf(v) = i
      BY <2>4
    <3>2. PICK w \in threads' : JobOf(w) = j
      BY <2>4
    <3>3. v.root = w.root /\ v.agent = w.agent /\ v \in threads /\ w \in threads
      BY <2>1, <3>1, <3>2 DEF JobOf
    <3> QED
      BY <3>1, <3>2, <3>3 DEF JobsHaveRows
  <2> QED
    BY <2>1, <2>2, <2>3, <2>4, <2>5 DEF JobsHaveRows
<1>4. ASSUME NEW job \in poll.rest, PollThread(job) PROVE JobsHaveRows'
  <2>1. /\ poll'.phase = "asked" /\ poll'.job = job /\ poll'.rest = poll.rest \ {job}
        /\ UNCHANGED threads /\ poll.phase = "threads"
    BY <1>4 DEF PollThread, SlackTypeOK, Poll
  <2>2. Underway' /\ InHand' = poll.rest /\ ~Underway /\ InHand = poll.rest
    BY <2>1 DEF Underway, InHand
  <2>3. job.root # 0
    BY DEF PointsToPosts
  <2> QED
    BY <2>1, <2>2, <2>3 DEF JobsHaveRows
<1>5. CASE Arrives
  <2>1. Underway /\ UNCHANGED threads
    BY <1>5 DEF Arrives, Underway
  <2>2. CASE poll' = Done
    BY <2>1, <2>2, DoneKeepsRows
  <2>3. CASE poll' # Done
    <3>1. poll' = [poll EXCEPT !.phase = "dispatch", !.todo = Mentions(poll.job),
                               !.high = NewestCounted(poll.job)]
      BY <1>5, <2>3 DEF Arrives
    <3>2. poll'.phase = "dispatch" /\ poll'.job = poll.job /\ poll'.rest = poll.rest
      BY <3>1 DEF SlackTypeOK, Poll
    <3>3. Underway' /\ InHand' = InHand
      BY <2>1, <3>2 DEF Underway, InHand
    <3> QED
      BY <2>1, <3>2, <3>3 DEF JobsHaveRows
  <2> QED
    BY <2>2, <2>3
<1>6. CASE ApiError \/ PollFails
  BY <1>6, DoneKeepsRows DEF ApiError, PollFails, Underway
<1>7. CASE Dispatch
  <2>1. poll'.phase = poll.phase /\ poll'.job = poll.job /\ poll'.rest = poll.rest
          /\ UNCHANGED threads
    BY <1>7 DEF Dispatch, SlackTypeOK, Poll
  <2> QED
    BY <2>1, SameJobsKeepRows
<1>8. CASE AgentStep
  BY <1>8, FollowKeepsRows, SameJobsKeepRows DEF AgentStep, PostReply, Unanswered, RegisterReply
<1>9. CASE Request
  BY <1>9, FollowKeepsRows, SameJobsKeepRows, RemovalKeepsRows, DeletionKeepsRows
     DEF Request, RegisterThread, ToggleChannel, AddChannel, ChangeRoster
<1>10. CASE SlackRestart
  <2>1. poll'.phase = "threads" /\ poll'.job = NoJob /\ poll'.rest = {} /\ UNCHANGED threads
    BY <1>10 DEF SlackRestart, Asleep
  <2>2. ~Underway' /\ InHand' = {}
    BY <2>1 DEF Underway, InHand
  <2> QED
    BY <2>1, <2>2 DEF JobsHaveRows
<1> QED
  BY <1>1, <1>2, <1>3, <1>4, <1>5, <1>6, <1>7, <1>8, <1>9, <1>10, PersistKeepsRows
     DEF SlackNext, PollerStep

LEMMA ChannelKept ==
  ASSUME SlackTypeOK, PointsToPosts, ChannelIsThere, [SlackNext]_slackVars
  PROVE  ChannelIsThere'
<1> USE DEF ChannelIsThere
<1>1. NoJob.live = FALSE
  BY DEF NoJob
<1>2. CASE poll'.job = NoJob
  BY <1>1, <1>2
<1>3. CASE UNCHANGED <<poll, channel>>
  BY <1>3
<1>4. CASE poll' = Done \/ poll' = Asleep
  <2>1. Done.job = NoJob /\ Asleep.job = NoJob
    BY DEF Done, Asleep, SlackTypeOK, Poll
  <2> QED
    BY <1>2, <1>4, <2>1
<1>5. CASE Write \/ AgentStep \/ UNCHANGED slackVars
  BY <1>3, <1>5 DEF Write, AgentStep, PostReply, Unanswered, RegisterReply, slackVars
<1>6. CASE PollChannel
  BY <1>6 DEF PollChannel, SlackTypeOK, Poll
<1>7. CASE PollActiveThreads
  <2>1. poll'.job = poll.job /\ channel'.status = channel.status
    BY <1>7 DEF PollActiveThreads, SlackTypeOK, Poll, Channel
  <2> QED
    BY <2>1
<1>8. ASSUME NEW job \in poll.rest, PollThread(job) PROVE ChannelIsThere'
  BY <1>8 DEF PollThread, SlackTypeOK, Poll, PointsToPosts
<1>9. CASE Arrives
  <2>1. CASE poll' = Done
    BY <1>4, <2>1
  <2>2. CASE poll' # Done
    <3>1. poll' = [poll EXCEPT !.phase = "dispatch", !.todo = Mentions(poll.job),
                               !.high = NewestCounted(poll.job)] /\ UNCHANGED channel
      BY <1>9, <2>2 DEF Arrives
    <3>2. poll'.job = poll.job
      BY <3>1 DEF SlackTypeOK, Poll
    <3> QED
      BY <3>1, <3>2
  <2> QED
    BY <2>1, <2>2
<1>10. CASE Dispatch
  <2>1. poll'.job = poll.job /\ UNCHANGED channel
    BY <1>10 DEF Dispatch, SlackTypeOK, Poll
  <2> QED
    BY <2>1
<1>11. CASE Persist \/ ApiError \/ PollFails \/ SlackRestart
  BY <1>4, <1>11 DEF Persist, ApiError, PollFails, SlackRestart
<1>12. ASSUME NEW gone \in SUBSET threads, RemoveThreads(gone) PROVE ChannelIsThere'
  <2>1. UNCHANGED channel /\ poll'.job = Orphaned(poll.job, gone) /\ poll.job \in Job
    BY <1>12, RemovedHands DEF RemoveThreads
  <2>2. poll'.job.root = poll.job.root /\ (poll'.job.live => poll.job.live)
    BY <2>1, OrphanedJob
  <2> QED
    BY <2>1, <2>2
<1>13. CASE ToggleChannel \/ AddChannel
  <2>1. UNCHANGED poll /\ channel'.status # "gone"
    BY <1>13 DEF ToggleChannel, AddChannel, SlackTypeOK, Channel
  <2> QED
    BY <2>1
<1>14. CASE DeleteChannel
  <2> DEFINE job == [poll.job EXCEPT !.live = @ /\ poll.job.root # 0]
  <2>1. ~(job.root = 0 /\ job.live)
    BY DEF SlackTypeOK, Poll, Job
  <2>2. poll' = [poll EXCEPT !.job = job]
    BY <1>14 DEF DeleteChannel
  <2> HIDE DEF job
  <2> QED
    BY <2>1, <2>2 DEF SlackTypeOK, Poll
<1>15. CASE Request
  BY <1>3, <1>12, <1>13, <1>14, <1>15 DEF Request, RegisterThread, ChangeRoster
<1> QED
  BY <1>5, <1>6, <1>7, <1>8, <1>9, <1>10, <1>11, <1>15 DEF SlackNext, PollerStep

------------------------------------------------------------------------------
(* Mentions to dispatch and mentions dispatched.                           *)

\* The page arrives: what is to be dispatched lies between the cursor and its new value.
LEMMA ArrivesHands ==
  ASSUME SlackTypeOK, Arrives, poll' # Done
  PROVE  /\ poll.phase = "asked" /\ poll'.phase = "dispatch"
         /\ poll'.job = poll.job /\ poll'.rest = poll.rest /\ UNCHANGED <<posts, threads, channel>>
         /\ poll'.high \in 0..MaxPosts /\ poll.job.last <= poll'.high
         /\ \A m \in poll'.todo :
              /\ m \in Mention /\ m[1] \in DOMAIN posts
              /\ posts[m[1]].root = poll.job.root /\ poll.job.last < m[1] /\ m[1] <= poll'.high
              /\ poll.job.root # 0 => m[2] = poll.job.agent
<1> DEFINE job == poll.job
<1>1. poll' = [poll EXCEPT !.phase = "dispatch", !.todo = Mentions(job),
                           !.high = NewestCounted(job)]
  BY DEF Arrives
<1>2. /\ poll'.phase = "dispatch" /\ poll'.job = job /\ poll'.rest = poll.rest
      /\ poll'.todo = Mentions(job) /\ poll'.high = NewestCounted(job)
      /\ UNCHANGED <<posts, threads, channel>> /\ poll.phase = "asked"
  BY <1>1 DEF SlackTypeOK, Poll, Arrives
<1>3. job \in Job
  BY DEF SlackTypeOK, Poll
<1>4. NewestCounted(job) \in 0..MaxPosts /\ job.last <= NewestCounted(job)
  BY <1>3, NewestIsLast
<1>5. ASSUME NEW m \in Mentions(job)
      PROVE  /\ m \in Mention /\ m[1] \in DOMAIN posts
             /\ posts[m[1]].root = job.root /\ job.last < m[1] /\ m[1] <= NewestCounted(job)
             /\ job.root # 0 => m[2] = job.agent
  <2>1. m[1] \in Fresh(job) /\ m[1] \in Page(job) /\ posts[m[1]].by = "user" /\ m[2] \in Agents
    BY DEF Mentions, Addressed
  <2>2. m[1] \in Counted(job)
    BY <2>1 DEF Counted
  <2>3. m[1] \in DOMAIN posts /\ m[1] \in Ts /\ posts[m[1]].root = job.root /\ job.last < m[1]
    BY <1>3, <2>1, PageIsFresh DEF Fresh
  <2>4. m[1] <= NewestCounted(job)
    <3>1. Counted(job) \cup {job.last} \subseteq 0..MaxPosts
      <4>1. Counted(job) \subseteq Ts
        BY <1>3, PageIsFresh
      <4>2. job.last \in 0..MaxPosts
        BY <1>3 DEF Job
      <4> QED
        BY <4>1, <4>2, SlackConstantsOK DEF Ts, SlackConstantsOK
    <3>2. m[1] <= Max(Counted(job) \cup {job.last})
      BY <2>2, <3>1, GreatestElement, SlackConstantsOK DEF SlackConstantsOK
    <3> QED
      BY <3>2 DEF NewestCounted
  <2>5. m \in Mention
    BY <2>1, <2>3 DEF Mentions, Addressed, Mention
  <2>6. job.root # 0 => m[2] = job.agent
    BY DEF Mentions
  <2> QED
    BY <2>3, <2>4, <2>5, <2>6
<1> HIDE DEF job
<1>6. /\ poll'.phase = "dispatch" /\ poll'.job = poll.job /\ poll'.todo = Mentions(job)
      /\ poll'.high = NewestCounted(job) /\ job = poll.job
  BY <1>2 DEF job
<1> QED
  BY <1>2, <1>4, <1>5, <1>6

\* One mention leaves the page, and is a message more or is refused.
LEMMA DispatchHands ==
  ASSUME SlackTypeOK, Dispatch
  PROVE  \E m \in poll.todo :
           /\ poll.phase = "dispatch" /\ poll'.phase = "dispatch"
           /\ poll'.job = poll.job /\ poll'.rest = poll.rest /\ poll'.high = poll.high
           /\ poll'.todo = poll.todo \ {m} /\ m \in Mention
           /\ handled' = handled \cup {m} /\ UNCHANGED <<posts, threads, channel>>
           /\ \/ sent' = [sent EXCEPT ![m] = @ + 1] /\ UNCHANGED spent
              \/ UNCHANGED sent
<1>1. PICK m \in poll.todo :
        /\ poll' = [poll EXCEPT !.todo = @ \ {m}] /\ handled' = handled \cup {m}
        /\ \/ sent' = [sent EXCEPT ![m] = @ + 1] /\ UNCHANGED spent
           \/ UNCHANGED sent
  BY DEF Dispatch
<1>2. m \in Mention /\ poll.phase = "dispatch" /\ UNCHANGED <<posts, threads, channel>>
  BY DEF Dispatch, SlackTypeOK, Poll
<1>3. /\ poll'.phase = "dispatch" /\ poll'.job = poll.job /\ poll'.rest = poll.rest
      /\ poll'.high = poll.high /\ poll'.todo = poll.todo \ {m}
  BY <1>1, <1>2 DEF SlackTypeOK, Poll
<1> QED
  BY <1>1, <1>2, <1>3

LEMMA AheadKept ==
  ASSUME SlackTypeOK, PointsToPosts, FeedbackInv, TodoIsAhead, [SlackNext]_slackVars
  PROVE  TodoIsAhead'
<1>1. CASE Write \/ AgentStep \/ Request
  <2> SUFFICES ASSUME poll'.phase = "dispatch", NEW m \in poll'.todo
               PROVE  /\ posts'[m[1]].root = poll'.job.root /\ poll'.job.last < m[1]
                      /\ m[1] <= poll'.high
                      /\ poll'.job.root # 0 => m[2] = poll'.job.agent
    BY DEF TodoIsAhead
  <2>1. PollGoesOn
    BY <1>1, OthersGoBeside
  <2>2. m \in poll.todo /\ poll.phase = "dispatch"
    BY <2>1 DEF PollGoesOn
  <2>3. m[1] \in DOMAIN posts
    BY <2>2 DEF FeedbackInv, WrittenByUser
  <2>4. posts'[m[1]] = posts[m[1]]
    <3>1. DOMAIN posts = 1..Len(posts) /\ Len(posts) \in Nat
      BY DEF SlackTypeOK
    <3> QED
      BY <2>3, <3>1, PostsStay
  <2> QED
    BY <2>1, <2>2, <2>4 DEF PollGoesOn, TodoIsAhead
<1>2. CASE PollChannel \/ PollActiveThreads \/ \E job \in poll.rest : PollThread(job)
  <2>1. poll'.phase # "dispatch"
    BY <1>2 DEF PollChannel, PollActiveThreads, PollThread, SlackTypeOK, Poll
  <2> QED
    BY <2>1 DEF TodoIsAhead
<1>3. CASE Arrives
  <2>1. CASE poll' = Done
    BY <2>1, DoneIsIdle DEF TodoIsAhead
  <2>2. CASE poll' # Done
    BY <1>3, <2>2, ArrivesHands DEF TodoIsAhead
  <2> QED
    BY <2>1, <2>2
<1>4. CASE Dispatch
  BY <1>4, DispatchHands DEF TodoIsAhead
<1>5. CASE Persist \/ ApiError \/ PollFails \/ SlackRestart
  BY <1>5, DoneIsIdle DEF Persist, ApiError, PollFails, SlackRestart, TodoIsAhead
<1>6. CASE UNCHANGED slackVars
  BY <1>6 DEF slackVars, TodoIsAhead
<1> QED
  BY <1>1, <1>2, <1>3, <1>4, <1>5, <1>6 DEF SlackNext, PollerStep

LEMMA OnlyDispatchSends ==
  ASSUME SlackTypeOK, [SlackNext]_slackVars
  PROVE  /\ handled \subseteq handled'
         /\ Dispatch \/ UNCHANGED sent
<1>1. CASE Write \/ AgentStep \/ Request \/ UNCHANGED slackVars
  BY <1>1 DEF Write, AgentStep, PostReply, Unanswered, RegisterReply, Request, RegisterThread,
              RemoveThreads, ToggleChannel, DeleteChannel, AddChannel, ChangeRoster, slackVars
<1>2. CASE PollerStep \/ ApiError \/ PollFails \/ SlackRestart
  BY <1>2 DEF PollerStep, PollChannel, PollActiveThreads, PollThread, Arrives, Dispatch, Persist,
              ApiError, PollFails, SlackRestart
<1> QED
  BY <1>1, <1>2 DEF SlackNext

LEMMA SentKept ==
  ASSUME SlackTypeOK, SentIsHandled, [SlackNext]_slackVars
  PROVE  SentIsHandled'
<1>1. CASE UNCHANGED sent
  BY <1>1, OnlyDispatchSends DEF SentIsHandled
<1>2. CASE Dispatch
  BY <1>2, DispatchHands DEF SentIsHandled, SlackTypeOK
<1> QED
  BY <1>1, <1>2, OnlyDispatchSends

------------------------------------------------------------------------------
(* Mentions at top level.                                                  *)

\* What does not dispatch and does not make a post come again.
LEMMA ChannelStaysQuiet ==
  ASSUME CountsOK, CountsOK', SlackTypeOK, ChannelRepeats, UNCHANGED sent, spent.cuts <= spent'.cuts,
         NEW m \in Mention, m[1] \in DOMAIN posts, posts[m[1]].root = 0,
         AheadOfChannel(m)' => AheadOfChannel(m) \/ spent.cuts + 1 <= spent'.cuts
  PROVE  /\ sent'[m] <= 1 + spent'.cuts
         /\ AheadOfChannel(m)' => sent'[m] <= spent'.cuts
<1>1. sent[m] \in Nat /\ spent.cuts \in Nat /\ spent'.cuts \in Nat
  BY DEF SlackTypeOK, CountsOK
<1>2. sent[m] <= 1 + spent.cuts /\ (AheadOfChannel(m) => sent[m] <= spent.cuts)
  BY DEF ChannelRepeats
<1> QED
  BY <1>1, <1>2

LEMMA ChannelRepeatsKept ==
  ASSUME SlackTypeOK, PointsToPosts, FeedbackInv, JobIsBehind, CountsOK, ChannelIsThere,
         TodoIsAhead, SentIsHandled, ChannelRepeats, [SlackNext]_slackVars
  PROVE  ChannelRepeats'
<1>1. /\ CountsOK' /\ spent.cuts <= spent'.cuts /\ spent.cuts \in Nat /\ spent'.cuts \in Nat
      /\ DOMAIN posts = 1..Len(posts) /\ Len(posts) \in Nat
      /\ channel.last \in Int /\ channel.last <= Len(posts)
      /\ poll.job.last \in Int /\ poll.high \in Int
  BY SpentKept, SlackConstantsOK
     DEF SlackConstantsOK, SlackTypeOK, PointsToPosts, Channel, Poll, Job
<1> SUFFICES ASSUME NEW m \in Mention, m[1] \in DOMAIN posts', posts'[m[1]].root = 0
             PROVE  /\ sent'[m] <= 1 + spent'.cuts
                    /\ AheadOfChannel(m)' => sent'[m] <= spent'.cuts
  BY DEF ChannelRepeats
<1>2. m[1] \in Int /\ sent[m] \in Nat /\ (sent[m] > 0 => m[1] \in DOMAIN posts)
  BY DEF Mention, Ts, SlackTypeOK, SentIsHandled, FeedbackInv, WrittenByUser
\* a post that is new was never dispatched
<1>3. CASE m[1] \notin DOMAIN posts
  <2>1. sent[m] = 0
    BY <1>2, <1>3
  <2>2. UNCHANGED sent
    BY <1>3, DispatchHands, OnlyDispatchSends
  <2> QED
    BY <1>1, <2>1, <2>2
<1>4. CASE m[1] \in DOMAIN posts
  <2> USE <1>1, <1>2, <1>4
  <2>1. posts'[m[1]] = posts[m[1]] /\ posts[m[1]].root = 0
    BY PostsStay
  <2> DEFINE Goal == /\ sent'[m] <= 1 + spent'.cuts
                     /\ AheadOfChannel(m)' => sent'[m] <= spent'.cuts
  <2>2. ASSUME UNCHANGED sent,
               AheadOfChannel(m)' => AheadOfChannel(m) \/ spent.cuts + 1 <= spent'.cuts
        PROVE  Goal
    BY <2>1, <2>2, ChannelStaysQuiet
  <2> SUFFICES Goal
    OBVIOUS
  <2> HIDE DEF Goal
  \* the poller's part is the same and the row does not go back
  <2>3. ASSUME UNCHANGED sent, poll'.phase = poll.phase, poll'.todo = poll.todo,
               poll'.high = poll.high, poll'.job.root = poll.job.root,
               poll'.job.last = poll.job.last,
               channel'.status # "gone" /\ channel'.last < m[1]
                 => channel.status # "gone" /\ channel.last < m[1]
        PROVE  Goal
    <3>1. AheadOfChannel(m)' => AheadOfChannel(m)
      BY <2>3 DEF AheadOfChannel, Underway
    <3> QED
      BY <2>2, <2>3, <3>1
  <2>4. CASE UNCHANGED <<sent, poll, channel>>
    BY <2>3, <2>4
  <2>5. CASE Write \/ AgentStep \/ UNCHANGED slackVars
    BY <2>4, <2>5 DEF Write, AgentStep, PostReply, Unanswered, RegisterReply, slackVars
  <2>6. CASE Request
    <3>1. CASE \E root \in DOMAIN posts, agent \in Agents : RegisterThread(root, agent)
      BY <2>4, <3>1 DEF RegisterThread
    <3>2. CASE \E agent \in Agents : ChangeRoster(agent)
      BY <2>4, <3>2 DEF ChangeRoster
    <3>3. ASSUME NEW gone \in SUBSET threads, RemoveThreads(gone) PROVE Goal
      <4>1. UNCHANGED <<sent, channel>>
        BY <3>3 DEF RemoveThreads
      <4>2. poll'.job.root = poll.job.root /\ poll'.job.last = poll.job.last
        BY <3>3, RemovedHands, OrphanedJob
      <4> QED
        BY <2>3, <3>3, <4>1, <4>2, RemovedHands
    <3>4. CASE ToggleChannel
      <4>1. UNCHANGED <<sent, poll>> /\ channel'.last = channel.last /\ channel.status # "gone"
        BY <3>4 DEF ToggleChannel, SlackTypeOK, Channel
      <4> QED
        BY <2>3, <4>1
    <3>5. CASE DeleteChannel
      <4>1. UNCHANGED sent /\ channel'.status = "gone"
        BY <3>5 DEF DeleteChannel, SlackTypeOK, Channel
      <4> QED
        BY <2>3, <3>5, <4>1, DeletedHands
    <3>6. CASE AddChannel
      <4>1. UNCHANGED <<sent, poll>> /\ channel'.last = Len(posts)
        BY <3>6 DEF AddChannel
      <4> QED
        BY <2>3, <4>1
    <3> QED
      BY <2>6, <3>1, <3>2, <3>3, <3>4, <3>5, <3>6 DEF Request
  <2>7. CASE PollChannel
    <3>1. /\ UNCHANGED <<sent, channel>> /\ channel.status = "on" /\ ~Underway
          /\ poll'.phase = "asked" /\ poll'.job.last = channel.last /\ poll'.job.root = 0
      BY <2>7 DEF PollChannel, LoopSleeps, Underway, SlackTypeOK, Poll
    <3>2. AheadOfChannel(m)' => AheadOfChannel(m)
      BY <3>1 DEF AheadOfChannel, Underway
    <3> QED
      BY <2>2, <3>1, <3>2
  <2>8. CASE PollActiveThreads
    <3>1. /\ UNCHANGED sent /\ channel'.status = channel.status /\ channel'.last = channel.last
          /\ ~Underway /\ poll'.phase = "threads"
      BY <2>8 DEF PollActiveThreads, LoopSleeps, Underway, SlackTypeOK, Poll, Channel
    <3>2. AheadOfChannel(m)' => AheadOfChannel(m)
      BY <3>1 DEF AheadOfChannel, Underway
    <3> QED
      BY <2>2, <3>1, <3>2
  <2>9. ASSUME NEW job \in poll.rest, PollThread(job) PROVE Goal
    <3>1. /\ UNCHANGED <<sent, channel>> /\ ~Underway
          /\ poll'.phase = "asked" /\ poll'.job = job /\ job.root # 0
      BY <2>9 DEF PollThread, Underway, SlackTypeOK, Poll, PointsToPosts
    <3>2. AheadOfChannel(m)' => AheadOfChannel(m)
      BY <3>1 DEF AheadOfChannel, Underway
    <3> QED
      BY <2>2, <3>1, <3>2
  \* a poll is over: the cursor is where it was, or the poll was cut short
  <2>10. ASSUME UNCHANGED sent, poll' = Done \/ poll' = Asleep,
                channel'.last = channel.last,
                channel'.status # "gone" => channel.status # "gone",
                poll.phase = "dispatch" => spent.cuts + 1 <= spent'.cuts
         PROVE  Goal
    <3>1. ~Underway'
      <4>1. Done.phase \in {"polled", "threads"} /\ Asleep.phase = "threads"
        BY DEF Done, Asleep, SlackTypeOK, Poll
      <4> QED
        BY <2>10, <4>1 DEF Underway
    <3>2. AheadOfChannel(m)' => channel.status # "gone" /\ channel.last < m[1]
      BY <2>10, <3>1 DEF AheadOfChannel, Underway
    <3>3. channel.status # "gone" /\ channel.last < m[1] /\ poll.phase # "dispatch"
            => AheadOfChannel(m)
      BY DEF AheadOfChannel, Underway, JobIsBehind
    <3> QED
      BY <2>2, <2>10, <3>2, <3>3
  <2>11. CASE ApiError
    <3>1. /\ channel'.last = channel.last /\ channel'.status = channel.status
          /\ poll.phase = "asked" /\ poll' = Done /\ UNCHANGED sent
      BY <2>11 DEF ApiError, Forgiven, SlackTypeOK, Channel
    <3> QED
      BY <2>10, <3>1
  <2>12. CASE PollFails
    <3>1. channel'.last = channel.last /\ poll' = Done /\ UNCHANGED sent
      BY <2>12 DEF PollFails, SlackTypeOK, Channel
    <3>2. channel'.status # "gone" => channel.status # "gone"
      <4>1. CASE poll.job.root = 0 /\ poll.job.live
        BY <4>1 DEF ChannelIsThere
      <4>2. CASE ~(poll.job.root = 0 /\ poll.job.live)
        BY <2>12, <4>2 DEF PollFails
      <4> QED
        BY <4>1, <4>2
    <3>3. poll.phase = "dispatch" => spent.cuts + 1 <= spent'.cuts
      BY <2>12, CutCounts DEF PollFails
    <3> QED
      BY <2>10, <3>1, <3>2, <3>3
  <2>13. CASE SlackRestart
    <3>1. /\ channel'.last = channel.last /\ channel'.status = channel.status
          /\ poll' = Asleep /\ UNCHANGED sent
      BY <2>13 DEF SlackRestart, SlackTypeOK, Channel
    <3>2. poll.phase = "dispatch" => spent.cuts + 1 <= spent'.cuts
      BY <2>13, CutCounts DEF SlackRestart
    <3> QED
      BY <2>10, <3>1, <3>2
  <2>14. CASE Arrives
    <3>1. poll.phase = "asked" /\ UNCHANGED sent /\ channel'.last = channel.last
             /\ channel'.status = channel.status
      BY <2>14 DEF Arrives, Forgiven, SlackTypeOK, Channel
    <3>2. CASE poll' = Done
      BY <2>10, <3>1, <3>2
    <3>3. CASE poll' # Done
      <4>1. AheadOfChannel(m)' => AheadOfChannel(m)
        <5>1. /\ poll'.phase = "dispatch" /\ poll'.job = poll.job /\ UNCHANGED channel
              /\ poll'.high \in Int /\ poll.job.last <= poll'.high
              /\ m \in poll'.todo => poll.job.last < m[1]
          BY <2>14, <3>3, ArrivesHands, SlackConstantsOK DEF SlackConstantsOK
        <5> QED
          BY <3>1, <5>1 DEF AheadOfChannel, Underway
      <4> QED
        BY <2>2, <3>1, <4>1
    <3> QED
      BY <3>2, <3>3
  <2>15. CASE Dispatch
    <3>1. PICK n \in poll.todo :
           /\ poll.phase = "dispatch" /\ poll'.phase = "dispatch"
           /\ poll'.job = poll.job /\ poll'.rest = poll.rest /\ poll'.high = poll.high
           /\ poll'.todo = poll.todo \ {n} /\ n \in Mention
           /\ handled' = handled \cup {n} /\ UNCHANGED <<posts, threads, channel>>
           /\ \/ sent' = [sent EXCEPT ![n] = @ + 1] /\ UNCHANGED spent
              \/ UNCHANGED sent
      BY <2>15, DispatchHands
    <3>2. AheadOfChannel(m)' => AheadOfChannel(m)
      BY <3>1 DEF AheadOfChannel, Underway
    <3>3. CASE UNCHANGED sent
      BY <2>2, <3>2, <3>3
    <3>4. CASE sent' = [sent EXCEPT ![n] = @ + 1] /\ UNCHANGED spent /\ n # m
      <4>1. sent'[m] = sent[m]
        BY <3>4 DEF SlackTypeOK
      <4>2. sent[m] <= 1 + spent.cuts /\ (AheadOfChannel(m) => sent[m] <= spent.cuts)
        BY <2>1 DEF ChannelRepeats
      <4> QED
        BY <3>2, <3>4, <4>1, <4>2 DEF Goal
    <3>5. CASE sent' = [sent EXCEPT ![n] = @ + 1] /\ UNCHANGED spent /\ n = m
      <4>1. sent'[m] = sent[m] + 1
        BY <3>5 DEF SlackTypeOK
      <4>2. poll.job.root = 0 /\ m[1] <= poll.high
        BY <2>1, <3>1, <3>5 DEF TodoIsAhead
      <4>3. AheadOfChannel(m) /\ ~AheadOfChannel(m)'
        BY <3>1, <3>5, <4>2 DEF AheadOfChannel, Underway
      <4>4. sent[m] <= spent.cuts
        BY <2>1, <4>3 DEF ChannelRepeats
      <4> QED
        BY <3>5, <4>1, <4>3, <4>4 DEF Goal
    <3> QED
      BY <3>1, <3>3, <3>4, <3>5
  <2>16. CASE Persist
    <3>1. UNCHANGED sent /\ ~Underway' /\ poll.phase = "dispatch" /\ poll.todo = {}
      <4>1. Done.phase \in {"polled", "threads"}
        BY DEF Done, SlackTypeOK, Poll
      <4> QED
        BY <2>16, <4>1 DEF Persist, AllDispatched, Underway
    <3>2. channel'.status = channel.status
             /\ channel'.last = IF /\ poll.job.root = 0 /\ poll.high > poll.job.last
                                   /\ channel.status # "gone"
                                THEN poll.high ELSE channel.last
      BY <2>16 DEF Persist, Forgiven, SlackTypeOK, Channel
    <3>3. AheadOfChannel(m)' => channel'.status # "gone" /\ channel'.last < m[1]
      BY <3>1 DEF AheadOfChannel, Underway
    <3>4. AheadOfChannel(m)' => AheadOfChannel(m)
      BY <3>1, <3>2, <3>3 DEF AheadOfChannel, Underway, JobIsBehind
    <3> QED
      BY <2>2, <3>1, <3>4
  <2> QED
    BY <2>5, <2>6, <2>7, <2>8, <2>9, <2>11, <2>12, <2>13, <2>14, <2>15, <2>16
       DEF SlackNext, PollerStep
<1> QED
  BY <1>3, <1>4

------------------------------------------------------------------------------
(* Mentions in threads.                                                    *)

\* A step that sends nothing may make the mention come again if it counts for that.
LEMMA ThreadStaysQuiet ==
  ASSUME SlackTypeOK, NEW r \in Ts, NEW m \in Mention, sent'[m] = sent[m],
         spent.cuts \in Nat, spent.removals \in Nat, spent'.cuts \in Nat, spent'.removals \in Nat,
         spent.cuts <= spent'.cuts, spent.removals <= spent'.removals,
         sent[m] + Bit(AheadOfThread(r, m)) + Bit(AheadOfOrphan(r, m))
           <= 1 + spent.cuts + spent.removals,
         \/ /\ AheadOfThread(r, m)' => AheadOfThread(r, m)
            /\ AheadOfOrphan(r, m)' => AheadOfOrphan(r, m)
         \/ /\ spent.cuts + spent.removals + 1 <= spent'.cuts + spent'.removals
            /\ AheadOfOrphan(r, m)' => AheadOfOrphan(r, m) \/ AheadOfThread(r, m)
  PROVE  sent'[m] + Bit(AheadOfThread(r, m)') + Bit(AheadOfOrphan(r, m)')
           <= 1 + spent'.cuts + spent'.removals
<1> DEFINE p == AheadOfThread(r, m)
           q == AheadOfOrphan(r, m)
           pp == AheadOfThread(r, m)'
           qq == AheadOfOrphan(r, m)'
<1>1. sent[m] \in Nat
  BY DEF SlackTypeOK
<1>2. /\ sent[m] + Bit(p) + Bit(q) <= 1 + spent.cuts + spent.removals
      /\ \/ (pp => p) /\ (qq => q)
         \/ /\ spent.cuts + spent.removals + 1 <= spent'.cuts + spent'.removals
            /\ qq => q \/ p
  OBVIOUS
<1> HIDE DEF p, q, pp, qq
<1>3. sent[m] + Bit(pp) + Bit(qq) <= 1 + spent'.cuts + spent'.removals
  BY <1>1, <1>2 DEF Bit
<1> QED
  BY <1>3 DEF pp, qq

\* A row that was not there is followed, perhaps that of the mention.
LEMMA FollowIsAhead ==
  ASSUME NEW r, NEW m, NEW root, NEW agent, NEW last, ~Follows(root, agent),
         threads' = Follow(root, agent, last), UNCHANGED poll
  PROVE  /\ AheadOfThread(r, m)' => AheadOfThread(r, m)
         /\ AheadOfOrphan(r, m)' => AheadOfOrphan(r, m)
<1> DEFINE new == [root |-> root, agent |-> agent, last |-> last, from |-> last]
<1>1. threads' = threads \cup {new} /\ new.root = root /\ new.agent = agent
  BY DEF Follow
<1>2. AheadOfOrphan(r, m)' => AheadOfOrphan(r, m)
  BY DEF AheadOfOrphan
<1>3. Passed(r, m)' = Passed(r, m)
  BY DEF Passed
<1> HIDE DEF new
<1>4. CASE root = r /\ agent = m[2]
  BY <1>2, <1>4 DEF AheadOfThread
<1>5. CASE ~(root = r /\ agent = m[2])
  BY <1>1, <1>2, <1>3, <1>5 DEF AheadOfThread, Follows
<1> QED
  BY <1>4, <1>5

\* When a row is removed its job may still come across the mention, if the row would have.
LEMMA OrphanWasAhead ==
  ASSUME SlackTypeOK, JobsHaveRows, TodoIsAhead, NEW r \in Ts, NEW m \in Mention,
         NEW gone \in SUBSET threads, RemoveThreads(gone), AheadOfOrphan(r, m)'
  PROVE  AheadOfOrphan(r, m) \/ AheadOfThread(r, m)
<1>1. r # 0 /\ poll.job \in Job /\ poll.rest \subseteq Job
  BY RemovedHands DEF Ts
<1>2. ASSUME NEW job \in InHand, IsJobOf(job, r, m), job.live, job.last < m[1], ~Passed(r, m)
      PROVE  AheadOfThread(r, m)
  <2>1. PICK row \in threads : JobOf(row) = job
    BY <1>1, <1>2 DEF JobsHaveRows, IsJobOf
  <2>2. row.root = r /\ row.agent = m[2] /\ row.last < m[1]
    BY <1>2, <2>1 DEF JobOf, IsJobOf
  <2> QED
    BY <1>2, <2>2 DEF AheadOfThread
<1>3. CASE \E job \in poll'.rest : IsJobOf(job, r, m) /\ ~job.live /\ job.last < m[1]
  <2>1. PICK job \in poll.rest : /\ IsJobOf(Orphaned(job, gone), r, m)
                                 /\ Orphaned(job, gone).last < m[1]
    BY <1>3, RemovedHands
  <2>2. IsJobOf(job, r, m) /\ job.last < m[1]
    BY <1>1, <2>1, OrphanedJob DEF IsJobOf
  <2>3. CASE ~job.live
    BY <2>2, <2>3 DEF AheadOfOrphan
  <2>4. CASE job.live
    <3>1. ~Passed(r, m)
      BY <2>2 DEF Passed, IsJobOf, JobsHaveRows, Underway
    <3> QED
      BY <1>2, <2>2, <2>4, <3>1 DEF InHand
  <2> QED
    BY <2>3, <2>4
<1>4. CASE /\ IsJobOf(poll'.job, r, m) /\ ~poll'.job.live
           /\ \/ poll'.phase = "asked" /\ poll'.job.last < m[1]
              \/ poll'.phase = "dispatch" /\ m \in poll'.todo
  <2>1. /\ IsJobOf(poll.job, r, m)
        /\ \/ poll.phase = "asked" /\ poll.job.last < m[1]
           \/ poll.phase = "dispatch" /\ m \in poll.todo
    BY <1>1, <1>4, RemovedHands, OrphanedJob DEF IsJobOf
  <2>2. CASE ~poll.job.live
    BY <2>1, <2>2 DEF AheadOfOrphan
  <2>3. CASE poll.job.live
    <3>1. poll.job \in InHand /\ ~Passed(r, m)
      BY <2>1 DEF InHand, Underway, Passed
    <3>2. poll.job.last < m[1]
      BY <2>1 DEF TodoIsAhead
    <3> QED
      BY <1>2, <2>1, <2>3, <3>1, <3>2
  <2> QED
    BY <2>2, <2>3
<1> QED
  BY <1>3, <1>4 DEF AheadOfOrphan

\* The cursor of the row is written: what it had passed it does not come across again.
LEMMA PersistIsNotAhead ==
  ASSUME SlackTypeOK, JobsHaveRows, NEW r \in Ts, NEW m \in Mention, Persist
  PROVE  /\ AheadOfThread(r, m)' => AheadOfThread(r, m)
         /\ AheadOfOrphan(r, m)' => AheadOfOrphan(r, m)
<1>1. poll.high \in Int /\ poll.job.last \in Int /\ m[1] \in Int /\ r # 0
        /\ \A row \in threads : row.last \in Int
  BY SlackConstantsOK DEF SlackConstantsOK, SlackTypeOK, Poll, Job, Mention, Ts, Thread
<1>2. /\ poll'.phase \in {"polled", "threads"} /\ poll'.rest = poll.rest
      /\ poll.phase = "dispatch" /\ poll.todo = {} /\ Underway
  BY PersistHands, DoneHands
<1>3. AheadOfOrphan(r, m)' => AheadOfOrphan(r, m)
  BY <1>2 DEF AheadOfOrphan
<1>4. Follows(r, m[2]) => Follows(r, m[2])'
  BY PersistHands DEF Follows
<1>5. ASSUME NEW row \in threads', row.root = r, row.agent = m[2], row.last < m[1]
      PROVE  AheadOfThread(r, m)
  <2>1. CASE row \in threads
    <3>1. CASE ~Passed(r, m)
      BY <1>5, <2>1, <3>1 DEF AheadOfThread
    <3>2. CASE Passed(r, m)
      <4>1. PICK own \in threads : JobOf(own) = poll.job
        BY <1>1, <1>2, <3>2 DEF Passed, IsJobOf, JobsHaveRows, InHand
      <4>2. own.root = r /\ own.agent = m[2] /\ own.last = poll.job.last
        BY <3>2, <4>1 DEF Passed, IsJobOf, JobOf
      <4>3. own = row
        BY <1>5, <2>1, <4>2 DEF JobsHaveRows
      <4>4. poll.job.last < m[1] /\ m[1] <= poll.high
        BY <1>5, <3>2, <4>2, <4>3 DEF Passed
      <4>5. poll.high > poll.job.last /\ poll.job.live /\ poll.job.root # 0
        BY <1>1, <3>2, <4>4 DEF Passed, IsJobOf
      <4>6. row.last = poll.high
        BY <4>1, <4>3, <4>5, PersistHands
      <4> QED
        BY <1>1, <1>5, <2>1, <4>4, <4>6
    <3> QED
      BY <3>1, <3>2
  <2>2. CASE row \notin threads
    <3>1. PICK old \in threads : JobOf(old) = poll.job /\ row.root = old.root /\ row.agent = old.agent
      BY <2>2, PersistHands
    <3>2. row.last = poll.high /\ poll.high > poll.job.last
      BY <2>2, PersistHands
    <3>3. old.last = poll.job.last
      BY <3>1 DEF JobOf
    <3>4. old.last < m[1] /\ ~(m[1] <= poll.high)
      BY <1>1, <1>5, <3>2, <3>3
    <3>5. ~Passed(r, m)
      BY <3>4 DEF Passed
    <3> QED
      BY <1>5, <3>1, <3>4, <3>5 DEF AheadOfThread
  <2> QED
    BY <2>1, <2>2
<1>6. AheadOfThread(r, m)' => AheadOfThread(r, m)
  <2>1. CASE ~Follows(r, m[2])'
    BY <1>4, <2>1 DEF AheadOfThread
  <2>2. CASE \E row \in threads' : row.root = r /\ row.agent = m[2] /\ row.last < m[1]
    BY <1>5, <2>2
  <2> QED
    BY <2>1, <2>2 DEF AheadOfThread
<1> QED
  BY <1>3, <1>6

\* The mention is dispatched by the job of its row or by an orphan, and by no other.
LEMMA DispatchTakesOne ==
  ASSUME SlackTypeOK, JobsHaveRows, TodoIsAhead, NEW r \in Ts, NEW m \in Mention,
         m \in poll.todo, posts[m[1]].root = r,
         poll.phase = "dispatch", poll'.phase = "dispatch", poll'.job = poll.job,
         poll'.rest = poll.rest, poll'.high = poll.high, poll'.todo = poll.todo \ {m},
         UNCHANGED threads
  PROVE  \/ /\ AheadOfThread(r, m) /\ ~AheadOfThread(r, m)'
            /\ AheadOfOrphan(r, m)' => AheadOfOrphan(r, m)
         \/ /\ AheadOfOrphan(r, m) /\ ~AheadOfOrphan(r, m)'
            /\ AheadOfThread(r, m)' => AheadOfThread(r, m)
<1>1. /\ IsJobOf(poll.job, r, m) /\ poll.job.last < m[1] /\ m[1] <= poll.high
      /\ r # 0 /\ poll.job.root # 0
  BY DEF TodoIsAhead, IsJobOf, Ts
<1>2. ~Passed(r, m)
  BY DEF Passed
<1>3. CASE poll.job.live
  <2>1. PICK row \in threads : JobOf(row) = poll.job
    BY <1>1, <1>3 DEF JobsHaveRows, InHand, Underway
  <2>2. row.root = r /\ row.agent = m[2] /\ row.last < m[1]
    BY <1>1, <2>1 DEF JobOf, IsJobOf
  <2>3. AheadOfThread(r, m)
    BY <1>2, <2>2 DEF AheadOfThread
  <2>4. Passed(r, m)' /\ Follows(r, m[2])'
    BY <1>1, <1>3, <2>2 DEF Passed, Follows
  <2>5. AheadOfOrphan(r, m)' => AheadOfOrphan(r, m)
    BY DEF AheadOfOrphan
  <2> QED
    BY <2>3, <2>4, <2>5 DEF AheadOfThread
<1>4. CASE ~poll.job.live
  <2>1. AheadOfOrphan(r, m)
    BY <1>1, <1>4 DEF AheadOfOrphan
  <2>2. \A job \in poll.rest : ~IsJobOf(job, r, m)
    BY <1>1 DEF IsJobOf, JobsHaveRows, Underway
  <2>3. ~AheadOfOrphan(r, m)'
    BY <2>2 DEF AheadOfOrphan
  <2>4. AheadOfThread(r, m)' => AheadOfThread(r, m)
    BY <1>2 DEF AheadOfThread, Follows
  <2> QED
    BY <2>1, <2>3, <2>4
<1> QED
  BY <1>3, <1>4

LEMMA ThreadRepeatsKept ==
  ASSUME SlackTypeOK, PointsToPosts, FeedbackInv, CountsOK, JobsHaveRows, TodoIsAhead,
         ThreadRepeats, [SlackNext]_slackVars
  PROVE  ThreadRepeats'
<1>1. /\ CountsOK' /\ spent.cuts <= spent'.cuts /\ spent.removals <= spent'.removals
      /\ spent.cuts \in Nat /\ spent.removals \in Nat
      /\ spent'.cuts \in Nat /\ spent'.removals \in Nat
  BY SpentKept
<1> SUFFICES ASSUME NEW r \in Ts, NEW m \in Mention, IsThreadOf(r, m)'
             PROVE  sent'[m] + Bit(AheadOfThread(r, m)') + Bit(AheadOfOrphan(r, m)')
                      <= 1 + spent'.cuts + spent'.removals
  BY DEF ThreadRepeats, Bit
<1>2. IsThreadOf(r, m)
  <2>1. DOMAIN posts = 1..Len(posts) /\ Len(posts) \in Nat
    BY DEF SlackTypeOK
  <2> QED
    BY <2>1, PostsStay DEF IsThreadOf
<1>3. /\ sent[m] + Bit(AheadOfThread(r, m)) + Bit(AheadOfOrphan(r, m))
           <= 1 + spent.cuts + spent.removals
      /\ sent[m] \in Nat /\ r # 0
  BY <1>2 DEF ThreadRepeats, SlackTypeOK, Ts
<1> DEFINE Goal == sent'[m] + Bit(AheadOfThread(r, m)') + Bit(AheadOfOrphan(r, m)')
                      <= 1 + spent'.cuts + spent'.removals
<1> SUFFICES Goal
  OBVIOUS
<1>4. ASSUME sent'[m] = sent[m],
             \/ /\ AheadOfThread(r, m)' => AheadOfThread(r, m)
                /\ AheadOfOrphan(r, m)' => AheadOfOrphan(r, m)
             \/ /\ spent.cuts + spent.removals + 1 <= spent'.cuts + spent'.removals
                /\ AheadOfOrphan(r, m)' => AheadOfOrphan(r, m) \/ AheadOfThread(r, m)
      PROVE  Goal
  BY <1>1, <1>3, <1>4, ThreadStaysQuiet
<1> HIDE DEF Goal
<1>5. CASE UNCHANGED <<sent, threads, poll>>
  <2>1. /\ AheadOfThread(r, m)' => AheadOfThread(r, m)
        /\ AheadOfOrphan(r, m)' => AheadOfOrphan(r, m)
    BY <1>5 DEF AheadOfThread, AheadOfOrphan, Follows, Passed
  <2> QED
    BY <1>4, <1>5, <2>1
<1>6. CASE Write \/ UNCHANGED slackVars
  BY <1>5, <1>6 DEF Write, slackVars
<1>7. ASSUME NEW root, NEW agent, NEW last, ~Follows(root, agent),
             threads' = Follow(root, agent, last), UNCHANGED <<poll, sent>>
      PROVE  Goal
  BY <1>4, <1>7, FollowIsAhead
<1>8. CASE AgentStep
  <2>1. ASSUME NEW reply \in posted, RegisterReply(reply) PROVE Goal
    BY <1>5, <1>7, <2>1 DEF RegisterReply
  <2> QED
    BY <1>5, <1>8, <2>1 DEF AgentStep, PostReply, Unanswered
<1>9. CASE Request
  <2>1. ASSUME NEW gone \in SUBSET threads, RemoveThreads(gone) PROVE Goal
    <3>1. Removal(gone) /\ UNCHANGED sent
      BY <2>1 DEF RemoveThreads
    <3>2. spent.cuts + spent.removals + 1 <= spent'.cuts + spent'.removals
      BY <1>1, <3>1, RemovalCounts
    <3>3. AheadOfOrphan(r, m)' => AheadOfOrphan(r, m) \/ AheadOfThread(r, m)
      BY <2>1, OrphanWasAhead
    <3> QED
      BY <1>4, <3>1, <3>2, <3>3
  <2>2. CASE DeleteChannel
    <3>1. UNCHANGED sent
      BY <2>2 DEF DeleteChannel
    <3>2. poll'.job = poll.job \/ ~IsJobOf(poll'.job, r, m)
      BY <1>3, <2>2, DeletedHands DEF IsJobOf
    <3>3. /\ AheadOfThread(r, m)' => AheadOfThread(r, m)
          /\ AheadOfOrphan(r, m)' => AheadOfOrphan(r, m)
      <4>1. CASE poll'.job = poll.job
        BY <2>2, <4>1, DeletedHands DEF AheadOfThread, AheadOfOrphan, Follows, Passed
      <4>2. CASE poll'.job # poll.job
        <5>1. ~IsJobOf(poll'.job, r, m) /\ ~IsJobOf(poll.job, r, m)
          BY <1>3, <2>2, <4>2, DeletedHands DEF IsJobOf
        <5> QED
          BY <2>2, <5>1, DeletedHands DEF AheadOfThread, AheadOfOrphan, Follows, Passed
      <4> QED
        BY <4>1, <4>2
    <3> QED
      BY <1>4, <3>1, <3>3
  <2>3. ASSUME NEW root \in DOMAIN posts, NEW agent \in Agents, RegisterThread(root, agent)
        PROVE  Goal
    BY <1>7, <2>3 DEF RegisterThread
  <2> QED
    BY <1>5, <1>9, <2>1, <2>2, <2>3 DEF Request, ToggleChannel, AddChannel, ChangeRoster
\* Without a page to dispatch nothing has been passed that the row will not pass.
<1>10. ASSUME UNCHANGED <<sent, threads>>, poll.phase # "dispatch",
              AheadOfOrphan(r, m)' => AheadOfOrphan(r, m)
       PROVE  Goal
  <2>1. AheadOfThread(r, m)' => AheadOfThread(r, m)
    BY <1>10 DEF AheadOfThread, Follows, Passed
  <2> QED
    BY <1>4, <1>10, <2>1
<1>11. CASE PollChannel
  <2>1. /\ UNCHANGED <<sent, threads>> /\ poll.phase = "threads"
        /\ poll'.rest = {} /\ poll'.job.root = 0
    BY <1>11 DEF PollChannel, LoopSleeps, SlackTypeOK, Poll
  <2>2. ~AheadOfOrphan(r, m)'
    BY <1>3, <2>1 DEF AheadOfOrphan, IsJobOf
  <2> QED
    BY <1>10, <2>1, <2>2
<1>12. CASE PollActiveThreads
  <2>1. PICK stale \in SUBSET threads, due \in SUBSET Followed(threads) :
          /\ threads' = threads \ stale
          /\ poll' = [poll EXCEPT !.phase = "threads", !.rest = due]
          /\ (stale = {} /\ UNCHANGED spent) \/ Removal(stale)
    BY <1>12 DEF PollActiveThreads
  <2>2. poll'.phase = "threads" /\ poll'.rest = due /\ poll.phase # "dispatch" /\ UNCHANGED sent
    BY <1>12, <2>1 DEF SlackTypeOK, Poll, PollActiveThreads, LoopSleeps
  <2>3. \A job \in due : job.live
    BY DEF Followed, JobOf
  <2>4. ~AheadOfOrphan(r, m)'
    BY <2>2, <2>3 DEF AheadOfOrphan
  <2>5. CASE stale = {}
    <3>1. UNCHANGED threads
      BY <2>1, <2>5
    <3> QED
      BY <1>10, <2>2, <2>4, <3>1
  <2>6. CASE Removal(stale)
    <3>1. spent.cuts + spent.removals + 1 <= spent'.cuts + spent'.removals
      BY <1>1, <2>6, RemovalCounts
    <3> QED
      BY <1>4, <2>2, <2>4, <3>1
  <2> QED
    BY <2>1, <2>5, <2>6
<1>13. ASSUME NEW job \in poll.rest, PollThread(job) PROVE Goal
  <2>1. /\ UNCHANGED <<sent, threads>> /\ poll.phase = "threads" /\ poll'.phase = "asked"
        /\ poll'.rest = poll.rest \ {job} /\ poll'.job = job
    BY <1>13 DEF PollThread, SlackTypeOK, Poll
  <2>2. AheadOfOrphan(r, m)' => AheadOfOrphan(r, m)
    BY <1>13, <2>1 DEF AheadOfOrphan
  <2> QED
    BY <1>10, <2>1, <2>2
<1>14. CASE Arrives
  <2>1. poll.phase = "asked" /\ UNCHANGED <<sent, threads>>
    BY <1>14 DEF Arrives
  <2>2. AheadOfOrphan(r, m)' => AheadOfOrphan(r, m)
    <3>1. CASE poll' = Done
      BY <2>1, <3>1, DoneHands DEF AheadOfOrphan, Underway
    <3>2. CASE poll' # Done
      BY <1>14, <2>1, <3>2, ArrivesHands DEF AheadOfOrphan
    <3> QED
      BY <3>1, <3>2
  <2> QED
    BY <1>10, <2>1, <2>2
\* A poll that is over before its cursor is written.
<1>15. ASSUME Underway, poll' = Done \/ poll' = Asleep
       PROVE  AheadOfOrphan(r, m)' => AheadOfOrphan(r, m)
  <2>1. poll'.phase \in {"polled", "threads"} /\ poll'.rest \in {poll.rest, {}}
    BY <1>15, DoneHands DEF Asleep
  <2> QED
    BY <2>1 DEF AheadOfOrphan
<1>16. CASE ApiError \/ PollFails
  <2>1. /\ Underway /\ poll' = Done /\ UNCHANGED <<sent, threads>>
        /\ poll.phase = "asked" \/ Cut
    BY <1>16 DEF ApiError, PollFails, Underway
  <2>2. CASE poll.phase = "asked"
    BY <1>10, <1>15, <2>1, <2>2
  <2>3. CASE poll.phase = "dispatch" /\ Cut
    <3>1. spent.cuts + spent.removals + 1 <= spent'.cuts + spent'.removals
      BY <1>1, <2>3, CutCounts
    <3> QED
      BY <1>4, <1>15, <2>1, <3>1
  <2> QED
    BY <2>1, <2>2, <2>3 DEF Underway
<1>17. CASE SlackRestart
  <2>1. /\ poll'.phase = "threads" /\ poll'.rest = {} /\ UNCHANGED <<sent, threads>> /\ Cut
    BY <1>17 DEF SlackRestart, Asleep
  <2>2. ~AheadOfOrphan(r, m)'
    BY <2>1 DEF AheadOfOrphan
  <2>3. CASE poll.phase # "dispatch"
    BY <1>10, <2>1, <2>2, <2>3
  <2>4. CASE poll.phase = "dispatch"
    <3>1. spent.cuts + spent.removals + 1 <= spent'.cuts + spent'.removals
      BY <1>1, <2>1, <2>4, CutCounts
    <3> QED
      BY <1>4, <2>1, <2>2, <3>1
  <2> QED
    BY <2>3, <2>4
<1>18. CASE Dispatch
  <2>1. PICK n \in poll.todo :
           /\ poll.phase = "dispatch" /\ poll'.phase = "dispatch"
           /\ poll'.job = poll.job /\ poll'.rest = poll.rest /\ poll'.high = poll.high
           /\ poll'.todo = poll.todo \ {n} /\ n \in Mention
           /\ handled' = handled \cup {n} /\ UNCHANGED <<posts, threads, channel>>
           /\ \/ sent' = [sent EXCEPT ![n] = @ + 1] /\ UNCHANGED spent
              \/ UNCHANGED sent
    BY <1>18, DispatchHands
  <2>2. AheadOfOrphan(r, m)' => AheadOfOrphan(r, m)
    BY <2>1 DEF AheadOfOrphan
  <2>3. AheadOfThread(r, m)' => AheadOfThread(r, m)
    BY <2>1 DEF AheadOfThread, Follows, Passed
  <2>4. CASE sent'[m] = sent[m]
    BY <1>4, <2>2, <2>3, <2>4
  <2>5. CASE sent' = [sent EXCEPT ![n] = @ + 1] /\ UNCHANGED spent /\ n = m
    <3>1. sent'[m] = sent[m] + 1
      BY <2>5 DEF SlackTypeOK
    <3>2. posts[m[1]].root = r
      BY <1>2, <2>1, <2>5 DEF IsThreadOf, FeedbackInv, WrittenByUser
    <3>3. \/ /\ AheadOfThread(r, m) /\ ~AheadOfThread(r, m)'
             /\ AheadOfOrphan(r, m)' => AheadOfOrphan(r, m)
          \/ /\ AheadOfOrphan(r, m) /\ ~AheadOfOrphan(r, m)'
             /\ AheadOfThread(r, m)' => AheadOfThread(r, m)
      BY <2>1, <2>5, <3>2, DispatchTakesOne
    <3>4. Bit(AheadOfThread(r, m)') + Bit(AheadOfOrphan(r, m)') + 1
            <= Bit(AheadOfThread(r, m)) + Bit(AheadOfOrphan(r, m))
      <4> DEFINE p == AheadOfThread(r, m)
                 q == AheadOfOrphan(r, m)
                 pp == AheadOfThread(r, m)'
                 qq == AheadOfOrphan(r, m)'
      <4>1. (p /\ ~pp /\ (qq => q)) \/ (q /\ ~qq /\ (pp => p))
        BY <3>3
      <4> HIDE DEF p, q, pp, qq
      <4>2. Bit(pp) + Bit(qq) + 1 <= Bit(p) + Bit(q)
        BY <4>1 DEF Bit
      <4> QED
        BY <4>2 DEF p, q, pp, qq
    <3>5. /\ Bit(AheadOfThread(r, m)) \in Nat /\ Bit(AheadOfOrphan(r, m)) \in Nat
          /\ Bit(AheadOfThread(r, m)') \in Nat /\ Bit(AheadOfOrphan(r, m)') \in Nat
      BY DEF Bit
    <3> QED
      BY <1>1, <1>3, <2>5, <3>1, <3>4, <3>5 DEF Goal
  <2>6. sent'[m] = sent[m] \/ (sent' = [sent EXCEPT ![n] = @ + 1] /\ UNCHANGED spent /\ n = m)
    BY <2>1 DEF SlackTypeOK
  <2> QED
    BY <2>4, <2>5, <2>6
<1>19. CASE Persist
  <2>1. UNCHANGED sent
    BY <1>19 DEF Persist
  <2> QED
    BY <1>4, <1>19, <2>1, PersistIsNotAhead
<1> QED
  BY <1>6, <1>8, <1>9, <1>11, <1>12, <1>13, <1>14, <1>16, <1>17, <1>18, <1>19
     DEF SlackNext, PollerStep

------------------------------------------------------------------------------
(* The theorems.                                                           *)

LEMMA SlackStarts == SlackInit => SlackInv
<1> SUFFICES ASSUME SlackInit PROVE SlackInv
  OBVIOUS
<1> USE SlackConstantsOK DEF SlackConstantsOK, SlackInit, Asleep, NoJob
<1>1. poll \in Poll
  BY DEF Poll, Job
<1>2. channel \in Channel /\ channel.last = 0
  BY DEF Channel
<1>3. sent \in [Mention -> Nat]
  BY DEF Mention
<1>4. posts \in Seq(Post) /\ Len(posts) = 0 /\ DOMAIN posts = {}
  OBVIOUS
<1>5. SlackTypeOK
  BY <1>1, <1>2, <1>3, <1>4 DEF SlackTypeOK
<1>6. PointsToPosts
  BY <1>2, <1>4 DEF PointsToPosts
<1>7. FeedbackInv /\ JobIsBehind /\ TodoIsComplete
  BY <1>2 DEF FeedbackInv, JobIsBehind, TodoIsComplete
<1>8. CursorIsHonest
  BY <1>4 DEF CursorIsHonest, Asks
<1> QED
  BY <1>5, <1>6, <1>7, <1>8 DEF SlackInv

LEMMA SlackGoesOn == SlackInv /\ [SlackNext]_slackVars => SlackInv'
<1> SUFFICES ASSUME SlackInv, [SlackNext]_slackVars PROVE SlackInv'
  OBVIOUS
<1> USE DEF SlackInv
<1>2. SlackTypeOK' /\ PointsToPosts'
  <2>1. CASE UNCHANGED slackVars
    BY <2>1 DEF slackVars, SlackTypeOK, PointsToPosts
  <2> QED
    BY <2>1, PollerKeepsTypes, OthersKeepTypes, PollerKeepsPointers, OthersKeepPointers
       DEF SlackNext
<1>3. FeedbackInv' /\ JobIsBehind' /\ TodoIsComplete' /\ CursorIsHonest'
  BY FeedbackKept, BehindKept, TodoKept, CursorKept
<1> QED
  BY <1>2, <1>3

\* Every state the poller and its surroundings reach keeps the invariant.
THEOREM SlackInvariant == SlackSpec => []SlackInv
  BY SlackStarts, SlackGoesOn, PTL DEF SlackSpec

\* The variables keep their types, whatever fails and whatever is requested when.
THEOREM SlackTypeCorrect == SlackSpec => []SlackTypeOK
<1>1. SlackInv => SlackTypeOK
  BY DEF SlackInv
<1> QED
  BY <1>1, SlackInvariant, PTL

\* No cursor passes a mention that was not dispatched, refused or left out by the page:
\* _poll_channel and _poll_thread write it after the last dispatch, and whatever is
\* removed, added again or restarted meanwhile, it is not written in their place.
THEOREM CursorsAreHonest == SlackSpec => []CursorIsHonest
<1>1. SlackInv => CursorIsHonest
  BY DEF SlackInv
<1> QED
  BY <1>1, SlackInvariant, PTL

------------------------------------------------------------------------------
(* Answers to answers.                                                     *)

\* A message comes from a dispatched mention, and a post without the prefix from as many
\* answers as there are answers without the prefix.
ChainInv ==
  /\ \A message \in open : message[1] \in handled
  /\ \A t \in DOMAIN posts : posts[t].by = "user" => posts[t].depth <= Cardinality(Unmarked)

LEMMA UnmarkedIsFinite ==
  ASSUME SlackTypeOK
  PROVE  IsFiniteSet(Unmarked) /\ Cardinality(Unmarked) \in Nat
<1>1. IsFiniteSet(1..Len(posts))
  BY FS_Interval DEF SlackTypeOK
<1>2. Unmarked \subseteq 1..Len(posts)
  BY DEF Unmarked, SlackTypeOK
<1> QED
  BY <1>1, <1>2, FS_Subset, FS_CardinalityType

\* A post that is no answer, or a marked one, adds no link; an unmarked answer adds one.
LEMMA AddKeepsChain ==
  ASSUME SlackTypeOK, ChainInv, NEW post \in Post, Add(post),
         \/ post.by # "user" \/ post.depth = 0
         \/ post.depth <= Cardinality(Unmarked) + 1
  PROVE  \A t \in DOMAIN posts' : posts'[t].by = "user" => posts'[t].depth <= Cardinality(Unmarked')
<1> DEFINE n == Len(posts) + 1
           old == Unmarked
           new == Unmarked'
<1>1. /\ posts' \in Seq(Post) /\ Len(posts') = n /\ posts'[n] = post
      /\ \A t \in DOMAIN posts : t \in DOMAIN posts' /\ posts'[t] = posts[t]
      /\ DOMAIN posts' = DOMAIN posts \cup {n} /\ n \notin DOMAIN posts
  <2>1. DOMAIN posts = 1..Len(posts) /\ Len(posts) \in Nat
    BY DEF SlackTypeOK
  <2>2. /\ posts' \in Seq(Post) /\ Len(posts') = n /\ posts'[Len(posts')] = post
        /\ \A t \in DOMAIN posts : t \in DOMAIN posts' /\ posts'[t] = posts[t]
    BY PostsGrow
  <2>3. DOMAIN posts' = 1..n
    BY <2>2
  <2> QED
    BY <2>1, <2>2, <2>3
<1>2. new = IF post.by = "user" /\ post.depth > 0 THEN old \cup {n} ELSE old
  BY <1>1 DEF Unmarked
<1>3. n \notin old
  BY <1>1 DEF Unmarked
<1>4. IsFiniteSet(old) /\ Cardinality(old) \in Nat
  BY UnmarkedIsFinite
<1>5. Cardinality(new) = IF post.by = "user" /\ post.depth > 0 THEN Cardinality(old) + 1
                         ELSE Cardinality(old)
  <2> HIDE DEF n, old, new
  <2> QED
    BY <1>2, <1>3, <1>4, FS_AddElement
<1>6. post.depth \in Nat /\ \A t \in DOMAIN posts : posts[t].depth \in Nat
  <2>1. \A t \in DOMAIN posts : posts[t] \in Post
    BY DEF SlackTypeOK
  <2> QED
    BY <2>1 DEF Post
<1> SUFFICES ASSUME NEW t \in DOMAIN posts', posts'[t].by = "user"
             PROVE  posts'[t].depth <= Cardinality(new)
  OBVIOUS
<1>7. CASE t \in DOMAIN posts
  <2>1. posts[t].depth <= Cardinality(old)
    BY <1>1, <1>7 DEF ChainInv
  <2> QED
    BY <1>1, <1>4, <1>5, <1>6, <1>7, <2>1
<1>8. CASE t = n
  BY <1>1, <1>4, <1>5, <1>6, <1>8
<1> QED
  BY <1>1, <1>7, <1>8

LEMMA ChainKept ==
  ASSUME SlackTypeOK, PointsToPosts, FeedbackInv, ChainInv, [SlackNext]_slackVars
  PROVE  ChainInv'
<1> DEFINE Links == \A t \in DOMAIN posts :
                      posts[t].by = "user" => posts[t].depth <= Cardinality(Unmarked)
           Causes == \A message \in open : message[1] \in handled
<1>1. CASE UNCHANGED posts /\ open' \subseteq open /\ handled \subseteq handled'
  BY <1>1 DEF ChainInv, Unmarked
<1>2. CASE Write
  <2>1. PICK post \in Post : Add(post) /\ post.depth = 0
    <3>1. \A t \in DOMAIN posts : t \in 0..MaxPosts
      BY SlackConstantsOK DEF SlackConstantsOK, SlackTypeOK
    <3>2. 0 \in 0..MaxPosts
      BY SlackConstantsOK DEF SlackConstantsOK
    <3> QED
      BY <1>2, <3>1, <3>2 DEF Write, Post
  <2>2. Links'
    BY <2>1, AddKeepsChain
  <2> QED
    BY <1>2, <2>2 DEF Write, ChainInv
<1>3. ASSUME NEW message \in open, PostReply(message) PROVE ChainInv'
  <2>1. Causes'
    BY <1>3 DEF PostReply, ChainInv
  <2>2. CASE UNCHANGED posts
    BY <2>1, <2>2 DEF ChainInv, Unmarked
  <2>3. ASSUME NEW by \in {"agent", "user"}, NEW to \in SUBSET Agents,
               Add(Answer(message[1], by, to))
        PROVE  Links'
    <3> DEFINE m == message[1]
    <3>1. m \in Mention /\ m[1] <= Len(posts) /\ m \in handled
      BY DEF SlackTypeOK, PointsToPosts, ChainInv
    <3>2. posts[m[1]].depth <= Cardinality(Unmarked) /\ posts[m[1]] \in Post
      BY <3>1 DEF FeedbackInv, WrittenByUser, ChainInv, SlackTypeOK
    <3>3. Answer(m, by, to) \in Post /\ Answer(m, by, to).depth = posts[m[1]].depth + 1
      BY <3>1, AnswerIsPost DEF Answer
    <3>4. posts[m[1]].depth \in Nat /\ Cardinality(Unmarked) \in Nat
      BY <3>2, UnmarkedIsFinite DEF Post
    <3>5. Answer(m, by, to).depth <= Cardinality(Unmarked) + 1
      BY <3>2, <3>3, <3>4
    <3> QED
      BY <2>3, <3>3, <3>5, AddKeepsChain
  <2> QED
    BY <1>3, <2>1, <2>2, <2>3, ReplyPosts DEF ChainInv
<1>4. CASE Dispatch
  <2>1. UNCHANGED posts /\ Links'
    BY <1>4 DEF Dispatch, ChainInv, Unmarked
  <2>2. Causes'
    BY <1>4 DEF Dispatch, ChainInv
  <2> QED
    BY <2>1, <2>2 DEF ChainInv
<1>5. CASE PollerStep /\ ~Dispatch
  BY <1>1, <1>5 DEF PollerStep, PollChannel, PollActiveThreads, Arrives, Persist, PollThread
<1>6. CASE ApiError \/ PollFails \/ SlackRestart \/ UNCHANGED slackVars
  BY <1>1, <1>6 DEF ApiError, PollFails, SlackRestart, slackVars
<1>7. CASE AgentStep
  BY <1>1, <1>3, <1>7 DEF AgentStep, Unanswered, RegisterReply
<1>8. CASE Request
  BY <1>1, <1>8 DEF Request, RegisterThread, RemoveThreads, ToggleChannel, DeleteChannel,
                    AddChannel, ChangeRoster
<1> QED
  BY <1>2, <1>4, <1>5, <1>6, <1>7, <1>8 DEF SlackNext

\* Every answer on the way to a dispatched mention has lost the prefix of post_slack_reply:
\* a conversation of agents with each other ends unless looking up a name fails each time.
THEOREM FeedbackEnds == SlackSpec => []FeedbackNeedsFailures
<1>1. SlackInit => ChainInv
  BY DEF SlackInit, ChainInv
<1>2. SlackInv /\ ChainInv /\ [SlackNext]_slackVars => ChainInv'
  BY ChainKept DEF SlackInv
<1>3. SlackInv /\ ChainInv => FeedbackNeedsFailures
  BY DEF SlackInv, FeedbackInv, WrittenByUser, ChainInv, FeedbackNeedsFailures
<1> QED
  BY <1>1, <1>2, <1>3, SlackInvariant, PTL DEF SlackSpec

------------------------------------------------------------------------------

LEMMA RepeatsStart == SlackInit => RepeatInv
<1> SUFFICES ASSUME SlackInit PROVE RepeatInv
  OBVIOUS
<1>1. /\ posts = <<>> /\ DOMAIN posts = {} /\ threads = {} /\ poll = Asleep /\ poll.phase = "threads"
      /\ poll.job = NoJob /\ poll.rest = {} /\ NoJob.live = FALSE
      /\ spent = [events |-> 0, cuts |-> 0, removals |-> 0]
      /\ \A m \in Mention : sent[m] = 0
  BY DEF SlackInit, Asleep, NoJob
<1>2. ~Underway /\ InHand = {}
  BY <1>1 DEF Underway, InHand
<1>3. CountsOK
  BY <1>1, FS_EmptySet DEF CountsOK
<1>4. JobsHaveRows /\ ChannelIsThere
  BY <1>1, <1>2 DEF JobsHaveRows, ChannelIsThere
<1>5. TodoIsAhead /\ SentIsHandled /\ ChannelRepeats
  BY <1>1 DEF TodoIsAhead, SentIsHandled, ChannelRepeats
<1>6. ThreadRepeats
  <2> SUFFICES ASSUME NEW r \in Ts, NEW m \in Mention
               PROVE  sent[m] + Bit(AheadOfThread(r, m)) + Bit(AheadOfOrphan(r, m))
                        <= 1 + spent.cuts + spent.removals
    BY DEF ThreadRepeats
  <2>1. ~AheadOfOrphan(r, m)
    BY <1>1 DEF AheadOfOrphan
  <2>2. Bit(AheadOfThread(r, m)) <= 1 /\ Bit(AheadOfThread(r, m)) \in Nat
    BY DEF Bit
  <2> QED
    BY <1>1, <2>1, <2>2 DEF Bit
<1> QED
  BY <1>3, <1>4, <1>5, <1>6 DEF RepeatInv

LEMMA RepeatsGoOn == SlackInv /\ RepeatInv /\ [SlackNext]_slackVars => RepeatInv'
  BY SpentKept, JobsKept, ChannelKept, AheadKept, SentKept, ChannelRepeatsKept,
     ThreadRepeatsKept DEF SlackInv, RepeatInv

\* What a poll knows agrees with the rows, and what may still be dispatched is counted.
THEOREM RepeatsInvariant == SlackSpec => []RepeatInv
  BY RepeatsStart, RepeatsGoOn, SlackInvariant, PTL DEF SlackSpec

\* A mention is dispatched once, and once more only for a poll that was cut short or for a
\* thread whose row was removed: that _poll_channel and _poll_thread write the cursor after
\* the dispatches, and that an orphaned job goes on, costs no more than that.
THEOREM RepeatsStayAccounted == SlackSpec => []RepeatsAreAccounted
<1>1. SlackInv /\ RepeatInv => RepeatsAreAccounted
  <2> SUFFICES ASSUME SlackInv, RepeatInv, NEW m \in Mention
               PROVE  sent[m] <= 1 + spent.cuts + spent.removals
    BY DEF RepeatsAreAccounted
  <2>1. sent[m] \in Nat /\ spent.cuts \in Nat /\ spent.removals \in Nat
    BY DEF SlackInv, SlackTypeOK, RepeatInv, CountsOK
  <2>2. CASE m[1] \notin DOMAIN posts
    <3>1. ~(sent[m] > 0)
      BY <2>2 DEF SlackInv, FeedbackInv, WrittenByUser, RepeatInv, SentIsHandled
    <3> QED
      BY <2>1, <3>1
  <2>3. CASE m[1] \in DOMAIN posts /\ posts[m[1]].root = 0
    <3>1. sent[m] <= 1 + spent.cuts
      BY <2>3 DEF RepeatInv, ChannelRepeats
    <3> QED
      BY <2>1, <3>1
  <2>4. CASE m[1] \in DOMAIN posts /\ posts[m[1]].root # 0
    <3>1. posts[m[1]].root \in Ts
      <4>1. posts[m[1]] \in Post
        BY <2>4 DEF SlackInv, SlackTypeOK
      <4>2. posts[m[1]].root \in 0..MaxPosts
        BY <4>1 DEF Post
      <4> QED
        BY <2>4, <4>2, SlackConstantsOK DEF SlackConstantsOK, Ts
    <3> DEFINE r == posts[m[1]].root
    <3>2. sent[m] + Bit(AheadOfThread(r, m)) + Bit(AheadOfOrphan(r, m))
            <= 1 + spent.cuts + spent.removals
      BY <3>1 DEF RepeatInv, ThreadRepeats, IsThreadOf
    <3>3. Bit(AheadOfThread(r, m)) \in Nat /\ Bit(AheadOfOrphan(r, m)) \in Nat
      BY DEF Bit
    <3> QED
      BY <2>1, <3>2, <3>3
  <2> QED
    BY <2>2, <2>3, <2>4
<1> QED
  BY <1>1, SlackInvariant, RepeatsInvariant, PTL

=============================================================================
