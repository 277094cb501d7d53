----------------------------- MODULE SlackPoller -----------------------------
(***************************************************************************)
(* The loop that reads Slack for mentions of the agents: one polled        *)
(* channel, the threads that are followed, their cursors, the dispatch of  *)
(* each mention as a message of its agent, the agent's answer posted back  *)
(* and the thread of that answer registered.  A step is what a coroutine   *)
(* does between two awaits of something outside the process.               *)
(*                                                                         *)
(* A post is known by its position in the workspace's history, which is    *)
(* its ts.  Whether an interval is over is a choice of the moment, and an  *)
(* answer reaches this module as a step of its own: module MessageDelivery *)
(* is about the way of a message to its agent.                             *)
(***************************************************************************)
EXTENDS Naturals, Sequences, FiniteSetsExt

CONSTANTS
  Agents,       \* the names that can be mentioned
  Nobody,       \* the owner of a job on the channel itself
  Window,       \* posts per page, 50 in the code
  MaxRetry,     \* failed polls of a channel before the one that disables it
  MaxPosts,     \* bound: posts in the workspace
  MaxEvents     \* bound: requests about channels, threads and agents; requests, dispatches
                \* and lookups of a name that fail; restarts

ASSUME SlackConstantsOK ==
  /\ Nobody \notin Agents
  /\ Window \in Nat \ {0} /\ MaxRetry \in Nat
  /\ MaxPosts \in Nat /\ MaxEvents \in Nat

VARIABLES
  posts,      \* the workspace, see Post
  roster,     \* the agents whose status is 'active'
  channel,    \* the row of slack_polling_channels, see Channel
  threads,    \* the rows of slack_active_threads, see Thread
  poll,       \* the locals of run_slack_poller, see Poll
  open,       \* messages queued for an agent and not answered yet
  posted,     \* answers posted whose thread is not registered yet
  sent,       \* history: how often a mention was dispatched
  handled,    \* history: mentions dispatched, or refused (with a reply that may fail too)
  excused,    \* history: mentions outside the page that was read, or of no agent
  spent       \* events, polls cut short while dispatching, rows of threads removed

slackVars == <<posts, roster, channel, threads, poll, open, posted, sent, handled,
               excused, spent>>

Ts       == 1..MaxPosts
Mention  == Ts \X Agents
\* root is 0 at top level, by what the poller takes the author for, to whom the text
\* mentions; depth, a history, is how many answers led to the post, 0 for a person's
Post     == [root : 0..MaxPosts, by : {"user", "agent", "noise"}, to : SUBSET Agents,
             depth : Nat]
\* last is last_ts; from, a history, is the cursor the row was created with
Channel  == [status : {"on", "off", "gone"}, last : 0..MaxPosts, from : 0..MaxPosts,
             fails : 0..MaxRetry]
Thread   == [root : Ts, agent : Agents, last : 0..MaxPosts, from : 0..MaxPosts]
\* What is being polled: root 0 is the channel.  live is false once its row was
\* deleted, which the poller does not notice.
Job      == [root : 0..MaxPosts, agent : Agents \cup {Nobody}, last : 0..MaxPosts,
             live : BOOLEAN]
NoJob    == [root |-> 0, agent |-> Nobody, last |-> 0, live |-> FALSE]
Poll     == [phase : {"asked", "dispatch", "polled", "threads"}, job : Job,
             high : 0..MaxPosts, todo : SUBSET Mention, rest : SUBSET Job]
Asleep   == [phase |-> "threads", job |-> NoJob, high |-> 0, todo |-> {}, rest |-> {}]

SlackInit ==
  /\ posts = <<>> /\ threads = {} /\ open = {} /\ posted = {}
  /\ roster \in SUBSET Agents
  /\ channel \in [status : {"on", "gone"}, last : {0}, from : {0}, fails : {0}]
  /\ poll = Asleep
  /\ sent = [m \in Mention |-> 0] /\ handled = {} /\ excused = {}
  /\ spent = [events |-> 0, cuts |-> 0, removals |-> 0]

Spend(cuts, removals) ==
  /\ spent.events < MaxEvents
  /\ spent' = [events |-> spent.events + 1, cuts |-> spent.cuts + cuts,
               removals |-> spent.removals + removals]
Event == Spend(0, 0)
Removal(rows) == rows # {} /\ Spend(0, Cardinality(rows))
Cut == Spend(IF poll.phase = "dispatch" THEN 1 ELSE 0, 0)

------------------------------------------------------------------------------
(* The workspace.                                                          *)

Add(post) == Len(posts) < MaxPosts /\ posts' = Append(posts, post)

\* Someone writes, at top level or below a post; or something without content for
\* an agent appears (a join, a bot, a post without text).
Write ==
  /\ \E root \in {0} \cup {t \in DOMAIN posts : posts[t].root = 0}, to \in SUBSET Agents :
       \/ Add([root |-> root, by |-> "user", to |-> to, depth |-> 0])
       \/ root = 0 /\ Add([root |-> 0, by |-> "noise", to |-> {}, depth |-> 0])
  /\ UNCHANGED <<roster, channel, threads, poll, open, posted, sent, handled, excused, spent>>

------------------------------------------------------------------------------
(* The poller.                                                             *)

JobOf(row) == [root |-> row.root, agent |-> row.agent, last |-> row.last, live |-> TRUE]

\* threads are followed only while the channel is polled
FollowedBeside(rows) == {JobOf(row) : row \in {w \in rows : w.agent \in roster /\ channel.status = "on"}}

\* The rows _poll_active_threads selects; those out of date have been deleted.
Followed(rows) == {JobOf(row) : row \in {w \in rows : w.agent \in roster}}

\* The threads of a tick are done with and the loop sleeps.
LoopSleeps == poll.phase = "threads" /\ poll.rest = {}

\* A tick begins: the channel is asked for, when it is enabled and due.
PollChannel ==
  /\ LoopSleeps /\ channel.status = "on"
  /\ poll' = [poll EXCEPT !.phase = "asked",
                          !.job = [root |-> 0, agent |-> Nobody, last |-> channel.last,
                                   live |-> TRUE]]
  /\ UNCHANGED <<posts, roster, channel, threads, open, posted, sent, handled, excused, spent>>

\* _poll_active_threads, after the channel or without it: delete the rows beyond their
\* time to live, select the rest, of which some are due.  A channel that is not enabled
\* is forgotten.
PollActiveThreads ==
  /\ LoopSleeps \/ poll.phase = "polled"
  /\ \E stale \in SUBSET threads, due \in SUBSET Followed(threads) :
       /\ due \subseteq Followed(threads \ stale)
       /\ threads' = threads \ stale
       /\ poll' = [poll EXCEPT !.phase = "threads", !.rest = due]
       /\ \/ stale = {} /\ UNCHANGED spent
          \/ Removal(stale)
  /\ channel' = IF poll.phase # "polled" /\ channel.status # "on"
                THEN [channel EXCEPT !.fails = 0] ELSE channel
  /\ UNCHANGED <<posts, roster, open, posted, sent, handled, excused>>

\* The replies of the next thread that is due are asked for.
PollThread(job) ==
  /\ poll.phase = "threads" /\ job \in poll.rest
  /\ poll' = [poll EXCEPT !.phase = "asked", !.job = job, !.rest = @ \ {job}]
  /\ UNCHANGED <<posts, roster, channel, threads, open, posted, sent, handled, excused, spent>>

\* What Slack has after the cursor, and the page it returns: the newest posts of a
\* channel, the oldest replies of a thread.
Fresh(job) == {t \in DOMAIN posts : posts[t].root = job.root /\ t > job.last}

Page(job) ==
  {t \in Fresh(job) : Cardinality({u \in Fresh(job) : IF job.root = 0 THEN u > t ELSE u < t}) < Window}

\* Posts that take the cursor along: any reply, but in a channel none that is skipped.
Counted(job) == {t \in Page(job) : job.root = 0 => posts[t].by = "user"}

\* the author is not looked at
AddressedByAny(job) == {m \in Fresh(job) \X Agents : m[2] \in posts[m[1]].to}

Addressed(job) ==
  {m \in Fresh(job) \X Agents : m[2] \in posts[m[1]].to /\ posts[m[1]].by = "user"}

\* the cursor moves to the first post of the page
OldestCounted(job) == Min(Counted(job) \cup {job.last})

NewestCounted(job) == Max(Counted(job) \cup {job.last})

\* _parse_agent_mentions, against all agents or against the one of the thread.
Mentions(job) ==
  {m \in Addressed(job) : m[1] \in Page(job)
                       /\ m[2] \in IF job.root = 0 THEN roster ELSE {job.agent}}

\* When a poll is over the tick goes on with the threads, or with the next of them.
Done == [poll EXCEPT !.phase = IF poll.job.root = 0 THEN "polled" ELSE "threads",
                     !.job = NoJob, !.todo = {}, !.high = 0]

\* A poll of the channel that returns takes its entry out of fail_count.
Forgiven == IF poll.job.root = 0 /\ poll.job.live THEN [channel EXCEPT !.fails = 0] ELSE channel

\* The page arrives.  Without posts, or for a channel without agents, nothing is done.
Arrives ==
  /\ poll.phase = "asked"
  /\ IF Page(poll.job) = {} \/ (poll.job.root = 0 /\ roster = {})
     THEN /\ poll' = Done
          /\ channel' = Forgiven
          /\ UNCHANGED excused
     ELSE /\ poll' = [poll EXCEPT !.phase = "dispatch", !.todo = Mentions(poll.job),
                                  !.high = NewestCounted(poll.job)]
          /\ excused' = IF poll.job.root = 0
                        THEN excused \cup (Addressed(poll.job) \ Mentions(poll.job))
                        ELSE excused
          /\ UNCHANGED channel
  /\ UNCHANGED <<posts, roster, threads, open, posted, sent, handled, spent>>

\* Slack answers with an error, or there are no credentials: both poll functions
\* return as if there were nothing new.
ApiError ==
  /\ poll.phase = "asked" /\ Event
  /\ poll' = Done
  /\ channel' = Forgiven
  /\ UNCHANGED <<posts, roster, threads, open, posted, sent, handled, excused>>

\* Anything else that is raised: a channel is tried again later, and disabled when its
\* backoff had already reached its maximum; a thread waits for the next tick.
PollFails ==
  /\ poll.phase \in {"asked", "dispatch"} /\ Cut
  /\ poll' = Done
  /\ channel' =
       IF poll.job.root # 0 \/ ~poll.job.live THEN channel
       ELSE IF channel.fails < MaxRetry THEN [channel EXCEPT !.fails = @ + 1]
       ELSE [channel EXCEPT !.fails = 0, !.status = "off"]
  /\ UNCHANGED <<posts, roster, threads, open, posted, sent, handled, excused>>

\* _dispatch_to_agent: the oldest mention of the page becomes a message of its agent,
\* known by the mention and by how often that was dispatched before.
Dispatch ==
  /\ poll.phase = "dispatch"
  /\ \E m \in poll.todo :
       /\ \A n \in poll.todo : m[1] <= n[1]
       /\ poll' = [poll EXCEPT !.todo = @ \ {m}]
       /\ handled' = handled \cup {m}
       /\ \/ /\ open' = open \cup {<<m, sent[m]>>}
             /\ sent' = [sent EXCEPT ![m] = @ + 1]
             /\ UNCHANGED spent
          \/ Event /\ UNCHANGED <<open, sent>>      \* refused
  /\ UNCHANGED <<posts, roster, channel, threads, posted, excused>>

\* the cursor is written first
DispatchedLater == poll.phase = "dispatch"

AllDispatched == poll.phase = "dispatch" /\ poll.todo = {}

\* The cursor is written, once the whole page is dispatched: by channel, so that it
\* also reaches a row that was deleted and added again, or by the row of the thread.
Persist ==
  /\ AllDispatched
  /\ LET moved == poll.high > poll.job.last IN
       /\ channel' =
            IF poll.job.root # 0 THEN channel
            ELSE [Forgiven EXCEPT !.last = IF moved /\ channel.status # "gone" THEN poll.high ELSE @]
       /\ threads' =
            IF moved /\ poll.job.root # 0 /\ poll.job.live
            THEN {IF JobOf(row) = poll.job THEN [row EXCEPT !.last = poll.high] ELSE row : row \in threads}
            ELSE threads
  /\ poll' = Done
  /\ UNCHANGED <<posts, roster, open, posted, sent, handled, excused, spent>>

------------------------------------------------------------------------------
(* The answer of an agent.                                                 *)

RootOf(m) == IF posts[m[1]].root = 0 THEN m[1] ELSE posts[m[1]].root

Answer(m, by, to) ==
  [root |-> RootOf(m), by |-> by, to |-> to, depth |-> posts[m[1]].depth + 1]

\* _process_event on a complete event: the answer is posted below the mention's root,
\* marked as an agent's, unless the name of the agent could not be looked up.  An agent
\* may well mention an agent.
PostReply(message) ==
  /\ message \in open /\ open' = open \ {message}
  /\ \/ /\ \E to \in SUBSET Agents :
             \/ Add(Answer(message[1], "agent", to)) /\ UNCHANGED spent
             \/ Add(Answer(message[1], "user", to)) /\ Event
        /\ posted' = posted \cup {<<RootOf(message[1]), message[1][2], Len(posts) + 1>>}
     \/ /\ Event /\ UNCHANGED posts
        /\ posted' = posted \cup {<<RootOf(message[1]), message[1][2], RootOf(message[1])>>}
  /\ UNCHANGED <<roster, channel, threads, poll, sent, handled, excused>>

\* A message that ends without a complete event is not answered on Slack.
Unanswered(message) ==
  /\ message \in open /\ open' = open \ {message}
  /\ Event
  /\ UNCHANGED <<posts, roster, channel, threads, poll, posted, sent, handled, excused>>

Follows(root, agent) == \E row \in threads : row.root = root /\ row.agent = agent

Follow(root, agent, last) ==
  threads \cup {[root |-> root, agent |-> agent, last |-> last, from |-> last]}

\* The answer's thread is registered, from the answer on, unless it already is.
RegisterReply(reply) ==
  /\ reply \in posted /\ posted' = posted \ {reply}
  /\ threads' = IF Follows(reply[1], reply[2]) THEN threads ELSE Follow(reply[1], reply[2], reply[3])
  /\ UNCHANGED <<posts, roster, channel, poll, open, sent, handled, excused, spent>>

------------------------------------------------------------------------------
(* Requests of the user and of the agents.                                 *)

\* register_slack_thread, or POST /slack/threads: from the root on.
RegisterThread(root, agent) ==
  /\ Event /\ posts[root].root = 0 /\ agent \in roster /\ ~Follows(root, agent)
  /\ threads' = Follow(root, agent, root)
  /\ UNCHANGED <<posts, roster, channel, poll, open, posted, sent, handled, excused>>

Orphaned(job, gone) == [job EXCEPT !.live = @ /\ ~(\E row \in gone : row.root = job.root /\ row.agent = job.agent)]

\* unregister_slack_thread, DELETE /slack/threads/{id} and /slack/threads/bulk.
RemoveThreads(gone) ==
  /\ threads' = threads \ gone
  /\ Removal(gone)
  /\ poll' = [poll EXCEPT !.job = Orphaned(@, gone), !.rest = {Orphaned(job, gone) : job \in @}]
  /\ UNCHANGED <<posts, roster, channel, open, posted, sent, handled, excused>>

\* PUT /slack/polling/channels/{id}
ToggleChannel ==
  /\ Event /\ channel.status # "gone"
  /\ channel' = [channel EXCEPT !.status = IF @ = "on" THEN "off" ELSE "on"]
  /\ UNCHANGED <<posts, roster, threads, poll, open, posted, sent, handled, excused>>

\* DELETE /slack/polling/channels/{id}
DeleteChannel ==
  /\ Event /\ channel.status # "gone"
  /\ channel' = [channel EXCEPT !.status = "gone", !.fails = 0]
  /\ poll' = [poll EXCEPT !.job.live = @ /\ poll.job.root # 0]
  /\ UNCHANGED <<posts, roster, threads, open, posted, sent, handled, excused>>

\* POST /slack/polling/channels: from now on.
AddChannel ==
  /\ Event /\ channel.status = "gone"
  /\ channel' = [status |-> "on", last |-> Len(posts), from |-> Len(posts), fails |-> 0]
  /\ UNCHANGED <<posts, roster, threads, poll, open, posted, sent, handled, excused>>

\* An agent is created or deleted.
ChangeRoster(agent) ==
  /\ Event
  /\ roster' = IF agent \in roster THEN roster \ {agent} ELSE roster \cup {agent}
  /\ UNCHANGED <<posts, channel, threads, poll, open, posted, sent, handled, excused>>

\* The orchestrator goes down and comes back: the loop begins anew, its counts of
\* failures are gone, a reply that was posted is not registered any more.
SlackRestart ==
  /\ Cut
  /\ poll' = Asleep /\ posted' = {}
  /\ channel' = [channel EXCEPT !.fails = 0]
  /\ UNCHANGED <<posts, roster, threads, open, sent, handled, excused>>

------------------------------------------------------------------------------

PollerStep ==
  \/ PollChannel \/ PollActiveThreads \/ Arrives \/ Dispatch \/ Persist
  \/ \E job \in poll.rest : PollThread(job)

AgentStep ==
  \/ \E message \in open : PostReply(message) \/ Unanswered(message)
  \/ \E reply \in posted : RegisterReply(reply)

Request ==
  \/ \E root \in DOMAIN posts, agent \in Agents : RegisterThread(root, agent)
  \/ \E gone \in SUBSET threads : RemoveThreads(gone)
  \/ ToggleChannel \/ DeleteChannel \/ AddChannel
  \/ \E agent \in Agents : ChangeRoster(agent)

SlackNext ==
  \/ Write \/ PollerStep \/ ApiError \/ PollFails
  \/ AgentStep \/ Request \/ SlackRestart

\* The loop goes on, the clock makes a channel and each thread due again and again
\* (an interval is at most six hours), and a request to Slack ends.
SlackFairness ==
  /\ WF_slackVars(PollerStep)
  /\ SF_slackVars(PollChannel)
  /\ \A t \in Ts, a \in Agents :
       SF_slackVars(PollActiveThreads /\ \E job \in poll'.rest : job.root = t /\ job.agent = a)

SlackSpec == SlackInit /\ [][SlackNext]_slackVars /\ SlackFairness

------------------------------------------------------------------------------

SlackTypeOK ==
  /\ posts \in Seq(Post) /\ Len(posts) <= MaxPosts /\ roster \subseteq Agents
  /\ channel \in Channel /\ threads \subseteq Thread /\ poll \in Poll
  /\ open \subseteq Mention \X Nat /\ posted \subseteq Ts \X Agents \X Ts
  /\ sent \in [Mention -> Nat] /\ handled \subseteq Mention /\ excused \subseteq Mention

Asks(t, a) == t \in DOMAIN posts /\ posts[t].by = "user" /\ a \in posts[t].to

\* A cursor passes no mention that was not dispatched, whatever is cut short, removed or
\* added again meanwhile: _poll_channel and _poll_thread write it last.  The exceptions
\* are the code's own: posts of a burst that the page left out, names of no agent, and
\* what was there before the row (excused, from).
CursorIsHonest ==
  /\ \A t \in Ts, a \in Agents :
       Asks(t, a) /\ posts[t].root = 0 /\ channel.from < t /\ t <= channel.last
         => <<t, a>> \in handled \cup excused
  /\ \A row \in threads, t \in Ts :
       Asks(t, row.agent) /\ posts[t].root = row.root /\ row.from < t /\ t <= row.last
         => <<t, row.agent>> \in handled

\* A mention is dispatched once, and once more only for a poll that was cut short
\* between a dispatch and the cursor, or for a thread that was followed anew.
RepeatsAreAccounted ==
  \A m \in Mention : sent[m] <= 1 + spent.cuts + spent.removals

\* Answers that went out without the prefix [bot: ...] of post_slack_reply.
Unmarked == {t \in DOMAIN posts : posts[t].by = "user" /\ posts[t].depth > 0}

\* Agents do not answer each other for ever: every answer on the way from a person's post
\* to a dispatched mention is one that lost its prefix, however often pages are read
\* again, threads registered by answers and mentions repeated in answers.
FeedbackNeedsFailures ==
  \A m \in handled : posts[m[1]].depth <= Cardinality(Unmarked)

\* Is the poller bound to come across a mention of the agent in this post?
Covered(t, a) ==
  /\ Asks(t, a) /\ a \in roster
  /\ \/ posts[t].root = 0 /\ channel.status = "on" /\ channel.from < t
     \/ \E row \in threads : row.agent = a /\ row.root = posts[t].root /\ row.from < t

\* A mention in an enabled channel or in a followed thread is dispatched in the end, or
\* refused by _dispatch_to_agent, unless channel, thread or agent goes away first.
MentionIsHandled ==
  \A t \in Ts, a \in Agents :
    Covered(t, a) ~> (<<t, a>> \in handled \cup excused \/ ~Covered(t, a))

=============================================================================
