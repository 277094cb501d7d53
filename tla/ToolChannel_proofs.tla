------------------------- MODULE ToolChannel_proofs -------------------------
(***************************************************************************)
(* Theorems about ToolChannel, for any set of calls, any classification of *)
(* their commands, any number of calls open at once and any number of      *)
(* disconnects, replaced polling loops, crashes and restarts.              *)
(***************************************************************************)
EXTENDS ToolChannel, TLAPS

\* The initial state is well typed and satisfies the invariant.
LEMMA ToolInit == Init => TypeOK /\ ToolInv
<1> SUFFICES ASSUME Init PROVE TypeOK /\ ToolInv
  OBVIOUS
<1> USE ToolConstantsOK DEF ToolConstantsOK, Init, Outcome
<1>1. TypeOK
  BY DEF TypeOK, CallType, HostType
<1>2. ToolInv
  BY DEF ToolInv, Unstarted, Untaken, Unexecuted, Decided, Refused, Accepted, Authorised, Told,
         Truthful
<1> QED
  BY <1>1, <1>2

\* A failure of an approval is counted.
LEMMA TroubleIsBounded ==
  troubles \in 0..MaxTroubles /\ (Trouble \/ UNCHANGED troubles) => troubles' \in 0..MaxTroubles
  BY ToolConstantsOK DEF ToolConstantsOK, Trouble

\* The worker starts, answers or gives up a call.
LEMMA WorkerKeepsTypes == TypeOK /\ WorkerStep => TypeOK'
<1> SUFFICES ASSUME TypeOK, NEW c \in Calls, Call(c) \/ Receive(c) \/ GiveUp(c)
             PROVE  TypeOK'
  BY DEF WorkerStep
<1> USE DEF TypeOK, CallType, HostType, Outcome, Open, files, host
<1>1. CASE Call(c)
  BY <1>1 DEF Call
<1>2. CASE Receive(c)
  BY <1>2 DEF Receive, Mine
<1>3. CASE GiveUp(c)
  BY <1>3 DEF GiveUp
<1> QED
  BY <1>1, <1>2, <1>3

\* A task keeps the types.
LEMMA HostKeepsTypes == TypeOK /\ ToolInv /\ HostStep => TypeOK'
<1> SUFFICES ASSUME TypeOK, ToolInv, HostStep PROVE TypeOK'
  OBVIOUS
<1> USE DEF TypeOK, CallType, HostType, Outcome, files, host, Finish
<1>1. CASE Take
  BY <1>1, ToolConstantsOK DEF Take, TakeThen, ToolConstantsOK
<1>2. CASE \E c \in Calls : TaskStep(c)
  <2> PICK c \in Calls : TaskStep(c)
    BY <1>2
  <2>1. CASE HandleNew(c)
    BY <2>1 DEF HandleNew
  <2>2. CASE PersistCard(c) \/ SendCard(c) \/ SettleCard(c) \/ TellPage(c)
    <3>1. troubles' \in 0..MaxTroubles
      BY <2>2, TroubleIsBounded
         DEF PersistCard, SendCard, SettleCard, TellPage, FrameEnds, FrameRaises
    <3>2. CallType'
      BY <2>2 DEF PersistCard, SendCard, SettleCard, TellPage
    <3>3. CASE PersistCard(c)
      BY <3>1, <3>2, <3>3 DEF PersistCard
    <3>4. CASE SendCard(c)
      BY <3>1, <3>2, <3>4 DEF SendCard, FrameEnds, FrameRaises
    <3>5. CASE SettleCard(c)
      BY <3>1, <3>2, <3>5 DEF SettleCard, StatusOf
    <3>6. CASE TellPage(c)
      BY <3>1, <3>2, <3>6 DEF TellPage, FrameEnds, FrameRaises
    <3> QED
      BY <2>2, <3>3, <3>4, <3>5, <3>6
  <2>3. CASE EndWait(c)
    BY <2>3 DEF EndWait, Verdict
  <2>4. CASE Execute(c)
    BY <2>4 DEF Execute
  <2>5. CASE Respond(c)
    <3>1. reply[c] \in Outcome
      BY <2>5 DEF Respond, ToolInv, Told
    <3> QED
      BY <2>5, <3>1 DEF Respond
  <2> QED
    BY <2>1, <2>2, <2>3, <2>4, <2>5 DEF TaskStep
<1> QED
  BY <1>1, <1>2 DEF HostStep

\* The user and the faults keep the types.
LEMMA OthersKeepTypes == TypeOK /\ (UserStep \/ Fault) => TypeOK'
<1> SUFFICES ASSUME TypeOK, UserStep \/ Fault PROVE TypeOK'
  OBVIOUS
<1> USE DEF Disconnect, LeaveWith, Connect, Click, Reattach, Crash, Respawn, Restart, Hang, files,
        host
<1>1. CallType'
  BY DEF TypeOK, CallType, Outcome, Open, UserStep, Fault
<1>2. HostType'
  <2> USE DEF TypeOK, HostType
  <2>1. CASE Disconnect
    BY <2>1
  <2>2. CASE Connect
    BY <2>2
  <2>3. CASE \E c \in Calls, v \in {"yes", "no"} : Click(c, v)
    BY <2>3
  <2>4. CASE Reattach \/ Crash \/ Respawn \/ \E c \in Calls : Hang(c)
    BY <2>4
  <2>5. CASE Restart
    BY <2>5
  <2> QED
    BY <2>1, <2>2, <2>3, <2>4, <2>5 DEF UserStep, Fault
<1>3. troubles' \in 0..MaxTroubles
  <2>1. troubles' = troubles \/ Trouble
    BY DEF UserStep, Fault
  <2> QED
    BY <2>1, ToolConstantsOK DEF ToolConstantsOK, TypeOK, Trouble
<1> QED
  BY <1>1, <1>2, <1>3 DEF TypeOK

\* The worker starts unstarted calls only, and believes its own response only.
LEMMA WorkerKeepsInv == TypeOK /\ ToolInv /\ WorkerStep => ToolInv'
<1> SUFFICES ASSUME TypeOK, ToolInv, NEW c \in Calls, Call(c) \/ Receive(c) \/ GiveUp(c),
                    NEW k \in Calls
             PROVE  (Unstarted(k) /\ Untaken(k) /\ Unexecuted(k) /\ Decided(k) /\ Refused(k)
                       /\ Accepted(k) /\ Told(k) /\ runs[k] <= 1)'
  BY DEF WorkerStep, ToolInv
<1> USE DEF TypeOK, CallType, HostType, Outcome, Open, files, host, ToolInv
<1>1. (Unstarted(k) /\ Untaken(k))'
  <2>1. Call(c) \/ (c \in Open /\ call'[c] # "idle" /\ request' = request)
    BY DEF Call, Receive, Mine, GiveUp
  <2>2. task' = task /\ \A d \in Calls : d # c => call'[d] = call[d]
    BY DEF Call, Receive, Mine, GiveUp
  <2> QED
    BY <2>1, <2>2 DEF Call, Unstarted, Untaken
<1>2. (Unexecuted(k) /\ Decided(k) /\ Refused(k) /\ Accepted(k) /\ runs[k] <= 1)'
  BY DEF Call, Receive, GiveUp, Unexecuted, Decided, Refused, Accepted, Authorised
<1>3. Told(k)'
  <2>1. CASE Call(c) \/ GiveUp(c)
    BY <2>1 DEF Call, GiveUp, Told, Truthful
  <2>2. CASE Receive(c)
    BY <2>2 DEF Receive, Mine, Told, Truthful
  <2> QED
    BY <2>1, <2>2
<1> QED
  BY <1>1, <1>2, <1>3

\* A task executes what was accepted, once, and reports what it did.
LEMMA HostKeepsInv == TypeOK /\ ToolInv /\ HostStep => ToolInv'
<1> SUFFICES ASSUME TypeOK, ToolInv, HostStep, NEW k \in Calls
             PROVE  (Unstarted(k) /\ Untaken(k) /\ Unexecuted(k) /\ Decided(k) /\ Refused(k)
                       /\ Accepted(k) /\ Told(k) /\ runs[k] <= 1)'
  BY DEF ToolInv
<1> USE ToolConstantsOK DEF ToolConstantsOK, TypeOK, CallType, HostType, Outcome, files, host,
        ToolInv, Finish
<1>1. CASE Take
  BY <1>1 DEF Take, TakeThen, Unstarted, Untaken, Unexecuted, Decided, Refused, Accepted,
              Authorised, Told, Truthful
<1>2. CASE \E c \in Calls : TaskStep(c)
  <2> PICK c \in Calls : TaskStep(c)
    BY <1>2
  <2>1. CASE HandleNew(c) \/ Execute(c) \/ Respond(c)
    <3> USE <2>1 DEF HandleNew, Execute, Respond
    <3>1. (Unstarted(k) /\ Untaken(k))'
      BY DEF Unstarted, Untaken
    <3>2. (Unexecuted(k) /\ Decided(k) /\ Refused(k) /\ runs[k] <= 1)'
      BY DEF Unexecuted, Decided, Refused
    <3>3. Accepted(k)'
      BY DEF Accepted, Authorised
    <3>4. Told(k)'
      BY DEF Unexecuted, Told, Truthful
    <3> QED
      BY <3>1, <3>2, <3>3, <3>4
  <2>2. CASE PersistCard(c) \/ SendCard(c) \/ EndWait(c)
    <3> USE <2>2 DEF PersistCard, SendCard, FrameRaises, EndWait, Verdict
    <3>1. (Unstarted(k) /\ Untaken(k))'
      BY DEF Unstarted, Untaken
    <3>2. (Unexecuted(k) /\ Decided(k) /\ Refused(k) /\ runs[k] <= 1)'
      BY DEF Unexecuted, Decided, Refused
    <3>3. Accepted(k)'
      BY DEF Accepted, Authorised
    <3>4. Told(k)'
      BY DEF Unexecuted, Told, Truthful
    <3> QED
      BY <3>1, <3>2, <3>3, <3>4
  <2>3. CASE SettleCard(c) \/ TellPage(c)
    <3> USE <2>3 DEF SettleCard, StatusOf, TellPage, FrameRaises
    <3>1. (Unstarted(k) /\ Untaken(k))'
      BY DEF Unstarted, Untaken
    <3>2. (Unexecuted(k) /\ Decided(k) /\ runs[k] <= 1)'
      BY DEF Unexecuted, Decided
    <3>3. Refused(k)'
      BY DEF Unexecuted, Refused, Decided
    <3>4. Accepted(k)'
      BY DEF Accepted, Authorised
    <3>5. Told(k)'
      BY DEF Unexecuted, Told, Truthful
    <3> QED
      BY <3>1, <3>2, <3>3, <3>4, <3>5
  <2> QED
    BY <2>1, <2>2, <2>3 DEF TaskStep
<1> QED
  BY <1>1, <1>2 DEF HostStep

\* Only a click says yes.
LEMMA OthersKeepInv == TypeOK /\ ToolInv /\ (UserStep \/ Fault) => ToolInv'
<1> SUFFICES ASSUME TypeOK, ToolInv, UserStep \/ Fault, NEW k \in Calls
             PROVE  (Unstarted(k) /\ Untaken(k) /\ Unexecuted(k) /\ Decided(k) /\ Refused(k)
                       /\ Accepted(k) /\ Told(k) /\ runs[k] <= 1)'
  BY DEF ToolInv
<1> USE ToolConstantsOK DEF ToolConstantsOK, TypeOK, CallType, HostType, Outcome, Open, files,
        host, ToolInv
<1>1. CASE UserStep
  <2> USE <1>1 DEF UserStep, Disconnect, LeaveWith, Connect, Click
  <2>1. (Unstarted(k) /\ Untaken(k) /\ Unexecuted(k) /\ runs[k] <= 1)'
    BY DEF Unstarted, Untaken, Unexecuted
  <2>2. (Decided(k) /\ Refused(k) /\ Accepted(k))'
    BY DEF Decided, Refused, Accepted, Authorised
  <2>3. Told(k)'
    BY DEF Told, Truthful
  <2> QED
    BY <2>1, <2>2, <2>3
<1>2. CASE Reattach \/ Crash \/ Respawn \/ \E c \in Calls : Hang(c)
  <2> USE <1>2 DEF Reattach, Crash, Respawn, Hang
  <2>1. (Unstarted(k) /\ Untaken(k) /\ Unexecuted(k) /\ runs[k] <= 1)'
    BY DEF Unstarted, Untaken, Unexecuted
  <2>2. (Decided(k) /\ Refused(k) /\ Accepted(k))'
    BY DEF Decided, Refused, Accepted, Authorised
  <2>3. Told(k)'
    BY DEF Told, Truthful
  <2> QED
    BY <2>1, <2>2, <2>3
<1>3. CASE Restart
  <2> USE <1>3 DEF Restart
  <2>1. (Unstarted(k) /\ Untaken(k))'
    BY DEF Unstarted, Untaken
  <2>2. (Unexecuted(k) /\ Decided(k) /\ Refused(k) /\ Accepted(k) /\ runs[k] <= 1)'
    BY DEF Unexecuted, Decided, Refused, Accepted, Authorised
  <2>3. Told(k)'
    BY DEF Told, Truthful
  <2> QED
    BY <2>1, <2>2, <2>3
<1> QED
  BY <1>1, <1>2, <1>3 DEF Fault

\* A step that changes nothing.
LEMMA StutterInv == TypeOK /\ ToolInv /\ UNCHANGED vars => TypeOK' /\ ToolInv'
<1> SUFFICES ASSUME TypeOK, ToolInv, UNCHANGED vars PROVE TypeOK' /\ ToolInv'
  OBVIOUS
<1> USE DEF vars, files, host
<1>1. TypeOK'
  BY DEF TypeOK, CallType, HostType
<1>2. ToolInv'
  BY DEF ToolInv, Unstarted, Untaken, Unexecuted, Decided, Refused, Accepted, Authorised, Told,
         Truthful
<1> QED
  BY <1>1, <1>2

\* The inductive invariant holds in every behaviour.
THEOREM ToolInvariant == Spec => [](TypeOK /\ ToolInv)
<1>1. TypeOK /\ ToolInv /\ [Next]_vars => TypeOK' /\ ToolInv'
  BY WorkerKeepsTypes, HostKeepsTypes, OthersKeepTypes, WorkerKeepsInv, HostKeepsInv,
     OthersKeepInv, StutterInv DEF Next
<1> QED
  BY ToolInit, <1>1, PTL DEF Spec

\* A command that needs approval is executed only after the user accepted it.
THEOREM ApprovalIsRequired == Spec => []ExecutedIsAccepted
<1>1. ToolInv => ExecutedIsAccepted
  BY DEF ToolInv, Accepted, Authorised, ExecutedIsAccepted
<1> QED
  BY <1>1, ToolInvariant, PTL

\* A request is executed at most once.
THEOREM RequestsRunOnce == Spec => []ExecutedOnce
<1>1. ToolInv => ExecutedOnce
  BY DEF ToolInv, ExecutedOnce
<1> QED
  BY <1>1, ToolInvariant, PTL

\* What the agent is told of a call is what happened to it.
THEOREM AnswersAreTrue == Spec => []AnswerIsTrue
<1>1. ToolInv => AnswerIsTrue
  BY DEF ToolInv, Told, Truthful, Outcome, AnswerIsTrue
<1> QED
  BY <1>1, ToolInvariant, PTL

\* What the user is shown of a command is what happened to it.
THEOREM CardsAreTrue == Spec => []CardIsTrue
<1>1. ToolInv => CardIsTrue
  BY DEF ToolInv, Refused, Accepted, Authorised, CardIsTrue
<1> QED
  BY <1>1, ToolInvariant, PTL

=============================================================================
