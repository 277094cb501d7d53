------------------------------- MODULE Prompt -------------------------------
(***************************************************************************)
(* The system prompt of a worker: sections in the order of their priority, *)
(* each with an allocation, filled into one budget.  Budgets are counted   *)
(* in tokens, texts are cut by characters, and nobody has budgeted the     *)
(* marker of a cut text or the blank line between two sections.  A text is *)
(* its length.                                                             *)
(***************************************************************************)
EXTENDS Integers, Sequences

CONSTANTS
  Allocation,      \* max_tokens of each section, in the order of their priority
  TotalMax,        \* total_max_tokens; the allocations of ContextConfig add up to it
  CharsPerToken,   \* 4 in the code
  Marker,          \* length of "\n\n[...truncated]", 16
  Separator,       \* length of "\n\n" between two sections, 2
  MaxLength        \* bound: length of a section

Section == DOMAIN Allocation

\* The allocations laid out one after the other, from the first token on.
LaidOut(start) ==
  start[1] = 0 /\ \A i \in Section : start[i + 1] = start[i] + Allocation[i]

ASSUME PromptConstantsOK ==
  /\ Allocation \in Seq(Nat) /\ TotalMax \in Nat /\ MaxLength \in Nat
  /\ Marker \in Nat \ {0} /\ CharsPerToken \in Nat \ {0} /\ Separator \in Nat
  \* they do not add up to more than the total
  /\ \E start \in [1..(Len(Allocation) + 1) -> 0..TotalMax] : LaidOut(start)

VARIABLES
  content,     \* per section, its text before it is assembled
  assembled,   \* what is kept of the sections so far: 0 for a section that is left out
  joined,      \* the prompt so far: how many texts, and the length of what joins them
  remaining,   \* the local variable; a marker may take it below 0
  above        \* history: per section, and for the next one, the tokens of the sections
               \* above it and how many of these are beyond their allocations

promptVars == <<content, assembled, joined, remaining, above>>

EstimateTokens(length) == length \div CharsPerToken

\* What truncate_text may make of a text that is too long: the cut is at a newline of the
\* second half or at the limit, and blank space before it goes too.
Truncated(limit) == {kept + Marker : kept \in 0..(limit * CharsPerToken)}

PromptInit ==
  /\ content \in [Section -> 0..MaxLength] /\ assembled = <<>>
  /\ joined = [texts |-> 0, length |-> 0]
  /\ remaining = TotalMax
  /\ above = <<[tokens |-> 0, beyond |-> 0]>>

\* nothing is taken off the budget
ChargedNothing(text) == 0

\* What is taken off the budget for a section.
Charged(text) == EstimateTokens(text)

EffectiveLimit(i) == IF remaining < Allocation[i] THEN remaining ELSE Allocation[i]

\* What may become of section i.
Outcomes(i) ==
  IF content[i] = 0 \/ EffectiveLimit(i) <= 0 THEN {0}
  ELSE IF EstimateTokens(content[i]) <= EffectiveLimit(i) THEN {content[i]}
  ELSE Truncated(EffectiveLimit(i))

Added(sum, i, text) ==
  [tokens |-> sum.tokens + EstimateTokens(text),
   beyond |-> sum.beyond + IF EstimateTokens(text) > Allocation[i]
                           THEN EstimateTokens(text) - Allocation[i] ELSE 0]

\* The join of the sections that are not empty.
Join(prompt, text) ==
  IF text = 0 THEN prompt
  ELSE [texts |-> prompt.texts + 1,
        length |-> prompt.length + text + IF prompt.texts = 0 THEN 0 ELSE Separator]

\* One turn of the loop of assemble_system_prompt, and what it adds to the join.
Fill ==
  /\ Len(assembled) < Len(Allocation)
  /\ LET i == Len(assembled) + 1
     IN \E text \in Outcomes(i) :
          /\ assembled' = Append(assembled, text)
          /\ joined' = Join(joined, text)
          /\ remaining' = remaining - Charged(text)
          /\ above' = Append(above, Added(above[i], i, text))
  /\ UNCHANGED content

PromptNext == Fill
PromptSpec == PromptInit /\ [][PromptNext]_promptVars

------------------------------------------------------------------------------

PromptTypeOK ==
  /\ content \in [Section -> 0..MaxLength]
  /\ assembled \in Seq(Nat) /\ Len(assembled) <= Len(Allocation)
  /\ joined \in [texts : Nat, length : Nat]
  /\ remaining \in Int
  /\ above \in Seq([tokens : Nat, beyond : Nat]) /\ Len(above) = Len(assembled) + 1

\* The tokens a marker can add.
Overshoot == Marker \div CharsPerToken

\* The longest prompt of n texts: the budget and a marker, what EstimateTokens rounds off
\* each text, and the blank lines between them.
Longest(n) ==
  (TotalMax + Overshoot) * CharsPerToken + n * (CharsPerToken - 1) + (n - 1) * Separator

\* assemble_system_prompt, "Fill sections in priority order within a total token budget":
\* the prompt is over the budget by no more than one marker, the blank lines and the
\* rounding, however many sections are cut; a section is passed whole if it fits its
\* allocation less what the markers of the sections above took beyond theirs, left out
\* only if these have used it up.
PromptIsFair ==
  /\ joined.texts > 0 => joined.length <= Longest(joined.texts)
  /\ \A i \in 1..Len(assembled) :
       above[i].beyond < Allocation[i] =>
         /\ content[i] # 0 => assembled[i] # 0
         /\ EstimateTokens(content[i]) + above[i].beyond <= Allocation[i]
              => assembled[i] = content[i]

=============================================================================
