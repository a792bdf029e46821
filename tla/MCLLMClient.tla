----------------------------- MODULE MCLLMClient -----------------------------
(***************************************************************************)
(* Instances of LLMClient, in micro-dollars, with calls of a token or two: *)
(* one token in and one out cost 30 on opus, 18 on sonnet, 6 on haiku.     *)
(***************************************************************************)
EXTENDS LLMClient, TLC

CONSTANTS m1, c1, c2

MotherOnly == {m1}

Request(agent, task, tokensIn, maxTokens) ==
    [agent |-> agent, task |-> task, tokensIn |-> tokensIn, maxTokens |-> maxTokens]

SmallRequests ==
    {Request("mother", "propose_vertical", 1, 1), Request("mother", "generic", 1, 1),
     Request("ethics_auditor", "generic", 1, 1), Request("mother", "bulk_classify", 2, 4)}
BuilderRequests == {Request("code_builder", "generic", 1, 1)}
OpusRequests == BuilderRequests \cup {Request("mother", "propose_vertical", 1, 1)}

\* Answers within the expected tokens, and one that uses a token more.
ExpectedAnswers == {[tokensIn |-> 1, tokensOut |-> 1], [tokensIn |-> 1, tokensOut |-> 0]}
LongAnswers == ExpectedAnswers \cup {[tokensIn |-> 2, tokensOut |-> 1]}

TwoCallers == {c1, c2}
NoBudgets == {NoBudget}
\* No BudgetState; one without a monthly budget, its pot read before anything was
\* spent; one whose pot is at the line and its month tight.
SomeBudgets ==
    {NoBudget, [pot |-> 120, monthly |-> Unlimited, spentMtd |-> 0],
     [pot |-> 80, monthly |-> 20, spentMtd |-> 1]}
CallerSymmetry == Permutations(Callers)
==============================================================================
