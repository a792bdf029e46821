------------------------------ MODULE LLMClient ------------------------------
(***************************************************************************)
(* LLMClient.call of aae/core/llm_client.py over the ledger.  The method   *)
(* awaits the provider once: what it reads and checks before (the balance, *)
(* the route, the estimate, the budget) is one step, what it does with the *)
(* answer (price it, try to debit it) another, and everything else in the  *)
(* process may run in between.                                             *)
(***************************************************************************)
EXTENDS Cashflow, ModelRouter, Functions

CONSTANTS
    Callers,        \* tasks that await LLMClient.call, one call at a time each
    ClientSession,  \* the session of the CashflowService the client was given
    SessionShared,  \* whether other tasks use that session during a call
    Requests,       \* [agent, task, tokensIn, maxTokens] a call may have
    Answers,        \* [tokensIn, tokensOut] the provider may report
    Budgets,        \* what a caller may pass as budget: a BudgetState, with
                    \* whatever pot and spend it was filled with, or NoBudget
    NoBudget,       \* None for the BudgetState
    Unlimited,      \* None for monthly_budget_usd
    MaxBilled,      \* bound of the model: no call starts at or above it
    Idle            \* call[c] while c is in no call

ASSUME ClientAssumption ==
    /\ ClientSession \in Writers
    /\ SessionShared \in BOOLEAN
    /\ \A req \in Requests : req.tokensIn \in Nat /\ req.maxTokens \in Nat
    /\ \A answer \in Answers : answer.tokensIn \in Nat /\ answer.tokensOut \in Nat
    /\ Budgets \subseteq [pot : Int, monthly : Int \cup {Unlimited}, spentMtd : Int] \cup {NoBudget}

VARIABLES
    call,        \* the local variables of each suspended call
    systemState, \* what system_state_getter returns
    (* History: what the provider charged, by caller, and how much of it   *)
    (* the client tried to debit and could not.                            *)
    billed,
    refused

llmVars == <<call, systemState, billed, refused>>
allVars == <<ledgerVars, llmVars>>

TotalBilled == SumFunction(billed)

-------------------------------------------------------------------------------
HasMonthly(budget) == budget # NoBudget /\ budget.monthly # Unlimited

\* The balance a call goes by: the pot of the caller's BudgetState if there is
\* one, which nothing here refreshes, and the ledger's otherwise.
OperatingOf(budget) ==
    IF budget = NoBudget THEN View(ClientSession)["operating"] ELSE budget.pot

\* A faulty check that forgets the call's own cost.
WithinBudgetBeforeCall(operating, est, budget) ==
    /\ operating >= Floor
    /\ HasMonthly(budget) => budget.spentMtd + est <= budget.monthly

\* _assert_budget; BudgetExceeded is raised where it is false.
WithinBudget(operating, est, budget) ==
    /\ operating - est >= Floor
    /\ HasMonthly(budget) => budget.spentMtd + est <= budget.monthly

\* call() up to its await.
StartCall(c, req, budget) ==
    LET operating == OperatingOf(budget)
        model == Route(req.agent, req.task, operating)
        est == EstimateCost(model, req.tokensIn, req.maxTokens)
    IN  /\ call[c] = Idle
        /\ TotalBilled < MaxBilled
        /\ systemState # "hard_stop"
        /\ WithinBudget(operating, est, budget)
        /\ call' = [call EXCEPT ![c] = [model |-> model, operating |-> operating, est |-> est]]
        /\ UNCHANGED <<ledgerVars, systemState, billed, refused>>

\* call() after its await: the debit of the actual cost, with the
\* `except Exception: pass` around it.  The BudgetState is not touched.
FinishCall(c, answer) ==
    LET cost == EstimateCost(call[c].model, answer.tokensIn, answer.tokensOut)
        booked == Recordable(ClientSession, "operating", -cost, "other")
    IN  /\ call[c] # Idle
        /\ billed' = [billed EXCEPT ![c] = @ + cost]
        /\ IF booked THEN Debit(ClientSession, "operating", cost) ELSE UNCHANGED ledgerVars
        /\ refused' = IF booked THEN refused ELSE refused + cost
        /\ call' = [call EXCEPT ![c] = Idle]
        /\ UNCHANGED systemState

\* The provider raises, or the task is cancelled: nothing is booked.
FailCall(c) ==
    /\ call[c] # Idle
    /\ call' = [call EXCEPT ![c] = Idle]
    /\ UNCHANGED <<ledgerVars, systemState, billed, refused>>

\* Outside of src: the operator's hard stop, and his RESUME.
SetSystemState(state) ==
    /\ systemState # state
    /\ systemState' = state
    /\ UNCHANGED <<ledgerVars, call, billed, refused>>

\* What the rest of the system does to the Operating pot meanwhile; what it does
\* to the other pots is Cashflow's, and does not meet the client.
LedgerStep(s) ==
    /\ s = ClientSession /\ ~SessionShared => \A c \in Callers : call[c] = Idle
    /\ \/ \E a \in Amounts : Credit(s, "operating", a) \/ Debit(s, "operating", a)
       \/ Commit(s)
       \/ Rollback(s)
    /\ UNCHANGED llmVars

LLMInit ==
    /\ Init
    /\ call = [c \in Callers |-> Idle]
    /\ systemState = "normal"
    /\ billed = [c \in Callers |-> 0]
    /\ refused = 0

LLMNext ==
    \/ \E c \in Callers :
           \/ \E req \in Requests, budget \in Budgets : StartCall(c, req, budget)
           \/ \E answer \in Answers : FinishCall(c, answer)
           \/ FailCall(c)
    \/ \E state \in {"normal", "hard_stop"} : SetSystemState(state)
    \/ \E s \in Sessions : LedgerStep(s)

LLMSpec == LLMInit /\ [][LLMNext]_allVars

-------------------------------------------------------------------------------
LLMTypeOK ==
    /\ TypeOK
    /\ call \in [Callers -> [model : Models, operating : Int, est : Nat] \cup {Idle}]
    /\ systemState \in {"normal", "hard_stop"}
    /\ billed \in [Callers -> Nat]
    /\ refused \in Nat

\* The pre-call check is sound (llm_client.py:78): the ledger refuses the cost of
\* an answered call only if the pot is below the balance the call went by (it
\* shrank during the call, or the caller's BudgetState was stale), the call cost
\* more than was estimated, or the cost has more decimals than a row.
RefusalsExplained ==
    [][\A c \in Callers :
           LET cost == refused' - refused
           IN  cost > 0 /\ call[c] # Idle /\ call'[c] = Idle =>
                   \/ View(ClientSession)["operating"] < call[c].operating
                   \/ cost > call[c].est
                   \/ ~Representable(cost)]_allVars

\* A call that would breach the floor is refused beforehand (llm_client.py:15): what
\* is left of the pot after everything the provider charged is the floor or more.
PaidForAboveFloor ==
    refused > 0 => View(ClientSession)["operating"] - refused >= Floor
==============================================================================
