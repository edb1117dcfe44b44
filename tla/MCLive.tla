------------------------------- MODULE MCLive -------------------------------
(* What must eventually happen, for TLC: GpuFence, GpuBudget and Lifecycle,  *)
(* one of them in each behaviour while the others stay where they start.     *)
EXTENDS GpuFence, GpuBudget, Lifecycle

VARIABLE part

liveVars == <<part, vars, budgetVars, lifeVars>>

MCInit ==
    /\ part \in {"fence", "budget", "life"}
    /\ Init /\ LifeInit
    /\ BudgetInit /\ (part # "budget" => percent = Unlimited)

\* A step of one component.
Fence_(A) == part = "fence" /\ A /\ UNCHANGED <<part, budgetVars, lifeVars>>
Budget_(A) == part = "budget" /\ A /\ UNCHANGED <<part, vars, lifeVars>>
Life_(A) == part = "life" /\ A /\ UNCHANGED <<part, vars, budgetVars>>

MCNext == Fence_(Next) \/ Budget_(BudgetNext) \/ Life_(LifeNext)

\* The fairness of the three specifications.
MCSpec ==
    /\ MCInit /\ [][MCNext]_liveVars
    /\ WF_liveVars(Fence_(Work)) /\ WF_liveVars(Fence_(ResetRings \/ ResetJoins))
    /\ WF_liveVars(Fence_(DriverKick)) /\ WF_liveVars(Fence_(DriverReap))
    /\ \A r \in Rings : WF_liveVars(Fence_(Reach(r))) /\ WF_liveVars(Fence_(Callback(r)))
    /\ WF_liveVars(Budget_(PaceStep))
    /\ \A v \in VcpuThreads : WF_liveVars(Life_(VcpuStep(v)))
    /\ WF_liveVars(Life_(WatcherStep)) /\ WF_liveVars(Life_(MainStep))
=============================================================================
