----------------------------- MODULE GpuBudget -----------------------------
(***************************************************************************)
(* The ceiling on a guest's GPU time (gpu/budget.rs): the worker holds the *)
(* guest's next submission while a token bucket is in debt.  The bucket is *)
(* filled by wall time and drained by the engine time the kernel accounts  *)
(* to the guest (gpu/occupancy.rs), scaled by the card's clock             *)
(* (gpu/clock.rs).  The control socket changes the limit at any moment.    *)
(*                                                                         *)
(* Time is relative to the last sample of the accounting and counted in    *)
(* units; the bank is in hundredths of one, so that percentages are whole. *)
(***************************************************************************)
EXTENDS Integers

CONSTANTS
    Percents,       \* limits the control socket sets, of 1 .. 100
    Clocks,         \* the card's clock in percent of the reference clock
    Burst, MaxDebt,             \* BURST_NS, MAX_DEBT_NS
    SampleOk, SampleHeld,       \* SAMPLE_OK, SAMPLE_HELD
    MinSleep, MaxSleep,         \* MIN_SLEEP, MAX_SLEEP
    MaxWork,        \* bound: submitted work the engine has not run
    MaxIdle         \* bound: time between two samples

ASSUME BudgetAssumption ==
    /\ Percents \subseteq 1 .. 100 /\ Clocks \subseteq Nat
    /\ {Burst, MaxDebt, SampleOk, SampleHeld, MinSleep, MaxSleep, MaxWork, MaxIdle} \subseteq Nat
    /\ 0 < MinSleep /\ MinSleep <= MaxSleep

VARIABLES
    percent,        \* GpuBudget.percent
    bank,           \* Pace.bank_ns
    sampled,        \* Pace.engine_ns: "none", "some", or "other" (read from a client since gone)
    wall, ran,      \* time, and engine time of the guest, since Pace.at
    client,         \* the process has a DRM client
    work,           \* submitted and not yet run
    pacer,          \* the worker: "free", "load", "account", "stop?" or "sleep"
    rate,           \* the limit `pace` loaded
    nap,            \* sleep_for
    stopping,       \* the device is being reset
    late            \* time slept since the limit was lifted

budgetVars == <<percent, bank, sampled, wall, ran, client, work, pacer, rate, nap, stopping, late>>

Unlimited == 100

Clamp(x, low, high) == IF x < low THEN low ELSE IF x > high THEN high ELSE x

------------------------------------------------------------------------------
(* pace *)

\* A SUBMIT_3D is about to go to the renderer.
StartPace ==
    /\ pacer = "free" /\ work < MaxWork
    /\ pacer' = "load"
    /\ UNCHANGED <<percent, bank, sampled, wall, ran, client, work, rate, nap, stopping, late>>

\* Let through: the submission adds to what the engine has to run.
LetThrough == pacer' = "free" /\ work' = work + 1 /\ nap' = 0 /\ rate' = 0

LoadPercent ==
    /\ pacer = "load"
    /\ \/ percent >= Unlimited /\ LetThrough
       \/ percent < Unlimited /\ rate' = percent /\ pacer' = "account" /\ UNCHANGED <<work, nap>>
    /\ UNCHANGED <<percent, bank, sampled, wall, ran, client, stopping, late>>

Due == IF bank < 0 THEN SampleHeld ELSE SampleOk

\* How long the debt takes to repay at the fill rate.
SleepFor(b) == Clamp((-b) \div rate, MinSleep, MaxSleep)

\* A debt that is sampled but earns nothing while it lasts.
BankAfterUnfilled(used) ==
    Clamp(bank + (IF bank < 0 THEN 0 ELSE rate * wall) - used, -100 * MaxDebt, 100 * Burst)

BankAfter(used) == Clamp(bank + rate * wall - used, -100 * MaxDebt, 100 * Burst)

\* The counter of a new client is compared with the old one's, saturating.
ChargeableNow == IF sampled = "other" THEN 0 .. ran ELSE {ran}

Account ==
    /\ pacer = "account"
    /\ \E clock \in Clocks, used \in ChargeableNow :
          LET sample == sampled = "none" \/ wall >= Due
              after  == IF sample /\ sampled # "none" THEN BankAfter(used * clock) ELSE bank
          IN IF sample /\ ~client THEN LetThrough /\ UNCHANGED <<bank, sampled, wall, ran>>
             ELSE /\ bank' = after
                  /\ IF sample THEN sampled' = "some" /\ wall' = 0 /\ ran' = 0
                               ELSE UNCHANGED <<sampled, wall, ran>>
                  /\ IF after >= 0 THEN LetThrough
                     ELSE /\ nap' = SleepFor(after) /\ pacer' = "stop?"
                          /\ UNCHANGED <<work, rate>>
    /\ UNCHANGED <<percent, client, stopping, late>>

CheckStop ==
    /\ pacer = "stop?"
    /\ IF stopping THEN LetThrough ELSE pacer' = "sleep" /\ UNCHANGED <<work, nap, rate>>
    /\ UNCHANGED <<percent, bank, sampled, wall, ran, client, stopping, late>>

\* The engine runs some of what it has meanwhile.
Sleep ==
    /\ pacer = "sleep"
    /\ \E k \in 0 .. (IF work < nap THEN work ELSE nap) : ran' = ran + k /\ work' = work - k
    /\ wall' = wall + nap
    /\ late' = IF percent >= Unlimited THEN late + nap ELSE 0
    /\ pacer' = "load" /\ nap' = 0
    /\ UNCHANGED <<percent, bank, sampled, client, rate, stopping>>

------------------------------------------------------------------------------
(* Everybody else. *)

\* Time passes between submissions.
Pass ==
    /\ pacer = "free" /\ wall < MaxIdle
    /\ wall' = wall + 1
    /\ \E k \in 0 .. (IF work = 0 THEN 0 ELSE 1) : ran' = ran + k /\ work' = work - k
    /\ UNCHANGED <<percent, bank, sampled, client, pacer, rate, nap, stopping, late>>

\* control.rs: a value outside 1 .. 100 is refused before it gets here; `off`
\* and 100 are the same.
set(p) ==
    /\ percent' = Clamp(p, 1, Unlimited)
    /\ late' = 0
    /\ UNCHANGED <<bank, sampled, wall, ran, client, work, pacer, rate, nap, stopping>>

HandleControl == \E p \in Percents \cup {Unlimited} : p # percent /\ set(p)

\* The renderer opens the render node, or the client goes and its counters with it.
ClientChanges ==
    /\ client' = ~client
    /\ ran' = 0
    /\ sampled' = IF sampled = "some" THEN "other" ELSE sampled
    /\ UNCHANGED <<percent, bank, wall, work, pacer, rate, nap, stopping, late>>

ResetStops ==
    /\ ~stopping /\ stopping' = TRUE
    /\ UNCHANGED <<percent, bank, sampled, wall, ran, client, work, pacer, rate, nap, late>>

BudgetInit ==
    /\ percent \in Percents \cup {Unlimited} /\ bank = 100 * Burst /\ sampled = "none"
    /\ wall = 0 /\ ran = 0 /\ client = FALSE /\ work = 0
    /\ pacer = "free" /\ rate = 0 /\ nap = 0 /\ stopping = FALSE /\ late = 0

PaceStep == LoadPercent \/ Account \/ CheckStop \/ Sleep

BudgetNext == StartPace \/ PaceStep \/ Pass \/ HandleControl \/ ClientChanges \/ ResetStops

BudgetSpec == BudgetInit /\ [][BudgetNext]_budgetVars /\ WF_budgetVars(PaceStep)

------------------------------------------------------------------------------
(* Properties. *)

\* A held guest is let through, however deep its debt, as its clock changes and
\* its limit is moved about: its debt is repaid while it sleeps.
HeldIsReleased == pacer # "free" ~> pacer = "free"

\* Lifting the limit lets a held guest through after at most one more sleep
\* ("The longest single sleep, so a raised limit is noticed promptly").
LiftedPromptly == late <= MaxSleep

\* A guest is held no longer than its debt and its limit ask for.
HoldsEnd == HeldIsReleased /\ []LiftedPromptly
==============================================================================
