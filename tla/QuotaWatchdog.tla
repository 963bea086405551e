------------------------------ MODULE QuotaWatchdog ------------------------------
(***************************************************************************)
(* The balance loop of scheduler.Tick with refreshBalance and maybeApply   *)
(* (internal/scheduler/scheduler.go), next to the chat requests that       *)
(* charge the same accounts and the panel that refreshes their balances    *)
(* and applies for credit (adminCredits, adminApply in                     *)
(* internal/server/admin.go).  The other two sweeps of Tick are in         *)
(* TokenRenewal.tla.                                                       *)
(*                                                                         *)
(* A balance is 0, low (below ApplyThreshold) or ample.  CreditBalance is  *)
(* a call to the upstream, which reads the balance at one moment; the pool *)
(* is told at a later one.  It answers, is rejected with 401, or fails; an *)
(* error page that is no envelope is not an error for the JSON client and  *)
(* reads as balance 0 (internal/upstream/client.go:140-146).               *)
(***************************************************************************)
EXTENDS AccountOps, FiniteSets

CONSTANTS
    ApplyMethod,        \* "register" or "campaign" can grant credits, "none" cannot
    ApplyEvery          \* ApplyCooldown, in units of time

Threshold == 2          \* ApplyThreshold; balances are 0, 1 and 2

ASSUME LevelsAssumption == MaxBalance = Threshold
ASSUME MethodAssumption == ApplyMethod \in {"register", "campaign", "none"}
ASSUME EveryAssumption == ApplyEvery \in Nat

VARIABLES
    pool,       \* p.accounts
    kind,       \* coolKind of an account that cools: "plan" or "fault"
    credit,     \* what the upstream holds for each account
    wait,       \* time until maybeApply may act again for each account
    pc,         \* where the loop is with the account it visits
    at,         \* that account
    got,        \* the balance it was told of that account and has yet to store
    todo,       \* accounts the loop has still to visit
    panel       \* the account the panel works on and what it was told of it

loopVars == <<pc, at, got, todo>>
vars == <<pool, kind, credit, wait, loopVars, panel>>

\* A call of the panel; got is Absent until CreditBalance answers.
PanelCall == [of: Account, got: 0..MaxBalance \cup {Absent}]

TypeOK ==
    /\ pool \in [Account -> AccountState]
    /\ kind \in [Account -> {"none", "fault", "plan"}]
    /\ credit \in [Account -> 0..MaxBalance]
    /\ wait \in [Account -> 0..ApplyEvery]
    /\ pc \in {"idle", "next", "ask", "told", "applyLow", "applyEmpty", "recheck", "retold",
              "thaw", "cool"}
    /\ at \in Account \cup {Absent}
    /\ got \in 0..MaxBalance \cup {Absent}
    /\ todo \in SUBSET Account
    /\ panel \in PanelCall \cup {Absent}

Init ==
    /\ credit \in [Account -> 0..MaxBalance]
    /\ pool = [a \in Account |-> WithBalance(NewAccount, credit[a])]
    /\ kind = [a \in Account |-> "none"]
    /\ wait = [a \in Account |-> 0]
    /\ pc = "idle" /\ at = Absent /\ got = Absent /\ todo = {}
    /\ panel = Absent

----------------------------------------------------------------------------
Goto(from, to) == pc = from /\ pc' = to

\* The ticker fires; disabled accounts are visited too.
Tick ==
    /\ Goto("idle", "next")
    /\ todo' = Account
    /\ UNCHANGED <<pool, kind, credit, wait, at, got, panel>>

\* Variant: a disabled account is passed over.
VisitEnabled(a) ==
    /\ Goto("next", IF pool[a].disabled THEN "next" ELSE "ask")
    /\ a \in todo
    /\ at' = a /\ todo' = todo \ {a}
    /\ UNCHANGED <<pool, kind, credit, wait, got, panel>>

Visit(a) ==
    /\ Goto("next", "ask")
    /\ a \in todo
    /\ at' = a /\ todo' = todo \ {a}
    /\ UNCHANGED <<pool, kind, credit, wait, got, panel>>

TickEnds ==
    /\ Goto("next", "idle")
    /\ todo = {}
    /\ at' = Absent
    /\ UNCHANGED <<pool, kind, credit, wait, got, todo, panel>>

\* What CreditBalance and ParseCredits can make of an answer about a.
Readings(a) == {credit[a], 0}

\* The upstream answers the first or the second call of refreshBalance.
Answer(n) ==
    /\ Goto("ask", "told") \/ Goto("recheck", "retold")
    /\ n \in Readings(at)
    /\ got' = n
    /\ UNCHANGED <<pool, kind, credit, wait, at, todo, panel>>

\* refreshBalance stores the answer; the credit may have changed since.
Store ==
    /\ pool' = [pool EXCEPT ![at] = WithBalance(@, got)]
    /\ got' = Absent
    /\ UNCHANGED <<kind, credit, wait, at, todo, panel>>

\* Any balance below the threshold goes through maybeApply first.
Ask ==
    /\ Goto("told", IF got = 0 THEN "applyEmpty"
                    ELSE IF got < Threshold THEN "applyLow" ELSE "thaw")
    /\ Store

AskRejected ==
    /\ Goto("ask", "next")
    /\ pool' = [pool EXCEPT ![at] = Banned(@)]
    /\ UNCHANGED <<kind, credit, wait, at, got, todo, panel>>

AskFails ==
    /\ Goto("ask", "next")
    /\ UNCHANGED <<pool, kind, credit, wait, at, got, todo, panel>>

\* What the apply client may leave account a with; g stands for any top-up.
Granted(a, g) ==
    IF ApplyMethod = "none" \/ g < credit[a] THEN credit ELSE [credit EXCEPT ![a] = g]

\* Variant: every visit notes a call, and the waiting times add up.
ApplyPostponed(g) ==
    /\ Goto("applyEmpty", "recheck") \/ Goto("applyLow", "thaw")
    /\ wait' = [wait EXCEPT ![at] = @ + ApplyEvery]
    /\ credit' = IF wait[at] > 0 THEN credit ELSE Granted(at, g)
    /\ UNCHANGED <<pool, kind, at, got, todo, panel>>

\* maybeApply: the time of the last call is noted before the call is made,
\* so a call that fails counts too.  A low balance needs no second look.
MaybeApply(g) ==
    /\ Goto("applyEmpty", "recheck") \/ Goto("applyLow", "thaw")
    /\ IF wait[at] > 0
       THEN UNCHANGED <<credit, wait>>
       ELSE /\ wait' = [wait EXCEPT ![at] = ApplyEvery]
            /\ credit' = Granted(at, g)
    /\ UNCHANGED <<pool, kind, at, got, todo, panel>>

Recheck ==
    /\ Goto("retold", IF got > 0 THEN "thaw" ELSE "cool")
    /\ Store

\* Variant: an error of the second call counts as "has credit".
RecheckFailsThaws ==
    /\ Goto("recheck", "thaw")
    /\ UNCHANGED <<pool, kind, credit, wait, at, got, todo, panel>>

\* Any error of the second call counts as "still empty".
RecheckFails ==
    /\ Goto("recheck", "cool")
    /\ UNCHANGED <<pool, kind, credit, wait, at, got, todo, panel>>

\* Variant: an account that cools for its plan is left to cool.
UnfreezeFaults ==
    /\ Goto("thaw", "next")
    /\ pool' = [pool EXCEPT ![at] = IF kind[at] = "plan" THEN @ ELSE Unfrozen(@)]
    /\ kind' = [kind EXCEPT ![at] = IF @ = "plan" THEN @ ELSE "none"]
    /\ UNCHANGED <<credit, wait, at, got, todo, panel>>

\* Unfreeze does not ask what the account was cooling for.
Unfreeze ==
    /\ Goto("thaw", "next")
    /\ pool' = [pool EXCEPT ![at] = Unfrozen(@)]
    /\ kind' = [kind EXCEPT ![at] = "none"]
    /\ UNCHANGED <<credit, wait, at, got, todo, panel>>

CoolPlan ==
    /\ Goto("cool", "next")
    /\ pool' = [pool EXCEPT ![at] = Cooled(@)]
    /\ kind' = [kind EXCEPT ![at] = "plan"]
    /\ UNCHANGED <<credit, wait, at, got, todo, panel>>

LoopStep ==
    \/ Tick \/ TickEnds \/ \E a \in Account : Visit(a)
    \/ \E n \in 0..MaxBalance : Answer(n) \/ MaybeApply(n)
    \/ Ask \/ AskRejected \/ AskFails \/ Recheck \/ RecheckFails
    \/ Unfreeze \/ CoolPlan

----------------------------------------------------------------------------
(* Around the loop. *)

\* A request that was given the account may end after it was cooled or
\* disabled.
ChatSucceeds(a) ==
    /\ credit[a] > 0
    /\ credit' = [credit EXCEPT ![a] = @ - 1]
    /\ pool' = [pool EXCEPT ![a] = Succeeded(@)]
    /\ UNCHANGED <<kind, wait, loopVars, panel>>

\* 401 disables, 429 or 5xx cools, other errors count (handleUpstreamError).
ChatFails(a) ==
    /\ \/ /\ pool' = [pool EXCEPT ![a] = Banned(@)]
          /\ UNCHANGED kind
       \/ /\ pool' = [pool EXCEPT ![a] = Cooled(@)]
          /\ kind' = [kind EXCEPT ![a] = "fault"]
       \/ /\ pool' = [pool EXCEPT ![a] = Erred(@)]
          /\ kind' = [kind EXCEPT ![a] = IF pool'[a].errs < ErrThreshold THEN @ ELSE "fault"]
    /\ UNCHANGED <<credit, wait, loopVars, panel>>

CoolingEnds(a) ==
    /\ pool[a].cooling
    /\ pool' = [pool EXCEPT ![a].cooling = FALSE]
    /\ kind' = [kind EXCEPT ![a] = "none"]
    /\ UNCHANGED <<credit, wait, loopVars, panel>>

\* The plan is topped up from outside.
TopUp(a) ==
    /\ credit[a] < MaxBalance
    /\ credit' = [credit EXCEPT ![a] = @ + 1]
    /\ UNCHANGED <<pool, kind, wait, loopVars, panel>>

TimePasses ==
    /\ \E a \in Account : wait[a] > 0
    /\ wait' = [a \in Account |-> IF wait[a] > 0 THEN wait[a] - 1 ELSE 0]
    /\ UNCHANGED <<pool, kind, credit, loopVars, panel>>

----------------------------------------------------------------------------
(* The panel.  It may name any account; its calls keep to no               *)
(* ApplyCooldown, ban nobody on a 401 and thaw nobody on credit.  Its      *)
(* other handlers are one method of the pool each: PoolStore.tla.          *)

\* adminCredits (and adminKeepalive) asks for a's balance.
PanelRefresh(a) ==
    /\ panel = Absent
    /\ panel' = [of |-> a, got |-> Absent]
    /\ UNCHANGED <<pool, kind, credit, wait, loopVars>>

\* adminApply asks for the balance after a call of the apply client that
\* reported no error.
PanelApply(a, g) ==
    /\ panel = Absent
    /\ credit' = Granted(a, g)
    /\ panel' \in {Absent, [of |-> a, got |-> Absent]}
    /\ UNCHANGED <<pool, kind, wait, loopVars>>

\* CreditBalance answers.
PanelTold(n) ==
    /\ panel # Absent /\ panel.got = Absent
    /\ n \in Readings(panel.of)
    /\ panel' = [panel EXCEPT !.got = n]
    /\ UNCHANGED <<pool, kind, credit, wait, loopVars>>

\* An error, a 401 too, is put in the answer of the panel and nowhere else.
PanelFails ==
    /\ panel # Absent /\ panel.got = Absent
    /\ panel' = Absent
    /\ UNCHANGED <<pool, kind, credit, wait, loopVars>>

\* SetBalance stores what the panel was told, however old it is by now.
PanelStores ==
    /\ panel # Absent /\ panel.got # Absent
    /\ pool' = [pool EXCEPT ![panel.of] = WithBalance(@, panel.got)]
    /\ panel' = Absent
    /\ UNCHANGED <<kind, credit, wait, loopVars>>

\* adminEnable passes a balance of 0; the loop is to put it right.
PanelEnable(a) ==
    /\ pool' = [pool EXCEPT ![a] = Enabled(@, 0)]
    /\ UNCHANGED <<kind, credit, wait, loopVars, panel>>

PanelStep ==
    \/ \E a \in Account : PanelRefresh(a) \/ \E g \in 0..MaxBalance : PanelApply(a, g)
    \/ \E n \in 0..MaxBalance : PanelTold(n)
    \/ PanelFails \/ PanelStores
    \/ \E a \in Account : PanelEnable(a)

----------------------------------------------------------------------------
Next ==
    \/ LoopStep
    \/ PanelStep
    \/ \E a \in Account :
        \/ ChatSucceeds(a) \/ ChatFails(a) \/ CoolingEnds(a) \/ TopUp(a)
    \/ TimePasses

Spec == Init /\ [][Next]_vars

\* The ticker keeps firing and every call ends; an account whose balance is
\* asked for again and again is sometimes told.  Cooldowns need not end, and
\* the panel need not do anything.
FairSpec ==
    /\ Spec
    /\ WF_vars(LoopStep)
    /\ \A a \in Account : SF_vars(at = a /\ Answer(credit[a]))

----------------------------------------------------------------------------
(* Properties. *)

\* "accounts whose balance is zero go into CoolPlan" (scheduler.go:123): an
\* account that has no credit for good is cooled for its plan again and again,
\* although calls fail, requests put it on other cooldowns and the panel writes
\* old balances.
ExhaustionNoticed ==
    \A a \in Account : <>[](credit[a] = 0) => []<>(kind[a] = "plan")

\* "accounts whose balance has recovered are unfrozen" (scheduler.go:123): an
\* account that has credit for good does not stay cooled for its plan.
RecoveryNoticed ==
    \A a \in Account : kind[a] = "plan" ~> (kind[a] # "plan" \/ credit[a] = 0)

\* The balance that PickExcluding ranks the accounts by: once requests leave the
\* credit of an account alone, the pool gets it right again and again, whatever
\* old readings the loop and the panel still store, error pages read as 0 and
\* adminEnable writes; and for disabled accounts too.
BalanceCatchesUp ==
    \A a \in Account, n \in 0..MaxBalance : <>[](credit[a] = n) => []<>(pool[a].bal = n)

----------------------------------------------------------------------------
(* What a text of the repository says and the code does not keep.  No run  *)
(* checks these; README.md says how to see each of them fail.              *)

\* "used to unfreeze when the quota has recovered" (pool.go:347): the watchdog
\* ends no cooldown that a 429, a 5xx or a run of errors has imposed.
FaultCooldownKept ==
    [][\A a \in Account : kind[a] = "fault" /\ pc = "thaw" /\ at = a => kind'[a] = "fault"]_vars

\* "if it is still zero, cool for one poll interval" (scheduler.go:139): the
\* watchdog cools an account for its plan when it has no credit.  An error page
\* reads as 0, and an error of the second call counts as still zero, even if
\* maybeApply has just been granted credit.
PlanCoolJustified ==
    [][\A a \in Account : kind[a] # "plan" /\ kind'[a] = "plan" => credit[a] = 0]_vars
=============================================================================
