-------------------------- MODULE QuotaWatchdogProofs --------------------------
(***************************************************************************)
(* Theorems about QuotaWatchdog, for any accounts, any threshold and any   *)
(* ApplyCooldown.  What the module promises beyond its types is liveness,  *)
(* which is TLC's.                                                         *)
(***************************************************************************)
EXTENDS QuotaWatchdog, TLAPS

Visiting == {"ask", "told", "applyLow", "applyEmpty", "recheck", "retold", "thaw", "cool"}

\* Between Visit and the next account the loop has an account, and between an
\* answer and SetBalance it has a balance.
VisitsAccount ==
    /\ pc \in Visiting => at \in Account
    /\ pc \in {"told", "retold"} => got \in 0..MaxBalance

Typed == TypeOK /\ VisitsAccount

----------------------------------------------------------------------------
(* The methods of the pool. *)

\* Every method leaves a well-formed account: the error count stays within
\* the threshold and the flags are flags.
LEMMA OpsTyped ==
    ASSUME NEW s \in AccountState, NEW b \in 0..MaxBalance
    PROVE  /\ NewAccount \in AccountState
           /\ Cooled(s) \in AccountState
           /\ Erred(s) \in AccountState
           /\ Succeeded(s) \in AccountState
           /\ Unfrozen(s) \in AccountState
           /\ Banned(s) \in AccountState
           /\ Enabled(s, b) \in AccountState
           /\ Thawed(s) \in AccountState
           /\ Relogged(s) \in AccountState
           /\ WithBalance(s, b) \in AccountState
<1>1. /\ s.disabled \in BOOLEAN /\ s.cooling \in BOOLEAN
      /\ s.errs \in 0..ErrThreshold /\ s.bal \in 0..MaxBalance
  BY DEF AccountState
<1>2. Erred(s) \in AccountState
  <2> DEFINE n == IF s.errs < ErrThreshold THEN s.errs + 1 ELSE ErrThreshold
  <2>1. n \in 0..ErrThreshold
    BY <1>1, ThresholdAssumption
  <2>2. (s.cooling \/ n >= ErrThreshold) \in BOOLEAN
    OBVIOUS
  <2>3. Erred(s) = [s EXCEPT !.errs = n, !.cooling = s.cooling \/ n >= ErrThreshold]
    BY DEF Erred
  <2> HIDE DEF n
  <2> QED
    BY <2>1, <2>2, <2>3 DEF AccountState
<1>3. NewAccount \in AccountState
  BY ThresholdAssumption, BalanceAssumption DEF NewAccount, AccountState
<1>4. Succeeded(s) \in AccountState /\ Unfrozen(s) \in AccountState
  <2>1. 0 \in 0..ErrThreshold
    BY ThresholdAssumption
  <2> QED
    BY <2>1 DEF Succeeded, Unfrozen, AccountState
<1> QED
  BY <1>2, <1>3, <1>4
  DEF AccountState, Cooled, Banned, Enabled, Thawed, Relogged, WithBalance

----------------------------------------------------------------------------
LEMMA InitTyped == Init => Typed
<1> SUFFICES ASSUME Init PROVE Typed
  OBVIOUS
<1>1. NewAccount \in AccountState
  BY ThresholdAssumption, BalanceAssumption DEF NewAccount, AccountState
<1>2. pool \in [Account -> AccountState]
  BY <1>1 DEF Init, WithBalance, AccountState
<1> QED
  BY <1>2, EveryAssumption DEF Init, Typed, TypeOK, VisitsAccount, Visiting

\* The account that a step is about stays well formed, whatever method the
\* step calls on it.
LEMMA AccountChanges ==
    ASSUME TypeOK, NEW a \in Account,
           \/ pool' = [pool EXCEPT ![a] = Cooled(@)]
           \/ pool' = [pool EXCEPT ![a] = Erred(@)]
           \/ pool' = [pool EXCEPT ![a] = Succeeded(@)]
           \/ pool' = [pool EXCEPT ![a] = Unfrozen(@)]
           \/ pool' = [pool EXCEPT ![a] = Banned(@)]
           \/ pool' = [pool EXCEPT ![a] = Thawed(@)]
           \/ \E b \in 0..MaxBalance : pool' = [pool EXCEPT ![a] = Enabled(@, b)]
           \/ \E b \in 0..MaxBalance : pool' = [pool EXCEPT ![a] = WithBalance(@, b)]
    PROVE  pool' \in [Account -> AccountState]
<1>1. pool[a] \in AccountState /\ pool \in [Account -> AccountState]
  BY DEF TypeOK
<1>2. \A s \in AccountState : [pool EXCEPT ![a] = s] \in [Account -> AccountState]
  BY <1>1
<1>3. \A b \in 0..MaxBalance :
        Enabled(pool[a], b) \in AccountState /\ WithBalance(pool[a], b) \in AccountState
  BY <1>1, OpsTyped
<1>4. /\ Cooled(pool[a]) \in AccountState /\ Erred(pool[a]) \in AccountState
      /\ Succeeded(pool[a]) \in AccountState /\ Unfrozen(pool[a]) \in AccountState
      /\ Banned(pool[a]) \in AccountState /\ Thawed(pool[a]) \in AccountState
  BY <1>1, BalanceAssumption, 0 \in 0..MaxBalance, OpsTyped
<1> QED
  BY <1>2, <1>3, <1>4

LEMMA GrantedTyped ==
    ASSUME TypeOK, NEW a \in Account, NEW g \in 0..MaxBalance
    PROVE  Granted(a, g) \in [Account -> 0..MaxBalance]
BY DEF Granted, TypeOK

LEMMA LoopStepTyped ==
    ASSUME Typed, LoopStep
    PROVE  Typed'
<1> USE DEF Typed, TypeOK, VisitsAccount, Visiting, Goto
<1>1. CASE Tick \/ TickEnds \/ AskFails \/ RecheckFails \/ \E a \in Account : Visit(a)
  BY <1>1 DEF Tick, TickEnds, AskFails, RecheckFails, Visit
<1>2. CASE Ask \/ Recheck
  <2>1. at \in Account /\ got \in 0..MaxBalance
    BY <1>2 DEF Ask, Recheck
  <2>2. pool' \in [Account -> AccountState]
    <3>1. pool' = [pool EXCEPT ![at] = WithBalance(@, got)]
      BY <1>2 DEF Ask, Recheck, Store
    <3> QED
      BY <2>1, <3>1, AccountChanges
  <2> QED
    BY <1>2, <2>1, <2>2 DEF Ask, Recheck, Store
<1>3. ASSUME NEW n \in 0..MaxBalance, MaybeApply(n) PROVE Typed'
  <2>1. at \in Account
    BY <1>3 DEF MaybeApply
  <2>2. credit' \in [Account -> 0..MaxBalance] /\ wait' \in [Account -> 0..ApplyEvery]
    <3>1. Granted(at, n) \in [Account -> 0..MaxBalance] /\ ApplyEvery \in 0..ApplyEvery
      BY <2>1, GrantedTyped, EveryAssumption
    <3>2. CASE wait[at] > 0
      BY <1>3, <3>2 DEF MaybeApply
    <3>3. CASE ~(wait[at] > 0)
      BY <1>3, <3>1, <3>3 DEF MaybeApply
    <3> QED
      BY <3>2, <3>3
  <2> QED
    BY <1>3, <2>1, <2>2 DEF MaybeApply
<1>4. CASE AskRejected \/ Unfreeze \/ CoolPlan
  <2>1. at \in Account
    BY <1>4 DEF AskRejected, Unfreeze, CoolPlan
  <2>2. pool' \in [Account -> AccountState]
    <3>1. \/ pool' = [pool EXCEPT ![at] = Banned(@)]
          \/ pool' = [pool EXCEPT ![at] = Unfrozen(@)]
          \/ pool' = [pool EXCEPT ![at] = Cooled(@)]
      BY <1>4 DEF AskRejected, Unfreeze, CoolPlan
    <3> QED
      BY <2>1, <3>1, AccountChanges
  <2> QED
    BY <1>4, <2>1, <2>2 DEF AskRejected, Unfreeze, CoolPlan
<1>5. ASSUME NEW n \in 0..MaxBalance, Answer(n) PROVE Typed'
  BY <1>5 DEF Answer
<1> QED
  BY <1>1, <1>2, <1>3, <1>4, <1>5 DEF LoopStep

LEMMA PanelStepTyped ==
    ASSUME Typed, PanelStep
    PROVE  Typed'
<1> USE DEF Typed, TypeOK, VisitsAccount, loopVars, PanelCall
<1>1. ASSUME NEW a \in Account, PanelRefresh(a) PROVE Typed'
  BY <1>1 DEF PanelRefresh
<1>2. ASSUME NEW a \in Account, NEW g \in 0..MaxBalance, PanelApply(a, g) PROVE Typed'
  <2>1. credit' \in [Account -> 0..MaxBalance]
    BY <1>2, GrantedTyped DEF PanelApply
  <2>2. panel' \in PanelCall \cup {Absent}
    BY <1>2 DEF PanelApply
  <2>3. UNCHANGED <<pool, kind, wait, pc, at, got, todo>>
    BY <1>2 DEF PanelApply
  <2> QED
    BY <2>1, <2>2, <2>3
<1>3. ASSUME NEW n \in 0..MaxBalance, PanelTold(n) PROVE Typed'
  BY <1>3 DEF PanelTold
<1>4. CASE PanelFails
  BY <1>4 DEF PanelFails
<1>5. CASE PanelStores
  <2>1. panel.of \in Account /\ panel.got \in 0..MaxBalance
    BY <1>5 DEF PanelStores
  <2>2. pool' \in [Account -> AccountState]
    <3>1. pool' = [pool EXCEPT ![panel.of] = WithBalance(@, panel.got)]
      BY <1>5 DEF PanelStores
    <3> QED
      BY <2>1, <3>1, AccountChanges
  <2> QED
    BY <1>5, <2>2 DEF PanelStores
<1>6. ASSUME NEW a \in Account, PanelEnable(a) PROVE Typed'
  <2>1. pool' \in [Account -> AccountState]
    <3>1. pool' = [pool EXCEPT ![a] = Enabled(@, 0)]
      BY <1>6 DEF PanelEnable
    <3>2. 0 \in 0..MaxBalance
      BY BalanceAssumption
    <3> QED
      BY <3>1, <3>2, AccountChanges
  <2> QED
    BY <1>6, <2>1 DEF PanelEnable
<1> QED
  BY <1>1, <1>2, <1>3, <1>4, <1>5, <1>6 DEF PanelStep

LEMMA OutsideStepTyped ==
    ASSUME Typed,
           \/ \E a \in Account :
                ChatSucceeds(a) \/ ChatFails(a) \/ CoolingEnds(a) \/ TopUp(a)
           \/ TimePasses
    PROVE  Typed'
<1> USE DEF Typed, TypeOK, VisitsAccount, loopVars
<1>1. ASSUME NEW a \in Account, ChatSucceeds(a) \/ ChatFails(a) \/ CoolingEnds(a)
      PROVE  Typed'
  <2>1. pool' \in [Account -> AccountState]
    <3>1. \/ pool' = [pool EXCEPT ![a] = Succeeded(@)]
          \/ pool' = [pool EXCEPT ![a] = Banned(@)]
          \/ pool' = [pool EXCEPT ![a] = Cooled(@)]
          \/ pool' = [pool EXCEPT ![a] = Erred(@)]
          \/ pool' = [pool EXCEPT ![a] = Thawed(@)]
      BY <1>1 DEF ChatSucceeds, ChatFails, CoolingEnds, Thawed
    <3> QED
      BY <3>1, AccountChanges
  <2>2. credit' \in [Account -> 0..MaxBalance]
    BY <1>1, BalanceAssumption DEF ChatSucceeds, ChatFails, CoolingEnds
  <2>3. kind' \in [Account -> {"none", "fault", "plan"}]
    BY <1>1 DEF ChatSucceeds, ChatFails, CoolingEnds
  <2> QED
    BY <1>1, <2>1, <2>2, <2>3 DEF ChatSucceeds, ChatFails, CoolingEnds
<1>2. ASSUME NEW a \in Account, TopUp(a) PROVE Typed'
  BY <1>2, BalanceAssumption DEF TopUp
<1>3. CASE TimePasses
  BY <1>3, EveryAssumption DEF TimePasses
<1> QED
  BY <1>1, <1>2, <1>3

LEMMA NextTyped == Typed /\ [Next]_vars => Typed'
<1> SUFFICES ASSUME Typed, [Next]_vars PROVE Typed'
  OBVIOUS
<1>1. CASE UNCHANGED vars
  BY <1>1 DEF Typed, TypeOK, VisitsAccount, vars, loopVars
<1> QED
  BY <1>1, LoopStepTyped, PanelStepTyped, OutsideStepTyped DEF Next

\* Type correctness: the pool stays well formed and the loop has an account
\* whenever it works on one.
THEOREM TypeCorrect == Spec => []TypeOK
<1>1. Typed => TypeOK
  BY DEF Typed
<1> QED
  BY <1>1, InitTyped, NextTyped, PTL DEF Spec
=============================================================================
