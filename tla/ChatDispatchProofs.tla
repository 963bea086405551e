-------------------------- MODULE ChatDispatchProofs --------------------------
(***************************************************************************)
(* The locking discipline of chatCompletions, for any number of requests   *)
(* and accounts, any MaxRotate, and whatever the operator, the watchdog,   *)
(* the login flow, the clients and the upstream do meanwhile: sendMu is    *)
(* held exactly by the request that is between Lock and Unlock, or that    *)
(* panicked there.  Then its rotation: no request gives an account a second try, and none is refused *)
(* while an account it has not tried was healthy all along.                *)
(***************************************************************************)
EXTENDS ChatDispatch, FiniteSetTheorems, WellFoundedInduction, TLAPS

Busy == {"validate", "ping", "lock", "plan", "cut", "drive", "retry", "poll", "charge",
         "finish", "panicked"}

\* A request that is using an account has one, and has an attempt left to
\* count it.
AttemptHasAccount ==
    \A r \in Request : pc[r] \in Busy => acct[r] \in Account /\ attempt[r] < MaxRotate

\* A task that somebody listens to belongs to a request that is polling for it: why one lock per account is enough for one task per account.
WatchedIsPolled ==
    \A t \in Watched : pc[t[1]] = "poll" /\ acct[t[1]] = t[2]

IInv == TypeOK /\ AttemptHasAccount /\ LockTracksSection /\ WatchedIsPolled

----------------------------------------------------------------------------
(* The methods of the pool. *)

\* Every method leaves a well-formed account: the error count stays within
\* the threshold and the flags are flags.
LEMMA OpsTyped ==
    ASSUME NEW s \in AccountState, NEW b \in 0..MaxBalance
    PROVE  /\ NewAccount \in AccountState
           /\ Cooled(s) \in AccountState
           /\ Erred(s) \in AccountState
           /\ Succeeded(s) \in AccountState
           /\ Unfrozen(s) \in AccountState
           /\ Banned(s) \in AccountState
           /\ Enabled(s, b) \in AccountState
           /\ Thawed(s) \in AccountState
           /\ Relogged(s) \in AccountState
           /\ WithBalance(s, b) \in AccountState
<1>1. /\ s.disabled \in BOOLEAN /\ s.cooling \in BOOLEAN
      /\ s.errs \in 0..ErrThreshold /\ s.bal \in 0..MaxBalance
  BY DEF AccountState
<1>2. Erred(s) \in AccountState
  <2> DEFINE n == IF s.errs < ErrThreshold THEN s.errs + 1 ELSE ErrThreshold
  <2>1. n \in 0..ErrThreshold
    BY <1>1, ThresholdAssumption
  <2>2. (s.cooling \/ n >= ErrThreshold) \in BOOLEAN
    OBVIOUS
  <2>3. Erred(s) = [s EXCEPT !.errs = n, !.cooling = s.cooling \/ n >= ErrThreshold]
    BY DEF Erred
  <2> HIDE DEF n
  <2> QED
    BY <2>1, <2>2, <2>3 DEF AccountState
<1>3. NewAccount \in AccountState
  BY ThresholdAssumption, BalanceAssumption DEF NewAccount, AccountState
<1>4. Succeeded(s) \in AccountState /\ Unfrozen(s) \in AccountState
  <2>1. 0 \in 0..ErrThreshold
    BY ThresholdAssumption
  <2> QED
    BY <2>1 DEF Succeeded, Unfrozen, AccountState
<1> QED
  BY <1>2, <1>3, <1>4
  DEF AccountState, Cooled, Banned, Enabled, Thawed, Relogged, WithBalance

(* PickExcluding. *)

LEMMA NatMinimum ==
    ASSUME NEW S \in SUBSET Nat, S # {}
    PROVE  \E m \in S : \A n \in S : m <= n
<1>1. \E m \in S : \A n \in S : <<n, m>> \notin OpToRel(<, Nat)
  BY NatLessThanWellFounded, WFMin
<1>2. ASSUME NEW m \in S, NEW n \in S, <<n, m>> \notin OpToRel(<, Nat)
      PROVE  m <= n
  BY <1>2 DEF OpToRel
<1> QED
  BY <1>1, <1>2

\* Whenever some account is healthy and not tried yet, exactly one account is
\* the best: the choice does not depend on the order of the pool's map.
THEOREM BestUnique ==
    ASSUME NEW among \in PoolState, NEW T, Candidates(among, T) # {}
    PROVE  \E a \in Account : Best(among, T) = {a}
<1> DEFINE C == Candidates(among, T)
           Left(a) == MaxBalance - among[a].bal
<1>1. \A a \in C : a \in Account /\ a \in Nat /\ among[a] \in AccountState
  BY AccountAssumption DEF Candidates, Members, PoolState
<1>2. \A a \in C : among[a].bal \in 0..MaxBalance /\ Left(a) \in Nat
  BY <1>1, BalanceAssumption DEF AccountState
<1>3. PICK a \in C : \A b \in C : Left(a) <= Left(b)
  <2>1. {Left(b) : b \in C} \in SUBSET Nat /\ {Left(b) : b \in C} # {}
    BY <1>2
  <2>2. PICK m \in {Left(b) : b \in C} : \A n \in {Left(b) : b \in C} : m <= n
    BY <2>1, NatMinimum
  <2>3. PICK a \in C : m = Left(a)
    BY <2>2
  <2>4. \A b \in C : Left(b) \in {Left(c) : c \in C}
    OBVIOUS
  <2> QED
    BY <2>2, <2>3, <2>4
<1> DEFINE R == {b \in C : among[b].bal = among[a].bal}
<1>4. PICK m \in R : \A b \in R : m <= b
  BY <1>1, NatMinimum
<1>5. \A b \in C : Preferred(among, m, b)
  <2> TAKE b \in C
  <2>1. among[b].bal <= among[m].bal
    BY <1>2, <1>3, <1>4, BalanceAssumption
  <2>2. CASE among[b].bal = among[m].bal
    BY <2>2, <1>4 DEF Preferred
  <2>3. CASE among[b].bal # among[m].bal
    BY <2>1, <2>3, <1>2, <1>4 DEF Preferred
  <2> QED
    BY <2>2, <2>3
<1>6. \A b \in Best(among, T) : b = m
  <2> TAKE b \in Best(among, T)
  <2>1. Preferred(among, b, m) /\ Preferred(among, m, b) /\ b \in C
    BY <1>4, <1>5 DEF Best
  <2> QED
    BY <2>1, <1>1, <1>2, <1>4, BalanceAssumption DEF Preferred
<1>7. m \in Best(among, T)
  BY <1>4, <1>5 DEF Best
<1> QED
  BY <1>1, <1>4, <1>6, <1>7

----------------------------------------------------------------------------
(* The lock.  A step of request r keeps LockTracksSection if it stays out  *)
(* of the section, stays in it, enters it with the free lock, or leaves it *)
(* and unlocks.  A request that panics stays in it for ever.               *)

Section == {"plan", "cut", "drive", "retry", "poll", "panicked"}

LEMMA OutsideStep ==
    ASSUME TypeOK, LockTracksSection, NEW r \in Request, NEW to,
           pc[r] \notin Section, to \notin Section,
           pc' = [pc EXCEPT ![r] = to],
           \A q \in Request \ {r} : acct'[q] = acct[q],
           sendMu' = sendMu
    PROVE  LockTracksSection'
<1>1. \A q \in Request : HoldsLock(q)' <=> HoldsLock(q)
  BY DEF HoldsLock, InSection, Section, TypeOK
<1>2. \A q \in Request : HoldsLock(q) => acct'[q] = acct[q]
  BY DEF HoldsLock, InSection, Section
<1> QED
  BY <1>1, <1>2 DEF LockTracksSection

LEMMA InsideStep ==
    ASSUME TypeOK, LockTracksSection, NEW r \in Request, NEW to \in Section,
           pc[r] \in Section,
           pc' = [pc EXCEPT ![r] = to],
           acct' = acct, sendMu' = sendMu
    PROVE  LockTracksSection'
<1>1. \A q \in Request : HoldsLock(q)' <=> HoldsLock(q)
  BY DEF HoldsLock, InSection, Section, TypeOK
<1> QED
  BY <1>1 DEF LockTracksSection

LEMMA EnterStep ==
    ASSUME TypeOK, LockTracksSection, NEW r \in Request,
           acct[r] \in Account, sendMu[acct[r]] = Absent,
           pc[r] \notin Section,
           pc' = [pc EXCEPT ![r] = "plan"],
           sendMu' = [sendMu EXCEPT ![acct[r]] = r],
           acct' = acct
    PROVE  LockTracksSection'
<1>1. /\ HoldsLock(r)' /\ ~HoldsLock(r)
      /\ \A q \in Request \ {r} : HoldsLock(q)' <=> HoldsLock(q)
      /\ sendMu'[acct[r]] = r
      /\ \A a \in Account \ {acct[r]} : sendMu'[a] = sendMu[a]
  BY DEF HoldsLock, InSection, Section, TypeOK
<1> SUFFICES ASSUME NEW a \in Account, NEW q \in Request
             PROVE  sendMu'[a] = q <=> HoldsLock(q)' /\ acct[q] = a
  BY DEF LockTracksSection
<1>2. sendMu[a] = q <=> HoldsLock(q) /\ acct[q] = a
  BY DEF LockTracksSection
<1>3. CASE a = acct[r]
  BY <1>1, <1>2, <1>3, RequestAssumption
<1>4. CASE a # acct[r]
  BY <1>1, <1>2, <1>4
<1> QED
  BY <1>3, <1>4

LEMMA LeaveStep ==
    ASSUME TypeOK, LockTracksSection, NEW r \in Request, NEW to,
           acct[r] \in Account, pc[r] \in Section, to \notin Section,
           pc' = [pc EXCEPT ![r] = to],
           Unlock(r), acct' = acct
    PROVE  LockTracksSection'
<1>1. /\ ~HoldsLock(r)' /\ HoldsLock(r)
      /\ \A q \in Request \ {r} : HoldsLock(q)' <=> HoldsLock(q)
      /\ sendMu'[acct[r]] = Absent
      /\ \A a \in Account \ {acct[r]} : sendMu'[a] = sendMu[a]
  BY DEF HoldsLock, InSection, Section, TypeOK, Unlock
<1> SUFFICES ASSUME NEW a \in Account, NEW q \in Request
             PROVE  sendMu'[a] = q <=> HoldsLock(q)' /\ acct[q] = a
  BY DEF LockTracksSection
<1>2. /\ sendMu[a] = q <=> HoldsLock(q) /\ acct[q] = a
      /\ sendMu[a] = r <=> acct[r] = a
  BY <1>1 DEF LockTracksSection
<1>3. CASE a = acct[r]
  BY <1>1, <1>2, <1>3, RequestAssumption
<1>4. CASE a # acct[r]
  BY <1>1, <1>2, <1>4
<1> QED
  BY <1>3, <1>4

\* A step that touches neither the requests nor the lock.
LEMMA AsideStep ==
    ASSUME LockTracksSection, pc' = pc, acct' = acct, sendMu' = sendMu
    PROVE  LockTracksSection'
BY DEF LockTracksSection, HoldsLock, InSection

----------------------------------------------------------------------------
(* Typing. *)

LEMMA SetAccountTyped ==
    ASSUME TypeOK, NEW a \in Account, NEW s \in AccountState, SetAccount(a, s)
    PROVE  /\ pool' \in [Account -> AccountState]
           /\ steady' \in [Request -> SUBSET Account]
<1>1. pool' \in [Account -> AccountState]
  BY DEF TypeOK, SetAccount
<1>2. steady' \in [Request -> SUBSET Account]
  BY DEF TypeOK, SetAccount
<1> QED
  BY <1>1, <1>2

\* What a step of the environment leaves in place.
LEMMA PoolStepTyped ==
    ASSUME TypeOK, NEW a \in Account, NEW s \in AccountState, SetAccount(a, s),
           checked' = checked, dead' = dead, ver' \in [Account -> 0..MaxLogins],
           RequestsUnchanged
    PROVE  TypeOK'
BY SetAccountTyped DEF TypeOK, RequestsUnchanged, requestVars

LEMMA TasksTyped ==
    ASSUME NEW r \in Request, acct[r] \in Account
    PROVE  Task(r) \in Tasks /\ Stray(r) \in Tasks
BY DEF Task, Stray, Tasks

\* Steps of a request that leave the pool alone.
LEMMA PlainStepTyped ==
    ASSUME IInv, NEW r \in Request,
           \/ PickAccount(r) \/ PickOwner(r) \/ Refuse(r)
           \/ ValidateCached(r) \/ PingToken(r) \/ PingAccepted(r)
           \/ Lock(r) \/ PlanCompares(r) \/ PlanRejects(r) \/ PlanPanics(r) \/ Plan(r)
           \/ DriveOK(r) \/ PollReturns(r) \/ \E started \in BOOLEAN : DriveRetries(r, started)
    PROVE  TypeOK'
<1> USE DEF Goto, Reply, NextAttempt, Unlock, PoolUnchanged, accountVars
<1>1. CASE PickAccount(r)
  <2>1. \A a \in Best(pool, tried[r]) : a \in Account
    BY DEF Best, Candidates, Members
  <2> QED
    BY <1>1, <2>1 DEF IInv, TypeOK, PickAccount
<1>2. CASE PickOwner(r)
  BY <1>2 DEF IInv, TypeOK, PickOwner
<1>3. CASE Refuse(r)
  BY <1>3 DEF IInv, TypeOK, Refuse
<1>4. CASE ValidateCached(r)
  <2>1. attempt[r] + 1 \in 0..MaxRotate
    BY <1>4, RotateAssumption DEF IInv, TypeOK, AttemptHasAccount, Busy, ValidateCached
  <2> QED
    BY <1>4, <2>1 DEF IInv, TypeOK, ValidateCached
<1>5. CASE PingToken(r)
  <2>1. acct[r] \in Account
    BY <1>5 DEF IInv, AttemptHasAccount, Busy, PingToken
  <2> QED
    BY <1>5, <2>1 DEF IInv, TypeOK, PingToken
<1>6. CASE PingAccepted(r)
  <2>1. acct[r] \in Account
    BY <1>6 DEF IInv, AttemptHasAccount, Busy, PingAccepted
  <2> QED
    BY <1>6, <2>1 DEF IInv, TypeOK, PingAccepted
<1>7. CASE Lock(r)
  BY <1>7 DEF IInv, TypeOK, Lock
<1>8. CASE PlanRejects(r)
  BY <1>8 DEF IInv, TypeOK, PlanRejects
<1>9. CASE Plan(r)
  <2>1. acct[r] \in Account
    BY <1>9 DEF IInv, AttemptHasAccount, Busy, Plan
  <2> QED
    BY <1>9, <2>1 DEF IInv, TypeOK, Plan
<1>10. CASE DriveOK(r)
  <2>1. acct[r] \in Account
    BY <1>10 DEF IInv, AttemptHasAccount, Busy, DriveOK, Driving
  <2> QED
    BY <1>10, <2>1, TasksTyped DEF IInv, TypeOK, DriveOK, Driving
<1>11. CASE PollReturns(r)
  <2>1. acct[r] \in Account
    BY <1>11 DEF IInv, AttemptHasAccount, Busy, PollReturns
  <2> QED
    BY <1>11, <2>1, TasksTyped DEF IInv, TypeOK, PollReturns, Abandon
<1>12. ASSUME NEW started \in BOOLEAN, DriveRetries(r, started)
       PROVE  TypeOK'
  <2>1. acct[r] \in Account
    BY <1>12 DEF IInv, AttemptHasAccount, Busy, DriveRetries
  <2> QED
    BY <1>12, <2>1, TasksTyped DEF IInv, TypeOK, DriveRetries
<1>13. CASE PlanCompares(r) \/ PlanPanics(r)
  BY <1>13 DEF IInv, TypeOK, PlanCompares, PlanPanics
<1> QED
  BY <1>1, <1>2, <1>3, <1>4, <1>5, <1>6, <1>7, <1>8, <1>9, <1>10, <1>11, <1>12, <1>13

\* A request that arrives.
LEMMA ArriveTyped ==
    ASSUME IInv, NEW r \in Request, NEW f \in Account \cup {Absent}, Arrive(r, f)
    PROVE  TypeOK'
<1>1. HealthyIn(pool) \in SUBSET Account
  BY DEF HealthyIn
<1> QED
  BY <1>1
  DEF IInv, TypeOK, Arrive, Goto, Reply, accountVars

\* Steps of a request that charge an account.
LEMMA ChargeStepTyped ==
    ASSUME IInv, NEW r \in Request,
           PingRejected(r) \/ PingFails(r) \/ Charge(r) \/ Finish(r)
    PROVE  TypeOK'
<1> USE DEF Goto, Reply, NextAttempt
<1>1. acct[r] \in Account /\ attempt[r] + 1 \in 0..MaxRotate
  BY RotateAssumption
  DEF IInv, TypeOK, AttemptHasAccount, Busy, PingRejected, PingFails, Charge, Finish
<1>2. pool[acct[r]] \in AccountState
  BY <1>1 DEF IInv, TypeOK
<1>3. /\ Banned(pool[acct[r]]) \in AccountState /\ Cooled(pool[acct[r]]) \in AccountState
      /\ Erred(pool[acct[r]]) \in AccountState /\ Succeeded(pool[acct[r]]) \in AccountState
  <2>1. 0 \in 0..MaxBalance
    BY BalanceAssumption
  <2> QED
    BY <1>2, <2>1, OpsTyped
<1>4. TypeOK
  BY DEF IInv
<1>5. CASE PingRejected(r)
  <2>1. pool' \in [Account -> AccountState] /\ steady' \in [Request -> SUBSET Account]
    BY <1>1, <1>3, <1>4, <1>5, SetAccountTyped DEF PingRejected, DisableAccount
  <2> QED
    BY <1>1, <1>4, <1>5, <2>1 DEF TypeOK, PingRejected, DisableAccount
<1>6. CASE PingFails(r)
  <2>1. pool' \in [Account -> AccountState] /\ steady' \in [Request -> SUBSET Account]
    BY <1>1, <1>3, <1>4, <1>6, SetAccountTyped DEF PingFails, DisableAccount
  <2> QED
    BY <1>1, <1>4, <1>6, <2>1 DEF TypeOK, PingFails, DisableAccount
<1>7. CASE Charge(r)
  <2>1. pool' \in [Account -> AccountState] /\ steady' \in [Request -> SUBSET Account]
    BY <1>1, <1>3, <1>4, <1>7, SetAccountTyped DEF Charge, DisableAccount
  <2>2. /\ pc' \in [Request -> {"new", "pick", "validate", "ping", "lock", "plan", "cut", "drive",
                               "retry", "poll", "charge", "finish", "done", "panicked"}]
        /\ attempt' \in [Request -> 0..MaxRotate]
        /\ err' \in [Request -> Errors]
    <3>1. "none" \in Errors
      BY DEF Errors
    <3> QED
      BY <1>1, <1>4, <1>7, <3>1 DEF TypeOK, Charge
  <2>3. UNCHANGED <<checked, ver, dead, sendMu, acct, tried, forced, tok, answer, gone, grown, agents>>
    BY <1>7 DEF Charge
  <2> QED
    BY <1>4, <2>1, <2>2, <2>3 DEF TypeOK
<1>8. CASE Finish(r)
  <2>1. pool' \in [Account -> AccountState] /\ steady' \in [Request -> SUBSET Account]
    BY <1>1, <1>3, <1>4, <1>8, SetAccountTyped DEF Finish
  <2> QED
    BY <1>4, <1>8, <2>1 DEF TypeOK, Finish, accountVars
<1> QED
  BY <1>5, <1>6, <1>7, <1>8

\* Steps that end the section with an error.
LEMMA FailStepTyped ==
    ASSUME IInv, NEW r \in Request, NEW e \in Errors, NEW started \in BOOLEAN,
           DriveFails(r, e, started) \/ PollFails(r, e)
    PROVE  TypeOK'
<1> USE DEF Goto, Unlock, PoolUnchanged, accountVars
<1>1. acct[r] \in Account
  BY DEF IInv, AttemptHasAccount, Busy, DriveFails, Driving, PollFails
<1>2. CASE DriveFails(r, e, started)
  BY <1>1, <1>2, TasksTyped DEF IInv, TypeOK, DriveFails, Driving
<1>3. CASE PollFails(r, e)
  BY <1>1, <1>3, TasksTyped DEF IInv, TypeOK, PollFails, Abandon
<1> QED
  BY <1>2, <1>3

\* Steps of the actors around the requests.
LEMMA AroundTyped ==
    ASSUME IInv, NEW a \in Account,
           \/ Operator(a) \/ Watchdog(a) \/ Login(a) \/ Revoke(a)
           \/ CoolingEnds(a) \/ CheckExpires(a)
    PROVE  TypeOK'
<1>1. TypeOK /\ pool[a] \in AccountState /\ 0 \in 0..MaxBalance
  BY BalanceAssumption DEF IInv, TypeOK
<1>2. ver \in [Account -> 0..MaxLogins]
  BY DEF IInv, TypeOK
<1>3. CASE Operator(a)
  <2>1. CASE DisableAccount(a)
    BY <1>1, <1>2, <1>3, <2>1, OpsTyped, PoolStepTyped DEF Operator, DisableAccount
  <2>2. CASE SetAccount(a, Enabled(pool[a], 0))
    BY <1>1, <1>2, <1>3, <2>2, OpsTyped, PoolStepTyped DEF Operator
  <2>3. CASE SetAccount(a, Thawed(pool[a]))
    BY <1>1, <1>2, <1>3, <2>3, OpsTyped, PoolStepTyped DEF Operator
  <2>4. CASE SetAccount(a, Unfrozen(pool[a]))
    BY <1>1, <1>2, <1>3, <2>4, OpsTyped, PoolStepTyped DEF Operator
  <2> QED
    BY <1>3, <2>1, <2>2, <2>3, <2>4 DEF Operator
<1>4. CASE Watchdog(a)
  <2>1. ASSUME NEW b \in 0..MaxBalance,
               SetAccount(a, WithBalance(pool[a], b))
        PROVE  TypeOK'
    BY <1>1, <1>2, <1>4, <2>1, OpsTyped, PoolStepTyped DEF Watchdog
  <2>2. CASE SetAccount(a, Cooled(pool[a]))
    BY <1>1, <1>2, <1>4, <2>2, OpsTyped, PoolStepTyped DEF Watchdog
  <2>3. CASE SetAccount(a, Unfrozen(pool[a]))
    BY <1>1, <1>2, <1>4, <2>3, OpsTyped, PoolStepTyped DEF Watchdog
  <2>4. CASE DisableAccount(a)
    BY <1>1, <1>2, <1>4, <2>4, OpsTyped, PoolStepTyped DEF Watchdog, DisableAccount
  <2> QED
    BY <1>4, <2>1, <2>2, <2>3, <2>4 DEF Watchdog
<1>5. CASE Login(a)
  <2>1. ver' \in [Account -> 0..MaxLogins]
    BY <1>2, <1>5, LoginsAssumption DEF Login
  <2> QED
    BY <1>1, <1>5, <2>1, OpsTyped, PoolStepTyped DEF Login
<1>6. CASE Revoke(a)
  <2>1. ver[a] + 1 \in 0..MaxLogins + 1
    BY <1>2, LoginsAssumption
  <2> QED
    BY <1>6, <2>1 DEF IInv, TypeOK, Revoke, RequestsUnchanged, requestVars
<1>7. CASE CoolingEnds(a)
  <2>1. SetAccount(a, Thawed(pool[a]))
    BY <1>7 DEF CoolingEnds, Thawed
  <2> QED
    BY <1>1, <1>2, <1>7, <2>1, OpsTyped, PoolStepTyped DEF CoolingEnds, accountVars
<1>8. CASE CheckExpires(a)
  BY <1>8 DEF IInv, TypeOK, CheckExpires, RequestsUnchanged, requestVars
<1> QED
  BY <1>3, <1>4, <1>5, <1>6, <1>7, <1>8

LEMMA OtherTyped ==
    ASSUME IInv,
           \/ \E r \in Request : ClientLeaves(r)
           \/ \E t \in agents : AgentEnds(t)
           \/ UNCHANGED vars
    PROVE  TypeOK'
<1> USE DEF PoolUnchanged, accountVars, requestVars
<1>1. ASSUME NEW r \in Request, ClientLeaves(r)
      PROVE  TypeOK'
  BY <1>1 DEF IInv, TypeOK, ClientLeaves
<1>2. ASSUME NEW t \in agents, AgentEnds(t)
      PROVE  TypeOK'
  BY <1>2 DEF IInv, TypeOK, AgentEnds
<1>3. CASE UNCHANGED vars
  BY <1>3 DEF IInv, TypeOK, vars
<1> QED
  BY <1>1, <1>2, <1>3
----------------------------------------------------------------------------
(* AttemptHasAccount. *)

LEMMA InitIInv == Init => IInv
<1> SUFFICES ASSUME Init PROVE IInv
  OBVIOUS
<1>1. pool \in [Account -> AccountState]
  <2>1. NewAccount \in AccountState
    BY ThresholdAssumption, BalanceAssumption DEF NewAccount, AccountState
  <2>2. \A b \in 0..MaxBalance : WithBalance(NewAccount, b) \in AccountState
    BY <2>1 DEF WithBalance, AccountState
  <2> QED
    BY <2>2 DEF Init
<1>2. 0 \in 0..MaxLogins /\ 0 \in 0..MaxLogins + 1 /\ 0 \in 0..MaxRotate
  BY LoginsAssumption, RotateAssumption
<1>3. TypeOK
  BY <1>1, <1>2 DEF Init, TypeOK, Errors
<1>4. AttemptHasAccount
  BY DEF Init, AttemptHasAccount, Busy
<1>5. LockTracksSection
  BY RequestAssumption DEF Init, LockTracksSection, HoldsLock, InSection
<1>6. WatchedIsPolled
  BY DEF Init, WatchedIsPolled, Watched
<1> QED
  BY <1>3, <1>4, <1>5, <1>6 DEF IInv

\* Only PickAccount and PickOwner make a request busy, and both see to it
\* that it has an account and an attempt left.
LEMMA AttemptKept ==
    ASSUME TypeOK, AttemptHasAccount, NEW r \in Request, NEW to,
           pc[r] \in Busy \/ to \notin Busy,
           pc' = [pc EXCEPT ![r] = to],
           to \in Busy => attempt' = attempt,
           \A q \in Request \ {r} : attempt'[q] = attempt[q],
           acct' = acct
    PROVE  AttemptHasAccount'
BY DEF AttemptHasAccount, TypeOK

LEMMA AttemptStep ==
    ASSUME IInv, NEW r \in Request,
           Step(r) \/ \E f \in Account \cup {Absent} : Arrive(r, f)
    PROVE  AttemptHasAccount'
<1> USE DEF Goto, Reply, NextAttempt
<1>1. CASE PickAccount(r)
  <2>1. \A a \in Best(pool, tried[r]) : a \in Account
    BY DEF Best, Candidates, Members
  <2> QED
    BY <1>1, <2>1, RotateAssumption DEF IInv, TypeOK, AttemptHasAccount, PickAccount
<1>2. CASE PickOwner(r)
  BY <1>2, RotateAssumption DEF IInv, TypeOK, AttemptHasAccount, PickOwner
<1>3. ASSUME NEW f \in Account \cup {Absent}, Arrive(r, f)
      PROVE  AttemptHasAccount'
  BY <1>3, AttemptKept DEF IInv, Busy, Arrive
<1>4. CASE Refuse(r) \/ ValidateCached(r) \/ PingToken(r) \/ PingAccepted(r)
           \/ PingRejected(r) \/ PingFails(r)
  <2>1. \A q \in Request \ {r} : attempt'[q] = attempt[q]
    BY <1>4 DEF IInv, TypeOK, Refuse, ValidateCached, PingToken, PingAccepted,
                PingRejected, PingFails
  <2> QED
    BY <1>4, <2>1, AttemptKept
    DEF IInv, Busy, Refuse, ValidateCached, PingToken, PingAccepted, PingRejected, PingFails
<1>5. CASE Lock(r) \/ PlanCompares(r) \/ PlanRejects(r) \/ PlanPanics(r) \/ Plan(r)
           \/ DriveOK(r) \/ PollReturns(r) \/ Finish(r)
  BY <1>5, AttemptKept
  DEF IInv, Busy, Lock, PlanCompares, PlanRejects, PlanPanics, Plan, DriveOK, Driving,
      PollReturns, Finish
<1>6. CASE Charge(r)
  <2>1. \A q \in Request \ {r} : attempt'[q] = attempt[q]
    BY <1>6 DEF IInv, TypeOK, Charge
  <2> QED
    BY <1>6, <2>1, AttemptKept DEF IInv, Busy, Charge
<1>7. ASSUME NEW e \in Errors, NEW started \in BOOLEAN,
             PollFails(r, e) \/ DriveFails(r, e, started) \/ DriveRetries(r, started)
      PROVE  AttemptHasAccount'
  BY <1>7, AttemptKept DEF IInv, Busy, PollFails, DriveFails, Driving, DriveRetries
<1> QED
  BY <1>1, <1>2, <1>3, <1>4, <1>5, <1>6, <1>7 DEF Step, Errors

----------------------------------------------------------------------------
(* LockTracksSection. *)

LEMMA LockStep ==
    ASSUME IInv, NEW r \in Request,
           Step(r) \/ \E f \in Account \cup {Absent} : Arrive(r, f)
    PROVE  LockTracksSection'
<1> USE DEF Goto, Reply, IInv, Section
<1>1. ASSUME NEW f \in Account \cup {Absent}, Arrive(r, f)
      PROVE  LockTracksSection'
  BY <1>1, OutsideStep DEF Arrive
<1>2. CASE PickAccount(r) \/ PickOwner(r)
  <2>1. \A q \in Request \ {r} : acct'[q] = acct[q]
    BY <1>2 DEF TypeOK, PickAccount, PickOwner
  <2> QED
    BY <1>2, <2>1, OutsideStep DEF PickAccount, PickOwner
<1>3. CASE Refuse(r) \/ ValidateCached(r) \/ PingToken(r) \/ PingAccepted(r)
           \/ PingRejected(r) \/ PingFails(r) \/ Charge(r) \/ Finish(r)
  BY <1>3, OutsideStep
  DEF Refuse, ValidateCached, PingToken, PingAccepted, PingRejected, PingFails, Charge, Finish
<1>4. CASE Lock(r)
  <2>1. acct[r] \in Account
    BY <1>4 DEF TypeOK, Lock
  <2> QED
    BY <1>4, <2>1, EnterStep DEF Lock
<1>5. CASE PlanCompares(r) \/ PlanPanics(r) \/ Plan(r) \/ DriveOK(r)
  BY <1>5, InsideStep DEF PlanCompares, PlanPanics, Plan, DriveOK, Driving
<1>6. CASE PlanRejects(r) \/ PollReturns(r)
  <2>1. acct[r] \in Account
    BY <1>6 DEF AttemptHasAccount, Busy, PlanRejects, PollReturns
  <2> QED
    BY <1>6, <2>1, LeaveStep DEF PlanRejects, PollReturns
<1>7. ASSUME NEW e \in Errors, NEW started \in BOOLEAN,
             PollFails(r, e) \/ DriveFails(r, e, started)
      PROVE  LockTracksSection'
  <2>1. acct[r] \in Account
    BY <1>7 DEF AttemptHasAccount, Busy, PollFails, DriveFails, Driving
  <2> QED
    BY <1>7, <2>1, LeaveStep DEF PollFails, DriveFails, Driving
<1>8. ASSUME NEW started \in BOOLEAN, DriveRetries(r, started)
      PROVE  LockTracksSection'
  BY <1>8, InsideStep DEF DriveRetries
<1> QED
  BY <1>1, <1>2, <1>3, <1>4, <1>5, <1>6, <1>7, <1>8 DEF Step

----------------------------------------------------------------------------
(* WatchedIsPolled. *)

\* A step of a request that is not polling changes nothing for the tasks that
\* are watched, unless it starts one.
LEMMA NotPollingStep ==
    ASSUME TypeOK, WatchedIsPolled, NEW r \in Request, NEW to, pc[r] # "poll",
           pc' = [pc EXCEPT ![r] = to],
           \A q \in Request \ {r} : acct'[q] = acct[q],
           Watched' \subseteq Watched
    PROVE  WatchedIsPolled'
<1>1. \A t \in Watched : t[1] \in Request /\ t[1] # r
  BY DEF TypeOK, Tasks, Watched, WatchedIsPolled
<1> QED
  BY <1>1 DEF TypeOK, WatchedIsPolled

\* A request that stops polling gives its task up.
LEMMA StopPollingStep ==
    ASSUME TypeOK, WatchedIsPolled, NEW r \in Request, NEW to,
           pc' = [pc EXCEPT ![r] = to], acct' = acct, Abandon(r)
    PROVE  WatchedIsPolled'
<1> SUFFICES ASSUME NEW t \in Watched, t # Task(r)
             PROVE  pc'[t[1]] = "poll" /\ acct[t[1]] = t[2]
  BY DEF WatchedIsPolled, Watched, Abandon, Stray
<1>1. t[1] \in Request /\ t[2] \in Account /\ t = <<t[1], t[2]>>
  BY DEF TypeOK, Tasks, Watched
<1>2. t[1] # r
  BY <1>1 DEF Task, WatchedIsPolled
<1> QED
  BY <1>1, <1>2 DEF TypeOK, WatchedIsPolled

LEMMA WatchStep ==
    ASSUME IInv, NEW r \in Request,
           Step(r) \/ \E f \in Account \cup {Absent} : Arrive(r, f)
    PROVE  WatchedIsPolled'
<1> USE DEF Goto, Reply, IInv, Watched
<1>1. ASSUME NEW f \in Account \cup {Absent}, Arrive(r, f)
      PROVE  WatchedIsPolled'
  BY <1>1, NotPollingStep DEF Arrive
<1>2. CASE PickAccount(r) \/ PickOwner(r)
  <2>1. \A q \in Request \ {r} : acct'[q] = acct[q]
    BY <1>2 DEF TypeOK, PickAccount, PickOwner
  <2> QED
    BY <1>2, <2>1, NotPollingStep DEF PickAccount, PickOwner
<1>3. CASE Refuse(r) \/ ValidateCached(r) \/ PingToken(r) \/ PingAccepted(r)
           \/ PingRejected(r) \/ PingFails(r) \/ Charge(r) \/ Finish(r)
  BY <1>3, NotPollingStep
  DEF Refuse, ValidateCached, PingToken, PingAccepted, PingRejected, PingFails, Charge, Finish
<1>4. CASE Lock(r) \/ PlanCompares(r) \/ Plan(r) \/ PlanPanics(r) \/ PlanRejects(r)
  BY <1>4, NotPollingStep DEF Lock, PlanCompares, Plan, PlanPanics, PlanRejects
<1>5. CASE DriveOK(r)
  <2>1. \A t \in Watched : t[1] \in Request /\ t[1] # r
    BY <1>5 DEF TypeOK, Tasks, WatchedIsPolled, DriveOK, Driving
  <2>2. Task(r)[1] = r /\ Task(r)[2] = acct[r]
    BY DEF Task
  <2>3. pc'[r] = "poll" /\ \A q \in Request \ {r} : pc'[q] = pc[q]
    BY <1>5 DEF TypeOK, DriveOK, Driving
  <2> QED
    BY <1>5, <2>1, <2>2, <2>3 DEF WatchedIsPolled, DriveOK
<1>6. CASE PollReturns(r)
  BY <1>6, StopPollingStep DEF PollReturns
<1>7. ASSUME NEW e \in Errors, PollFails(r, e)
      PROVE  WatchedIsPolled'
  BY <1>7, StopPollingStep DEF PollFails
<1>8. ASSUME NEW e \in Errors, NEW started \in BOOLEAN,
             DriveFails(r, e, started) \/ DriveRetries(r, started)
      PROVE  WatchedIsPolled'
  BY <1>8, NotPollingStep DEF DriveFails, Driving, DriveRetries, Stray
<1> QED
  BY <1>1, <1>2, <1>3, <1>4, <1>5, <1>6, <1>7, <1>8 DEF Step, Errors

----------------------------------------------------------------------------
\* Everybody else leaves the requests and the lock alone.
LEMMA AroundStep ==
    ASSUME IInv,
           \/ \E r \in Request : ClientLeaves(r)
           \/ \E a \in Account :
                \/ Operator(a) \/ Watchdog(a) \/ Login(a) \/ Revoke(a)
                \/ CoolingEnds(a) \/ CheckExpires(a)
           \/ \E t \in agents : AgentEnds(t)
           \/ UNCHANGED vars
    PROVE  AttemptHasAccount' /\ LockTracksSection' /\ WatchedIsPolled'
<1>1. /\ UNCHANGED <<pc, acct, attempt, sendMu>>
      /\ agents' \subseteq agents
  BY DEF ClientLeaves, Operator, Watchdog, Login, Revoke, CoolingEnds, CheckExpires,
         AgentEnds, RequestsUnchanged, requestVars, vars
<1> QED
  BY <1>1, AsideStep DEF IInv, AttemptHasAccount, WatchedIsPolled, Watched

LEMMA Inductive == IInv /\ [Next]_vars => IInv'
<1> SUFFICES ASSUME IInv, [Next]_vars PROVE IInv'
  OBVIOUS
<1>1. ASSUME NEW r \in Request, NEW f \in Account \cup {Absent}, Arrive(r, f)
      PROVE  IInv'
  BY <1>1, ArriveTyped, AttemptStep, LockStep, WatchStep DEF IInv
<1>2. ASSUME NEW r \in Request, Step(r)
      PROVE  IInv'
  <2>1. TypeOK'
    BY <1>2, PlainStepTyped, ChargeStepTyped, FailStepTyped DEF Step
  <2> QED
    BY <1>2, <2>1, AttemptStep, LockStep, WatchStep DEF IInv
<1>3. ASSUME NEW a \in Account,
             \/ Operator(a) \/ Watchdog(a) \/ Login(a) \/ Revoke(a)
             \/ CoolingEnds(a) \/ CheckExpires(a)
      PROVE  IInv'
  BY <1>3, AroundTyped, AroundStep DEF IInv
<1>4. CASE \/ \E r \in Request : ClientLeaves(r)
           \/ \E t \in agents : AgentEnds(t)
           \/ UNCHANGED vars
  BY <1>4, OtherTyped, AroundStep DEF IInv
<1>5. Quiet => UNCHANGED vars
  BY DEF Quiet
<1> QED
  BY <1>1, <1>2, <1>3, <1>4, <1>5 DEF Next

----------------------------------------------------------------------------
THEOREM Invariance == Spec => []IInv
<1>1. Init => IInv
  BY InitIInv
<1>2. IInv /\ [Next]_vars => IInv'
  BY Inductive
<1> QED
  BY <1>1, <1>2, PTL DEF Spec

\* The pool, the lock table and every request's variables are well-formed;
\* in particular no request counts more than MaxRotate attempts.
THEOREM TypeCorrect == Spec => []TypeOK
<1>1. IInv => TypeOK
  BY DEF IInv
<1> QED
  BY <1>1, Invariance, PTL

\* sendMu of an account is held exactly by the request that is between Lock
\* and Unlock on it, or was the one to panic there: every return unlocks, none
\* frees the lock of another request, and nobody enters after a panic.
THEOREM LockTracked == Spec => []LockTracksSection
<1>1. IInv => LockTracksSection
  BY DEF IInv
<1> QED
  BY <1>1, Invariance, PTL

\* Two requests are never between Lock and Unlock on one account.
THEOREM Serialised == Spec => []SendSerialised
<1>1. IInv => SendSerialised
  <2> SUFFICES ASSUME IInv, NEW r \in Request, NEW q \in Request,
                      InSection(r), InSection(q), acct[r] = acct[q]
               PROVE  r = q
    BY DEF SendSerialised
  <2>1. acct[r] \in Account
    BY DEF IInv, AttemptHasAccount, Busy, InSection
  <2> QED
    BY <2>1 DEF IInv, LockTracksSection, HoldsLock
<1> QED
  BY <1>1, Invariance, PTL

\* Of the agent tasks that a request is still waiting for, no two run on one
\* account.
THEOREM OneWatched == Spec => []OneWatchedAgent
<1>1. IInv => OneWatchedAgent
  <2> SUFFICES ASSUME IInv, NEW s \in Watched, NEW t \in Watched,
                      s[2] = t[2]
               PROVE  s = t
    BY DEF OneWatchedAgent, OneAgentPerAccount
  <2>1. /\ s[1] \in Request /\ s[2] \in Account /\ s = <<s[1], s[2]>>
        /\ t[1] \in Request /\ t[2] \in Account /\ t = <<t[1], t[2]>>
    BY DEF IInv, TypeOK, Tasks, Watched
  <2>2. sendMu[s[2]] = s[1] /\ sendMu[t[2]] = t[1]
    BY <2>1 DEF IInv, WatchedIsPolled, LockTracksSection, HoldsLock, InSection
  <2> QED
    BY <2>1, <2>2
<1> QED
  BY <1>1, Invariance, PTL

----------------------------------------------------------------------------
(* The rotation: RotationExact. *)

Attempting(r) == pc[r] \in Busy

\* Every attempt of a free request but the one under way is counted, and it
\* tried one account; the one attempt of a named conversation is at its owner.
Rotation(r) ==
    /\ IsFiniteSet(tried[r])
    /\ pc[r] # "done" => answer[r] = "none"
    /\ pc[r] = "new" => tried[r] = {} /\ attempt[r] = 0 /\ acct[r] = Absent
    /\ forced[r] = Absent /\ answer[r] \notin {"ok", "bad"} =>
          Cardinality(tried[r]) = attempt[r] + (IF Attempting(r) THEN 1 ELSE 0)
    /\ forced[r] # Absent =>
          /\ tried[r] = {} /\ acct[r] \in {forced[r], Absent}
          /\ attempt[r] = 0 \/ (~Attempting(r) /\ attempt[r] = 1)

RotationInv == \A r \in Request : Rotation(r)

LEMMA InitRotation == Init => RotationInv
  BY FS_EmptySet DEF Init, RotationInv, Rotation, Attempting, Busy

\* A step of request r disturbs nothing of another request.
OnlyOf(r) ==
    \A q \in Request \ {r} :
        /\ pc'[q] = pc[q] /\ attempt'[q] = attempt[q] /\ acct'[q] = acct[q]
        /\ tried'[q] = tried[q] /\ forced'[q] = forced[q] /\ answer'[q] = answer[q]

LEMMA OthersRotate ==
    ASSUME RotationInv, NEW r \in Request, OnlyOf(r), Rotation(r)'
    PROVE  RotationInv'
<1> SUFFICES ASSUME NEW q \in Request \ {r} PROVE Rotation(q)'
  BY DEF RotationInv
<1>1. Rotation(q)
  BY DEF RotationInv
<1> QED
  BY <1>1 DEF OnlyOf, Rotation, Attempting

----------------------------------------------------------------------------
(* A step of request r is the choice of an account, a move within the      *)
(* attempt, its failure, which is counted, or the answer.                  *)

Stays(r) == UNCHANGED <<acct, tried, forced>>

LEMMA WithinStep ==
    ASSUME TypeOK, RotationInv, NEW r \in Request, NEW to \in Busy,
           Attempting(r), pc' = [pc EXCEPT ![r] = to],
           attempt' = attempt, answer' = answer, Stays(r)
    PROVE  RotationInv'
<1>1. OnlyOf(r)
  BY DEF OnlyOf, Stays, TypeOK
<1>2. Rotation(r)'
  BY DEF RotationInv, Rotation, Attempting, Stays, TypeOK, Busy
<1> QED
  BY <1>1, <1>2, OthersRotate

LEMMA CountedStep ==
    ASSUME TypeOK, RotationInv, NEW r \in Request,
           Attempting(r), pc' = [pc EXCEPT ![r] = "pick"],
           NextAttempt(r), answer' = answer, Stays(r)
    PROVE  RotationInv'
<1>1. OnlyOf(r)
  BY DEF OnlyOf, Stays, NextAttempt, TypeOK
<1>2. attempt[r] \in Nat /\ attempt'[r] = attempt[r] + 1 /\ pc'[r] = "pick"
  BY RotateAssumption DEF NextAttempt, TypeOK
<1>3. Rotation(r)'
  BY <1>2 DEF RotationInv, Rotation, Attempting, Stays, Busy
<1> QED
  BY <1>1, <1>3, OthersRotate

LEMMA AnswerStep ==
    ASSUME TypeOK, RotationInv, NEW r \in Request, NEW from, NEW what,
           Reply(r, from, what),
           \/ Attempting(r) /\ what \in {"ok", "bad"}
           \/ from = "pick" /\ what = "unavailable",
           attempt' = attempt, Stays(r)
    PROVE  RotationInv'
<1>1. OnlyOf(r)
  BY DEF OnlyOf, Stays, Reply, Goto, TypeOK
<1>2. pc[r] = from /\ pc'[r] = "done" /\ answer'[r] = what
  BY DEF Reply, Goto, TypeOK
<1>3. Rotation(r)'
  BY <1>2 DEF RotationInv, Rotation, Attempting, Stays, Busy, TypeOK
<1> QED
  BY <1>1, <1>3, OthersRotate

LEMMA PickStep ==
    ASSUME TypeOK, RotationInv, NEW r \in Request, PickAccount(r)
    PROVE  RotationInv'
<1>1. PICK a \in Best(pool, tried[r]) :
        /\ acct' = [acct EXCEPT ![r] = a]
        /\ tried' = [tried EXCEPT ![r] = @ \cup {a}]
  BY DEF PickAccount
<1>2. a \notin tried[r]
  BY DEF Best, Candidates
<1>3. OnlyOf(r)
  BY <1>1 DEF OnlyOf, PickAccount, Goto, TypeOK
<1>4. /\ pc[r] = "pick" /\ pc'[r] = "validate" /\ tried'[r] = tried[r] \cup {a}
      /\ attempt' = attempt /\ answer' = answer /\ forced' = forced /\ forced[r] = Absent
  BY <1>1 DEF PickAccount, Goto, TypeOK
<1>5. IsFiniteSet(tried[r]) /\ answer[r] = "none" /\ Cardinality(tried[r]) = attempt[r]
  BY <1>4 DEF RotationInv, Rotation, Attempting, Busy, TypeOK
<1>6. IsFiniteSet(tried'[r]) /\ Cardinality(tried'[r]) = attempt[r] + 1
  <2>1. /\ IsFiniteSet(tried[r] \cup {a})
        /\ Cardinality(tried[r] \cup {a}) = Cardinality(tried[r]) + 1
    BY <1>2, <1>5, FS_AddElement
  <2> QED
    BY <1>4, <1>5, <2>1
<1>7. Rotation(r)'
  BY <1>4, <1>5, <1>6 DEF Rotation, Attempting, Busy
<1> QED
  BY <1>3, <1>7, OthersRotate

LEMMA OwnerStep ==
    ASSUME TypeOK, RotationInv, NEW r \in Request, PickOwner(r)
    PROVE  RotationInv'
<1>1. OnlyOf(r)
  BY DEF OnlyOf, PickOwner, Goto, TypeOK
<1>2. Rotation(r)'
  BY DEF RotationInv, Rotation, Attempting, Busy, PickOwner, Goto, TypeOK
<1> QED
  BY <1>1, <1>2, OthersRotate

LEMMA ArriveStep ==
    ASSUME TypeOK, RotationInv, NEW r \in Request, NEW f \in Account \cup {Absent}, Arrive(r, f)
    PROVE  RotationInv'
<1>1. OnlyOf(r)
  BY DEF OnlyOf, Arrive, Reply, Goto, TypeOK
<1>2. /\ pc[r] = "new" /\ pc'[r] \in {"pick", "done"} /\ forced'[r] = f
      /\ pc'[r] # "done" => answer'[r] = answer[r]
      /\ tried' = tried /\ attempt' = attempt /\ acct' = acct
  BY DEF Arrive, Reply, Goto, TypeOK
<1>3. tried[r] = {} /\ attempt[r] = 0 /\ acct[r] = Absent /\ answer[r] = "none"
  BY <1>2 DEF RotationInv, Rotation
<1>4. IsFiniteSet(tried'[r]) /\ Cardinality(tried'[r]) = 0
  BY <1>2, <1>3, FS_EmptySet
<1>5. ~Attempting(r)'
  BY <1>2 DEF Attempting, Busy
<1>6. Rotation(r)'
  <2>1. /\ pc'[r] # "new" /\ (pc'[r] # "done" => answer'[r] = "none")
        /\ tried'[r] = {} /\ attempt'[r] = 0 /\ acct'[r] = Absent
    BY <1>2, <1>3
  <2> QED
    BY <2>1, <1>4, <1>5 DEF Rotation
<1> QED
  BY <1>1, <1>6, OthersRotate

LEMMA StepRotates ==
    ASSUME IInv, RotationInv, NEW r \in Request, Step(r)
    PROVE  RotationInv'
<1> USE DEF IInv, Goto, Stays, PoolUnchanged
<1>1. CASE PickAccount(r) \/ PickOwner(r)
  BY <1>1, PickStep, OwnerStep
<1>2. CASE Refuse(r)
  BY <1>2, AnswerStep DEF Refuse
<1>3. CASE ValidateCached(r)
  BY <1>3, CountedStep, WithinStep DEF ValidateCached, Attempting, Busy
<1>4. CASE \/ PingToken(r) \/ PingAccepted(r) \/ PingFails(r) \/ Lock(r)
           \/ PlanCompares(r) \/ PlanPanics(r) \/ Plan(r)
  BY <1>4, WithinStep
  DEF PingToken, PingAccepted, PingFails, Lock, PlanCompares, PlanPanics, Plan, Attempting, Busy
<1>5. CASE DriveOK(r) \/ PollReturns(r)
  BY <1>5, WithinStep DEF DriveOK, Driving, PollReturns, Attempting, Busy
<1>6. CASE PingRejected(r) \/ Charge(r)
  BY <1>6, CountedStep DEF PingRejected, Charge, Attempting, Busy
<1>7. CASE PlanRejects(r)
  <2>1. Reply(r, "cut", "bad") /\ attempt' = attempt /\ Stays(r)
    BY <1>7 DEF PlanRejects
  <2>2. Attempting(r)
    BY <2>1 DEF Reply, Attempting, Busy
  <2> QED
    BY <2>1, <2>2, AnswerStep
<1>8. CASE Finish(r)
  <2>1. Reply(r, "finish", "ok") /\ attempt' = attempt /\ Stays(r)
    BY <1>8 DEF Finish
  <2>2. Attempting(r)
    BY <2>1 DEF Reply, Attempting, Busy
  <2> QED
    BY <2>1, <2>2, AnswerStep
<1>9. ASSUME NEW e \in Errors, NEW started \in BOOLEAN,
             PollFails(r, e) \/ DriveFails(r, e, started) \/ DriveRetries(r, started)
      PROVE  RotationInv'
  BY <1>9, WithinStep DEF PollFails, DriveFails, Driving, DriveRetries, Attempting, Busy
<1> QED
  BY <1>1, <1>2, <1>3, <1>4, <1>5, <1>6, <1>7, <1>8, <1>9 DEF Step, Errors

\* The actors around the requests leave their variables alone.
LEMMA AroundRotates ==
    ASSUME RotationInv,
           \/ \E r \in Request : ClientLeaves(r)
           \/ \E a \in Account :
                \/ Operator(a) \/ Watchdog(a) \/ Login(a) \/ Revoke(a)
                \/ CoolingEnds(a) \/ CheckExpires(a)
           \/ \E t \in agents : AgentEnds(t)
           \/ Quiet \/ UNCHANGED vars
    PROVE  RotationInv' /\ UNCHANGED requestVars
<1>1. UNCHANGED requestVars
  BY DEF ClientLeaves, Operator, Watchdog, Login, Revoke, CoolingEnds, CheckExpires,
         AgentEnds, Quiet, RequestsUnchanged, vars
<1> QED
  BY <1>1 DEF RotationInv, Rotation, Attempting, requestVars

LEMMA NextRotates == IInv /\ RotationInv /\ [Next]_vars => RotationInv'
  BY StepRotates, ArriveStep, AroundRotates DEF IInv, Next

LEMMA Rotates == Spec => []RotationInv
  BY InitRotation, NextRotates, Invariance, PTL DEF Spec

\* No account is tried twice for one request, and a request that names a
\* conversation tries its owner once and nobody else (chatCompletions: tried
\* is filled with every pick, and a named conversation ends the loop at i > 0).
THEOREM RotationIsExact == Spec => []RotationExact
<1>1. RotationInv /\ TypeOK => RotationExact
  <2> SUFFICES ASSUME RotationInv, TypeOK, NEW r \in Request
               PROVE  IF forced[r] = Absent
                      THEN answer[r] \notin {"ok", "bad"} =>
                              Cardinality(tried[r]) = attempt[r]
                                  + (IF InAttempt(r) THEN 1 ELSE 0)
                      ELSE tried[r] = {} /\ acct[r] \in {forced[r], Absent} /\ attempt[r] <= 1
    BY DEF RotationExact
  <2>1. Rotation(r)
    BY DEF RotationInv
  <2>2. Attempting(r) <=> InAttempt(r)
    BY DEF Attempting, Busy, InAttempt
  <2> QED
    BY <2>1, <2>2 DEF Rotation
<1> QED
  BY <1>1, Rotates, TypeCorrect, PTL

----------------------------------------------------------------------------
(* RefusalJustified. *)

\* steady loses every account that stops being healthy.
SteadyIsHealthy == \A r \in Request : steady[r] \subseteq HealthyIn(pool)

RefusalInv == SteadyIsHealthy /\ RefusalJustified

\* A change of the pool takes accounts out of steady and never adds one.
PoolStep == (\E a \in Account, s \in AccountState : SetAccount(a, s)) \/ UNCHANGED <<pool, steady>>

LEMMA PoolStepKeepsSteady ==
    ASSUME TypeOK, SteadyIsHealthy, PoolStep
    PROVE  SteadyIsHealthy' /\ \A r \in Request : steady'[r] \subseteq steady[r]
  BY DEF TypeOK, SteadyIsHealthy, PoolStep, SetAccount, HealthyIn

LEMMA OpsStayInType ==
    ASSUME TypeOK, NEW a \in Account
    PROVE  /\ {Banned(pool[a]), Thawed(pool[a]), Unfrozen(pool[a]), Cooled(pool[a]),
               Erred(pool[a]), Succeeded(pool[a]), Relogged(pool[a]), Enabled(pool[a], 0),
               [pool[a] EXCEPT !.cooling = FALSE]} \subseteq AccountState
           /\ \A b \in 0..MaxBalance : WithBalance(pool[a], b) \in AccountState
<1>1. pool[a] \in AccountState
  BY DEF TypeOK
<1>2. 0 \in 0..MaxBalance
  BY BalanceAssumption
<1>3. [pool[a] EXCEPT !.cooling = FALSE] \in AccountState
  BY <1>1 DEF AccountState
<1> QED
  BY <1>1, <1>2, <1>3, OpsTyped

LEMMA StepsChangePool ==
    ASSUME IInv, \/ \E r \in Request : Step(r) \/ ClientLeaves(r)
                 \/ \E a \in Account :
                      \/ Operator(a) \/ Watchdog(a) \/ Login(a) \/ Revoke(a)
                      \/ CoolingEnds(a) \/ CheckExpires(a)
                 \/ \E t \in agents : AgentEnds(t)
                 \/ Quiet \/ UNCHANGED vars
    PROVE  PoolStep
<1>1. ASSUME NEW a \in Account, Operator(a) \/ Watchdog(a) \/ Login(a) \/ CoolingEnds(a)
      PROVE  PoolStep
  BY <1>1, OpsStayInType
  DEF IInv, Operator, Watchdog, Login, CoolingEnds, DisableAccount, PoolStep
<1>2. ASSUME NEW r \in Request, PingRejected(r) \/ PingFails(r) \/ Charge(r) \/ Finish(r)
      PROVE  PoolStep
  <2>1. acct[r] \in Account
    BY <1>2 DEF IInv, AttemptHasAccount, Busy, PingRejected, PingFails, Charge, Finish, Reply, Goto
  <2> QED
    BY <1>2, <2>1, OpsStayInType
    DEF IInv, PingRejected, PingFails, Charge, Finish, DisableAccount, PoolStep
<1>3. ASSUME NEW r \in Request,
             \/ PickAccount(r) \/ PickOwner(r) \/ Refuse(r) \/ ValidateCached(r) \/ PingToken(r)
             \/ PingAccepted(r) \/ Lock(r) \/ PlanCompares(r) \/ PlanRejects(r) \/ PlanPanics(r)
             \/ Plan(r) \/ DriveOK(r) \/ PollReturns(r) \/ ClientLeaves(r)
      PROVE  PoolStep
  BY <1>3
  DEF PoolStep, PoolUnchanged, PickAccount, PickOwner, Refuse, ValidateCached, PingToken,
      PingAccepted, Lock, PlanCompares, PlanRejects, PlanPanics, Plan, DriveOK, PollReturns,
      ClientLeaves
<1>4. ASSUME NEW r \in Request, NEW e \in Errors, NEW started \in BOOLEAN,
             PollFails(r, e) \/ DriveFails(r, e, started) \/ DriveRetries(r, started)
      PROVE  PoolStep
  BY <1>4 DEF PoolStep, PoolUnchanged, PollFails, DriveFails, DriveRetries
<1>5. CASE \/ \E a \in Account : Revoke(a) \/ CheckExpires(a)
           \/ \E t \in agents : AgentEnds(t)
           \/ Quiet \/ UNCHANGED vars
  BY <1>5 DEF PoolStep, PoolUnchanged, Revoke, CheckExpires, AgentEnds, Quiet, vars
<1> QED
  BY <1>1, <1>2, <1>3, <1>4, <1>5 DEF Step, Errors

\* Nobody but the request itself changes what RefusalJustified says of it.
LEMMA RefusalKept ==
    ASSUME RefusalJustified, NEW r \in Request,
           answer'[r] = "unavailable" => answer[r] = "unavailable",
           forced'[r] = forced[r], attempt'[r] = attempt[r], tried'[r] = tried[r],
           steady'[r] \subseteq steady[r]
    PROVE  answer'[r] = "unavailable" /\ forced'[r] = Absent /\ attempt'[r] < MaxRotate =>
              steady'[r] \subseteq tried'[r]
  BY DEF RefusalJustified

\* A request that has not been answered keeps RefusalJustified by that alone.
LEMMA Unanswered ==
    ASSUME TypeOK, RotationInv, NEW r \in Request, Step(r), ~Refuse(r)
    PROVE  answer'[r] # "unavailable"
<1>1. pc[r] # "done"
  BY DEF Step, PickAccount, PickOwner, ValidateCached, PingToken, PingAccepted, PingRejected,
         PingFails, Lock, PlanCompares, PlanRejects, PlanPanics, Plan, DriveRetries, DriveOK,
         DriveFails, Driving, PollReturns, PollFails, Charge, Finish, Reply, Goto
<1>2. answer[r] = "none"
  BY <1>1 DEF RotationInv, Rotation
<1>3. answer' = answer \/ answer'[r] \in {"ok", "bad"}
  BY DEF TypeOK, Step, PickAccount, PickOwner, ValidateCached, PingToken, PingAccepted,
         PingRejected, PingFails, Lock, PlanCompares, PlanRejects, PlanPanics, Plan,
         DriveRetries, DriveOK, DriveFails, PollReturns, PollFails, Charge, Finish, Reply
<1> QED
  BY <1>2, <1>3

LEMMA OthersUntouched ==
    ASSUME TypeOK, NEW r \in Request, Step(r) \/ \E f \in Account \cup {Absent} : Arrive(r, f)
    PROVE  OnlyOf(r)
<1> USE DEF TypeOK, OnlyOf, Goto, Reply, NextAttempt
<1>1. ASSUME NEW f \in Account \cup {Absent}, Arrive(r, f) PROVE OnlyOf(r)
  BY <1>1 DEF Arrive
<1>2. CASE PickAccount(r) \/ PickOwner(r) \/ Refuse(r) \/ ValidateCached(r) \/ PingToken(r)
  BY <1>2 DEF PickAccount, PickOwner, Refuse, ValidateCached, PingToken
<1>3. CASE PingAccepted(r) \/ PingRejected(r) \/ PingFails(r) \/ Lock(r) \/ PlanRejects(r)
  BY <1>3 DEF PingAccepted, PingRejected, PingFails, Lock, PlanRejects
<1>4. CASE \/ PlanCompares(r) \/ PlanPanics(r) \/ Plan(r) \/ DriveOK(r) \/ PollReturns(r)
           \/ Charge(r) \/ Finish(r)
  BY <1>4 DEF PlanCompares, PlanPanics, Plan, DriveOK, Driving, PollReturns, Charge, Finish
<1>5. ASSUME NEW e \in Errors, NEW started \in BOOLEAN,
             PollFails(r, e) \/ DriveFails(r, e, started) \/ DriveRetries(r, started)
      PROVE  OnlyOf(r)
  BY <1>5 DEF PollFails, DriveFails, Driving, DriveRetries
<1> QED
  BY <1>1, <1>2, <1>3, <1>4, <1>5 DEF Step, Errors

LEMMA NextRefusal == IInv /\ RotationInv /\ RefusalInv /\ [Next]_vars => RefusalInv'
<1> SUFFICES ASSUME IInv, RotationInv, RefusalInv, [Next]_vars PROVE RefusalInv'
  OBVIOUS
<1> DEFINE Justified(r) == answer[r] = "unavailable" /\ forced[r] = Absent /\ attempt[r] < MaxRotate
                              => steady[r] \subseteq tried[r]
<1>1. ASSUME NEW r \in Request, NEW f \in Account \cup {Absent}, Arrive(r, f)
      PROVE  RefusalInv'
  <2>1. pool' = pool /\ steady' = [steady EXCEPT ![r] = HealthyIn(pool)] /\ OnlyOf(r)
    BY <1>1, OthersUntouched DEF IInv, Arrive
  <2>2. SteadyIsHealthy'
    BY <2>1 DEF IInv, TypeOK, RefusalInv, SteadyIsHealthy, HealthyIn
  <2>3. answer'[r] = "unavailable" => forced'[r] # Absent
    BY <1>1 DEF IInv, TypeOK, RotationInv, Rotation, Arrive, Reply, Goto
  <2>4. \A q \in Request \ {r} : Justified(q)'
    BY <2>1, RefusalKept DEF IInv, TypeOK, RefusalInv, OnlyOf
  <2> QED
    BY <2>2, <2>3, <2>4 DEF RefusalInv, RefusalJustified
<1>2. ASSUME NEW r \in Request, Step(r)
      PROVE  RefusalInv'
  <2>1. SteadyIsHealthy' /\ \A q \in Request : steady'[q] \subseteq steady[q]
    BY <1>2, StepsChangePool, PoolStepKeepsSteady DEF IInv, RefusalInv
  <2>2. \A q \in Request \ {r} : Justified(q)'
    BY <1>2, <2>1, OthersUntouched, RefusalKept DEF IInv, RefusalInv, OnlyOf
  <2>3. CASE ~Refuse(r)
    BY <1>2, <2>1, <2>2, <2>3, Unanswered DEF IInv, RefusalInv, RefusalJustified
  <2>4. CASE Refuse(r)
    <3>1. /\ attempt' = attempt /\ forced' = forced /\ tried' = tried /\ steady' = steady
          /\ attempt[r] \in Nat
      BY <2>4, RotateAssumption DEF IInv, TypeOK, Refuse, PoolUnchanged
    <3>2. ASSUME forced[r] = Absent, attempt[r] < MaxRotate
          PROVE  Candidates(pool, tried[r]) = {}
      BY <2>4, <3>1, <3>2, RotateAssumption DEF Refuse
    <3>3. HealthyIn(pool) \subseteq Members(pool)
      BY AbsentAssumption DEF IInv, TypeOK, HealthyIn, Members, AccountState
    <3>4. Justified(r)'
      BY <3>1, <3>2, <3>3 DEF RefusalInv, SteadyIsHealthy, Candidates, HealthyIn
    <3> QED
      BY <2>1, <2>2, <3>4 DEF RefusalInv, RefusalJustified
  <2> QED
    BY <2>3, <2>4
<1>3. CASE \/ \E r \in Request : ClientLeaves(r)
           \/ \E a \in Account :
                \/ Operator(a) \/ Watchdog(a) \/ Login(a) \/ Revoke(a)
                \/ CoolingEnds(a) \/ CheckExpires(a)
           \/ \E t \in agents : AgentEnds(t)
           \/ Quiet \/ UNCHANGED vars
  <2>1. SteadyIsHealthy' /\ \A q \in Request : steady'[q] \subseteq steady[q]
    BY <1>3, StepsChangePool, PoolStepKeepsSteady DEF IInv, RefusalInv
  <2>2. UNCHANGED requestVars
    BY <1>3, AroundRotates
  <2> QED
    BY <2>1, <2>2, RefusalKept DEF RefusalInv, RefusalJustified, requestVars
<1> QED
  BY <1>1, <1>2, <1>3 DEF Next

\* A free request is refused only after MaxRotate attempts or when it has tried
\* every account that was healthy from its arrival on (chatCompletions breaks
\* off the loop only when PickExcluding finds nobody).
THEOREM RefusalIsJustified == Spec => []RefusalJustified
<1>1. Init => RefusalInv
  BY DEF Init, RefusalInv, SteadyIsHealthy, RefusalJustified
<1>2. RefusalInv => RefusalJustified
  BY DEF RefusalInv
<1> QED
  BY <1>1, <1>2, NextRefusal, Invariance, Rotates, PTL DEF Spec
=============================================================================
