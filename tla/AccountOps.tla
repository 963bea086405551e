------------------------------ MODULE AccountOps ------------------------------
(***************************************************************************)
(* One account of the pool, and what each method of internal/pool/pool.go  *)
(* does to it.  The module has no state: the modules that keep a pool (in  *)
(* memory, in the state file, in a request's hands) apply these operators. *)
(*                                                                         *)
(* Abstractions.  coolUntil is a flag, cooling: a cooldown of any length   *)
(* ends at a moment the modules leave open.  errCount saturates at         *)
(* ErrThreshold, which is exact: the code only asks whether it is zero and *)
(* whether it has reached the threshold.  Reasons and timestamps are left  *)
(* out.  Accounts are numbers, so that < is the order of their UIDs.       *)
(***************************************************************************)
EXTENDS Integers

CONSTANTS
    Account,        \* the UIDs that may ever be in the pool
    ErrThreshold,   \* Config.ErrThreshold, at least 1 after pool.New
    MaxBalance,     \* bound on the balances the upstream reports
    Absent          \* an account that is not in the pool (or not in the file)

AccountState ==
    [disabled: BOOLEAN, cooling: BOOLEAN, errs: 0..ErrThreshold, bal: 0..MaxBalance]

ASSUME AccountAssumption == Account \subseteq Nat
ASSUME ThresholdAssumption == ErrThreshold \in Nat \ {0}
ASSUME BalanceAssumption == MaxBalance \in Nat
ASSUME AbsentAssumption == Absent \notin AccountState

\* A pool: what is known of each account, or Absent.
PoolState == [Account -> AccountState \cup {Absent}]

Members(pool) == {a \in Account : pool[a] # Absent}

NewAccount == [disabled |-> FALSE, cooling |-> FALSE, errs |-> 0, bal |-> 0]

----------------------------------------------------------------------------
(* The effects of the methods on the account they name. *)

Healthy(s) == ~s.disabled /\ ~s.cooling

Cooled(s) == [s EXCEPT !.cooling = TRUE]

\* NoteError: the count goes up, and at the threshold the account cools.
Erred(s) ==
    LET n == IF s.errs < ErrThreshold THEN s.errs + 1 ELSE ErrThreshold
    IN  [s EXCEPT !.errs = n, !.cooling = @ \/ n >= ErrThreshold]

\* NoteSuccess clears the count and leaves the cooldown alone.
Succeeded(s) == [s EXCEPT !.errs = 0]

\* Unfreeze does something only to an account that cools or has errors.
Frozen(s) == s.cooling \/ s.errs > 0
Unfrozen(s) == [s EXCEPT !.cooling = FALSE, !.errs = 0]

Banned(s) == [s EXCEPT !.disabled = TRUE]

\* Variant: the balance left after Enable is one short.
EnabledShort(s, b) == [s EXCEPT !.disabled = FALSE, !.bal = b - 1]

\* Enable always writes the balance and never touches cooldown or count.
Enabled(s, b) == [s EXCEPT !.disabled = FALSE, !.bal = b]

\* ClearCooldown leaves the count, so one more error cools the account again.
Thawed(s) == [s EXCEPT !.cooling = FALSE]

\* AddAccount on a known UID: the new token lifts the ban, nothing else.
Relogged(s) == [s EXCEPT !.disabled = FALSE]

WithBalance(s, b) == [s EXCEPT !.bal = b]

\* The methods look the account up by name and skip it when it is not there.
Apply(pool, a, s) == IF pool[a] = Absent THEN pool ELSE [pool EXCEPT ![a] = s]

----------------------------------------------------------------------------
(* PickExcluding: the healthy account with the largest balance, the        *)
(* smallest UID among equals; nothing when no account is healthy.          *)

\* Variant: accounts without balance are passed over.
SolventCandidates(pool, tried) ==
    {a \in Members(pool) \ tried : Healthy(pool[a]) /\ pool[a].bal > 0}

Candidates(pool, tried) == {a \in Members(pool) \ tried : Healthy(pool[a])}

Preferred(pool, a, b) ==
    \/ pool[a].bal > pool[b].bal
    \/ pool[a].bal = pool[b].bal /\ a <= b

\* The account PickExcluding returns, if it returns one.
Best(pool, tried) ==
    {a \in Candidates(pool, tried) : \A b \in Candidates(pool, tried) : Preferred(pool, a, b)}
=============================================================================
