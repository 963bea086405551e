---------------------------- MODULE StorageProofs -----------------------------
(***************************************************************************)
(* What the program keeps on disk.                                         *)
(*                                                                         *)
(* PoolStore, for every set of accounts, every threshold and any number of *)
(* goroutines that save, with or without p.mu: a decision stays in force   *)
(* in memory, and on disk from the first save that meets no other one, as  *)
(* long as no two saves meet; saves that fail and restarts included.       *)
(*                                                                         *)
(* AtomicFile, for any number of goroutines, versions and inodes: where    *)
(* the savers of a file exclude each other tmp+rename is atomic, because   *)
(* the one saver that runs has the temporary file to itself, so what it    *)
(* renames over the target is its own version, whole.                      *)
(***************************************************************************)
EXTENDS PoolStore, AtomicFile, TLAPS

----------------------------------------------------------------------------
(* The pool and its state file. *)

\* A decision is on record only for an account of the pool, and in force there.
InForce ==
    \A a \in Account : decided[a] # "none" => Agrees(pool[a], decided[a])

\* ... and if it is settled the file holds it.
OnDisk ==
    \A a \in settled : decided[a] # "none" => Agrees(file[a], decided[a])

\* A save that has met no other is the only one in flight, has state.json.tmp
\* to itself, and carries every decision.
LoneSave(w) ==
    /\ Others(w) = {}
    /\ pc[w] = "write" => handle[w] = "tmp"
    /\ pc[w] = "rename" => tmpFile = snap[w]
    /\ \A a \in Account : decided[a] # "none" => Agrees(snap[w][a], decided[a])

LoneSaves == \A w \in Saver : InFlight(w) /\ w \notin crossed => LoneSave(w)

\* While saves that have met are in flight nothing is settled: why it does
\* not matter what they leave in the file.
CrossedUnsettles ==
    /\ \A w \in crossed : InFlight(w)
    /\ crossed # {} => settled = {}

\* Who holds p.mu is saving, so a decision meets no snapshot that is older
\* and not known to be in flight.
LockedSaves == \A w \in mu : InFlight(w)

IInv == TypeOK /\ InForce /\ OnDisk /\ LoneSaves /\ CrossedUnsettles /\ LockedSaves

----------------------------------------------------------------------------
(* The methods of the pool. *)

\* Every method leaves a well-formed account: the error count stays within
\* the threshold and the flags are flags.
LEMMA OpsTyped ==
    ASSUME NEW s \in AccountState, NEW b \in 0..MaxBalance
    PROVE  /\ NewAccount \in AccountState
           /\ Cooled(s) \in AccountState
           /\ Erred(s) \in AccountState
           /\ Succeeded(s) \in AccountState
           /\ Unfrozen(s) \in AccountState
           /\ Banned(s) \in AccountState
           /\ Enabled(s, b) \in AccountState
           /\ Thawed(s) \in AccountState
           /\ Relogged(s) \in AccountState
           /\ WithBalance(s, b) \in AccountState
<1>1. /\ s.disabled \in BOOLEAN /\ s.cooling \in BOOLEAN
      /\ s.errs \in 0..ErrThreshold /\ s.bal \in 0..MaxBalance
  BY DEF AccountState
<1>2. Erred(s) \in AccountState
  <2> DEFINE n == IF s.errs < ErrThreshold THEN s.errs + 1 ELSE ErrThreshold
  <2>1. n \in 0..ErrThreshold
    BY <1>1, ThresholdAssumption
  <2>2. (s.cooling \/ n >= ErrThreshold) \in BOOLEAN
    OBVIOUS
  <2>3. Erred(s) = [s EXCEPT !.errs = n, !.cooling = s.cooling \/ n >= ErrThreshold]
    BY DEF Erred
  <2> HIDE DEF n
  <2> QED
    BY <2>1, <2>2, <2>3 DEF AccountState
<1>3. NewAccount \in AccountState
  BY ThresholdAssumption, BalanceAssumption DEF NewAccount, AccountState
<1>4. Succeeded(s) \in AccountState /\ Unfrozen(s) \in AccountState
  <2>1. 0 \in 0..ErrThreshold
    BY ThresholdAssumption
  <2> QED
    BY <2>1 DEF Succeeded, Unfrozen, AccountState
<1> QED
  BY <1>2, <1>3, <1>4
  DEF AccountState, Cooled, Banned, Enabled, Thawed, Relogged, WithBalance

\* Only Disable, Enable and AddAccount touch the ban: an error, a success, a
\* cooldown, its end, and a new balance leave it alone.
LEMMA OpsKeepBan ==
    ASSUME NEW s \in AccountState, NEW b \in 0..MaxBalance
    PROVE  /\ Cooled(s).disabled = s.disabled
           /\ Erred(s).disabled = s.disabled
           /\ Succeeded(s).disabled = s.disabled
           /\ Unfrozen(s).disabled = s.disabled
           /\ Thawed(s).disabled = s.disabled
           /\ WithBalance(s, b).disabled = s.disabled
           /\ Banned(s).disabled
           /\ ~Enabled(s, b).disabled
BY DEF AccountState, Cooled, Erred, Succeeded, Unfrozen, Thawed, WithBalance, Banned, Enabled

\* The lookup by name keeps the pool well-formed and touches one account.
LEMMA ApplyTyped ==
    ASSUME NEW among \in PoolState, NEW a \in Account, NEW s,
           among[a] # Absent => s \in AccountState
    PROVE  Apply(among, a, s) \in PoolState
BY DEF Apply, PoolState

----------------------------------------------------------------------------
LEMMA AbsentIsNoAccount == \A s \in AccountState : s # Absent
BY AbsentAssumption

LEMMA InitTyped == Init => TypeOK
<1> SUFFICES ASSUME Init PROVE TypeOK
  OBVIOUS
<1>1. \A D \in SUBSET Account : InDir(D) \in PoolState
  BY ThresholdAssumption, BalanceAssumption
  DEF InDir, PoolState, NewAccount, AccountState
<1>2. NoEntries \in PoolState
  BY DEF NoEntries, PoolState
<1> QED
  BY <1>1, <1>2 DEF Init, TypeOK

LEMMA InitIInv == Init => IInv
<1> SUFFICES ASSUME Init PROVE IInv
  OBVIOUS
<1>1. TypeOK
  BY InitTyped
<1>2. /\ \A a \in Account : decided[a] = "none"
      /\ \A w \in Saver : ~InFlight(w)
      /\ settled = {} /\ crossed = {} /\ mu = {}
  BY DEF Init, InFlight
<1> QED
  BY <1>1, <1>2 DEF IInv, InForce, OnDisk, LoneSaves, CrossedUnsettles, LockedSaves

----------------------------------------------------------------------------
(* Changes of the pool that save nothing.  What they may do to a decision  *)
(* is to forget it, or to leave it in force.                               *)

Forgets ==
    \A a \in Account : decided'[a] # "none" =>
        decided'[a] = decided[a] /\ Agrees(pool'[a], decided'[a])

LEMMA UnsavedStep ==
    ASSUME IInv, pool' \in PoolState,
           decided' \in [Account -> {"none", "disabled", "enabled"}],
           Forgets, UNCHANGED <<diskVars, saveVars, settled>>
    PROVE  IInv'
<1> USE DEF diskVars, saveVars
<1>1. TypeOK'
  BY DEF IInv, TypeOK
<1>2. InForce' /\ OnDisk'
  BY DEF IInv, Forgets, InForce, OnDisk, TypeOK
<1>3. \A w \in Saver : /\ InFlight(w)' <=> InFlight(w)
                       /\ Others(w)' = Others(w)
  BY DEF InFlight, Others
<1>4. LoneSaves'
  BY <1>3 DEF IInv, LoneSaves, LoneSave, Forgets
<1>5. CrossedUnsettles' /\ LockedSaves'
  BY <1>3 DEF IInv, TypeOK, CrossedUnsettles, LockedSaves
<1> QED
  BY <1>1, <1>2, <1>4, <1>5 DEF IInv

\* A method that looks account a up and leaves its ban alone.
LEMMA BanKept ==
    ASSUME IInv, NEW a \in Account, NEW s,
           pool[a] # Absent => s \in AccountState /\ s.disabled = pool[a].disabled,
           pool' = Apply(pool, a, s), decided' = decided
    PROVE  pool' \in PoolState /\ Forgets
<1>1. pool' \in PoolState
  BY ApplyTyped DEF IInv, TypeOK
<1>2. \A b \in Account : /\ pool'[b] = Absent <=> pool[b] = Absent
                         /\ pool[b] # Absent => pool'[b].disabled = pool[b].disabled
  BY AbsentIsNoAccount DEF IInv, TypeOK, Apply, PoolState
<1>3. Forgets
  BY <1>2 DEF IInv, InForce, Forgets, Agrees
<1> QED
  BY <1>1, <1>3

LEMMA QuietMethodStep ==
    ASSUME IInv, NEW a \in Account, NEW b \in 0..MaxBalance,
           NoteSuccess(a) \/ SetBalance(a, b) \/ CoolingEnds(a)
    PROVE  IInv'
<1>1. pool[a] # Absent => pool[a] \in AccountState
  BY DEF IInv, TypeOK, PoolState
<1>2. decided \in [Account -> {"none", "disabled", "enabled"}]
  BY DEF IInv, TypeOK
<1>3. CASE NoteSuccess(a)
  <2>1. pool' \in PoolState /\ Forgets
    BY <1>1, <1>3, OpsTyped, OpsKeepBan, BanKept DEF NoteSuccess
  <2> QED
    BY <2>1, <1>2, <1>3, UnsavedStep DEF NoteSuccess
<1>4. CASE SetBalance(a, b)
  <2>1. pool' \in PoolState /\ Forgets
    BY <1>1, <1>4, OpsTyped, OpsKeepBan, BanKept DEF SetBalance
  <2> QED
    BY <2>1, <1>2, <1>4, UnsavedStep DEF SetBalance
<1>5. CASE CoolingEnds(a)
  <2>1. pool' = Apply(pool, a, Thawed(pool[a]))
    BY <1>5 DEF CoolingEnds, Apply, Thawed
  <2>2. Thawed(pool[a]) \in AccountState /\ Thawed(pool[a]).disabled = pool[a].disabled
    BY <1>1, <1>5, OpsTyped, OpsKeepBan DEF CoolingEnds
  <2>3. pool' \in PoolState /\ Forgets
    BY <2>1, <2>2, <1>5, BanKept DEF CoolingEnds
  <2> QED
    BY <2>3, <1>2, <1>5, UnsavedStep DEF CoolingEnds
<1> QED
  BY <1>3, <1>4, <1>5

LEMMA ValidateStep ==
    ASSUME IInv, NEW a \in Account, ValidateDisables(a)
    PROVE  IInv'
<1>1. pool[a] \in AccountState /\ Banned(pool[a]) \in AccountState
  <2>1. pool[a] \in AccountState
    BY DEF IInv, TypeOK, PoolState, ValidateDisables
  <2> QED
    BY <2>1 DEF Banned, AccountState
<1>2. pool' \in PoolState /\ decided' \in [Account -> {"none", "disabled", "enabled"}]
  BY <1>1 DEF IInv, TypeOK, ValidateDisables, PoolState
<1>3. /\ \A b \in Account \ {a} : pool'[b] = pool[b] /\ decided'[b] = decided[b]
      /\ pool'[a].disabled /\ pool'[a] # Absent
      /\ decided'[a] # "none" => decided[a] = "disabled" /\ decided'[a] = "disabled"
  BY <1>1, AbsentIsNoAccount DEF IInv, TypeOK, ValidateDisables, PoolState, Banned, AccountState
<1>4. Forgets
  BY <1>3 DEF IInv, InForce, Forgets, Agrees
<1> QED
  BY <1>2, <1>4, UnsavedStep DEF ValidateDisables

\* A reload keeps the accounts it finds again.
LEMMA SyncStep ==
    ASSUME IInv, NEW D \in SUBSET Account, SyncToDir(D)
    PROVE  IInv'
<1>1. NewAccount \in AccountState
  BY ThresholdAssumption, BalanceAssumption DEF NewAccount, AccountState
<1>2. pool' \in PoolState /\ decided' \in [Account -> {"none", "disabled", "enabled"}]
  BY <1>1 DEF IInv, TypeOK, SyncToDir, PoolState
<1>3. Forgets
  BY DEF SyncToDir, IInv, InForce, Forgets, Agrees
<1> QED
  BY <1>2, <1>3, UnsavedStep DEF SyncToDir

----------------------------------------------------------------------------
(* The steps of a save. *)

\* Others(w) says who else is in flight, so a save that meets nobody leaves
\* nobody else in flight.
LEMMA BeginsCrossing ==
    ASSUME TypeOK, NEW w \in Saver, NEW p, NEW T, BeginSave(w, p, T)
    PROVE  /\ \A v \in Saver \ {w} : InFlight(v)' <=> InFlight(v)
           /\ InFlight(w)'
           /\ Others(w)' = Others(w)
           /\ \A v \in Saver \ {w} : InFlight(v) =>
                v \in Others(w) /\ Others(w) # {} /\ v \in crossed'
           /\ Others(w) # {} => w \in crossed'
BY DEF TypeOK, BeginSave, InFlight, Others

\* A save begins with the pool as it is now, in which every decision is in
\* force, the ones on accounts in T among them.
LEMMA BeginStep ==
    ASSUME IInv, NEW w \in Saver, NEW T, BeginSave(w, pool', T),
           pool' \in PoolState,
           decided' \in [Account -> {"none", "disabled", "enabled"}],
           \A a \in Account : decided'[a] # "none" => Agrees(pool'[a], decided'[a]),
           \A a \in Account \ T : decided'[a] = decided[a],
           mu' \in {mu, {w}}, UNCHANGED <<diskVars, handle>>
    PROVE  IInv'
<1> USE DEF diskVars
<1>1. TypeOK'
  BY DEF IInv, TypeOK, BeginSave, Others
<1>2. InForce'
  BY DEF InForce
<1>3. OnDisk'
  BY DEF IInv, TypeOK, OnDisk, BeginSave
<1>4. LoneSaves'
  <2> SUFFICES ASSUME NEW v \in Saver, InFlight(v)', v \notin crossed'
               PROVE  LoneSave(v)'
    BY DEF LoneSaves
  <2>1. v = w /\ Others(w) = {}
    BY BeginsCrossing DEF IInv
  <2>2. pc'[w] = "open" /\ snap'[w] = pool'
    BY DEF IInv, TypeOK, BeginSave
  <2> QED
    BY <2>1, <2>2, BeginsCrossing DEF IInv, LoneSave
<1>5. CrossedUnsettles'
  <2>1. \A v \in crossed' : v \in Saver /\ (v = w \/ InFlight(v))
    BY DEF BeginSave, Others
  <2>2. \A v \in crossed' : InFlight(v)'
    BY <2>1, BeginsCrossing DEF IInv
  <2> QED
    BY <2>2 DEF CrossedUnsettles, BeginSave
<1>6. LockedSaves'
  BY BeginsCrossing DEF IInv, TypeOK, LockedSaves
<1> QED
  BY <1>1, <1>2, <1>3, <1>4, <1>5, <1>6 DEF IInv

\* A method that saves under p.mu and leaves the ban alone.
LEMMA SavedMethodStep ==
    ASSUME IInv, NEW w \in Saver, NEW a \in Account,
           Cooldown(w, a) \/ NoteError(w, a) \/ ClearCooldown(w, a)
    PROVE  IInv'
<1>1. pool[a] # Absent => pool[a] \in AccountState
  BY DEF IInv, TypeOK, PoolState
<1>2. PICK s : /\ SaveUnderLock(w, a, s, {})
               /\ pool[a] # Absent => s \in AccountState /\ s.disabled = pool[a].disabled
               /\ decided' = decided
  <2>1. 0 \in 0..MaxBalance
    BY BalanceAssumption
  <2>2. CASE Cooldown(w, a)
    BY <1>1, <2>1, <2>2, OpsTyped, OpsKeepBan DEF Cooldown
  <2>3. CASE NoteError(w, a)
    BY <1>1, <2>1, <2>3, OpsTyped, OpsKeepBan DEF NoteError
  <2>4. CASE ClearCooldown(w, a)
    BY <1>1, <2>1, <2>4, OpsTyped, OpsKeepBan DEF ClearCooldown
  <2> QED
    BY <2>2, <2>3, <2>4
<1>3. pool' \in PoolState /\ Forgets
  BY <1>2, BanKept DEF SaveUnderLock
<1>4. decided \in [Account -> {"none", "disabled", "enabled"}]
  BY DEF IInv, TypeOK
<1> QED
  BY <1>2, <1>3, <1>4, BeginStep DEF SaveUnderLock, Forgets

\* Disable and Enable: the decision is in force at once and unsettled until
\* its save, or a later one, has come through.
LEMMA DecideStep ==
    ASSUME IInv, NEW w \in Saver, NEW a \in Account, NEW s, NEW d \in {"disabled", "enabled"},
           pool[a] # Absent =>
                s \in AccountState /\ (s.disabled <=> d = "disabled"),
           SaveUnderLock(w, a, s, {a}), Decide(a, d)
    PROVE  IInv'
<1>1. pool' = Apply(pool, a, s) /\ pool' \in PoolState
  BY ApplyTyped DEF IInv, TypeOK, SaveUnderLock
<1>2. decided' \in [Account -> {"none", "disabled", "enabled"}]
  BY DEF IInv, TypeOK, Decide
<1>3. \A b \in Account \ {a} : pool'[b] = pool[b] /\ decided'[b] = decided[b]
  BY <1>1 DEF IInv, TypeOK, Apply, PoolState, Decide
<1>4. pool[a] # Absent => pool'[a] = s /\ s # Absent /\ decided'[a] = d
  BY <1>1, AbsentIsNoAccount DEF IInv, TypeOK, Apply, PoolState, Decide
<1>5. pool[a] = Absent => decided'[a] = "none"
  BY DEF IInv, InForce, Agrees, Decide
<1>6. \A b \in Account : decided'[b] # "none" => Agrees(pool'[b], decided'[b])
  BY <1>3, <1>4, <1>5 DEF IInv, InForce, Agrees
<1> QED
  BY <1>1, <1>2, <1>3, <1>6, BeginStep DEF SaveUnderLock

\* AddAccount forgets the decision: a new token lifts the ban.
LEMMA AddAccountStep ==
    ASSUME IInv, NEW w \in Saver, NEW a \in Account, AddAccount(w, a) \/ Unfreeze(w, a)
    PROVE  IInv'
<1>1. pool[a] # Absent => pool[a] \in AccountState
  BY DEF IInv, TypeOK, PoolState
<1>2. /\ NewAccount \in AccountState
      /\ pool[a] # Absent => /\ Relogged(pool[a]) \in AccountState
                             /\ Unfrozen(pool[a]) \in AccountState
                             /\ Unfrozen(pool[a]).disabled = pool[a].disabled
  <2>1. 0 \in 0..MaxBalance
    BY BalanceAssumption
  <2>2. NewAccount \in AccountState
    BY ThresholdAssumption, BalanceAssumption DEF NewAccount, AccountState
  <2> QED
    BY <1>1, <2>1, <2>2, OpsTyped, OpsKeepBan
<1>3. /\ pool' \in PoolState
      /\ decided' \in [Account -> {"none", "disabled", "enabled"}]
  BY <1>2 DEF IInv, TypeOK, AddAccount, Unfreeze, PoolState
<1>4. Forgets
  BY <1>2, AbsentIsNoAccount
  DEF IInv, TypeOK, InForce, Forgets, Agrees, AddAccount, Unfreeze, PoolState
<1>5. /\ pc[w] = "idle" /\ pc' = [pc EXCEPT ![w] = "collect"]
      /\ UNCHANGED <<diskVars, mu, snap, handle, crossed, settled>>
  BY DEF AddAccount, Unfreeze
<1>6. /\ \A v \in Saver : InFlight(v)' <=> InFlight(v)
      /\ \A v \in Saver : InFlight(v) => pc'[v] = pc[v]
  BY <1>5 DEF IInv, TypeOK, InFlight
<1>7. \A v \in Saver : Others(v)' = Others(v)
  BY <1>6 DEF Others
<1>8. TypeOK'
  BY <1>3, <1>5 DEF IInv, TypeOK, diskVars
<1>9. InForce' /\ OnDisk'
  BY <1>4, <1>5 DEF IInv, TypeOK, Forgets, InForce, OnDisk, diskVars
<1>10. LoneSaves'
  BY <1>4, <1>5, <1>6, <1>7 DEF IInv, LoneSaves, LoneSave, Forgets, diskVars
<1>11. CrossedUnsettles' /\ LockedSaves'
  BY <1>5, <1>6 DEF IInv, TypeOK, CrossedUnsettles, LockedSaves
<1> QED
  BY <1>8, <1>9, <1>10, <1>11 DEF IInv

LEMMA CollectStep ==
    ASSUME IInv, NEW w \in Saver, SaveCollects(w)
    PROVE  IInv'
<1>1. /\ BeginSave(w, pool', {}) /\ pool' = pool /\ decided' = decided /\ mu' = mu
      /\ UNCHANGED <<diskVars, handle>>
  BY DEF SaveCollects
<1>2. /\ pool \in PoolState
      /\ decided \in [Account -> {"none", "disabled", "enabled"}]
      /\ \A a \in Account : decided[a] # "none" => Agrees(pool[a], decided[a])
  BY DEF IInv, TypeOK, InForce
<1> QED
  BY <1>1, <1>2, BeginStep

\* A step of a save that stays in flight.
LEMMA ContinueStep ==
    ASSUME IInv, NEW w \in Saver, NEW to \in {"write", "rename"},
           InFlight(w), pc' = [pc EXCEPT ![w] = to],
           UNCHANGED <<pool, mu, snap, crossed, decided, settled>>,
           file' \in PoolState, tmpFile' \in PoolState \cup {Absent},
           handle' \in [Saver -> {"none", "tmp", "file", "gone"}],
           w \notin crossed =>
                /\ file' = file
                /\ to = "write" => handle'[w] = "tmp"
                /\ to = "rename" => tmpFile' = snap[w]
    PROVE  IInv'
<1>1. TypeOK'
  BY DEF IInv, TypeOK
<1>2. /\ \A v \in Saver : InFlight(v)' <=> InFlight(v)
      /\ pc'[w] = to
  BY DEF IInv, TypeOK, InFlight
<1>3. \A v \in Saver : Others(v)' = Others(v)
  BY <1>2 DEF Others
<1>4. OnDisk'
  BY DEF IInv, OnDisk, CrossedUnsettles
<1>5. LoneSaves'
  <2> SUFFICES ASSUME NEW v \in Saver, InFlight(v), v \notin crossed
               PROVE  LoneSave(v)'
    BY <1>2 DEF LoneSaves
  <2>1. LoneSave(v) /\ v = w
    BY DEF IInv, LoneSaves, LoneSave, Others
  <2> QED
    BY <1>2, <1>3, <2>1 DEF LoneSave
<1>6. CrossedUnsettles' /\ LockedSaves' /\ InForce'
  BY <1>2 DEF IInv, TypeOK, CrossedUnsettles, LockedSaves, InForce
<1> QED
  BY <1>1, <1>4, <1>5, <1>6 DEF IInv

LEMMA NoEntriesTyped == NoEntries \in PoolState
BY DEF NoEntries, PoolState

LEMMA OpenStep ==
    ASSUME IInv, NEW w \in Saver, SaveOpens(w)
    PROVE  IInv'
<1>1. InFlight(w) /\ pc' = [pc EXCEPT ![w] = "write"] /\ file' = file
  BY DEF SaveOpens, InFlight
<1>2. tmpFile' \in PoolState \cup {Absent}
  BY NoEntriesTyped DEF SaveOpens
<1>3. handle' \in [Saver -> {"none", "tmp", "file", "gone"}] /\ handle'[w] = "tmp"
  BY DEF IInv, TypeOK, SaveOpens
<1>4. file' \in PoolState
  BY <1>1 DEF IInv, TypeOK
<1> QED
  BY <1>1, <1>2, <1>3, <1>4, ContinueStep DEF SaveOpens

LEMMA WriteStep ==
    ASSUME IInv, NEW w \in Saver, SaveWrites(w)
    PROVE  IInv'
<1>1. PICK c \in {snap[w]} \cup (IF w \in crossed THEN {NoEntries} ELSE {}) : Holds(w, c)
  BY DEF SaveWrites
<1>2. c \in PoolState
  BY <1>1, NoEntriesTyped DEF IInv, TypeOK
<1>3. InFlight(w) /\ pc' = [pc EXCEPT ![w] = "rename"]
  BY DEF SaveWrites, InFlight
<1>4. file' \in PoolState /\ tmpFile' \in PoolState \cup {Absent}
  BY <1>1, <1>2 DEF IInv, TypeOK, Holds
<1>5. handle' \in [Saver -> {"none", "tmp", "file", "gone"}]
  BY DEF IInv, TypeOK, SaveWrites
<1>6. w \notin crossed => c = snap[w] /\ handle[w] = "tmp"
  BY <1>1, <1>3 DEF IInv, LoneSaves, LoneSave, SaveWrites
<1>7. w \notin crossed => file' = file /\ tmpFile' = snap[w]
  BY <1>1, <1>6 DEF Holds
<1> QED
  BY <1>3, <1>4, <1>5, <1>7, ContinueStep DEF SaveWrites

\* saveState returns: w is no longer in flight, and the others are.
LEMMA ReturnStep ==
    ASSUME IInv, NEW w \in Saver, InFlight(w), SaveReturns(w),
           UNCHANGED <<pool, decided>>,
           file' \in PoolState, tmpFile' \in PoolState \cup {Absent},
           handle' \in [Saver -> {"none", "tmp", "file", "gone"}],
           settled' \in SUBSET Account, OnDisk',
           w \in crossed => settled' = settled
    PROVE  IInv'
<1>1. TypeOK'
  BY NoEntriesTyped DEF IInv, TypeOK, SaveReturns
<1>2. /\ \A v \in Saver \ {w} : InFlight(v)' <=> InFlight(v)
      /\ ~InFlight(w)'
  BY DEF IInv, TypeOK, SaveReturns, InFlight
<1>3. \A v \in Saver : InFlight(v)' => v \in crossed'
  <2> SUFFICES ASSUME NEW v \in Saver, v # w, InFlight(v)
               PROVE  v \in crossed
    BY <1>2 DEF SaveReturns
  <2>1. w \in Others(v)
    BY DEF Others
  <2> QED
    BY <2>1 DEF IInv, LoneSaves, LoneSave
<1>4. LoneSaves'
  BY <1>3 DEF LoneSaves
<1>5. CrossedUnsettles'
  <2>1. \A v \in crossed' : v \in crossed /\ v \in Saver /\ v # w
    BY DEF IInv, TypeOK, SaveReturns
  <2>2. \A v \in crossed' : InFlight(v)'
    BY <1>2, <2>1 DEF IInv, CrossedUnsettles
  <2>3. CASE w \in crossed
    BY <2>1, <2>2, <2>3 DEF IInv, CrossedUnsettles
  <2>4. CASE w \notin crossed
    <3>1. Others(w) = {}
      BY <2>4 DEF IInv, LoneSaves, LoneSave
    <3>2. crossed' = {}
      BY <2>1, <3>1 DEF IInv, CrossedUnsettles, Others
    <3> QED
      BY <3>2 DEF CrossedUnsettles
  <2> QED
    BY <2>3, <2>4
<1>6. LockedSaves' /\ InForce'
  BY <1>2 DEF IInv, TypeOK, LockedSaves, InForce, SaveReturns
<1> QED
  BY <1>1, <1>4, <1>5, <1>6 DEF IInv

\* A save that fails leaves the file alone, unless a rename of another save
\* has turned its temporary file into it.
LEMMA FailStep ==
    ASSUME IInv, NEW w \in Saver, SaveFails(w)
    PROVE  IInv'
<1>1. InFlight(w)
  BY DEF SaveFails, InFlight
<1>2. file' \in PoolState /\ tmpFile' \in PoolState \cup {Absent}
  BY NoEntriesTyped DEF IInv, TypeOK, SaveFails, Holds, diskVars
<1>3. handle' \in [Saver -> {"none", "tmp", "file", "gone"}]
  BY DEF IInv, TypeOK, SaveFails
<1>4. settled' \in SUBSET Account /\ settled' = settled
  BY DEF IInv, TypeOK, SaveFails
<1>5. OnDisk'
  <2>1. CASE w \in crossed
    BY <1>4, <2>1 DEF IInv, CrossedUnsettles, OnDisk
  <2>2. CASE w \notin crossed /\ pc[w] = "write"
    <3>1. handle[w] = "tmp"
      BY <1>1, <2>2 DEF IInv, LoneSaves, LoneSave
    <3>2. file' = file
      BY <3>1 DEF SaveFails, Holds, diskVars
    <3> QED
      BY <3>2 DEF IInv, OnDisk, SaveFails
  <2>3. CASE pc[w] = "open"
    BY <2>3 DEF IInv, OnDisk, SaveFails, diskVars
  <2> QED
    BY <2>1, <2>2, <2>3 DEF SaveFails
<1> QED
  BY <1>1, <1>2, <1>3, <1>4, <1>5, ReturnStep DEF SaveFails

\* The rename of a save that has met no other settles every decision.
LEMMA RenameStep ==
    ASSUME IInv, NEW w \in Saver, SaveRenames(w)
    PROVE  IInv'
<1>1. InFlight(w) /\ UNCHANGED <<pool, decided>>
  BY DEF SaveRenames, InFlight
<1>2. CASE UNCHANGED <<diskVars, handle, settled>>
  <2>1. OnDisk'
    BY <1>1, <1>2 DEF IInv, OnDisk, diskVars
  <2>2. /\ file' \in PoolState /\ tmpFile' \in PoolState \cup {Absent}
        /\ handle' \in [Saver -> {"none", "tmp", "file", "gone"}]
        /\ settled' \in SUBSET Account
    BY <1>2 DEF IInv, TypeOK, diskVars
  <2> QED
    BY <1>1, <1>2, <2>1, <2>2, ReturnStep DEF SaveRenames
<1>3. CASE /\ tmpFile # Absent /\ file' = tmpFile /\ tmpFile' = Absent
           /\ handle' = [v \in Saver |-> CASE handle[v] = "tmp" -> "file"
                                           [] handle[v] = "file" -> "gone"
                                           [] OTHER -> handle[v]]
           /\ settled' = IF w \in crossed THEN settled ELSE Account
  <2>1. /\ file' \in PoolState /\ tmpFile' \in PoolState \cup {Absent}
        /\ settled' \in SUBSET Account
    BY <1>3 DEF IInv, TypeOK
  <2>2. handle' \in [Saver -> {"none", "tmp", "file", "gone"}]
    BY <1>3 DEF IInv, TypeOK
  <2>3. OnDisk'
    <3>1. CASE w \in crossed
      BY <1>3, <3>1 DEF IInv, CrossedUnsettles, OnDisk
    <3>2. CASE w \notin crossed
      <4>1. LoneSave(w) /\ pc[w] = "rename"
        BY <1>1, <3>2 DEF IInv, LoneSaves, SaveRenames
      <4>2. file' = snap[w]
        BY <1>3, <4>1 DEF LoneSave
      <4> QED
        BY <1>1, <2>1, <4>1, <4>2 DEF LoneSave, OnDisk
    <3> QED
      BY <3>1, <3>2
  <2> QED
    BY <1>1, <1>3, <2>1, <2>2, <2>3, ReturnStep DEF SaveRenames
<1> QED
  BY <1>2, <1>3 DEF SaveRenames

----------------------------------------------------------------------------
\* A restart goes back to the file, which holds the decisions that are settled.
LEMMA RestartStep ==
    ASSUME IInv, NEW D \in SUBSET Account, Restart(D)
    PROVE  IInv'
<1>1. NewAccount \in AccountState
  BY ThresholdAssumption, BalanceAssumption DEF NewAccount, AccountState
<1>2. TypeOK'
  BY <1>1, NoEntriesTyped DEF IInv, TypeOK, Restart, PoolState, diskVars
<1>3. \A a \in Account : decided'[a] # "none" =>
            /\ a \in D /\ a \in settled /\ decided'[a] = decided[a]
            /\ pool'[a] = IF file[a] = Absent THEN NewAccount ELSE file[a]
  BY DEF Restart
<1>4. InForce'
  BY <1>3 DEF IInv, OnDisk, InForce, Agrees
<1>5. OnDisk'
  BY <1>3 DEF IInv, OnDisk, Restart, diskVars, TypeOK
<1>6. \A w \in Saver : ~InFlight(w)'
  BY DEF Restart, InFlight
<1> QED
  BY <1>2, <1>4, <1>5, <1>6
  DEF IInv, LoneSaves, CrossedUnsettles, LockedSaves, Restart

LEMMA Inductive == IInv /\ [Next]_vars => IInv'
<1> SUFFICES ASSUME IInv, [Next]_vars PROVE IInv'
  OBVIOUS
<1>1. CASE UNCHANGED vars
  <2>1. pool \in PoolState /\ decided \in [Account -> {"none", "disabled", "enabled"}]
    BY DEF IInv, TypeOK
  <2> QED
    BY <1>1, <2>1, UnsavedStep DEF vars, IInv, InForce, Forgets
<1>2. ASSUME NEW a \in Account, NoteSuccess(a) \/ CoolingEnds(a)
      PROVE  IInv'
  <2>1. 0 \in 0..MaxBalance
    BY BalanceAssumption
  <2> QED
    BY <1>2, <2>1, QuietMethodStep
<1>3. ASSUME NEW a \in Account, NEW b \in 0..MaxBalance, SetBalance(a, b)
      PROVE  IInv'
  BY <1>3, QuietMethodStep
<1>4. ASSUME NEW w \in Saver, NEW a \in Account, Disable(w, a)
      PROVE  IInv'
  <2>1. pool[a] # Absent => pool[a] \in AccountState
    BY DEF IInv, TypeOK, PoolState
  <2>2. 0 \in 0..MaxBalance
    BY BalanceAssumption
  <2>3. pool[a] # Absent => Banned(pool[a]) \in AccountState /\ Banned(pool[a]).disabled
    BY <2>1, <2>2, OpsTyped, OpsKeepBan
  <2> QED
    BY <1>4, <2>3, DecideStep DEF Disable
<1>5. ASSUME NEW w \in Saver, NEW a \in Account, NEW b \in 0..MaxBalance, Enable(w, a, b)
      PROVE  IInv'
  <2>1. pool[a] # Absent => pool[a] \in AccountState
    BY DEF IInv, TypeOK, PoolState
  <2>2. pool[a] # Absent =>
            Enabled(pool[a], b) \in AccountState /\ ~Enabled(pool[a], b).disabled
    BY <2>1, OpsTyped, OpsKeepBan
  <2> QED
    BY <1>5, <2>2, DecideStep DEF Enable
<1> QED
  BY <1>1, <1>2, <1>3, <1>4, <1>5, ValidateStep, SyncStep, SavedMethodStep, AddAccountStep,
     CollectStep, OpenStep, WriteStep, FailStep, RenameStep, RestartStep
  DEF Next

----------------------------------------------------------------------------
THEOREM Invariance == Spec => []IInv
<1>1. Init => IInv
  BY InitIInv
<1>2. IInv /\ [Next]_vars => IInv'
  BY Inductive
<1> QED
  BY <1>1, <1>2, PTL DEF Spec

\* The pool, the file and every snapshot of a save are well-formed.
THEOREM TypeCorrect == Spec => []TypeOK
<1>1. IInv => TypeOK
  BY DEF IInv
<1> QED
  BY <1>1, Invariance, PTL

\* A Disable or Enable stays in force in memory until the account gets a new
\* token or leaves the directory; and from the first saveState that completes
\* without meeting another one it is in the state file, whatever fails, is left
\* behind or is restarted, until two saves meet.
THEOREM DecisionsHold == Spec => []DecisionHolds
<1>1. IInv => DecisionHolds
  BY DEF IInv, InForce, OnDisk, DecisionHolds
<1> QED
  BY <1>1, Invariance, PTL

----------------------------------------------------------------------------
(* A file that is saved by way of a temporary one. *)

\* A save that is under way has the lock.
SaverHoldsLock == \A w \in Writer : stage[w] # "idle" => mutex = w

\* The temporary file is never the file itself.
NamesApart == tmp # None => tmp # target

\* Between O_TRUNC and the write the temporary file is empty, between the
\* write and the rename it holds the version that is being saved.
TmpTracksSave ==
    \A w \in Writer :
        /\ stage[w] = "write" => tmp # None /\ fd[w] = tmp /\ data[tmp] = <<>>
        /\ stage[w] = "rename" => tmp # None /\ data[tmp] = Contents(saving[w])

FileInv == FileTypeOK /\ SaverHoldsLock /\ NamesApart /\ TmpTracksSave /\ AlwaysWhole

----------------------------------------------------------------------------
LEMMA ContentsTyped ==
    ASSUME NEW v \in Version
    PROVE  /\ Contents(v) \in Seq(Version)
           /\ Contents(v) # <<>>
           /\ Contents(v)[1] = v
<1>1. v \in Nat \ {0}
  BY VersionAssumption
<1>2. Contents(v) \in [1..v -> Version]
  BY DEF Contents
<1>3. Contents(v) \in Seq(Version) /\ Len(Contents(v)) = v
  BY <1>1, <1>2
<1>4. 1 \in 1..v
  BY <1>1
<1> QED
  BY <1>1, <1>3, <1>4 DEF Contents

\* The first write to an empty file leaves exactly the version.
LEMMA OverlaidEmpty ==
    ASSUME NEW v \in Version
    PROVE  Overlaid(<<>>, v, v) = Contents(v)
BY VersionAssumption DEF Overlaid, Contents

LEMMA OverlaidTyped ==
    ASSUME NEW s \in Seq(Version), NEW v \in Version, NEW n \in Nat
    PROVE  Overlaid(s, v, n) \in Seq(Version)
<1> DEFINE m == IF n < Len(s) THEN Len(s) ELSE n
<1>1. m \in Nat
  OBVIOUS
<1>2. Overlaid(s, v, n) \in [1..m -> Version]
  BY DEF Overlaid
<1> QED
  BY <1>1, <1>2

----------------------------------------------------------------------------
LEMMA FileInitInv == FileInit => FileInv
<1> SUFFICES ASSUME FileInit PROVE FileInv
  OBVIOUS
<1>1. \A v \in Version : Contents(v) \in Seq(Version)
  BY ContentsTyped
<1>2. /\ data \in [Inode -> Seq(Version)]
      /\ target \in Inode \cup {None}
      /\ AlwaysWhole
  <2>1. CASE target = None /\ data = [i \in Inode |-> <<>>]
    BY <2>1 DEF AlwaysWhole
  <2>2. CASE \E i \in Inode, v \in Version :
                target = i /\ data = [j \in Inode |-> IF j = i THEN Contents(v) ELSE <<>>]
    BY <2>2, <1>1 DEF AlwaysWhole
  <2> QED
    BY <2>1, <2>2 DEF FileInit
<1> QED
  BY <1>2, NoneAssumption DEF FileInit, FileInv, FileTypeOK, SaverHoldsLock, NamesApart, TmpTracksSave

LEMMA FileNextInv ==
    ASSUME Locked, FileInv, [FileNext]_allVars
    PROVE  FileInv'
<1> USE DEF FileInv, Goto
<1>1. ASSUME NEW w \in Writer, NEW v \in Version, Begin(w, v)
      PROVE  FileInv'
  <2>1. mutex = None /\ \A x \in Writer : stage[x] = "idle"
    BY <1>1, NoneAssumption DEF Begin, SaverHoldsLock, FileTypeOK
  <2>2. FileTypeOK'
    BY <1>1, <2>1, NoneAssumption DEF Begin, FileTypeOK, fileVars
  <2>3. SaverHoldsLock' /\ NamesApart' /\ TmpTracksSave' /\ AlwaysWhole'
    BY <1>1, <2>1 DEF Begin, FileTypeOK, SaverHoldsLock, NamesApart, TmpTracksSave,
                      AlwaysWhole, fileVars
  <2> QED
    BY <2>2, <2>3
<1>2. ASSUME NEW w \in Writer, NEW i \in Inode, Open(w, i)
      PROVE  FileInv'
  <2>1. i # target /\ i # None
    BY <1>2, NoneAssumption DEF Open, Free, NamesApart
  <2>2. \A x \in Writer : x # w => stage[x] = "idle"
    BY <1>2, NoneAssumption DEF Open, SaverHoldsLock
  <2>3. FileTypeOK'
    BY <1>2, <2>1 DEF Open, FileTypeOK
  <2>4. SaverHoldsLock' /\ NamesApart' /\ TmpTracksSave'
    BY <1>2, <2>1, <2>2 DEF Open, FileTypeOK, SaverHoldsLock, NamesApart, TmpTracksSave
  <2>5. AlwaysWhole'
    BY <1>2, <2>1 DEF Open, FileTypeOK, AlwaysWhole
  <2> QED
    BY <2>3, <2>4, <2>5
<1>3. ASSUME NEW w \in Writer, Write(w)
      PROVE  FileInv'
  <2>1. /\ saving[w] \in Version
        /\ fd[w] = tmp /\ tmp \in Inode /\ tmp # target
        /\ data[tmp] = <<>>
    BY <1>3 DEF Write, FileTypeOK, TmpTracksSave, NamesApart
  <2>2. data' = [data EXCEPT ![tmp] = Contents(saving[w])]
    BY <1>3, <2>1, OverlaidEmpty DEF Write
  <2>3. \A x \in Writer : x # w => stage[x] = "idle"
    BY <1>3, NoneAssumption DEF Write, SaverHoldsLock
  <2>4. FileTypeOK'
    BY <1>3, <2>1, <2>2, ContentsTyped DEF Write, FileTypeOK
  <2>5. SaverHoldsLock' /\ NamesApart'
    BY <1>3 DEF Write, FileTypeOK, SaverHoldsLock, NamesApart
  <2>6. TmpTracksSave'
    BY <1>3, <2>1, <2>2, <2>3 DEF Write, FileTypeOK, TmpTracksSave
  <2>7. AlwaysWhole'
    BY <1>3, <2>1, <2>2 DEF Write, FileTypeOK, AlwaysWhole
  <2> QED
    BY <2>4, <2>5, <2>6, <2>7
<1>4. ASSUME NEW w \in Writer, WriteFails(w)
      PROVE  FileInv'
  <2>1. /\ saving[w] \in Version
        /\ fd[w] = tmp /\ tmp \in Inode /\ tmp # target
    BY <1>4 DEF WriteFails, Return, FileTypeOK, TmpTracksSave, NamesApart
  <2>2. PICK n \in 0..saving[w] - 1 :
            data' = [data EXCEPT ![tmp] = Overlaid(data[tmp], saving[w], n)]
    BY <1>4, <2>1 DEF WriteFails
  <2>3. n \in Nat
    BY <2>1, <2>2, VersionAssumption
  <2>4. Overlaid(data[tmp], saving[w], n) \in Seq(Version)
    BY <2>1, <2>3, OverlaidTyped DEF FileTypeOK
  <2>5. \A x \in Writer : x # w => stage[x] = "idle"
    BY <1>4, NoneAssumption DEF WriteFails, Return, SaverHoldsLock
  <2>6. FileTypeOK'
    BY <1>4, <2>2, <2>4 DEF WriteFails, Return, FileTypeOK
  <2>7. SaverHoldsLock' /\ NamesApart' /\ TmpTracksSave'
    BY <1>4, <2>5 DEF WriteFails, Return, FileTypeOK, SaverHoldsLock, NamesApart, TmpTracksSave
  <2>8. AlwaysWhole'
    BY <1>4, <2>1, <2>2 DEF WriteFails, FileTypeOK, AlwaysWhole
  <2> QED
    BY <2>6, <2>7, <2>8
<1>5. ASSUME NEW w \in Writer, Rename(w)
      PROVE  FileInv'
  <2>1. /\ saving[w] \in Version
        /\ tmp \in Inode /\ tmp # None /\ data[tmp] = Contents(saving[w])
    BY <1>5 DEF Rename, Return, FileTypeOK, TmpTracksSave
  <2>2. \A x \in Writer : x # w => stage[x] = "idle"
    BY <1>5, NoneAssumption DEF Rename, Return, SaverHoldsLock
  <2>3. FileTypeOK'
    BY <1>5, <2>1 DEF Rename, Return, FileTypeOK
  <2>4. SaverHoldsLock' /\ NamesApart' /\ TmpTracksSave'
    BY <1>5, <2>1, <2>2 DEF Rename, Return, FileTypeOK, SaverHoldsLock, NamesApart, TmpTracksSave
  <2>5. AlwaysWhole'
    BY <1>5, <2>1 DEF Rename, AlwaysWhole
  <2> QED
    BY <2>3, <2>4, <2>5
<1>6. ASSUME Crash
      PROVE  FileInv'
  BY <1>6 DEF Crash, FileTypeOK, SaverHoldsLock, NamesApart, TmpTracksSave, AlwaysWhole, fileVars
<1>7. ASSUME UNCHANGED allVars
      PROVE  FileInv'
  BY <1>7 DEF allVars, fileVars, writerVars, FileTypeOK, SaverHoldsLock, NamesApart, TmpTracksSave,
              AlwaysWhole
<1> QED
  BY <1>1, <1>2, <1>3, <1>4, <1>5, <1>6, <1>7 DEF FileNext

----------------------------------------------------------------------------
\* Every goroutine that saves has a file open and a version to write, and
\* nobody else has: this needs no lock, so it holds for saveState and
\* saveLocked as well.
THEOREM FileTypeCorrect == FileSpec => []FileTypeOK
<1>1. FileInit => FileTypeOK
  BY FileInitInv DEF FileInv
<1>2. FileTypeOK /\ [FileNext]_allVars => FileTypeOK'
  <2> SUFFICES ASSUME FileTypeOK, [FileNext]_allVars PROVE FileTypeOK'
    OBVIOUS
  <2> USE DEF FileTypeOK, Goto
  <2>1. ASSUME NEW w \in Writer, NEW v \in Version, Begin(w, v) PROVE FileTypeOK'
    BY <2>1, NoneAssumption DEF Begin, fileVars
  <2>2. ASSUME NEW w \in Writer, NEW i \in Inode, Open(w, i) PROVE FileTypeOK'
    BY <2>2, NoneAssumption DEF Open
  <2>3. ASSUME NEW w \in Writer, Write(w) PROVE FileTypeOK'
    <3>1. fd[w] \in Inode /\ saving[w] \in Version
      BY <2>3 DEF Write
    <3>2. Overlaid(data[fd[w]], saving[w], saving[w]) \in Seq(Version)
      BY <3>1, VersionAssumption, OverlaidTyped
    <3> QED
      BY <2>3, <3>1, <3>2 DEF Write
  <2>4. ASSUME NEW w \in Writer, WriteFails(w) PROVE FileTypeOK'
    <3>1. fd[w] \in Inode /\ saving[w] \in Version
      BY <2>4 DEF WriteFails, Return
    <3>2. PICK n \in 0..saving[w] - 1 :
              data' = [data EXCEPT ![fd[w]] = Overlaid(data[fd[w]], saving[w], n)]
      BY <2>4, <3>1 DEF WriteFails
    <3>3. n \in Nat
      BY <3>1, <3>2, VersionAssumption
    <3>4. Overlaid(data[fd[w]], saving[w], n) \in Seq(Version)
      BY <3>1, <3>3, OverlaidTyped
    <3> QED
      BY <2>4, <3>1, <3>2, <3>4 DEF WriteFails, Return
  <2>5. ASSUME NEW w \in Writer, Rename(w) PROVE FileTypeOK'
    BY <2>5 DEF Rename, Return
  <2>6. ASSUME Crash PROVE FileTypeOK'
    BY <2>6 DEF Crash, fileVars
  <2>7. ASSUME UNCHANGED allVars PROVE FileTypeOK'
    BY <2>7 DEF allVars, fileVars, writerVars
  <2> QED
    BY <2>1, <2>2, <2>3, <2>4, <2>5, <2>6, <2>7 DEF FileNext
<1> QED
  BY <1>1, <1>2, PTL DEF FileSpec

\* A file whose savers exclude each other is one whole version at every
\* moment, whatever fails and whenever the process dies: saveConvsLocked.
THEOREM LockedIsWhole ==
    ASSUME Locked
    PROVE  FileSpec => []AlwaysWhole
<1>1. FileInv => AlwaysWhole
  BY DEF FileInv
<1> QED
  BY FileInitInv, FileNextInv, <1>1, PTL DEF FileSpec

LEMMA FileInitRefines == FileInit => Store!Init
<1> SUFFICES ASSUME FileInit PROVE Store!Init
  OBVIOUS
<1>1. FileVersion \in Version \cup {None}
  <2>1. CASE target = None
    BY <2>1 DEF FileVersion
  <2>2. CASE \E i \in Inode, v \in Version :
                target = i /\ data = [j \in Inode |-> IF j = i THEN Contents(v) ELSE <<>>]
    BY <2>2, ContentsTyped, NoneAssumption DEF FileVersion
  <2> QED
    BY <2>1, <2>2 DEF FileInit
<1> QED
  BY <1>1 DEF FileInit, Store!Init

LEMMA FileStepRefines ==
    ASSUME Locked, FileInv, [FileNext]_allVars
    PROVE  [Store!Next]_(Store!vars)
<1> USE DEF FileInv, Goto, Store!vars
<1>1. ASSUME NEW w \in Writer, NEW v \in Version, Begin(w, v)
      PROVE  Store!Begin(w, v)
  BY <1>1 DEF Begin, FileTypeOK, FileVersion, fileVars, Store!Begin
<1>2. ASSUME NEW w \in Writer, NEW i \in Inode, Open(w, i)
      PROVE  UNCHANGED Store!vars
  <2>1. i # target
    BY <1>2 DEF Open, Free, NamesApart
  <2> QED
    BY <1>2, <2>1 DEF Open, FileTypeOK, FileVersion
<1>3. ASSUME NEW w \in Writer, Write(w)
      PROVE  UNCHANGED Store!vars
  <2>1. fd[w] # target
    BY <1>3 DEF Write, TmpTracksSave, NamesApart
  <2> QED
    BY <1>3, <2>1 DEF Write, FileTypeOK, FileVersion
<1>4. ASSUME NEW w \in Writer, WriteFails(w)
      PROVE  Store!Fail(w)
  <2>1. fd[w] # target /\ saving[w] # None
    BY <1>4 DEF WriteFails, Return, FileTypeOK, TmpTracksSave, NamesApart
  <2>2. FileVersion' = FileVersion
    BY <1>4, <2>1 DEF WriteFails, FileTypeOK, FileVersion
  <2> QED
    BY <1>4, <2>1, <2>2 DEF WriteFails, Return, Store!Fail
<1>5. ASSUME NEW w \in Writer, Rename(w)
      PROVE  Store!Commit(w)
  <2>1. /\ saving[w] \in Version
        /\ tmp # None /\ data[tmp] = Contents(saving[w])
    BY <1>5 DEF Rename, Return, FileTypeOK, TmpTracksSave
  <2>2. FileVersion' = saving[w]
    BY <1>5, <2>1, ContentsTyped DEF Rename, FileVersion
  <2> QED
    BY <1>5, <2>1, <2>2, NoneAssumption DEF Rename, Return, Store!Commit
<1>6. ASSUME Crash
      PROVE  Store!Crash
  BY <1>6 DEF Crash, FileVersion, fileVars, Store!Crash
<1>7. ASSUME UNCHANGED allVars
      PROVE  UNCHANGED Store!vars
  BY <1>7 DEF allVars, fileVars, writerVars, FileVersion
<1> QED
  BY <1>1, <1>2, <1>3, <1>4, <1>5, <1>6, <1>7 DEF FileNext, Store!Next

\* Such a file behaves as AtomicStore promises: a save takes effect at its
\* rename, once, or not at all.
THEOREM LockedIsAtomic ==
    ASSUME Locked
    PROVE  FileSpec => Atomic
<1> QED
  BY FileInitInv, FileNextInv, FileInitRefines, FileStepRefines, PTL DEF FileSpec, Atomic, Store!Spec
=============================================================================
