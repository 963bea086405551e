------------------------------- MODULE PoolStore -------------------------------
(***************************************************************************)
(* The account pool and its state file: internal/pool/pool.go.             *)
(*                                                                         *)
(* Cooldown, NoteError, Disable, Enable and ClearCooldown change the pool  *)
(* and call saveState with p.mu held until the file is renamed.  AddAccount *)
(* and Unfreeze release p.mu first and then call saveState, which reads    *)
(* the accounts and writes the file without the lock.  Every saveState     *)
(* goes through the one file state.json.tmp: opened and emptied, written,  *)
(* renamed, and each of the three may fail, which nobody is told.          *)
(* NoteSuccess, SetBalance, Validate and SyncToDir do not save.            *)
(*                                                                         *)
(* A file is modelled by what loadState finds in it: one that is empty,    *)
(* cut off or mixed of two versions is not JSON and holds no entries.      *)
(* AtomicFile has the bytes.  saveState reads the accounts one by one; the *)
(* properties speak of one account at a time, so the sweep is one step.    *)
(***************************************************************************)
EXTENDS AccountOps, FiniteSets

CONSTANT Saver      \* goroutines that call methods which save

VARIABLES
    pool,       \* p.accounts
    file,       \* the state file: the entry of each account
    tmpFile,    \* state.json.tmp, Absent when there is none
    mu,         \* the Saver that holds p.mu, if one does
    pc,         \* where each Saver is in its method
    snap,       \* what its saveState has read of the pool
    handle,     \* the file its open descriptor has become
    crossed,    \* saves that another save was in flight with
    \* ghosts
    decided,    \* the last Disable or Enable of each account
    settled     \* accounts whose last decision a save that met no other has put on disk

saveVars == <<mu, pc, snap, handle, crossed>>
diskVars == <<file, tmpFile>>
vars == <<pool, diskVars, saveVars, decided, settled>>

NoEntries == [a \in Account |-> Absent]

ASSUME AbsentFileAssumption == Absent \notin PoolState

TypeOK ==
    /\ pool \in PoolState
    /\ file \in PoolState
    /\ tmpFile \in PoolState \cup {Absent}
    /\ mu \in SUBSET Saver
    /\ pc \in [Saver -> {"idle", "collect", "open", "write", "rename"}]
    /\ snap \in [Saver -> PoolState]
    /\ handle \in [Saver -> {"none", "tmp", "file", "gone"}]
    /\ crossed \in SUBSET Saver
    /\ decided \in [Account -> {"none", "disabled", "enabled"}]
    /\ settled \in SUBSET Account

\* New after LoadDir found the accounts D, with no state file yet.
InDir(D) == [a \in Account |-> IF a \in D THEN NewAccount ELSE Absent]

Init ==
    /\ \E D \in SUBSET Account : pool = InDir(D)
    /\ file = NoEntries
    /\ tmpFile = Absent
    /\ mu = {}
    /\ pc = [w \in Saver |-> "idle"]
    /\ snap = [w \in Saver |-> NoEntries]
    /\ handle = [w \in Saver |-> "none"]
    /\ crossed = {}
    /\ decided = [a \in Account |-> "none"]
    /\ settled = {}

----------------------------------------------------------------------------
(* saveState. *)

InFlight(w) == pc[w] \in {"open", "write", "rename"}
Others(w) == {v \in Saver \ {w} : InFlight(v)}

\* saveState of w has read the pool p, and the accounts in unsaved have just
\* been decided.  Two saves in flight share state.json.tmp: from then on what
\* either of them leaves in the file is not known.
BeginSave(w, p, unsaved) ==
    /\ pc' = [pc EXCEPT ![w] = "open"]
    /\ snap' = [snap EXCEPT ![w] = p]
    /\ crossed' = IF Others(w) = {} THEN {} ELSE Others(w) \cup {w}
    /\ settled' = IF Others(w) = {} THEN settled \ unsaved ELSE {}

\* O_CREATE|O_TRUNC on state.json.tmp.
SaveOpens(w) ==
    /\ pc[w] = "open"
    /\ pc' = [pc EXCEPT ![w] = "write"]
    /\ handle' = [handle EXCEPT ![w] = "tmp"]
    /\ tmpFile' = NoEntries
    /\ UNCHANGED <<pool, file, mu, snap, crossed, decided, settled>>

\* The open file, which a rename may have moved or replaced, now holds c.
Holds(w, c) ==
    /\ tmpFile' = IF handle[w] = "tmp" THEN c ELSE tmpFile
    /\ file' = IF handle[w] = "file" THEN c ELSE file

\* The longer version of another save may show under this one.
SaveWrites(w) ==
    /\ pc[w] = "write"
    /\ pc' = [pc EXCEPT ![w] = "rename"]
    /\ \E c \in {snap[w]} \cup (IF w \in crossed THEN {NoEntries} ELSE {}) : Holds(w, c)
    /\ handle' = [handle EXCEPT ![w] = "none"]
    /\ UNCHANGED <<pool, mu, snap, crossed, decided, settled>>

\* saveState returns; a method that saved under p.mu releases it.
SaveReturns(w) ==
    /\ pc' = [pc EXCEPT ![w] = "idle"]
    /\ snap' = [snap EXCEPT ![w] = NoEntries]
    /\ mu' = mu \ {w}
    /\ crossed' = crossed \ {w}

\* Variant: the error of WriteFile is dropped and the rest renamed.
SaveFailsRenames(w) ==
    /\ pc[w] \in {"open", "write"}
    /\ pc' = [pc EXCEPT ![w] = "rename"]
    /\ \/ pc[w] = "write" /\ Holds(w, NoEntries)
       \/ UNCHANGED diskVars
    /\ handle' = [handle EXCEPT ![w] = "none"]
    /\ UNCHANGED <<pool, mu, snap, crossed, decided, settled>>

\* WriteFile fails: the file cannot be opened, or the disk is full and what
\* was written so far stays.  Nobody is told.
SaveFails(w) ==
    /\ pc[w] \in {"open", "write"}
    /\ SaveReturns(w)
    /\ \/ pc[w] = "write" /\ Holds(w, NoEntries)
       \/ UNCHANGED diskVars
    /\ handle' = [handle EXCEPT ![w] = "none"]
    /\ UNCHANGED <<pool, decided, settled>>

\* Rename; its error is ignored, the one that state.json.tmp is gone too.
SaveRenames(w) ==
    /\ pc[w] = "rename"
    /\ SaveReturns(w)
    /\ \/ /\ tmpFile # Absent
          /\ file' = tmpFile
          /\ tmpFile' = Absent
          /\ handle' = [v \in Saver |-> CASE handle[v] = "tmp" -> "file"
                                          [] handle[v] = "file" -> "gone"
                                          [] OTHER -> handle[v]]
          /\ settled' = IF w \in crossed THEN settled ELSE Account
       \/ UNCHANGED <<diskVars, handle, settled>>
    /\ UNCHANGED <<pool, decided>>

----------------------------------------------------------------------------
(* Methods that change the pool and save it under p.mu. *)

\* Account a becomes s, and saveState reads what is now in memory, every
\* account of it, whichever account the method was called for.
SaveUnderLock(w, a, s, unsaved) ==
    /\ pc[w] = "idle" /\ mu = {}
    /\ mu' = {w}
    /\ pool' = Apply(pool, a, s)
    /\ BeginSave(w, pool', unsaved)
    /\ UNCHANGED <<diskVars, handle>>

Cooldown(w, a) == SaveUnderLock(w, a, Cooled(pool[a]), {}) /\ UNCHANGED decided

NoteError(w, a) == SaveUnderLock(w, a, Erred(pool[a]), {}) /\ UNCHANGED decided

ClearCooldown(w, a) == SaveUnderLock(w, a, Thawed(pool[a]), {}) /\ UNCHANGED decided

\* A decision is on record for an account that is there.
Decide(a, d) ==
    decided' = IF pool[a] = Absent THEN decided ELSE [decided EXCEPT ![a] = d]

Disable(w, a) ==
    SaveUnderLock(w, a, Banned(pool[a]), {a}) /\ Decide(a, "disabled")

Enable(w, a, b) ==
    SaveUnderLock(w, a, Enabled(pool[a], b), {a}) /\ Decide(a, "enabled")

----------------------------------------------------------------------------
(* Methods that change the pool and do not save it. *)

NoteSuccess(a) ==
    /\ mu = {}
    /\ pool' = Apply(pool, a, Succeeded(pool[a]))
    /\ UNCHANGED <<diskVars, saveVars, decided, settled>>

SetBalance(a, b) ==
    /\ mu = {}
    /\ pool' = Apply(pool, a, WithBalance(pool[a], b))
    /\ UNCHANGED <<diskVars, saveVars, decided, settled>>

\* Validate, when Ping fails or answers 401/403, takes the lock of the
\* account and not p.mu.
ValidateDisables(a) ==
    /\ pool[a] # Absent
    /\ pool' = [pool EXCEPT ![a] = Banned(@)]
    /\ decided' = [decided EXCEPT ![a] = IF @ = "enabled" THEN "none" ELSE @]
    /\ UNCHANGED <<diskVars, saveVars, settled>>

\* SyncToDir: accounts that are no longer in the directory are dropped, new
\* ones start from scratch, whatever the state file says of them.
SyncToDir(D) ==
    /\ mu = {}
    /\ pool' = [a \in Account |-> IF a \notin D THEN Absent
                                  ELSE IF pool[a] = Absent THEN NewAccount ELSE pool[a]]
    /\ decided' = [a \in Account |-> IF a \in D THEN decided[a] ELSE "none"]
    /\ UNCHANGED <<diskVars, saveVars, settled>>

\* A cooldown runs out.
CoolingEnds(a) ==
    /\ pool[a] # Absent /\ pool[a].cooling
    /\ pool' = [pool EXCEPT ![a].cooling = FALSE]
    /\ UNCHANGED <<diskVars, saveVars, decided, settled>>

----------------------------------------------------------------------------
(* Methods that save after they have released p.mu. *)

AddAccount(w, a) ==
    /\ pc[w] = "idle" /\ mu = {}
    /\ pool' = [pool EXCEPT ![a] = IF @ = Absent THEN NewAccount ELSE Relogged(@)]
    /\ pc' = [pc EXCEPT ![w] = "collect"]
    /\ decided' = [decided EXCEPT ![a] = "none"]
    /\ UNCHANGED <<diskVars, mu, snap, handle, crossed, settled>>

Unfreeze(w, a) ==
    /\ pc[w] = "idle" /\ mu = {}
    /\ pool[a] # Absent /\ Frozen(pool[a])
    /\ pool' = [pool EXCEPT ![a] = Unfrozen(@)]
    /\ pc' = [pc EXCEPT ![w] = "collect"]
    /\ UNCHANGED <<diskVars, mu, snap, handle, crossed, decided, settled>>

SaveCollects(w) ==
    /\ pc[w] = "collect"
    /\ BeginSave(w, pool, {})
    /\ UNCHANGED <<pool, diskVars, mu, handle, decided>>

----------------------------------------------------------------------------
\* The process stops at any point and starts again: New builds the accounts
\* of the directory and loadState overlays the entries of the file.  A
\* decision that no file holds is gone.
Restart(D) ==
    /\ pool' = [a \in Account |-> IF a \notin D THEN Absent
                                  ELSE IF file[a] = Absent THEN NewAccount ELSE file[a]]
    /\ mu' = {}
    /\ pc' = [w \in Saver |-> "idle"]
    /\ snap' = [w \in Saver |-> NoEntries]
    /\ handle' = [w \in Saver |-> "none"]
    /\ crossed' = {}
    /\ decided' = [a \in Account |-> IF a \in D \cap settled THEN decided[a] ELSE "none"]
    /\ UNCHANGED <<diskVars, settled>>

Next ==
    \/ \E a \in Account :
        \/ NoteSuccess(a) \/ ValidateDisables(a) \/ CoolingEnds(a)
        \/ \E b \in 0..MaxBalance : SetBalance(a, b)
        \/ \E w \in Saver :
            \/ Cooldown(w, a) \/ NoteError(w, a) \/ ClearCooldown(w, a) \/ Disable(w, a)
            \/ AddAccount(w, a) \/ Unfreeze(w, a)
            \/ \E b \in 0..MaxBalance : Enable(w, a, b)
    \/ \E w \in Saver : \/ SaveCollects(w) \/ SaveOpens(w) \/ SaveWrites(w)
                        \/ SaveFails(w) \/ SaveRenames(w)
    \/ \E D \in SUBSET Account : SyncToDir(D) \/ Restart(D)

Spec == Init /\ [][Next]_vars

----------------------------------------------------------------------------
(* Properties. *)

Agrees(s, d) == s # Absent /\ (s.disabled <=> d = "disabled")

\* What the code does guarantee of a Disable or Enable: it stays in force in
\* memory; and once a save that no other save was in flight with has come to
\* its rename, it is in the state file, and stays there through saves that
\* fail, leave their temporary file behind or are cut short by a restart,
\* until two saves meet.
DecisionHolds ==
    \A a \in Account : decided[a] # "none" =>
        /\ Agrees(pool[a], decided[a])
        /\ a \in settled => Agrees(file[a], decided[a])

----------------------------------------------------------------------------
(* What a text of the repository says and the code does not keep.  No run  *)
(* checks these; README.md says how to see each of them fail.              *)

\* "Cooldown and Disable both reach the disk" (pool_test.go, TestStateRoundTrip),
\* as one would want it of every Disable and Enable that has returned: the
\* state file holds the decision.
DecisionDurable ==
    \A a \in Account : decided[a] # "none" /\ mu = {} => Agrees(file[a], decided[a])
=============================================================================
