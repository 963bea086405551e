------------------------------ MODULE TokenRenewal ------------------------------
(***************************************************************************)
(* How access tokens are replaced while the server runs: the renewal and   *)
(* expiry sweeps of internal/scheduler/scheduler.go, the login panel of    *)
(* internal/server/oauth.go, the reload of internal/server/admin.go, and   *)
(* the auth files of internal/auth/auth.go they all share.                 *)
(*                                                                         *)
(* Every token of an account has a number, in the order they were issued.  *)
(* Its remaining life is "good", "soon" (within RenewThreshold) or "old"   *)
(* (72 hours have passed).  Saving an auth file is one step here.          *)
(***************************************************************************)
EXTENDS Integers, FiniteSets

CONSTANTS
    Account,
    Renewer,        \* goroutines of renewAccount
    Panel,          \* admin requests that poll a login session
    MaxTokens,      \* bound on the tokens issued to each account
    CanReload,      \* is adminReload called?
    CanRestart,
    Absent          \* an account that is not there; no token

Token == 0..MaxTokens

ASSUME RenewerAssumption == IsFiniteSet(Renewer) /\ Cardinality(Renewer) >= Cardinality(Account)
ASSUME WorkersAssumption == Renewer \cap Panel = {}
ASSUME TokensAssumption == MaxTokens \in Nat
ASSUME SwitchAssumption == {CanReload, CanRestart} \subseteq BOOLEAN
ASSUME AbsentAssumption ==
    Absent \notin Account \cup Token /\ Absent \notin [Account -> Token \cup {Absent}]

VARIABLES
    life,       \* the life of each token of each account
    issued,     \* the last token issued to each account
    file,       \* the token in each account's auth file
    pool,       \* the token the pool uses for each account
    disabled,   \* accounts the pool has disabled
    phase,      \* where Tick is: "idle", "renew", "expire"
    todo,       \* accounts the current sweep has still to visit
    doomed,     \* the account expirySweep is about to disable
    renewing,   \* s.renewing
    job,        \* each login in progress, of a Renewer or a Panel request
    snap,       \* what adminReload has read of the directory, or Absent
    \* ghosts
    crossed,    \* accounts for which two logins have held a token at once
    missed      \* accounts saved after adminReload has read the directory

poolVars == <<pool, disabled>>
tickVars == <<phase, todo, doomed>>
ghosts == <<crossed, missed>>
vars == <<life, issued, file, poolVars, tickVars, renewing, job, snap, ghosts>>

Worker == Renewer \cup Panel
NoJob == [pc |-> "idle", acct |-> Absent, tok |-> Absent]
Members == {a \in Account : pool[a] # Absent}

TypeOK ==
    /\ life \in [Account -> [Token -> {"good", "soon", "old"}]]
    /\ issued \in [Account -> Token]
    /\ file \in [Account -> Token \cup {Absent}]
    /\ pool \in [Account -> Token \cup {Absent}]
    /\ disabled \in SUBSET Account
    /\ phase \in {"idle", "renew", "expire"}
    /\ todo \in SUBSET Account
    /\ doomed \in Account \cup {Absent}
    /\ renewing \in SUBSET Account
    /\ job \in [Worker -> [pc : {"idle", "entry", "wait", "save", "add", "enable"},
                           acct : Account \cup {Absent}, tok : Token \cup {Absent}]]
    /\ snap \in [Account -> Token \cup {Absent}] \cup {Absent}
    /\ crossed \in SUBSET Account /\ missed \in SUBSET Account

\* The server has loaded the directory.
Init ==
    /\ life = [a \in Account |-> [t \in Token |-> "good"]]
    /\ issued = [a \in Account |-> 0]
    /\ file \in [Account -> {0, Absent}]
    /\ pool = file
    /\ disabled = {}
    /\ phase = "idle" /\ todo = {} /\ doomed = Absent
    /\ renewing = {}
    /\ job = [w \in Worker |-> NoJob]
    /\ snap = Absent
    /\ crossed = {} /\ missed = {}

----------------------------------------------------------------------------
(* Time: a token that has been issued grows old. *)

Older(l) == IF l = "good" THEN "soon" ELSE "old"

Ages(a, t) ==
    /\ t <= issued[a] /\ life[a][t] # "old"
    /\ life' = [life EXCEPT ![a][t] = Older(@)]
    /\ UNCHANGED <<issued, file, poolVars, tickVars, renewing, job, snap, ghosts>>

----------------------------------------------------------------------------
(* Tick: renewSweep, then expirySweep; each visits the accounts in turn.   *)

StartSweep(from, to) ==
    /\ phase = from /\ todo = {} /\ doomed = Absent
    /\ phase' = to
    /\ todo' = IF to = "idle" THEN {} ELSE Members
    /\ UNCHANGED <<life, issued, file, poolVars, doomed, renewing, job, snap, ghosts>>

LifeInPool(a) == IF pool[a] = Absent THEN "good" ELSE life[a][pool[a]]

\* Variant: the renewing flag is not looked at.
NeedsRenewalAgain(a) == LifeInPool(a) = "soon"

\* Variant: a token is renewed when it has expired, not before.
NeedsRenewalLate(a) == LifeInPool(a) = "old" /\ a \notin renewing

\* A token that is already old is left to expirySweep.
NeedsRenewal(a) == LifeInPool(a) = "soon" /\ a \notin renewing

Renew(a, w) ==
    /\ phase = "renew" /\ a \in todo
    /\ NeedsRenewal(a)
    /\ job[w].pc = "idle"
    /\ renewing' = renewing \cup {a}
    /\ job' = [job EXCEPT ![w] = [pc |-> "entry", acct |-> a, tok |-> Absent]]
    /\ todo' = todo \ {a}
    /\ UNCHANGED <<life, issued, file, poolVars, phase, doomed, snap, ghosts>>

RenewSkips(a) ==
    /\ phase = "renew" /\ a \in todo
    /\ ~NeedsRenewal(a)
    /\ todo' = todo \ {a}
    /\ UNCHANGED <<life, issued, file, poolVars, phase, doomed, renewing, job, snap, ghosts>>

\* Variant: the renewal threshold is taken for the end of the token's life.
ExpireLooksEarly(a) ==
    /\ phase = "expire" /\ a \in todo /\ doomed = Absent
    /\ todo' = todo \ {a}
    /\ doomed' = IF LifeInPool(a) # "good" /\ a \notin disabled THEN a ELSE Absent
    /\ UNCHANGED <<life, issued, file, poolVars, phase, renewing, job, snap, ghosts>>

\* expirySweep reads the token first ...
ExpireLooks(a) ==
    /\ phase = "expire" /\ a \in todo /\ doomed = Absent
    /\ todo' = todo \ {a}
    /\ doomed' = IF LifeInPool(a) = "old" /\ a \notin disabled THEN a ELSE Absent
    /\ UNCHANGED <<life, issued, file, poolVars, phase, renewing, job, snap, ghosts>>

\* ... and disables the account, by name, in a second step.
ExpireDisables ==
    /\ doomed # Absent
    /\ disabled' = IF doomed \in Members THEN disabled \cup {doomed} ELSE disabled
    /\ doomed' = Absent
    /\ UNCHANGED <<life, issued, file, pool, phase, todo, renewing, job, snap, ghosts>>

----------------------------------------------------------------------------
(* Logins.  A Renewer asks for a login page and waits for the browser; a   *)
(* Panel request finds that the browser has already logged in.             *)

JobStep(w, from, to) == job[w].pc = from /\ job' = [job EXCEPT ![w].pc = to]

\* The goroutine returns; a Renewer's deferred function clears its flag.
Ends(w) ==
    /\ job' = [job EXCEPT ![w] = NoJob]
    /\ renewing' = IF w \in Renewer THEN renewing \ {job[w].acct} ELSE renewing

LoginConfig(w) ==
    /\ w \in Renewer
    /\ JobStep(w, "entry", "wait")
    /\ UNCHANGED <<life, issued, file, poolVars, tickVars, renewing, snap, ghosts>>

\* login-config fails, RenewWaitMax passes, the file cannot be written; for a
\* Panel request current-user fails.
GivesUp(w) ==
    /\ job[w].pc \in {"entry", "wait", "save"}
    /\ Ends(w)
    /\ UNCHANGED <<life, issued, file, poolVars, tickVars, snap, ghosts>>

HoldsToken(a) == \E w \in Worker : job[w].acct = a /\ job[w].pc \in {"save", "add"}

Issue(a) ==
    /\ issued[a] < MaxTokens
    /\ issued' = [issued EXCEPT ![a] = @ + 1]
    /\ crossed' = IF HoldsToken(a) THEN crossed \cup {a} ELSE crossed
    /\ UNCHANGED missed

TokenArrives(w) ==
    /\ job[w].pc = "wait"
    /\ Issue(job[w].acct)
    /\ LET a == job[w].acct
       IN  job' = [job EXCEPT ![w] = [pc |-> "save", acct |-> a, tok |-> issued'[a]]]
    /\ UNCHANGED <<life, file, poolVars, tickVars, renewing, snap>>

PanelToken(p, a) ==
    /\ p \in Panel /\ job[p].pc = "idle"
    /\ Issue(a)
    /\ job' = [job EXCEPT ![p] = [pc |-> "save", acct |-> a, tok |-> issued'[a]]]
    /\ UNCHANGED <<life, file, poolVars, tickVars, renewing, snap>>

\* Variant: the token is used without having been saved.
SaveNewSkipped(w) ==
    /\ JobStep(w, "save", "add")
    /\ UNCHANGED <<life, issued, file, poolVars, tickVars, renewing, snap, ghosts>>

SaveNew(w) ==
    /\ JobStep(w, "save", "add")
    /\ file' = [file EXCEPT ![job[w].acct] = job[w].tok]
    /\ missed' = IF snap = Absent THEN missed ELSE missed \cup {job[w].acct}
    /\ UNCHANGED <<life, issued, poolVars, tickVars, renewing, snap, crossed>>

\* Variant: an account that is there already keeps its token.
AddAccountNew(w) ==
    /\ job[w].pc = "add"
    /\ pool' = [pool EXCEPT ![job[w].acct] = IF @ = Absent THEN job[w].tok ELSE @]
    /\ disabled' = disabled \ {job[w].acct}
    /\ IF w \in Panel THEN Ends(w) ELSE JobStep(w, "add", "enable") /\ UNCHANGED renewing
    /\ UNCHANGED <<life, issued, file, tickVars, snap, ghosts>>

\* AddAccount installs the token and lifts the ban; a Panel request is done.
AddAccount(w) ==
    /\ job[w].pc = "add"
    /\ pool' = [pool EXCEPT ![job[w].acct] = job[w].tok]
    /\ disabled' = disabled \ {job[w].acct}
    /\ IF w \in Panel THEN Ends(w) ELSE JobStep(w, "add", "enable") /\ UNCHANGED renewing
    /\ UNCHANGED <<life, issued, file, tickVars, snap, ghosts>>

\* Variant: the flag is left behind when the renewal succeeds.
EnableKeepsFlag(w) ==
    /\ job[w].pc = "enable"
    /\ disabled' = disabled \ {job[w].acct}
    /\ job' = [job EXCEPT ![w] = NoJob]
    /\ UNCHANGED <<life, issued, file, pool, tickVars, renewing, snap, ghosts>>

\* A Renewer enables the account once more, by name, and returns.
Enable(w) ==
    /\ job[w].pc = "enable"
    /\ disabled' = disabled \ {job[w].acct}
    /\ Ends(w)
    /\ UNCHANGED <<life, issued, file, pool, tickVars, snap, ghosts>>

----------------------------------------------------------------------------
(* adminReload: LoadDir, then SyncToDir. *)

ReloadReads ==
    /\ CanReload /\ snap = Absent
    /\ snap' = file
    /\ missed' = {}
    /\ UNCHANGED <<life, issued, file, poolVars, tickVars, renewing, job, crossed>>

\* Variant: the pool is replaced by a directory nobody has read.
ReloadSyncsBlind ==
    /\ CanReload
    /\ pool' = snap
    /\ snap' = Absent
    /\ UNCHANGED <<life, issued, file, disabled, tickVars, renewing, job, ghosts>>

ReloadSyncs ==
    /\ snap # Absent
    /\ pool' = snap
    /\ disabled' = {a \in disabled : pool[a] # Absent /\ snap[a] # Absent}
    /\ snap' = Absent
    /\ UNCHANGED <<life, issued, file, tickVars, renewing, job, ghosts>>

\* Killed and started again on the same directory; the pool's state file
\* keeps the bans (PoolStore.tla).
Restart ==
    /\ CanRestart
    /\ pool' = file
    /\ disabled' = {a \in disabled : file[a] # Absent}
    /\ phase' = "idle" /\ todo' = {} /\ doomed' = Absent
    /\ renewing' = {}
    /\ job' = [w \in Worker |-> NoJob]
    /\ snap' = Absent
    /\ crossed' = {} /\ missed' = {}
    /\ UNCHANGED <<life, issued, file>>

----------------------------------------------------------------------------
SweepStep ==
    \/ StartSweep("idle", "renew") \/ StartSweep("renew", "expire") \/ StartSweep("expire", "idle")
    \/ StartSweep("renew", "idle")      \* the sweep Run makes before the first tick
    \/ \E a \in Account :
        \/ RenewSkips(a) \/ ExpireLooks(a)
        \/ \E w \in Renewer : Renew(a, w)
    \/ ExpireDisables

JobNext(w) ==
    \/ LoginConfig(w) \/ GivesUp(w) \/ TokenArrives(w)
    \/ SaveNew(w) \/ AddAccount(w) \/ Enable(w)

Next ==
    \/ \E a \in Account : \E t \in Token : Ages(a, t)
    \/ SweepStep
    \/ \E w \in Worker : JobNext(w)
    \/ \E p \in Panel, a \in Account : PanelToken(p, a)
    \/ ReloadReads \/ ReloadSyncs \/ Restart

Spec == Init /\ [][Next]_vars

\* The ticker fires and the sweeps make no blocking call; a login ends at the
\* latest with RenewWaitMax, and its HTTP calls have timeouts.
FairSpec ==
    /\ Spec
    /\ WF_vars(SweepStep)
    /\ \A w \in Worker : WF_vars(JobNext(w))
    /\ <>[][~Restart]_vars

----------------------------------------------------------------------------
(* Properties. *)

Active == {w \in Renewer : job[w].pc # "idle"}

\* "skip an account that is already being renewed" (scheduler.go:206): at most
\* one renewal per account, and the flag is up exactly while it lasts, on
\* every way out of renewAccount.
RenewalExclusive ==
    /\ \A v, w \in Active : job[v].acct = job[w].acct => v = w
    /\ renewing = {job[w].acct : w \in Active}

\* The new token is saved before it is used, so a crash never goes back to a
\* token older than the one in use, unless a panel login has run into another
\* login of the account: two logins can save in one order and install in the
\* other.  That two renewals never do rests on RenewalExclusive.
DiskNotOlder ==
    \A a \in Members \ crossed : file[a] # Absent /\ pool[a] <= file[a]

\* "align the pool with the auths on disk" (pool.go:196): when no login and no
\* reload is in progress, the pool uses the tokens that are on disk, unless the
\* last reload read the directory before a login saved there.
AlignedAtRest ==
    snap = Absent /\ (\A w \in Worker : job[w].pc = "idle") =>
        \A a \in Account \ (crossed \cup missed) : pool[a] = file[a]

\* Nobody is disabled by the sweep, however late and whatever token is in
\* place by then, unless a token of the account has expired.
SweepHadReason ==
    \A a \in disabled \cup ({doomed} \ {Absent}) :
        \E t \in Token : t <= issued[a] /\ life[a][t] = "old"

\* A token about to expire is noticed: its renewal starts, unless it is
\* replaced or grows old first.
RenewalStarts ==
    \A a \in Account : LifeInPool(a) = "soon" ~> (a \in renewing \/ LifeInPool(a) # "soon")

\* No renewal holds its flag for ever: the account can be renewed again.
RenewalEnds == \A a \in Account : a \in renewing ~> a \notin renewing

----------------------------------------------------------------------------
(* What a text of the repository says and the code does not keep.  No run  *)
(* checks these; README.md says how to see each of them fail.              *)

\* "expired: disable right away" (scheduler.go:167): an account is disabled by
\* the sweep only while it holds an expired token.
SweepJustified ==
    \A a \in disabled : LifeInPool(a) = "old"

\* ... and the pool is aligned whatever a reload has missed.
ReloadAligns ==
    (snap = Absent /\ \A w \in Worker : job[w].pc = "idle") => pool = file
=============================================================================
