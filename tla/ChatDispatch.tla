------------------------------ MODULE ChatDispatch ------------------------------
(***************************************************************************)
(* POST /v1/chat/completions: how concurrent requests choose accounts,     *)
(* validate them, serialise their upstream work per account, and charge    *)
(* failures to the pool (internal/server/handler.go, chatCompletions and   *)
(* handleUpstreamError; internal/pool/pool.go, Validate).                  *)
(*                                                                         *)
(* Each request runs through the rotation loop on its own goroutine; a     *)
(* step ends where the code makes an upstream call, waits for the account's *)
(* sendMu, or takes the pool's lock.  Around the requests act the client   *)
(* (it may go away), the operator, the quota watchdog and the login flow,  *)
(* which change the same pool.  What the requests say to the upstream and  *)
(* which conversation they use is the subject of Conversations.tla.        *)
(***************************************************************************)
EXTENDS AccountOps, FiniteSets

CONSTANTS
    Request,        \* chat requests, each handled once
    MaxRotate,      \* Config.MaxRotate: attempts per request
    MaxLogins,      \* bound on the tokens each account gets
    PingCanFail,    \* may Ping end in a transport error?
    Environment     \* which of the actors around the requests are there

\* Clients that leave or name a conversation, and the rest of the server.
Actors == {"client", "naming", "operator", "watchdog", "login"}

ASSUME RequestAssumption == Absent \notin Request /\ Absent \notin Account
ASSUME RotateAssumption == MaxRotate \in Nat \ {0}
ASSUME LoginsAssumption == MaxLogins \in Nat
ASSUME EnvironmentAssumption == PingCanFail \in BOOLEAN /\ Environment \subseteq Actors

VARIABLES
    pool,       \* p.accounts, with every account of Account in it
    checked,    \* accounts whose token was validated less than 5 minutes ago
    ver,        \* the token each account holds: 0, 1, ...
    dead,       \* the upstream rejects an account's tokens below this number
    sendMu,     \* the request that holds the account's send lock, or Absent
    pc,         \* where each request is
    attempt,    \* i of the rotation loop
    acct,       \* the account of the current attempt
    tried,      \* accounts the request has already picked
    forced,     \* owner of the conversation the client named, or Absent
    tok,        \* the token the pending upstream call was made with
    err,        \* class of the error the attempt ended with
    gone,       \* requests whose client has disconnected
    grown,      \* requests in planConversation while another finalized on their account
    answer,     \* what the client was told
    agents,     \* agent tasks the upstream is running, and who listens to them
    \* ghost
    steady      \* accounts that have been healthy ever since the request came

accountVars == <<checked, ver, dead>>
requestVars == <<pc, attempt, acct, tried, forced, tok, err, answer>>
vars == <<pool, accountVars, sendMu, requestVars, gone, grown, agents, steady>>

Errors == {"none", "rejected", "busy", "other"}

\* A task and the request that listens to it; nobody (Absent) when the answer
\* to SendMessage was lost or the poll ended before the task.  What nobody
\* listens to on an account counts as one task.
Tasks == (Request \cup {Absent}) \X Account

TypeOK ==
    /\ pool \in [Account -> AccountState]
    /\ checked \in SUBSET Account
    /\ ver \in [Account -> 0..MaxLogins]
    /\ dead \in [Account -> 0..MaxLogins + 1]
    /\ sendMu \in [Account -> Request \cup {Absent}]
    /\ pc \in [Request -> {"new", "pick", "validate", "ping", "lock", "plan", "cut", "drive",
                           "retry", "poll", "charge", "finish", "done", "panicked"}]
    /\ attempt \in [Request -> 0..MaxRotate]
    /\ acct \in [Request -> Account \cup {Absent}]
    /\ tried \in [Request -> SUBSET Account]
    /\ forced \in [Request -> Account \cup {Absent}]
    /\ tok \in [Request -> 0..MaxLogins]
    /\ err \in [Request -> Errors]
    /\ gone \in SUBSET Request
    /\ grown \in SUBSET Request
    /\ answer \in [Request -> {"none", "ok", "bad", "unavailable"}]
    /\ agents \in SUBSET Tasks
    /\ steady \in [Request -> SUBSET Account]

Init ==
    /\ \E bal \in [Account -> 0..MaxBalance] :
          pool = [a \in Account |-> WithBalance(NewAccount, bal[a])]
    /\ checked = {}
    /\ ver = [a \in Account |-> 0]
    /\ dead = [a \in Account |-> 0]
    /\ sendMu = [a \in Account |-> Absent]
    /\ pc = [r \in Request |-> "new"]
    /\ attempt = [r \in Request |-> 0]
    /\ acct = [r \in Request |-> Absent]
    /\ tried = [r \in Request |-> {}]
    /\ forced = [r \in Request |-> Absent]
    /\ tok = [r \in Request |-> 0]
    /\ err = [r \in Request |-> "none"]
    /\ gone = {}
    /\ grown = {}
    /\ answer = [r \in Request |-> "none"]
    /\ agents = {}
    /\ steady = [r \in Request |-> {}]

----------------------------------------------------------------------------
(* Changes to the pool. *)

HealthyIn(p) == {a \in Account : Healthy(p[a])}

\* Account a becomes s, and whoever relied on it being healthy learns it.
SetAccount(a, s) ==
    /\ pool' = [pool EXCEPT ![a] = s]
    /\ steady' = [r \in Request |-> steady[r] \cap HealthyIn(pool')]

DisableAccount(a) == SetAccount(a, Banned(pool[a]))

PoolUnchanged == UNCHANGED <<pool, accountVars, steady>>

(* Steps of a request. *)

Goto(r, from, to) == pc[r] = from /\ pc' = [pc EXCEPT ![r] = to]

Reply(r, from, what) ==
    /\ Goto(r, from, "done")
    /\ answer' = [answer EXCEPT ![r] = what]

NextAttempt(r) == attempt' = [attempt EXCEPT ![r] = @ + 1]

Task(r) == <<r, acct[r]>>

Stray(r) == <<Absent, acct[r]>>

\* Nobody listens to the task of r any more.
Abandon(r) == agents' = IF Task(r) \in agents THEN (agents \ {Task(r)}) \cup {Stray(r)} ELSE agents

Unlock(r) == sendMu' = [sendMu EXCEPT ![acct[r]] = Absent]

----------------------------------------------------------------------------
\* A request arrives; f is the owner of the conversation it names, if any.
\* An owner that cools or is disabled is refused at once.
Arrive(r, f) ==
    /\ f # Absent => "naming" \in Environment
    /\ pc[r] = "new"
    /\ forced' = [forced EXCEPT ![r] = f]
    /\ steady' = [steady EXCEPT ![r] = HealthyIn(pool)]
    /\ IF f # Absent /\ ~Healthy(pool[f])
       THEN Reply(r, "new", "unavailable")
       ELSE Goto(r, "new", "pick") /\ UNCHANGED answer
    /\ UNCHANGED <<pool, accountVars, sendMu, attempt, acct, tried, tok, err, gone, grown, agents>>

\* Variant: the account that is picked is not marked as tried.
PickUnmarked(r) ==
    /\ forced[r] = Absent /\ attempt[r] < MaxRotate
    /\ Goto(r, "pick", "validate")
    /\ \E a \in Best(pool, tried[r]) : acct' = [acct EXCEPT ![r] = a]
    /\ PoolUnchanged
    /\ UNCHANGED <<sendMu, attempt, tried, forced, tok, err, answer, gone, grown, agents>>

PickAccount(r) ==
    /\ forced[r] = Absent /\ attempt[r] < MaxRotate
    /\ Goto(r, "pick", "validate")
    /\ \E a \in Best(pool, tried[r]) :
            /\ acct' = [acct EXCEPT ![r] = a]
            /\ tried' = [tried EXCEPT ![r] = @ \cup {a}]
    /\ PoolUnchanged
    /\ UNCHANGED <<sendMu, attempt, forced, tok, err, answer, gone, grown, agents>>

\* Variant: the owner is tried again after it failed.
PickOwnerAgain(r) ==
    /\ forced[r] # Absent
    /\ Goto(r, "pick", "validate")
    /\ acct' = [acct EXCEPT ![r] = forced[r]]
    /\ PoolUnchanged
    /\ UNCHANGED <<sendMu, attempt, tried, forced, tok, err, answer, gone, grown, agents>>

PickOwner(r) ==
    /\ forced[r] # Absent /\ attempt[r] = 0
    /\ Goto(r, "pick", "validate")
    /\ acct' = [acct EXCEPT ![r] = forced[r]]
    /\ PoolUnchanged
    /\ UNCHANGED <<sendMu, attempt, tried, forced, tok, err, answer, gone, grown, agents>>

\* The loop ends without an answer from the upstream: 503.
Refuse(r) ==
    /\ \/ attempt[r] >= MaxRotate
       \/ forced[r] # Absent /\ attempt[r] > 0
       \/ forced[r] = Absent /\ Candidates(pool, tried[r]) = {}
    /\ Reply(r, "pick", "unavailable")
    /\ PoolUnchanged
    /\ UNCHANGED <<sendMu, attempt, acct, tried, forced, tok, err, gone, grown, agents>>

----------------------------------------------------------------------------
(* Validate(acct): a recent validation is trusted, otherwise Ping. *)

ValidateCached(r) ==
    /\ pc[r] = "validate" /\ acct[r] \in checked
    /\ IF pool[acct[r]].disabled
       THEN Goto(r, "validate", "pick") /\ NextAttempt(r)
       ELSE Goto(r, "validate", "lock") /\ UNCHANGED attempt
    /\ PoolUnchanged
    /\ UNCHANGED <<sendMu, acct, tried, forced, tok, err, answer, gone, grown, agents>>

PingToken(r) ==
    /\ Goto(r, "validate", "ping")
    /\ acct[r] \notin checked
    /\ tok' = [tok EXCEPT ![r] = ver[acct[r]]]
    /\ PoolUnchanged
    /\ UNCHANGED <<sendMu, attempt, acct, tried, forced, err, answer, gone, grown, agents>>

Rejected(r) == tok[r] < dead[acct[r]]

\* Validate records its success when the answer comes, for whatever token the
\* account then holds.
PingAccepted(r) ==
    /\ Goto(r, "ping", "lock")
    /\ ~Rejected(r)
    /\ checked' = checked \cup {acct[r]}
    /\ UNCHANGED <<pool, ver, dead, sendMu, attempt, acct, tried, forced, tok, err,
                   answer, gone, grown, agents, steady>>

\* 401/403: the account is disabled and the request moves on.
PingRejected(r) ==
    /\ Goto(r, "ping", "pick")
    /\ Rejected(r)
    /\ NextAttempt(r)
    /\ DisableAccount(acct[r])
    /\ UNCHANGED <<checked, ver, dead, sendMu, acct, tried, forced, tok, err,
                   answer, gone, grown, agents>>

\* A transport error disables the account as well, and the loop, which only
\* skips an account when Validate returned no error, goes on to use it.
PingFails(r) ==
    /\ PingCanFail
    /\ Goto(r, "ping", "lock")
    /\ DisableAccount(acct[r])
    /\ UNCHANGED <<checked, ver, dead, sendMu, attempt, acct, tried, forced, tok, err,
                   answer, gone, grown, agents>>

----------------------------------------------------------------------------
(* The section under the account's sendMu: plan, drive, poll. *)

Lock(r) ==
    /\ Goto(r, "lock", "plan")
    /\ acct[r] # Absent /\ sendMu[acct[r]] = Absent
    /\ sendMu' = [sendMu EXCEPT ![acct[r]] = r]
    /\ PoolUnchanged
    /\ UNCHANGED <<attempt, acct, tried, forced, tok, err, answer, gone, grown, agents>>

\* planConversation compares the history with what the conversation has
\* absorbed ...
PlanCompares(r) ==
    /\ Goto(r, "plan", "cut")
    /\ PoolUnchanged
    /\ UNCHANGED <<sendMu, attempt, acct, tried, forced, tok, err, answer, gone, grown, agents>>

\* ... and reads conv.Absorbed again for the slice.  Nothing new to send: 400,
\* and no other account is tried.
PlanRejects(r) ==
    /\ Reply(r, "cut", "bad")
    /\ Unlock(r)
    /\ grown' = grown \ {r}
    /\ PoolUnchanged
    /\ UNCHANGED <<attempt, acct, tried, forced, tok, err, gone, agents>>

\* A request that finalized in between may have raised Absorbed beyond the
\* messages of this one: the slice panics.  net/http recovers, the client gets
\* no answer, and nobody unlocks sendMu.
PlanPanics(r) ==
    /\ r \in grown
    /\ Goto(r, "cut", "panicked")
    /\ grown' = grown \ {r}
    /\ PoolUnchanged
    /\ UNCHANGED <<sendMu, attempt, acct, tried, forced, tok, err, answer, gone, agents>>

Plan(r) ==
    /\ Goto(r, "cut", "drive")
    /\ tok' = [tok EXCEPT ![r] = ver[acct[r]]]
    /\ grown' = grown \ {r}
    /\ PoolUnchanged
    /\ UNCHANGED <<sendMu, attempt, acct, tried, forced, err, answer, gone, agents>>

\* driveConversation falls back from a chat that fails to a new one, and tries
\* a new one twice, which is one retry here.  The call that failed may have
\* been rejected, or have started a task; the token is read again.
DriveRetries(r, started) ==
    /\ Goto(r, "drive", "retry")
    /\ started => ~Rejected(r)
    /\ agents' = agents \cup (IF started THEN {Stray(r)} ELSE {})
    /\ tok' = [tok EXCEPT ![r] = ver[acct[r]]]
    /\ PoolUnchanged
    /\ UNCHANGED <<sendMu, attempt, acct, tried, forced, err, answer, gone, grown>>

Driving(r, to) == Goto(r, "drive", to) \/ Goto(r, "retry", to)

\* Variant: the send lock covers the sending only, not the poll.
DriveUnlocks(r) ==
    /\ Driving(r, "poll")
    /\ ~Rejected(r) /\ r \notin gone
    /\ agents' = agents \cup {Task(r)}
    /\ tok' = [tok EXCEPT ![r] = ver[acct[r]]]
    /\ Unlock(r)
    /\ PoolUnchanged
    /\ UNCHANGED <<attempt, acct, tried, forced, err, answer, gone, grown>>

\* SendMessage is acknowledged: the upstream runs an agent task.  The poll
\* reads the account's token again.
DriveOK(r) ==
    /\ Driving(r, "poll")
    /\ ~Rejected(r) /\ r \notin gone
    /\ agents' = agents \cup {Task(r)}
    /\ tok' = [tok EXCEPT ![r] = ver[acct[r]]]
    /\ PoolUnchanged
    /\ UNCHANGED <<sendMu, attempt, acct, tried, forced, err, answer, gone, grown>>

\* The error classes of handleUpstreamError: "busy" stands for 429 and 5xx,
\* "other" for the rest, a cancelled context among them.
ErrorClass(r) == {"busy", "other"} \cup (IF Rejected(r) THEN {"rejected"} ELSE {})

\* Variant: a failed drive leaves the send lock taken.
DriveFailsLocked(r, e, started) ==
    /\ Driving(r, "charge")
    /\ e \in ErrorClass(r)
    /\ ~started
    /\ err' = [err EXCEPT ![r] = e]
    /\ PoolUnchanged
    /\ UNCHANGED <<sendMu, attempt, acct, tried, forced, tok, answer, gone, grown, agents>>

\* The last answer to SendMessage, too, may be lost after the upstream has started.
DriveFails(r, e, started) ==
    /\ Driving(r, "charge")
    /\ e \in ErrorClass(r)
    /\ started => ~Rejected(r)
    /\ err' = [err EXCEPT ![r] = e]
    /\ agents' = agents \cup (IF started THEN {Stray(r)} ELSE {})
    /\ Unlock(r)
    /\ PoolUnchanged
    /\ UNCHANGED <<attempt, acct, tried, forced, tok, answer, gone, grown>>

\* PollAssistant returns the assistant message, complete when the task has
\* ended and cut off ("length") when it has not.
PollReturns(r) ==
    /\ Goto(r, "poll", "finish")
    /\ r \notin gone
    /\ Abandon(r)
    /\ Unlock(r)
    /\ PoolUnchanged
    /\ UNCHANGED <<attempt, acct, tried, forced, tok, err, answer, gone, grown>>

\* Variant: a failed poll leaves the send lock taken.
PollFailsLocked(r, e) ==
    /\ Goto(r, "poll", "charge")
    /\ e \in ErrorClass(r)
    /\ err' = [err EXCEPT ![r] = e]
    /\ PoolUnchanged
    /\ UNCHANGED <<sendMu, attempt, acct, tried, forced, tok, answer, gone, grown, agents>>

\* Error answer, failed generation, timeout, or the client went away.
PollFails(r, e) ==
    /\ Goto(r, "poll", "charge")
    /\ e \in ErrorClass(r)
    /\ err' = [err EXCEPT ![r] = e]
    /\ Abandon(r)
    /\ Unlock(r)
    /\ PoolUnchanged
    /\ UNCHANGED <<attempt, acct, tried, forced, tok, answer, gone, grown>>

----------------------------------------------------------------------------
\* handleUpstreamError, after the send lock is released.
Charge(r) ==
    /\ Goto(r, "charge", "pick")
    /\ NextAttempt(r)
    /\ err' = [err EXCEPT ![r] = "none"]
    /\ \/ err[r] = "rejected" /\ DisableAccount(acct[r])
       \/ err[r] = "busy" /\ SetAccount(acct[r], Cooled(pool[acct[r]]))
       \/ err[r] = "other" /\ SetAccount(acct[r], Erred(pool[acct[r]]))
    /\ UNCHANGED <<checked, ver, dead, sendMu, acct, tried, forced, tok, answer, gone, grown, agents>>

\* finalizeConversation, NoteSuccess and the reply; the lock is free by then,
\* and whoever is planning with a conversation of the account may see it grow.
Finish(r) ==
    /\ Reply(r, "finish", "ok")
    /\ SetAccount(acct[r], Succeeded(pool[acct[r]]))
    /\ grown' = grown \cup {q \in Request : pc[q] = "cut" /\ acct[q] = acct[r]}
    /\ UNCHANGED <<accountVars, sendMu, attempt, acct, tried, forced, tok, err, gone, agents>>

----------------------------------------------------------------------------
(* The actors around the requests. *)

\* Only driveConversation and PollAssistant look at the request's context: a
\* client that leaves sooner is as one that leaves when they begin.
ClientLeaves(r) ==
    /\ "client" \in Environment
    /\ pc[r] \in {"drive", "retry", "poll"} /\ r \notin gone
    /\ gone' = gone \cup {r}
    /\ PoolUnchanged
    /\ UNCHANGED <<sendMu, requestVars, grown, agents>>

RequestsUnchanged == UNCHANGED <<sendMu, requestVars, gone, grown, agents>>

\* adminDisable, adminEnable, adminClearCooldown, adminUnfreeze.
Operator(a) ==
    /\ "operator" \in Environment
    /\ \/ DisableAccount(a)
       \/ SetAccount(a, Enabled(pool[a], 0))
       \/ SetAccount(a, Thawed(pool[a]))
       \/ SetAccount(a, Unfrozen(pool[a]))
    /\ UNCHANGED <<checked, ver, dead>>
    /\ RequestsUnchanged

\* The calls of scheduler.Tick, each a locked step of its own and made for
\* disabled accounts as well: the balance is stored, an exhausted account
\* cools, one with balance is unfrozen whatever it was cooling for, and one
\* whose token is rejected is disabled.
Watchdog(a) ==
    /\ "watchdog" \in Environment
    /\ \/ \E b \in 0..MaxBalance : SetAccount(a, WithBalance(pool[a], b))
       \/ SetAccount(a, Cooled(pool[a]))
       \/ SetAccount(a, Unfrozen(pool[a]))
       \/ ver[a] < dead[a] /\ DisableAccount(a)
    /\ UNCHANGED <<checked, ver, dead>>
    /\ RequestsUnchanged

\* A new token is installed (AddAccount): the ban is lifted, the validation
\* cache is not.
Login(a) ==
    /\ "login" \in Environment
    /\ ver[a] < MaxLogins
    /\ ver' = [ver EXCEPT ![a] = @ + 1]
    /\ SetAccount(a, Relogged(pool[a]))
    /\ UNCHANGED <<checked, dead>>
    /\ RequestsUnchanged

\* The upstream stops accepting the token the account holds.
Revoke(a) ==
    /\ "login" \in Environment
    /\ dead[a] <= ver[a]
    /\ dead' = [dead EXCEPT ![a] = ver[a] + 1]
    /\ UNCHANGED <<pool, checked, ver, steady>>
    /\ RequestsUnchanged

CoolingEnds(a) ==
    /\ pool[a].cooling
    /\ SetAccount(a, [pool[a] EXCEPT !.cooling = FALSE])
    /\ UNCHANGED accountVars
    /\ RequestsUnchanged

\* Five minutes have passed since the account was validated.
CheckExpires(a) ==
    /\ a \in checked
    /\ checked' = checked \ {a}
    /\ UNCHANGED <<pool, ver, dead, steady>>
    /\ RequestsUnchanged

AgentEnds(t) ==
    /\ t \in agents
    /\ agents' = agents \ {t}
    /\ PoolUnchanged
    /\ UNCHANGED <<sendMu, requestVars, gone, grown>>

\* The request waits for a lock that a panic has left behind.
Stuck(r) == pc[r] = "lock" /\ \E q \in Request : pc[q] = "panicked" /\ acct[q] = acct[r]

\* No request can go on; the server goes on listening.
Quiet ==
    /\ \A r \in Request : pc[r] \in {"done", "panicked"} \/ Stuck(r)
    /\ UNCHANGED vars

----------------------------------------------------------------------------
\* What the request's goroutine does next.
Step(r) ==
    \/ PickAccount(r) \/ PickOwner(r) \/ Refuse(r)
    \/ ValidateCached(r) \/ PingToken(r)
    \/ PingAccepted(r) \/ PingRejected(r) \/ PingFails(r)
    \/ Lock(r) \/ PlanCompares(r) \/ PlanRejects(r) \/ PlanPanics(r) \/ Plan(r)
    \/ DriveOK(r) \/ PollReturns(r)
    \/ \E started \in BOOLEAN : DriveRetries(r, started)
    \/ \E e \in Errors : \/ PollFails(r, e)
                         \/ \E started \in BOOLEAN : DriveFails(r, e, started)
    \/ Charge(r) \/ Finish(r)

Next ==
    \/ \E r \in Request :
        \/ \E f \in Account \cup {Absent} : Arrive(r, f)
        \/ Step(r)
        \/ ClientLeaves(r)
    \/ \E a \in Account :
        \/ Operator(a) \/ Watchdog(a) \/ Login(a) \/ Revoke(a)
        \/ CoolingEnds(a) \/ CheckExpires(a)
    \/ \E t \in agents : AgentEnds(t)
    \/ Quiet

Spec == Init /\ [][Next]_vars

\* Every upstream call ends: the JSON client has a timeout, Ping and the poll
\* have deadlines; a goroutine that can run does.  Weak fairness is enough for
\* the lock too: sync.Mutex hands itself over, and requests are finite here.
FairSpec == Spec /\ \A r \in Request : WF_vars(Step(r))

----------------------------------------------------------------------------
(* Properties. *)

InSection(r) == pc[r] \in {"plan", "cut", "drive", "retry", "poll"}

\* "Uses sendMu to serialise the upstream sends of an account" (handler.go:58):
\* two requests are never between Lock and Unlock on one account.
SendSerialised ==
    \A r, q \in Request :
        InSection(r) /\ InSection(q) /\ acct[r] = acct[q] => r = q

\* The lock of an account is held by exactly the request that is in its
\* section or was the one to panic there: every return (400, failed drive,
\* failed poll, answer) unlocks, once and its own lock, and nobody gets in
\* after a panic.
HoldsLock(r) == InSection(r) \/ pc[r] = "panicked"

LockTracksSection ==
    \A a \in Account, r \in Request :
        sendMu[a] = r <=> HoldsLock(r) /\ acct[r] = a

\* A request that named a conversation only ever touches the owner, and a
\* request that did not never gives an account a second try.
InAttempt(r) == pc[r] \in {"validate", "ping", "lock", "plan", "cut", "drive", "retry", "poll",
                          "charge", "finish", "panicked"}

RotationExact ==
    \A r \in Request :
        IF forced[r] = Absent
        THEN answer[r] \notin {"ok", "bad"} =>
                Cardinality(tried[r]) = attempt[r]
                    + (IF InAttempt(r) THEN 1 ELSE 0)
        ELSE tried[r] = {} /\ acct[r] \in {forced[r], Absent} /\ attempt[r] <= 1

\* "all accounts unavailable": a free request is refused only after MaxRotate
\* attempts, or after it has tried every account that was healthy all along,
\* whatever happened to the pool meanwhile.
RefusalJustified ==
    \A r \in Request :
        answer[r] = "unavailable" /\ forced[r] = Absent /\ attempt[r] < MaxRotate =>
            steady[r] \subseteq tried[r]

\* One agent task at a time per account (handler.go:58-60), as far as the code
\* enforces it: two tasks that their requests are still waiting for, or have
\* seen the end of, never run together on one account.
OneAgentPerAccount(tasks) ==
    \A s, t \in tasks : s[2] = t[2] => s = t

Watched == {t \in agents : t[1] # Absent}

OneWatchedAgent == OneAgentPerAccount(Watched)

\* Every request that arrives is answered, whatever the accounts, the other
\* requests, the client and the operator do, unless it panics or waits for
\* the lock of one that did.
Answered ==
    \A r \in Request : pc[r] # "new" ~> pc[r] \in {"done", "panicked"} \/ Stuck(r)

----------------------------------------------------------------------------
(* What a text of the repository says and the code does not keep.  No run  *)
(* checks these; README.md says how to see each of them fail.              *)

\* "Only one agent task at a time per account" (handler.go:58).  A poll that times out, fails, or
\* returns an unfinished message releases sendMu while the upstream works on.
OneAgent == OneAgentPerAccount(agents)

\* Every return of the section unlocks (handler.go:418, 426, 437), as if there
\* were no other way out: no request waits for ever.  The panic is one.
NobodyStuck == \A r \in Request : ~Stuck(r)

\* "401/403 disables the account" (pool.go:261): a request disables an account
\* that holds a token the upstream rejects.
LiveTokenStaysEnabled ==
    [][\A a \in Account :
          ~pool[a].disabled /\ pool'[a].disabled /\ requestVars' # requestVars => ver[a] < dead[a]]_vars
=============================================================================
