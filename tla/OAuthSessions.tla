----------------------------- MODULE OAuthSessions -----------------------------
(***************************************************************************)
(* The login panel of internal/server/oauth.go: adminOAuthStart opens a    *)
(* session, a browser logs in at the upstream, and adminOAuthPoll fetches  *)
(* the token, finds out whose it is, saves it and adds it to the pool.     *)
(*                                                                         *)
(* A poll runs on context.Background(): it goes on when its connection     *)
(* breaks, and the panel asks again 2.5 seconds later, so several polls of *)
(* one session can be in progress; two panels can log in one account.  The *)
(* token that session s yields is named s.  The balance that is fetched in *)
(* the background after a login is left out, and so are requests without a *)
(* session id.                                                             *)
(***************************************************************************)
EXTENDS FiniteSets

CONSTANTS
    Session,
    Account,
    Poll,           \* goroutines that may run adminOAuthPoll
    CallsFail,      \* may current-user and the save fail?
    CanRestart,
    None

ASSUME NoneAssumption == None \notin Session \cup Account
ASSUME SwitchAssumption == {CallsFail, CanRestart} \subseteq BOOLEAN

VARIABLES
    store,      \* oauthStore.byID
    started,    \* sessions that have been opened
    stale,      \* sessions older than oauthSessionTTL
    lost,       \* sessions that were open when the server was restarted
    browser,    \* the account whose owner has logged in for a session
    pc,         \* where each Poll is: idle, ask, user, save, add, reply
    sess,       \* the session it polls, or None
    file,       \* the token in each account's auth file
    pool,       \* the token the pool uses for each account
    told        \* the outcomes that polls of a session have answered: error, done

storeVars == <<store, started, stale, lost>>
accountVars == <<file, pool>>
vars == <<storeVars, browser, pc, sess, accountVars, told>>

TypeOK ==
    /\ store \subseteq started /\ started \subseteq Session /\ stale \cup lost \subseteq started
    /\ browser \in [Session -> Account \cup {None}]
    /\ pc \in [Poll -> {"idle", "ask", "user", "save", "add", "reply"}]
    /\ sess \in [Poll -> Session \cup {None}]
    /\ \A p \in Poll : /\ pc[p] = "idle" <=> sess[p] = None
                       /\ pc[p] \in {"save", "add", "reply"} => browser[sess[p]] # None
    /\ file \in [Account -> Session \cup {None}]
    /\ pool \in [Account -> Session \cup {None}]
    /\ told \in [Session -> SUBSET {"error", "done"}]

Init ==
    /\ store = {} /\ started = {} /\ stale = {} /\ lost = {}
    /\ browser = [s \in Session |-> None]
    /\ pc = [p \in Poll |-> "idle"]
    /\ sess = [p \in Poll |-> None]
    /\ file = [a \in Account |-> None]
    /\ pool = file
    /\ told = [s \in Session |-> {}]

----------------------------------------------------------------------------
Goto(p, from, to) == pc[p] = from /\ pc' = [pc EXCEPT ![p] = to] /\ UNCHANGED sess

Tell(s, what) == told' = [told EXCEPT ![s] = @ \cup {what}]

\* The handler returns.
Returns(p, from) ==
    /\ pc[p] = from
    /\ pc' = [pc EXCEPT ![p] = "idle"]
    /\ sess' = [sess EXCEPT ![p] = None]

Answer(p, from, what) == Returns(p, from) /\ Tell(sess[p], what)

\* The owner of the token that poll p has fetched.
Owner(p) == browser[sess[p]]

\* gcLocked, on every put and get.
Swept == store \ stale

\* Variant: there is one session at a time.
StartReplaces(s) ==
    /\ s \notin started
    /\ started' = started \cup {s}
    /\ store' = {s}
    /\ UNCHANGED <<stale, lost, browser, pc, sess, accountVars, told>>

Start(s) ==
    /\ s \notin started
    /\ started' = started \cup {s}
    /\ store' = Swept \cup {s}
    /\ UNCHANGED <<stale, lost, browser, pc, sess, accountVars, told>>

BrowserLogsIn(s, a) ==
    /\ s \in started /\ browser[s] = None
    /\ browser' = [browser EXCEPT ![s] = a]
    /\ UNCHANGED <<storeVars, pc, sess, accountVars, told>>

SessionAges(s) ==
    /\ s \in started \ stale
    /\ stale' = stale \cup {s}
    /\ UNCHANGED <<store, started, lost, browser, pc, sess, accountVars, told>>

----------------------------------------------------------------------------
(* adminOAuthPoll. *)

LookUp(p, s) ==
    /\ pc[p] = "idle"
    /\ store' = Swept
    /\ s \in Swept
    /\ pc' = [pc EXCEPT ![p] = "ask"]
    /\ sess' = [sess EXCEPT ![p] = s]
    /\ UNCHANGED <<started, stale, lost, browser, accountVars, told>>

\* The session has been used, has run out or was lost in a restart: 404.
NotFound(s) ==
    /\ store' = Swept
    /\ s \in started \ Swept
    /\ Tell(s, "error")
    /\ UNCHANGED <<started, stale, lost, browser, pc, sess, accountVars>>

\* The browser is not there yet, or poll-token fails: "pending".
Pending(p) ==
    /\ Returns(p, "ask")
    /\ UNCHANGED <<storeVars, browser, accountVars, told>>

\* Variant: an empty answer of poll-token passes for a token.
TokenArrivesEmpty(p) ==
    /\ Goto(p, "ask", "user")
    /\ UNCHANGED <<storeVars, browser, accountVars, told>>

TokenArrives(p) ==
    /\ Goto(p, "ask", "user")
    /\ Owner(p) # None
    /\ UNCHANGED <<storeVars, browser, accountVars, told>>

\* current-user fails or gives no uid, or the file cannot be written.  The
\* session stays in the store.
Fails(p) ==
    /\ CallsFail
    /\ Answer(p, "user", "error") \/ Answer(p, "save", "error")
    /\ UNCHANGED <<storeVars, browser, accountVars>>

UserKnown(p) ==
    /\ Goto(p, "user", "save")
    /\ UNCHANGED <<storeVars, browser, accountVars, told>>

\* Variant: the account is added although it could not be saved.
SaveNewOrNot(p) ==
    /\ Goto(p, "save", "add")
    /\ file' \in {file, [file EXCEPT ![Owner(p)] = sess[p]]}
    /\ UNCHANGED <<storeVars, browser, pool, told>>

SaveNew(p) ==
    /\ Goto(p, "save", "add")
    /\ file' = [file EXCEPT ![Owner(p)] = sess[p]]
    /\ UNCHANGED <<storeVars, browser, pool, told>>

AddAccount(p) ==
    /\ Goto(p, "add", "reply")
    /\ pool' = [pool EXCEPT ![Owner(p)] = sess[p]]
    /\ UNCHANGED <<storeVars, browser, file, told>>

\* Variant: the session is left in the store.
DoneKept(p) ==
    /\ Answer(p, "reply", "done")
    /\ UNCHANGED <<storeVars, browser, accountVars>>

Done(p) ==
    /\ Answer(p, "reply", "done")
    /\ store' = store \ {sess[p]}
    /\ UNCHANGED <<started, stale, lost, browser, accountVars>>

----------------------------------------------------------------------------
\* Sessions live in memory only; the pool is built from the auth files.
Restart ==
    /\ CanRestart
    /\ store' = {}
    /\ lost' = lost \cup store
    /\ pc' = [p \in Poll |-> "idle"]
    /\ sess' = [p \in Poll |-> None]
    /\ pool' = file
    /\ UNCHANGED <<started, stale, browser, file, told>>

PollStep(p) ==
    \/ Pending(p) \/ TokenArrives(p) \/ Fails(p)
    \/ UserKnown(p) \/ SaveNew(p) \/ AddAccount(p) \/ Done(p)

Next ==
    \/ \E s \in Session :
        \/ Start(s) \/ SessionAges(s) \/ NotFound(s)
        \/ \E a \in Account : BrowserLogsIn(s, a)
        \/ \E p \in Poll : LookUp(p, s)
    \/ \E p \in Poll : PollStep(p)
    \/ Restart

Spec == Init /\ [][Next]_vars

\* The panel asks by itself until it has heard the outcome, and at the push
\* of a button afterwards (panel.html, pollOAuth).
PanelPolls(s) == "done" \notin told[s] /\ \E p \in Poll : LookUp(p, s)

Trouble == Restart \/ \E p \in Poll : Fails(p)

\* Calls end; the operator asks until the login is done; poll-token does not
\* stay silent for ever; and calls do not fail for ever, nor does the server die.
FairSpec ==
    /\ Spec
    /\ <>[][~Trouble]_vars
    /\ \A p \in Poll : WF_vars(PollStep(p))
    /\ \A s \in Session : /\ SF_vars(PanelPolls(s))
                          /\ SF_vars(\E p \in Poll : sess[p] = s /\ TokenArrives(p))

----------------------------------------------------------------------------
(* Properties. *)

\* A poll asks the upstream for the token of a session only if the session has
\* not outlived oauthSessionTTL and no earlier poll has answered "done" for it,
\* however polls, sweeps and restarts interleave (get and gcLocked).
OnlyOpenSessions ==
    [][\A p \in Poll : sess[p] = None /\ sess'[p] # None =>
            sess'[p] \notin stale /\ "done" \notin told[sess'[p]]]_vars

\* An account whose login was answered with "done" is in the pool and on disk,
\* and neither a restart nor the failure of another poll of its session takes
\* it away (adminOAuthPoll saves before it adds, and adds before it answers).
DoneIsInstalled ==
    \A s \in Session : "done" \in told[s] =>
        /\ file[browser[s]] # None
        /\ pool[browser[s]] # None

\* Once its owner has logged in, a session that is asked for is answered "done",
\* unless it runs out of time or is lost in a restart first, although calls
\* fail and other sessions are opened, polled and swept.
LoginCompletes ==
    \A s \in Session : browser[s] # None ~> ("done" \in told[s] \/ s \in stale \cup lost)

----------------------------------------------------------------------------
(* What a text of the repository says and the code does not keep.  No run  *)
(* checks these; README.md says how to see each of them fail.              *)

\* "On success it is saved and hot loaded" (oauth.go:120): when no poll is in
\* progress, the pool uses the tokens that are on disk.
LoadedAsSaved ==
    (\A p \in Poll : pc[p] = "idle") => pool = file
=============================================================================
