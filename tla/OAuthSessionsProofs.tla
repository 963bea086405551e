--------------------------- MODULE OAuthSessionsProofs ---------------------------
(***************************************************************************)
(* Theorems about OAuthSessions, for any sessions, accounts and polls, and *)
(* whether or not calls fail and the server is restarted.                  *)
(***************************************************************************)
EXTENDS OAuthSessions, TLAPS

\* A poll that has a token knows that somebody has logged in, and an account is
\* on disk before it is added, and added before the answer is given.
InstalledInOrder ==
    \A p \in Poll :
        /\ pc[p] = "user" => Owner(p) # None
        /\ pc[p] \in {"add", "reply"} => file[Owner(p)] # None
        /\ pc[p] = "reply" => pool[Owner(p)] # None

\* A session that was answered "done" has an owner and has left the store, to
\* which it cannot come back because it was started.
DoneIsClosed ==
    \A s \in Session : "done" \in told[s] =>
        browser[s] # None /\ s \in started /\ s \notin store

\* The session of a poll was started.
PolledIsStarted == \A p \in Poll : sess[p] # None => sess[p] \in started

IInv == TypeOK /\ InstalledInOrder /\ DoneIsClosed /\ PolledIsStarted /\ DoneIsInstalled

LEMMA InitIInv == Init => IInv
  BY NoneAssumption
  DEF Init, IInv, TypeOK, InstalledInOrder, DoneIsClosed, PolledIsStarted, DoneIsInstalled

----------------------------------------------------------------------------
\* Opening a session, the age of one, and a lookup without success.
LEMMA SessionStep ==
  ASSUME IInv, NEW s \in Session, Start(s) \/ SessionAges(s) \/ NotFound(s)
  PROVE  IInv'
<1> USE DEF IInv
<1>1. TypeOK'
  BY DEF TypeOK, Start, SessionAges, NotFound, Swept, Tell, accountVars
<1>2. InstalledInOrder'
  BY DEF InstalledInOrder, Owner, Start, SessionAges, NotFound, accountVars
<1>3. DoneIsClosed'
  BY DEF TypeOK, DoneIsClosed, Start, SessionAges, NotFound, Swept, Tell
<1>4. PolledIsStarted'
  BY DEF PolledIsStarted, Start, SessionAges, NotFound
<1>5. DoneIsInstalled'
  BY DEF TypeOK, DoneIsInstalled, Start, SessionAges, NotFound, Tell, accountVars
<1> QED
  BY <1>1, <1>2, <1>3, <1>4, <1>5

\* A login in the browser gives an owner to a session that had none, so no
\* poll has a token of it and no answer has been "done".
LEMMA BrowserStep ==
  ASSUME IInv, NEW s \in Session, NEW a \in Account, BrowserLogsIn(s, a)
  PROVE  IInv'
<1> USE DEF IInv, BrowserLogsIn, storeVars, accountVars
<1>1. TypeOK'
  BY NoneAssumption DEF TypeOK
<1>2. \A p \in Poll : pc[p] \in {"user", "save", "add", "reply"} => Owner(p)' = Owner(p)
  BY DEF TypeOK, InstalledInOrder, Owner
<1>3. InstalledInOrder'
  BY <1>2 DEF InstalledInOrder
<1>4. DoneIsClosed' /\ DoneIsInstalled'
  BY NoneAssumption DEF TypeOK, DoneIsClosed, DoneIsInstalled
<1>5. PolledIsStarted'
  BY DEF PolledIsStarted
<1> QED
  BY <1>1, <1>3, <1>4, <1>5

LEMMA LookUpStep ==
  ASSUME IInv, NEW s \in Session, NEW p \in Poll, LookUp(p, s)
  PROVE  IInv'
<1> USE DEF IInv, LookUp, Swept, accountVars
<1>1. TypeOK'
  BY NoneAssumption DEF TypeOK
<1>2. InstalledInOrder'
  BY DEF TypeOK, InstalledInOrder, Owner
<1>3. DoneIsClosed' /\ DoneIsInstalled' /\ PolledIsStarted'
  BY DEF TypeOK, DoneIsClosed, DoneIsInstalled, PolledIsStarted
<1> QED
  BY <1>1, <1>2, <1>3

\* A poll that returns without having installed anything.
LEMMA ReturnStep ==
  ASSUME IInv, NEW p \in Poll, Pending(p) \/ Fails(p)
  PROVE  IInv'
<1> USE DEF IInv, Pending, Fails, Answer, Returns, Tell, storeVars, accountVars
<1>1. TypeOK'
  BY DEF TypeOK
<1>2. InstalledInOrder'
  BY DEF TypeOK, InstalledInOrder, Owner
<1>3. DoneIsClosed' /\ DoneIsInstalled' /\ PolledIsStarted'
  BY DEF TypeOK, DoneIsClosed, DoneIsInstalled, PolledIsStarted
<1> QED
  BY <1>1, <1>2, <1>3

\* A poll that learns the token or its owner.
LEMMA LearnStep ==
  ASSUME IInv, NEW p \in Poll, TokenArrives(p) \/ UserKnown(p)
  PROVE  IInv'
<1> USE DEF IInv, TokenArrives, UserKnown, Goto, storeVars, accountVars
<1>1. TypeOK'
  BY DEF TypeOK, InstalledInOrder, Owner
<1>2. InstalledInOrder'
  BY DEF TypeOK, InstalledInOrder, Owner
<1>3. DoneIsClosed' /\ DoneIsInstalled' /\ PolledIsStarted'
  BY DEF DoneIsClosed, DoneIsInstalled, PolledIsStarted
<1> QED
  BY <1>1, <1>2, <1>3

\* A poll at "save" or "add" has a session, the name of its token, and an owner.
LEMMA HasOwner ==
  ASSUME IInv, NEW p \in Poll, pc[p] \in {"save", "add", "reply"}
  PROVE  sess[p] \in Session /\ sess[p] # None /\ Owner(p) \in Account
  BY DEF IInv, TypeOK, Owner

LEMMA InstallStep ==
  ASSUME IInv, NEW p \in Poll, SaveNew(p) \/ AddAccount(p)
  PROVE  IInv'
<1> USE DEF IInv, SaveNew, AddAccount, Goto, storeVars
<1>1. sess[p] \in Session /\ sess[p] # None /\ Owner(p) \in Account
  BY HasOwner
<1>2. TypeOK'
  BY <1>1 DEF TypeOK
<1>3. InstalledInOrder'
  BY <1>1 DEF TypeOK, InstalledInOrder, Owner
<1>4. DoneIsInstalled'
  <2>1. /\ \A a \in Account : file[a] # None => file'[a] # None
        /\ \A a \in Account : pool[a] # None => pool'[a] # None
    BY <1>1 DEF TypeOK
  <2>2. \A s \in Session : "done" \in told[s] => browser[s] \in Account
    BY DEF TypeOK, DoneIsClosed
  <2> QED
    BY <2>1, <2>2 DEF DoneIsInstalled
<1>5. DoneIsClosed' /\ PolledIsStarted'
  BY DEF DoneIsClosed, PolledIsStarted
<1> QED
  BY <1>2, <1>3, <1>4, <1>5

LEMMA DoneStep ==
  ASSUME IInv, NEW p \in Poll, Done(p)
  PROVE  IInv'
<1> USE DEF IInv, Done, Answer, Returns, Tell, accountVars
<1>1. sess[p] \in Session /\ sess[p] # None /\ Owner(p) \in Account
  BY HasOwner
<1>2. TypeOK'
  BY <1>1 DEF TypeOK
<1>3. InstalledInOrder'
  BY DEF TypeOK, InstalledInOrder, Owner
<1>4. DoneIsInstalled'
  BY <1>1 DEF TypeOK, DoneIsInstalled, InstalledInOrder, Owner
<1>5. DoneIsClosed'
  BY <1>1, NoneAssumption DEF TypeOK, DoneIsClosed, PolledIsStarted, Owner
<1>6. PolledIsStarted'
  BY DEF TypeOK, PolledIsStarted
<1> QED
  BY <1>2, <1>3, <1>4, <1>5, <1>6

LEMMA RestartStep ==
  ASSUME IInv, Restart
  PROVE  IInv'
<1> USE DEF IInv, Restart
<1>1. TypeOK'
  BY NoneAssumption DEF TypeOK
<1>2. InstalledInOrder' /\ PolledIsStarted'
  BY DEF InstalledInOrder, PolledIsStarted
<1>3. DoneIsClosed' /\ DoneIsInstalled'
  BY DEF DoneIsClosed, DoneIsInstalled
<1> QED
  BY <1>1, <1>2, <1>3

\* Nothing that IInv speaks of changes.
LEMMA StutterStep == IInv /\ UNCHANGED vars => IInv'
  BY DEF IInv, TypeOK, InstalledInOrder, DoneIsClosed, PolledIsStarted, DoneIsInstalled,
         Owner, vars, storeVars, accountVars

LEMMA Inductive == IInv /\ [Next]_vars => IInv'
<1> SUFFICES ASSUME IInv, [Next]_vars PROVE IInv'
  OBVIOUS
<1>1. ASSUME NEW s \in Session, Start(s) \/ SessionAges(s) \/ NotFound(s) PROVE IInv'
  BY <1>1, SessionStep
<1>2. ASSUME NEW s \in Session, NEW a \in Account, BrowserLogsIn(s, a) PROVE IInv'
  BY <1>2, BrowserStep
<1>3. ASSUME NEW s \in Session, NEW p \in Poll, LookUp(p, s) PROVE IInv'
  BY <1>3, LookUpStep
<1>4. ASSUME NEW p \in Poll, PollStep(p) PROVE IInv'
  BY <1>4, ReturnStep, LearnStep, InstallStep, DoneStep DEF PollStep
<1>5. CASE Restart
  BY <1>5, RestartStep
<1>6. CASE UNCHANGED vars
  BY <1>6, StutterStep
<1> QED
  BY <1>1, <1>2, <1>3, <1>4, <1>5, <1>6 DEF Next

LEMMA Invariance == Spec => []IInv
  BY InitIInv, Inductive, PTL DEF Spec

\* The sessions, the polls and the tokens stay well formed, and a poll that
\* saves has a session that somebody has logged in for (adminOAuthPoll).
THEOREM TypeCorrect == Spec => []TypeOK
<1>1. IInv => TypeOK
  BY DEF IInv
<1> QED
  BY <1>1, Invariance, PTL

\* Whoever was answered "done" stays in the pool and on disk (adminOAuthPoll:
\* save, then add, then answer; at a restart the pool is read from the files).
THEOREM DoneStays == Spec => []DoneIsInstalled
<1>1. IInv => DoneIsInstalled
  BY DEF IInv
<1> QED
  BY <1>1, Invariance, PTL

\* No poll asks for the token of a session that has run out or was answered
\* "done": get sweeps, and the answer removes the session.
THEOREM OpenOnly == Spec => OnlyOpenSessions
<1> DEFINE Begins(p) == sess[p] = None /\ sess'[p] # None
<1>1. ASSUME IInv, [Next]_vars, NEW p \in Poll, Begins(p)
      PROVE  sess'[p] \notin stale /\ "done" \notin told[sess'[p]]
  <2>1. PICK s \in Session, q \in Poll : LookUp(q, s)
    <3>1. ASSUME NEW q \in Poll, PollStep(q) PROVE ~Begins(p)
      BY <1>1, <3>1 DEF IInv, TypeOK, PollStep, Pending, TokenArrives, Fails, UserKnown,
                        SaveNew, AddAccount, Done, Answer, Returns, Goto
    <3>2. ASSUME UNCHANGED sess \/ Restart PROVE ~Begins(p)
      BY <1>1, <3>2 DEF Restart
    <3> QED
      BY <1>1, <3>1, <3>2 DEF Next, Start, SessionAges, NotFound, BrowserLogsIn, vars
  <2>2. sess'[p] = s
    BY <1>1, <2>1 DEF IInv, TypeOK, LookUp
  <2> QED
    BY <1>1, <2>1, <2>2 DEF IInv, DoneIsClosed, LookUp, Swept
<1>2. IInv /\ [Next]_vars =>
        [\A p \in Poll : sess[p] = None /\ sess'[p] # None =>
            sess'[p] \notin stale /\ "done" \notin told[sess'[p]]]_vars
  BY <1>1
<1> QED
  BY <1>2, Invariance, PTL DEF Spec, OnlyOpenSessions
=============================================================================
