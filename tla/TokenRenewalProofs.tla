-------------------------- MODULE TokenRenewalProofs --------------------------
(***************************************************************************)
(* Renewals never overlap, the disk is never behind the pool and the pool  *)
(* is back in line with the disk once everybody is done: for any number of *)
(* accounts, renewers, panel requests and tokens, with reloads and         *)
(* restarts at any moment.                                                 *)
(***************************************************************************)
EXTENDS TokenRenewal, TLAPS

\* A login in progress is about an account, and one that holds a token holds
\* one that has been issued; a Panel request never waits and never enables.
JobsTyped ==
    \A w \in Worker :
        /\ job[w].pc # "idle" => job[w].acct \in Account
        /\ job[w].pc \in {"save", "add"} => job[w].tok \in 0..issued[job[w].acct]
        /\ w \in Panel => job[w].pc \in {"idle", "save", "add"}

\* Nobody knows a token that has not been issued.
TokensIssued ==
    \A a \in Account :
        /\ file[a] # Absent => file[a] <= issued[a]
        /\ pool[a] # Absent => pool[a] <= issued[a]
        /\ snap # Absent /\ snap[a] # Absent => snap[a] <= issued[a]

Holds(w, a) == job[w].acct = a /\ job[w].pc \in {"save", "add"}

\* Where no two logins have met, the one that holds a token holds the newest,
\* and what it has saved is still there.
HoldersApart ==
    \A a \in Account \ crossed, w \in Worker : Holds(w, a) =>
        /\ \A v \in Worker : Holds(v, a) => v = w
        /\ job[w].tok = issued[a]
        /\ job[w].pc = "add" => file[a] = job[w].tok

\* Neither the pool nor a snapshot of the directory is ahead of the disk.
DiskAhead ==
    \A a \in Account \ crossed :
        /\ pool[a] # Absent => file[a] # Absent /\ pool[a] <= file[a]
        /\ snap # Absent /\ snap[a] # Absent => file[a] # Absent /\ snap[a] <= file[a]

\* What a reload has read is still true unless it has missed a save, and
\* without a reload the pool differs from the disk only for a login that is
\* about to install what it has saved.
Aligned ==
    \A a \in Account \ (crossed \cup missed) :
        /\ snap # Absent => snap[a] = file[a]
        /\ snap = Absent /\ (\A w \in Worker : ~(job[w].pc = "add" /\ job[w].acct = a)) =>
              pool[a] = file[a]

Typed == TypeOK /\ JobsTyped
IInv ==
    /\ Typed /\ RenewalExclusive /\ TokensIssued
    /\ HoldersApart /\ DiskAhead /\ Aligned /\ SweepHadReason

LEMMA InitIInv == Init => IInv
<1> SUFFICES ASSUME Init PROVE IInv
  OBVIOUS
<1> USE TokensAssumption, WorkersAssumption, AbsentAssumption DEF Init
<1>1. \A w \in Worker : job[w] = NoJob
  OBVIOUS
<1>2. TypeOK
  BY DEF TypeOK, NoJob, Token
<1>3. JobsTyped /\ HoldersApart
  BY <1>1 DEF JobsTyped, HoldersApart, Holds, NoJob
<1>4. RenewalExclusive
  BY <1>1 DEF RenewalExclusive, Active, NoJob, Worker
<1>5. TokensIssued /\ DiskAhead /\ Aligned
  BY <1>2 DEF TypeOK, TokensIssued, DiskAhead, Aligned, Token
<1>6. SweepHadReason
  BY DEF SweepHadReason
<1> QED
  BY <1>2, <1>3, <1>4, <1>5, <1>6 DEF IInv, Typed

----------------------------------------------------------------------------
LEMMA JobStepTyped ==
    ASSUME Typed, NEW w \in Worker, NEW from, NEW to \in {"wait", "add", "enable"},
           JobStep(w, from, to), from # "idle", to = "add" => from = "save",
           to = "add" \/ w \in Renewer, issued' = issued
    PROVE  /\ job' \in [Worker -> [pc : {"idle", "entry", "wait", "save", "add", "enable"},
                                   acct : Account \cup {Absent}, tok : Token \cup {Absent}]]
           /\ JobsTyped'
BY WorkersAssumption DEF Typed, TypeOK, JobsTyped, JobStep, Worker

LEMMA EndsTyped ==
    ASSUME Typed, NEW w \in Worker, Ends(w), issued' = issued
    PROVE  /\ job' \in [Worker -> [pc : {"idle", "entry", "wait", "save", "add", "enable"},
                                   acct : Account \cup {Absent}, tok : Token \cup {Absent}]]
           /\ renewing' \in SUBSET Account
           /\ JobsTyped'
BY DEF Typed, TypeOK, JobsTyped, Ends, NoJob, Worker

LEMMA IssueTyped ==
    ASSUME Typed, NEW a \in Account, Issue(a)
    PROVE  /\ issued' \in [Account -> Token] /\ issued'[a] \in Token
           /\ \A b \in Account : issued[b] <= issued'[b]
           /\ crossed' \in SUBSET Account /\ missed' \in SUBSET Account
BY TokensAssumption DEF Typed, TypeOK, Issue, Token

\* Steps that leave the logins and the issued tokens alone.
LEMMA AsideTyped ==
    ASSUME Typed, job' = job, issued' = issued
    PROVE  JobsTyped'
BY DEF Typed, JobsTyped

LEMMA NextTyped == Typed /\ [Next]_vars => Typed'
<1> SUFFICES ASSUME Typed, [Next]_vars PROVE Typed'
  OBVIOUS
<1> USE TokensAssumption, WorkersAssumption, AbsentAssumption
    DEF poolVars, tickVars, ghosts
<1>1. ASSUME NEW a \in Account, NEW t \in Token, Ages(a, t) PROVE Typed'
  BY <1>1, AsideTyped DEF Ages, Older, Typed, TypeOK
<1>2. ASSUME NEW from, NEW to \in {"renew", "expire", "idle"}, StartSweep(from, to) PROVE Typed'
  BY <1>2, AsideTyped DEF StartSweep, Members, Typed, TypeOK
<1>3. ASSUME NEW a \in Account, NEW w \in Renewer, Renew(a, w) PROVE Typed'
  BY <1>3 DEF Renew, Typed, TypeOK, JobsTyped, Worker
<1>4. ASSUME NEW a \in Account, RenewSkips(a) \/ ExpireLooks(a) PROVE Typed'
  BY <1>4, AsideTyped DEF RenewSkips, ExpireLooks, Typed, TypeOK
<1>5. CASE ExpireDisables
  BY <1>5, AsideTyped DEF ExpireDisables, Members, Typed, TypeOK
<1>6. ASSUME NEW w \in Worker, LoginConfig(w) PROVE Typed'
  BY <1>6, JobStepTyped DEF LoginConfig, JobStep, Typed, TypeOK
<1>7. ASSUME NEW w \in Worker, GivesUp(w) PROVE Typed'
  BY <1>7, EndsTyped DEF GivesUp, Typed, TypeOK
<1>8. ASSUME NEW w \in Worker, TokenArrives(w) PROVE Typed'
  <2>1. job[w].acct \in Account
    BY <1>8 DEF TokenArrives, Typed, JobsTyped
  <2>2. /\ issued' \in [Account -> Token] /\ issued'[job[w].acct] \in Token
        /\ \A b \in Account : issued[b] <= issued'[b]
        /\ crossed' \in SUBSET Account /\ missed' \in SUBSET Account
    BY <1>8, <2>1, IssueTyped DEF TokenArrives
  <2>3. TypeOK'
    BY <1>8, <2>1, <2>2 DEF TokenArrives, Typed, TypeOK
  <2>4. w \notin Panel
    BY <1>8 DEF TokenArrives, Typed, JobsTyped
  <2>5. /\ job'[w].acct = job[w].acct /\ job'[w].pc = "save"
        /\ job'[w].tok = issued'[job[w].acct]
        /\ \A v \in Worker \ {w} : job'[v] = job[v]
    BY <1>8 DEF TokenArrives, Typed, TypeOK
  <2>6. \A b \in Account : 0..issued[b] \subseteq 0..issued'[b] /\ issued'[b] \in 0..issued'[b]
    BY <2>2 DEF Typed, TypeOK, Token
  <2>7. JobsTyped'
    BY <2>1, <2>4, <2>5, <2>6 DEF Typed, JobsTyped
  <2> QED
    BY <2>3, <2>7 DEF Typed
<1>9. ASSUME NEW p \in Panel, NEW a \in Account, PanelToken(p, a) PROVE Typed'
  <2>1. /\ issued' \in [Account -> Token] /\ issued'[a] \in Token
        /\ \A b \in Account : issued[b] <= issued'[b]
        /\ crossed' \in SUBSET Account /\ missed' \in SUBSET Account
    BY <1>9, IssueTyped DEF PanelToken
  <2>2. TypeOK'
    BY <1>9, <2>1 DEF PanelToken, Typed, TypeOK, Worker
  <2>3. JobsTyped'
    BY <1>9, <2>1 DEF PanelToken, Typed, TypeOK, JobsTyped, Token, Worker
  <2> QED
    BY <2>2, <2>3 DEF Typed
<1>10. ASSUME NEW w \in Worker, SaveNew(w) PROVE Typed'
  <2>1. job[w].acct \in Account /\ job[w].tok \in Token
    BY <1>10 DEF SaveNew, JobStep, Typed, JobsTyped, TypeOK, Token
  <2> QED
    BY <1>10, <2>1, JobStepTyped DEF SaveNew, Typed, TypeOK
<1>11. ASSUME NEW w \in Worker, AddAccount(w) PROVE Typed'
  <2>1. job[w].acct \in Account /\ job[w].tok \in Token
    BY <1>11 DEF AddAccount, Typed, JobsTyped, TypeOK, Token
  <2>2. CASE w \in Panel
    BY <1>11, <2>1, <2>2, EndsTyped DEF AddAccount, Typed, TypeOK
  <2>3. CASE w \notin Panel
    BY <1>11, <2>1, <2>3, JobStepTyped DEF AddAccount, Typed, TypeOK, Worker
  <2> QED
    BY <2>2, <2>3
<1>12. ASSUME NEW w \in Worker, Enable(w) PROVE Typed'
  BY <1>12, EndsTyped DEF Enable, Typed, TypeOK
<1>13. CASE ReloadReads
  BY <1>13, AsideTyped DEF ReloadReads, Typed, TypeOK
<1>14. CASE ReloadSyncs
  BY <1>14, AsideTyped DEF ReloadSyncs, Typed, TypeOK
<1>15. CASE Restart
  BY <1>15 DEF Restart, Typed, TypeOK, JobsTyped, NoJob
<1>16. CASE UNCHANGED vars
  BY <1>16, AsideTyped DEF vars, Typed, TypeOK
<1> QED
  BY <1>1, <1>2, <1>3, <1>4, <1>5, <1>6, <1>7, <1>8, <1>9, <1>10, <1>11, <1>12, <1>13,
     <1>14, <1>15, <1>16 DEF Next, SweepStep, JobNext

----------------------------------------------------------------------------
(* Renewals. *)

\* A step that starts no renewal and ends none.
LEMMA SameRenewals ==
    ASSUME RenewalExclusive, renewing' = renewing,
           \A w \in Renewer :
               job'[w].acct = job[w].acct /\ (job'[w].pc = "idle" <=> job[w].pc = "idle")
    PROVE  RenewalExclusive'
<1>1. Active' = Active
  BY DEF Active
<1>2. \A w \in Active : job'[w].acct = job[w].acct
  BY DEF Active
<1> QED
  BY <1>1, <1>2 DEF RenewalExclusive

LEMMA EndsExclusive ==
    ASSUME Typed, RenewalExclusive, NEW w \in Worker, job[w].pc # "idle", Ends(w)
    PROVE  RenewalExclusive'
<1>1. job' = [job EXCEPT ![w] = NoJob] /\ job'[w].pc = "idle"
  BY DEF Ends, NoJob, Typed, TypeOK
<1>2. CASE w \notin Renewer
  BY <1>1, <1>2, SameRenewals DEF Ends, Worker, Typed, TypeOK
<1>3. CASE w \in Renewer
  <2>1. Active' = Active \ {w} /\ w \in Active
    BY <1>1, <1>3 DEF Active, Worker, Typed, TypeOK
  <2>2. \A v \in Active' : job'[v] = job[v]
    BY <1>1, <2>1 DEF Active, Worker, Typed, TypeOK
  <2>3. renewing' = renewing \ {job[w].acct}
    BY <1>3 DEF Ends
  <2> QED
    BY <2>1, <2>2, <2>3 DEF RenewalExclusive
<1> QED
  BY <1>2, <1>3

LEMMA NextExclusive == Typed /\ RenewalExclusive /\ [Next]_vars => RenewalExclusive'
<1> SUFFICES ASSUME Typed, RenewalExclusive, [Next]_vars PROVE RenewalExclusive'
  OBVIOUS
<1> USE WorkersAssumption DEF Worker
<1>1. ASSUME renewing' = renewing, job' = job PROVE RenewalExclusive'
  BY <1>1, SameRenewals
<1>2. ASSUME NEW a \in Account, NEW w \in Renewer, Renew(a, w) PROVE RenewalExclusive'
  <2>1. /\ Active' = Active \cup {w} /\ w \notin Active
        /\ \A v \in Active : job'[v] = job[v]
        /\ job'[w].acct = a
    BY <1>2 DEF Renew, Active, Typed, TypeOK
  <2>2. renewing' = renewing \cup {a} /\ a \notin renewing
    BY <1>2 DEF Renew, NeedsRenewal
  <2> QED
    BY <2>1, <2>2 DEF RenewalExclusive
<1>3. ASSUME NEW w \in Worker, LoginConfig(w) \/ TokenArrives(w) \/ SaveNew(w)
      PROVE  RenewalExclusive'
  BY <1>3, SameRenewals DEF LoginConfig, TokenArrives, SaveNew, JobStep, Typed, TypeOK
<1>4. ASSUME NEW w \in Worker, GivesUp(w) \/ Enable(w) PROVE RenewalExclusive'
  BY <1>4, EndsExclusive DEF GivesUp, Enable
<1>5. ASSUME NEW w \in Worker, AddAccount(w) PROVE RenewalExclusive'
  <2>1. CASE w \in Panel
    BY <1>5, <2>1, EndsExclusive DEF AddAccount
  <2>2. CASE w \notin Panel
    BY <1>5, <2>2, SameRenewals DEF AddAccount, JobStep, Typed, TypeOK
  <2> QED
    BY <2>1, <2>2
<1>6. ASSUME NEW p \in Panel, NEW a \in Account, PanelToken(p, a) PROVE RenewalExclusive'
  BY <1>6, SameRenewals DEF PanelToken, Typed, TypeOK
<1>7. CASE Restart
  <2>1. Active' = {} /\ renewing' = {}
    BY <1>7 DEF Restart, Active, NoJob
  <2> QED
    BY <2>1 DEF RenewalExclusive
<1>8. CASE UNCHANGED vars
  BY <1>1, <1>8 DEF vars
<1>9. ASSUME NEW a \in Account, NEW t \in Token, Ages(a, t) PROVE RenewalExclusive'
  BY <1>1, <1>9 DEF Ages
<1>10. ASSUME NEW from, NEW to, StartSweep(from, to) PROVE RenewalExclusive'
  BY <1>1, <1>10 DEF StartSweep
<1>11. ASSUME NEW a \in Account, RenewSkips(a) \/ ExpireLooks(a) PROVE RenewalExclusive'
  BY <1>1, <1>11 DEF RenewSkips, ExpireLooks
<1>12. ASSUME ExpireDisables \/ ReloadReads \/ ReloadSyncs PROVE RenewalExclusive'
  BY <1>1, <1>12 DEF ExpireDisables, ReloadReads, ReloadSyncs
<1> QED
  BY <1>2, <1>3, <1>4, <1>5, <1>6, <1>7, <1>8, <1>9, <1>10, <1>11, <1>12
     DEF Next, SweepStep, JobNext

----------------------------------------------------------------------------
(* Tokens that have been issued. *)

LEMMA NextTokensIssued == Typed /\ TokensIssued /\ [Next]_vars => TokensIssued'
<1> SUFFICES ASSUME Typed, TokensIssued, [Next]_vars PROVE TokensIssued'
  OBVIOUS
<1> USE TokensAssumption DEF poolVars, Token
<1>1. ASSUME issued' = issued, file' = file, pool' = pool, snap' = snap
      PROVE  TokensIssued'
  BY <1>1 DEF TokensIssued
<1>2. ASSUME NEW a \in Account, Issue(a), UNCHANGED <<file, poolVars, snap>>
      PROVE  TokensIssued'
  <2>1. \A b \in Account : issued'[b] \in Nat /\ issued[b] \in Nat /\ issued[b] <= issued'[b]
    BY <1>2, IssueTyped DEF Typed, TypeOK, Issue
  <2>2. \A b \in Account :
            /\ file[b] # Absent => file[b] \in Nat
            /\ pool[b] # Absent => pool[b] \in Nat
            /\ snap # Absent /\ snap[b] # Absent => snap[b] \in Nat
    BY DEF Typed, TypeOK
  <2> QED
    BY <1>2, <2>1, <2>2 DEF TokensIssued
<1>3. ASSUME NEW w \in Worker, TokenArrives(w) PROVE TokensIssued'
  BY <1>2, <1>3 DEF TokenArrives, Typed, JobsTyped
<1>4. ASSUME NEW p \in Panel, NEW a \in Account, PanelToken(p, a) PROVE TokensIssued'
  BY <1>2, <1>4 DEF PanelToken
<1>5. ASSUME NEW w \in Worker, SaveNew(w) PROVE TokensIssued'
  <2>1. job[w].acct \in Account /\ job[w].tok <= issued[job[w].acct]
    BY <1>5 DEF SaveNew, JobStep, Typed, JobsTyped
  <2> QED
    BY <1>5, <2>1 DEF SaveNew, TokensIssued, Typed, TypeOK
<1>6. ASSUME NEW w \in Worker, AddAccount(w) PROVE TokensIssued'
  <2>1. job[w].acct \in Account /\ job[w].tok <= issued[job[w].acct]
    BY <1>6 DEF AddAccount, Typed, JobsTyped
  <2> QED
    BY <1>6, <2>1 DEF AddAccount, TokensIssued, Typed, TypeOK
<1>7. CASE ReloadReads
  BY <1>7 DEF ReloadReads, TokensIssued
<1>8. CASE ReloadSyncs
  BY <1>8, AbsentAssumption DEF ReloadSyncs, TokensIssued
<1>9. CASE Restart
  BY <1>9 DEF Restart, TokensIssued
<1>10. ASSUME NEW w \in Worker, LoginConfig(w) \/ GivesUp(w) \/ Enable(w) PROVE TokensIssued'
  BY <1>1, <1>10 DEF LoginConfig, GivesUp, Enable
<1>11. CASE SweepStep
  BY <1>1, <1>11
     DEF SweepStep, StartSweep, RenewSkips, ExpireLooks, Renew, ExpireDisables
<1>12. ASSUME NEW a \in Account, NEW t \in Token, Ages(a, t) PROVE TokensIssued'
  BY <1>1, <1>12 DEF Ages
<1>13. CASE UNCHANGED vars
  BY <1>1, <1>13 DEF vars
<1> QED
  BY <1>3, <1>4, <1>5, <1>6, <1>7, <1>8, <1>9, <1>10, <1>11, <1>12, <1>13 DEF Next, JobNext

\* Nobody is disabled for nothing.
LEMMA NextReason ==
    Typed /\ TokensIssued /\ SweepHadReason /\ [Next]_vars => SweepHadReason'
<1> SUFFICES ASSUME Typed, TokensIssued, SweepHadReason, [Next]_vars PROVE SweepHadReason'
  OBVIOUS
<1> USE TokensAssumption DEF poolVars, tickVars, Token
<1>1. ASSUME disabled' \cup ({doomed'} \ {Absent}) \subseteq disabled \cup ({doomed} \ {Absent}),
             issued' = issued, life' = life
      PROVE  SweepHadReason'
  BY <1>1 DEF SweepHadReason
<1>2. ASSUME NEW a \in Account, Issue(a), UNCHANGED <<life, disabled, doomed>>
      PROVE  SweepHadReason'
  <2>1. \A b \in Account : issued'[b] \in Nat /\ issued[b] \in Nat /\ issued[b] <= issued'[b]
    BY <1>2, IssueTyped DEF Typed, TypeOK, Issue
  <2>2. disabled \cup ({doomed} \ {Absent}) \subseteq Account
    BY DEF Typed, TypeOK
  <2> QED
    BY <1>2, <2>1, <2>2 DEF SweepHadReason
<1>3. ASSUME NEW a \in Account, NEW t \in Token, Ages(a, t) PROVE SweepHadReason'
  <2>1. \A b \in Account, u \in Token : life[b][u] = "old" => life'[b][u] = "old"
    BY <1>3 DEF Ages, Older, Typed, TypeOK
  <2>2. disabled \cup ({doomed} \ {Absent}) \subseteq Account
    BY DEF Typed, TypeOK
  <2> QED
    BY <1>3, <2>1, <2>2 DEF Ages, SweepHadReason
<1>4. ASSUME NEW a \in Account, ExpireLooks(a) PROVE SweepHadReason'
  <2>1. CASE LifeInPool(a) = "old" /\ a \notin disabled
    <3>1. pool[a] \in Token /\ pool[a] <= issued[a] /\ life[a][pool[a]] = "old"
      BY <2>1 DEF LifeInPool, Typed, TypeOK, TokensIssued
    <3> QED
      BY <1>4, <2>1, <3>1 DEF ExpireLooks, SweepHadReason
  <2>2. CASE ~(LifeInPool(a) = "old" /\ a \notin disabled)
    BY <1>1, <1>4, <2>2 DEF ExpireLooks
  <2> QED
    BY <2>1, <2>2
<1>5. ASSUME NEW w \in Worker, TokenArrives(w) PROVE SweepHadReason'
  BY <1>2, <1>5 DEF TokenArrives, Typed, JobsTyped
<1>6. ASSUME NEW p \in Panel, NEW a \in Account, PanelToken(p, a) PROVE SweepHadReason'
  BY <1>2, <1>6 DEF PanelToken
<1>7. CASE ExpireDisables
  BY <1>1, <1>7 DEF ExpireDisables
<1>8. ASSUME NEW w \in Worker,
             LoginConfig(w) \/ GivesUp(w) \/ SaveNew(w) \/ AddAccount(w) \/ Enable(w)
      PROVE  SweepHadReason'
  BY <1>1, <1>8 DEF LoginConfig, GivesUp, SaveNew, AddAccount, Enable
<1>9. ASSUME ReloadReads \/ ReloadSyncs \/ Restart PROVE SweepHadReason'
  BY <1>1, <1>9 DEF ReloadReads, ReloadSyncs, Restart
<1>10. ASSUME NEW from, NEW to, StartSweep(from, to) PROVE SweepHadReason'
  BY <1>1, <1>10 DEF StartSweep
<1>11. ASSUME NEW a \in Account, RenewSkips(a) \/ \E w \in Renewer : Renew(a, w)
       PROVE  SweepHadReason'
  BY <1>1, <1>11 DEF RenewSkips, Renew
<1>12. CASE UNCHANGED vars
  BY <1>1, <1>12 DEF vars
<1> QED
  BY <1>3, <1>4, <1>5, <1>6, <1>7, <1>8, <1>9, <1>10, <1>11, <1>12
     DEF Next, SweepStep, JobNext

----------------------------------------------------------------------------
(* Logins that hold a token. *)

\* A step that hands out no token and saves none.
LEMMA SameHolders ==
    ASSUME HoldersApart, UNCHANGED <<file, issued, crossed>>,
           \A w \in Worker, a \in Account : Holds(w, a)' =>
               Holds(w, a) /\ job'[w].tok = job[w].tok /\ job'[w].pc = job[w].pc
    PROVE  HoldersApart'
BY DEF HoldersApart

\* A token is handed out: w holds the newest one of a, alone unless a is
\* marked as crossed.
LEMMA IssuedHolders ==
    ASSUME Typed, HoldersApart, NEW w \in Worker, NEW a \in Account, Issue(a),
           job[w].pc \in {"idle", "wait"},
           job' = [job EXCEPT ![w] = [pc |-> "save", acct |-> a, tok |-> issued'[a]]],
           file' = file
    PROVE  HoldersApart'
<1>1. /\ \A v \in Worker \ {w} : job'[v] = job[v]
      /\ job'[w].pc = "save" /\ job'[w].acct = a /\ job'[w].tok = issued'[a]
      /\ ~Holds(w, a)
  BY DEF Typed, TypeOK, Holds
<1>2. \A b \in Account \ {a} : issued'[b] = issued[b] /\ (b \in crossed' <=> b \in crossed)
  BY DEF Issue, Typed, TypeOK
<1>3. a \notin crossed' => \A v \in Worker : ~Holds(v, a)
  BY DEF Issue, HoldsToken, Holds
<1> SUFFICES ASSUME NEW b \in Account \ crossed', NEW v \in Worker, Holds(v, b)'
             PROVE  /\ \A u \in Worker : Holds(u, b)' => u = v
                    /\ job'[v].tok = issued'[b]
                    /\ job'[v].pc = "add" => file'[b] = job'[v].tok
  BY DEF HoldersApart
<1>4. CASE b = a
  BY <1>1, <1>3, <1>4 DEF Holds
<1>5. CASE b # a
  BY <1>1, <1>2, <1>5 DEF Holds, HoldersApart
<1> QED
  BY <1>4, <1>5

LEMMA NextHolders == Typed /\ HoldersApart /\ [Next]_vars => HoldersApart'
<1> SUFFICES ASSUME Typed, HoldersApart, [Next]_vars PROVE HoldersApart'
  OBVIOUS
<1> USE WorkersAssumption DEF poolVars, ghosts, Worker
<1>1. ASSUME job' = job, UNCHANGED <<file, issued, crossed>> PROVE HoldersApart'
  BY <1>1, SameHolders DEF Holds
<1>2. ASSUME NEW w \in Worker, TokenArrives(w) PROVE HoldersApart'
  BY <1>2, IssuedHolders DEF TokenArrives, Typed, JobsTyped
<1>3. ASSUME NEW p \in Panel, NEW a \in Account, PanelToken(p, a) PROVE HoldersApart'
  BY <1>3, IssuedHolders DEF PanelToken
<1>4. ASSUME NEW w \in Worker, SaveNew(w) PROVE HoldersApart'
  <2>1. /\ \A v \in Worker \ {w} : job'[v] = job[v]
        /\ job'[w].acct = job[w].acct /\ job'[w].tok = job[w].tok
        /\ job[w].pc = "save" /\ job'[w].pc = "add"
        /\ job[w].acct \in Account
        /\ file'[job[w].acct] = job[w].tok
        /\ \A b \in Account \ {job[w].acct} : file'[b] = file[b]
    BY <1>4 DEF SaveNew, JobStep, Typed, TypeOK, JobsTyped
  <2>2. issued' = issued /\ crossed' = crossed
    BY <1>4 DEF SaveNew
  <2>3. \A v \in Worker, b \in Account : Holds(v, b)' <=> Holds(v, b)
    BY <2>1 DEF Holds
  <2> QED
    BY <2>1, <2>2, <2>3 DEF HoldersApart, Holds
<1>5. ASSUME NEW w \in Worker, LoginConfig(w) PROVE HoldersApart'
  BY <1>5, SameHolders DEF LoginConfig, JobStep, Holds, Typed, TypeOK
<1>6. ASSUME NEW w \in Worker, Ends(w), UNCHANGED <<file, issued, crossed>>
      PROVE  HoldersApart'
  BY <1>6, SameHolders DEF Ends, NoJob, Holds, Typed, TypeOK
<1>7. ASSUME NEW w \in Worker, GivesUp(w) \/ Enable(w) PROVE HoldersApart'
  BY <1>6, <1>7 DEF GivesUp, Enable
<1>8. ASSUME NEW w \in Worker, AddAccount(w) PROVE HoldersApart'
  <2>1. CASE w \in Panel
    BY <1>6, <1>8, <2>1 DEF AddAccount
  <2>2. CASE w \notin Panel
    BY <1>8, <2>2, SameHolders DEF AddAccount, JobStep, Holds, Typed, TypeOK
  <2> QED
    BY <2>1, <2>2
<1>9. ASSUME NEW a \in Account, NEW w \in Renewer, Renew(a, w) PROVE HoldersApart'
  BY <1>9, SameHolders DEF Renew, Holds, Typed, TypeOK
<1>10. CASE Restart
  BY <1>10 DEF Restart, HoldersApart, Holds, NoJob
<1>11. ASSUME NEW from, NEW to, StartSweep(from, to) PROVE HoldersApart'
  BY <1>1, <1>11 DEF StartSweep
<1>12. ASSUME NEW a \in Account, RenewSkips(a) \/ ExpireLooks(a) PROVE HoldersApart'
  BY <1>1, <1>12 DEF RenewSkips, ExpireLooks
<1>13. ASSUME ExpireDisables \/ ReloadReads \/ ReloadSyncs PROVE HoldersApart'
  BY <1>1, <1>13 DEF ExpireDisables, ReloadReads, ReloadSyncs
<1>14. ASSUME NEW a \in Account, NEW t \in Token, Ages(a, t) PROVE HoldersApart'
  BY <1>1, <1>14 DEF Ages
<1>15. CASE UNCHANGED vars
  BY <1>1, <1>15 DEF vars
<1> QED
  BY <1>2, <1>3, <1>4, <1>5, <1>7, <1>8, <1>9, <1>10, <1>11, <1>12, <1>13, <1>14, <1>15
     DEF Next, SweepStep, JobNext

----------------------------------------------------------------------------
(* Disk and pool. *)

\* What w is about to save is the newest token, and what it is about to
\* install is what is on disk.
LEMMA HolderFacts ==
    ASSUME Typed, HoldersApart, NEW w \in Worker, job[w].pc \in {"save", "add"},
           job[w].acct \notin crossed
    PROVE  /\ job[w].tok = issued[job[w].acct]
           /\ job[w].pc = "add" => file[job[w].acct] = job[w].tok
BY DEF HoldersApart, Holds, Typed, JobsTyped

\* An account that is not crossed now was not crossed before.
LEMMA CrossedGrows ==
    ASSUME Typed, NEW a \in Account, Issue(a)
    PROVE  crossed \subseteq crossed' /\ missed' = missed
BY DEF Issue

LEMMA NextDisk ==
    Typed /\ TokensIssued /\ HoldersApart /\ DiskAhead /\ [Next]_vars => DiskAhead'
<1> SUFFICES ASSUME Typed, TokensIssued, HoldersApart, DiskAhead, [Next]_vars
             PROVE  DiskAhead'
  OBVIOUS
<1> USE TokensAssumption DEF poolVars, ghosts, Token
<1>1. ASSUME crossed \subseteq crossed', UNCHANGED <<file, pool, snap>> PROVE DiskAhead'
  BY <1>1 DEF DiskAhead
<1>2. ASSUME NEW w \in Worker, SaveNew(w) PROVE DiskAhead'
  <2> DEFINE b == job[w].acct
  <2>1. b \in Account /\ job[w].tok \in Nat /\ job[w].pc = "save"
    BY <1>2 DEF SaveNew, JobStep, Typed, TypeOK, JobsTyped
  <2>2. /\ file' = [file EXCEPT ![b] = job[w].tok]
        /\ pool' = pool /\ snap' = snap /\ crossed' = crossed
    BY <1>2 DEF SaveNew
  <2>3. b \notin crossed =>
            /\ file'[b] # Absent
            /\ pool[b] # Absent => pool[b] <= file'[b]
            /\ snap # Absent /\ snap[b] # Absent => snap[b] <= file'[b]
    BY <2>1, <2>2, HolderFacts, AbsentAssumption DEF TokensIssued, Typed, TypeOK
  <2> QED
    BY <2>1, <2>2, <2>3 DEF DiskAhead, Typed, TypeOK
<1>3. ASSUME NEW w \in Worker, AddAccount(w) PROVE DiskAhead'
  <2>1. job[w].acct \in Account /\ job[w].tok \in Nat /\ job[w].pc = "add"
    BY <1>3 DEF AddAccount, Typed, TypeOK, JobsTyped
  <2>2. job[w].acct \notin crossed => file[job[w].acct] = job[w].tok
    BY <2>1, HolderFacts
  <2>3. /\ pool' = [pool EXCEPT ![job[w].acct] = job[w].tok]
        /\ file' = file /\ snap' = snap /\ crossed' = crossed
    BY <1>3 DEF AddAccount
  <2> QED
    BY <2>1, <2>2, <2>3, AbsentAssumption DEF DiskAhead, Typed, TypeOK
<1>4. CASE ReloadReads
  BY <1>4, AbsentAssumption DEF ReloadReads, DiskAhead, Typed, TypeOK
<1>5. CASE ReloadSyncs
  BY <1>5, AbsentAssumption DEF ReloadSyncs, DiskAhead, Typed, TypeOK
<1>6. CASE Restart
  BY <1>6 DEF Restart, DiskAhead, Typed, TypeOK
<1>7. ASSUME NEW w \in Worker, TokenArrives(w) PROVE DiskAhead'
  BY <1>1, <1>7, CrossedGrows DEF TokenArrives, Typed, JobsTyped
<1>8. ASSUME NEW p \in Panel, NEW a \in Account, PanelToken(p, a) PROVE DiskAhead'
  BY <1>1, <1>8, CrossedGrows DEF PanelToken
<1>9. ASSUME NEW w \in Worker, LoginConfig(w) \/ GivesUp(w) \/ Enable(w) PROVE DiskAhead'
  BY <1>1, <1>9 DEF LoginConfig, GivesUp, Enable
<1>10. CASE SweepStep
  BY <1>1, <1>10
     DEF SweepStep, StartSweep, RenewSkips, ExpireLooks, Renew, ExpireDisables
<1>11. ASSUME NEW a \in Account, NEW t \in Token, Ages(a, t) PROVE DiskAhead'
  BY <1>1, <1>11 DEF Ages
<1>12. CASE UNCHANGED vars
  BY <1>1, <1>12 DEF vars
<1> QED
  BY <1>2, <1>3, <1>4, <1>5, <1>6, <1>7, <1>8, <1>9, <1>10, <1>11, <1>12 DEF Next, JobNext

Installing(a) == \E w \in Worker : job[w].pc = "add" /\ job[w].acct = a

LEMMA NextAligned ==
    Typed /\ HoldersApart /\ Aligned /\ [Next]_vars => Aligned'
<1> SUFFICES ASSUME Typed, HoldersApart, Aligned, [Next]_vars PROVE Aligned'
  OBVIOUS
<1> USE DEF poolVars, ghosts
\* Nothing is saved or installed.
<1>1. ASSUME UNCHANGED <<file, pool, snap, missed>>, crossed \subseteq crossed',
             \A w \in Worker : job[w].pc = "add" => job'[w] = job[w]
      PROVE  Aligned'
  BY <1>1 DEF Aligned
<1>2. ASSUME NEW w \in Worker, SaveNew(w) PROVE Aligned'
  <2> DEFINE a == job[w].acct
  <2>1. /\ a \in Account
        /\ job'[w].pc = "add" /\ job'[w].acct = a
        /\ \A v \in Worker \ {w} : job'[v] = job[v]
        /\ job[w].pc = "save"
    BY <1>2 DEF SaveNew, JobStep, Typed, TypeOK, JobsTyped
  <2>2. /\ \A b \in Account \ {a} : file'[b] = file[b]
        /\ pool' = pool /\ snap' = snap /\ crossed' = crossed
        /\ missed' = IF snap = Absent THEN missed ELSE missed \cup {a}
    BY <1>2 DEF SaveNew, Typed, TypeOK
  <2> SUFFICES ASSUME NEW b \in Account \ (crossed' \cup missed')
               PROVE  /\ snap' # Absent => snap'[b] = file'[b]
                      /\ snap' = Absent /\ ~Installing(b)' => pool'[b] = file'[b]
    BY DEF Aligned, Installing
  <2>3. CASE b = a
    BY <2>1, <2>2, <2>3 DEF Installing
  <2>4. CASE b # a
    <3>1. Installing(b)' <=> Installing(b)
      BY <2>1, <2>4 DEF Installing
    <3> QED
      BY <2>2, <2>4, <3>1 DEF Aligned, Installing
  <2> QED
    BY <2>3, <2>4
<1>3. ASSUME NEW w \in Worker, AddAccount(w) PROVE Aligned'
  <2> DEFINE a == job[w].acct
  <2>1. /\ a \in Account /\ job[w].pc = "add"
        /\ \A v \in Worker \ {w} : job'[v] = job[v]
    BY <1>3 DEF AddAccount, JobStep, Ends, Typed, TypeOK, JobsTyped
  <2>2. a \notin crossed => file[a] = job[w].tok
    BY <2>1, HolderFacts
  <2>3. /\ pool'[a] = job[w].tok
        /\ \A b \in Account \ {a} : pool'[b] = pool[b]
        /\ file' = file /\ snap' = snap /\ crossed' = crossed /\ missed' = missed
    BY <1>3, <2>1 DEF AddAccount, Typed, TypeOK
  <2>4. \A b \in Account \ {a} : Installing(b) => Installing(b)'
    BY <2>1 DEF Installing
  <2> QED
    BY <2>2, <2>3, <2>4 DEF Aligned, Installing
<1>4. CASE ReloadReads
  <2>1. snap' = file /\ file' = file /\ snap' # Absent
    BY <1>4, AbsentAssumption DEF ReloadReads, Typed, TypeOK
  <2> QED
    BY <2>1 DEF Aligned
<1>5. CASE ReloadSyncs
  BY <1>5 DEF ReloadSyncs, Aligned
<1>6. CASE Restart
  BY <1>6 DEF Restart, Aligned
<1>7. ASSUME NEW w \in Worker, TokenArrives(w) PROVE Aligned'
  <2>1. job[w].acct \in Account /\ job[w].pc = "wait"
    BY <1>7 DEF TokenArrives, Typed, JobsTyped
  <2>2. \A v \in Worker \ {w} : job'[v] = job[v]
    BY <1>7 DEF TokenArrives, Typed, TypeOK
  <2> QED
    BY <1>1, <1>7, <2>1, <2>2, CrossedGrows DEF TokenArrives
<1>8. ASSUME NEW p \in Panel, NEW a \in Account, PanelToken(p, a) PROVE Aligned'
  <2>1. \A v \in Worker \ {p} : job'[v] = job[v]
    BY <1>8 DEF PanelToken, Typed, TypeOK
  <2> QED
    BY <1>1, <1>8, <2>1, CrossedGrows DEF PanelToken
<1>9. ASSUME NEW w \in Worker, LoginConfig(w) \/ GivesUp(w) \/ Enable(w) PROVE Aligned'
  <2>1. \A v \in Worker : job[v].pc = "add" => job'[v] = job[v]
    BY <1>9 DEF LoginConfig, GivesUp, Enable, JobStep, Ends, Typed, TypeOK
  <2> QED
    BY <1>1, <1>9, <2>1 DEF LoginConfig, GivesUp, Enable
<1>10. ASSUME NEW a \in Account, NEW w \in Renewer, Renew(a, w) PROVE Aligned'
  <2>1. \A v \in Worker : job[v].pc = "add" => job'[v] = job[v]
    BY <1>10 DEF Renew, Typed, TypeOK
  <2> QED
    BY <1>1, <1>10, <2>1 DEF Renew
<1>11. ASSUME NEW from, NEW to, StartSweep(from, to) PROVE Aligned'
  BY <1>1, <1>11 DEF StartSweep
<1>12. ASSUME NEW a \in Account, RenewSkips(a) \/ ExpireLooks(a) PROVE Aligned'
  BY <1>1, <1>12 DEF RenewSkips, ExpireLooks
<1>13. CASE ExpireDisables
  BY <1>1, <1>13 DEF ExpireDisables
<1>14. ASSUME NEW a \in Account, NEW t \in Token, Ages(a, t) PROVE Aligned'
  BY <1>1, <1>14 DEF Ages
<1>15. CASE UNCHANGED vars
  BY <1>1, <1>15 DEF vars
<1> QED
  BY <1>2, <1>3, <1>4, <1>5, <1>6, <1>7, <1>8, <1>9, <1>10, <1>11, <1>12, <1>13, <1>14,
     <1>15 DEF Next, SweepStep, JobNext

----------------------------------------------------------------------------
LEMMA Invariant == Spec => []IInv
<1>1. IInv /\ [Next]_vars => IInv'
  BY NextTyped, NextExclusive, NextTokensIssued, NextReason, NextHolders, NextDisk,
     NextAligned DEF IInv
<1> QED
  BY InitIInv, <1>1, PTL DEF Spec

\* The tokens, jobs and sweeps keep to their types.
THEOREM Typing == Spec => []TypeOK
<1>1. IInv => TypeOK
  BY DEF IInv, Typed
<1> QED
  BY Invariant, <1>1, PTL

\* renewSweep never starts a second renewal of an account, and every way out
\* of renewAccount clears the flag.
THEOREM RenewalsExclude == Spec => []RenewalExclusive
<1>1. IInv => RenewalExclusive
  BY DEF IInv
<1> QED
  BY Invariant, <1>1, PTL

\* A restart finds no older token on disk than the one that was in use.
THEOREM DiskKeepsUp == Spec => []DiskNotOlder
<1>1. IInv => DiskNotOlder
  BY DEF IInv, DiskAhead, DiskNotOlder, Members
<1> QED
  BY Invariant, <1>1, PTL

\* With every login and reload over, pool and disk agree, but for what a
\* reload has missed.
THEOREM PoolAligned == Spec => []AlignedAtRest
<1>1. IInv => AlignedAtRest
  BY DEF IInv, Aligned, AlignedAtRest
<1> QED
  BY Invariant, <1>1, PTL

\* expirySweep disables nobody whose tokens have all been live.
THEOREM SweepsHaveReason == Spec => []SweepHadReason
<1>1. IInv => SweepHadReason
  BY DEF IInv
<1> QED
  BY Invariant, <1>1, PTL
=============================================================================
