---------------------------- MODULE ModelListProofs ----------------------------
(***************************************************************************)
(* How old a list of models can be when it is handed out, for any number   *)
(* of models and requests and any Life, Backoff and CallTime.              *)
(***************************************************************************)
EXTENDS ModelList, TLAPS

\* The list and the offer disagree about m.
Differs(infos, m) == m \in infos <=> m \notin offered

\* A list that may still be used tells the offer of a moment that is not
\* further back than its age and one call.
CacheRecent ==
    Fresh => \A m \in Model : Differs(list, m) => steady[m] <= age + CallTime

\* An answer on its way tells the offer of a moment after its call began: why
\* it may be stored late.
AnswerRecent ==
    \A r \in Request : pc[r] = "answer" =>
        /\ got[r] \in SUBSET Model
        /\ \A m \in Model : Differs(got[r], m) => steady[m] <= busy[r]

IInv == TypeOK /\ CacheRecent /\ AnswerRecent

LEMMA InitIInv == Init => IInv
BY TimeAssumption DEF Init, IInv, TypeOK, Horizon, CacheRecent, AnswerRecent, Fresh

----------------------------------------------------------------------------
LEMMA ReturnsTyped ==
    ASSUME TypeOK, NEW r \in Request, NEW from,
           NEW infos \in (SUBSET Model) \cup {Absent}, Returns(r, from, infos)
    PROVE  /\ pc' \in [Request -> {"idle", "look", "call", "answer"}]
           /\ got' \in [Request -> (SUBSET Model) \cup {Absent}]
           /\ busy' \in [Request -> 0..CallTime]
BY TimeAssumption DEF TypeOK, Returns, Goto

LEMMA NextTypeOK == IInv /\ [Next]_vars => TypeOK'
<1> SUFFICES ASSUME IInv, [Next]_vars PROVE TypeOK'
  OBVIOUS
<1> USE TimeAssumption DEF IInv, TypeOK
<1>1. ASSUME NEW r \in Request, Ask(r) PROVE TypeOK'
  BY <1>1 DEF Ask, Goto
<1>2. ASSUME NEW r \in Request, ServeFromCache(r) PROVE TypeOK'
  BY <1>2, ReturnsTyped DEF ServeFromCache
<1>3. ASSUME NEW r \in Request, ServeNothing(r) PROVE TypeOK'
  BY <1>3, ReturnsTyped DEF ServeNothing
<1>4. ASSUME NEW r \in Request, Call(r) PROVE TypeOK'
  BY <1>4 DEF Call, Goto
<1>5. ASSUME NEW r \in Request, UpstreamAnswers(r) PROVE TypeOK'
  BY <1>5 DEF UpstreamAnswers, Goto
<1>6. ASSUME NEW r \in Request, CallSucceeds(r) PROVE TypeOK'
  <2>1. got[r] \in SUBSET Model
    BY <1>6 DEF AnswerRecent, CallSucceeds, Returns, Goto
  <2> QED
    BY <1>6, <2>1, ReturnsTyped DEF CallSucceeds
<1>7. ASSUME NEW r \in Request, CallFails(r) PROVE TypeOK'
  BY <1>7, ReturnsTyped DEF CallFails
<1>8. ASSUME NEW m \in Model, Changes(m) PROVE TypeOK'
  BY <1>8 DEF Changes, requestVars, Horizon
<1>9. CASE TimePasses
  <2>1. \A r \in Request : busy'[r] \in 0..CallTime
    BY <1>9 DEF TimePasses
  <2>2. \A m \in Model : steady'[m] \in 0..Horizon
    BY <1>9 DEF TimePasses, Later, Horizon
  <2> QED
    BY <1>9, <2>1, <2>2 DEF TimePasses, Later
<1>10. CASE UNCHANGED vars
  BY <1>10 DEF vars, requestVars
<1> QED
  BY <1>1, <1>2, <1>3, <1>4, <1>5, <1>6, <1>7, <1>8, <1>9, <1>10 DEF Next, RequestStep

----------------------------------------------------------------------------
\* A request that leaves the answers of the others alone and brings none.
LEMMA OtherAnswersKept ==
    ASSUME AnswerRecent, TypeOK, NEW r \in Request,
           pc'[r] # "answer",
           \A q \in Request \ {r} :
               pc'[q] = pc[q] /\ got'[q] = got[q] /\ busy'[q] = busy[q],
           offered' = offered, steady' = steady
    PROVE  AnswerRecent'
BY DEF AnswerRecent, Differs

LEMMA NextRecent == IInv /\ [Next]_vars => (CacheRecent /\ AnswerRecent)'
<1> SUFFICES ASSUME IInv, [Next]_vars PROVE (CacheRecent /\ AnswerRecent)'
  OBVIOUS
<1> USE TimeAssumption DEF IInv
<1>1. ASSUME NEW r \in Request, Ask(r) PROVE (CacheRecent /\ AnswerRecent)'
  <2>1. AnswerRecent'
    BY <1>1, OtherAnswersKept DEF Ask, Goto, TypeOK
  <2> QED
    BY <1>1, <2>1 DEF Ask, CacheRecent, Fresh, Differs
<1>2. ASSUME NEW r \in Request,
             ServeFromCache(r) \/ ServeNothing(r) \/ CallFails(r)
      PROVE  (CacheRecent /\ AnswerRecent)'
  <2>1. AnswerRecent'
    BY <1>2, OtherAnswersKept
       DEF ServeFromCache, ServeNothing, CallFails, Returns, Goto, TypeOK
  <2> QED
    BY <1>2, <2>1
       DEF ServeFromCache, ServeNothing, CallFails, CacheRecent, Fresh, Differs
<1>3. ASSUME NEW r \in Request, Call(r) PROVE (CacheRecent /\ AnswerRecent)'
  <2>1. AnswerRecent'
    BY <1>3, OtherAnswersKept DEF Call, Goto, TypeOK
  <2> QED
    BY <1>3, <2>1 DEF Call, CacheRecent, Fresh, Differs
<1>4. ASSUME NEW r \in Request, UpstreamAnswers(r) PROVE (CacheRecent /\ AnswerRecent)'
  <2>1. AnswerRecent'
    BY <1>4 DEF UpstreamAnswers, Goto, TypeOK, AnswerRecent, Differs
  <2> QED
    BY <1>4, <2>1 DEF UpstreamAnswers, CacheRecent, Fresh, Differs
<1>5. ASSUME NEW r \in Request, CallSucceeds(r) PROVE (CacheRecent /\ AnswerRecent)'
  <2>1. AnswerRecent'
    BY <1>5, OtherAnswersKept DEF CallSucceeds, Returns, Goto, TypeOK
  <2>2. \A m \in Model : Differs(got[r], m) => steady[m] <= busy[r]
    BY <1>5 DEF CallSucceeds, Returns, Goto, AnswerRecent
  <2>3. busy[r] \in 0..CallTime /\ \A m \in Model : steady[m] \in 0..Horizon
    BY DEF TypeOK
  <2>4. \A m \in Model : Differs(got[r], m) => steady[m] <= 0 + CallTime
    BY <2>2, <2>3 DEF Horizon
  <2>5. CacheRecent'
    BY <1>5, <2>4 DEF CallSucceeds, CacheRecent, Differs
  <2> QED
    BY <2>1, <2>5
<1>6. ASSUME NEW m \in Model, Changes(m) PROVE (CacheRecent /\ AnswerRecent)'
  <2>1. /\ steady'[m] = 0
        /\ \A n \in Model \ {m} : steady'[n] = steady[n] /\ (n \in offered' <=> n \in offered)
        /\ age \in Nat /\ \A r \in Request : busy[r] \in Nat
    BY <1>6 DEF Changes, TypeOK
  <2>2. CacheRecent'
    BY <1>6, <2>1 DEF Changes, CacheRecent, Fresh, Differs
  <2>3. AnswerRecent'
    BY <1>6, <2>1 DEF Changes, requestVars, AnswerRecent, Differs
  <2> QED
    BY <2>2, <2>3
<1>7. CASE TimePasses
  <2>1. /\ \A m \in Model : steady[m] \in Nat /\ steady'[m] \in Nat /\ steady'[m] <= steady[m] + 1
        /\ \A r \in Request : busy[r] \in Nat
        /\ age \in 0..Life
    BY <1>7 DEF TimePasses, TypeOK, Later, Horizon
  <2>2. CacheRecent'
    <3> SUFFICES ASSUME Fresh', NEW m \in Model, Differs(list, m)'
                 PROVE  steady'[m] <= age' + CallTime
      BY DEF CacheRecent
    <3>1. Fresh /\ age' = age + 1
      BY <1>7, <2>1 DEF TimePasses, Fresh, Later
    <3>2. steady[m] <= age + CallTime
      BY <1>7, <3>1 DEF TimePasses, CacheRecent, Differs
    <3> QED
      BY <2>1, <3>1, <3>2
  <2>3. AnswerRecent'
    <3> SUFFICES ASSUME NEW r \in Request, pc'[r] = "answer"
                 PROVE  /\ got'[r] \in SUBSET Model
                        /\ \A m \in Model : Differs(got[r], m)' => steady'[m] <= busy'[r]
      BY DEF AnswerRecent
    <3>1. got' = got /\ pc' = pc /\ offered' = offered /\ busy'[r] = busy[r] + 1
      BY <1>7 DEF TimePasses, Calling
    <3>2. \A m \in Model : Differs(got[r], m) => steady[m] <= busy[r]
      BY <3>1 DEF AnswerRecent
    <3>3. \A m \in Model : Differs(got[r], m) => steady'[m] <= busy[r] + 1
      BY <2>1, <3>2
    <3> QED
      BY <3>1, <3>3 DEF AnswerRecent, Differs
  <2> QED
    BY <2>2, <2>3
<1>8. CASE UNCHANGED vars
  BY <1>8 DEF vars, requestVars, CacheRecent, AnswerRecent, Fresh, Differs
<1> QED
  BY <1>1, <1>2, <1>3, <1>4, <1>5, <1>6, <1>7, <1>8 DEF Next, RequestStep

LEMMA Invariant == Spec => []IInv
<1>1. IInv /\ [Next]_vars => IInv'
  BY NextTypeOK, NextRecent DEF IInv
<1> QED
  BY InitIInv, <1>1, PTL DEF Spec

----------------------------------------------------------------------------
\* The variables of the model keep to their types (dynamicModels and the
\* locals of fetchModels).
THEOREM Typing == Spec => []TypeOK
<1>1. IInv => TypeOK
  BY DEF IInv
<1> QED
  BY Invariant, <1>1, PTL

\* Whatever fetchModels hands out, from the cache or straight from the
\* upstream, agrees with the offer on every model that has been offered, or
\* withdrawn, for Life and CallTime.
LEMMA HandedOutRecent ==
    ASSUME IInv, Next, NEW r \in Request, Returned(r), got'[r] # Absent
    PROVE  \A m \in Model : Differs(got'[r], m) => steady[m] < Horizon
<1> USE TimeAssumption DEF IInv, Horizon
<1>1. /\ pc \in [Request -> {"idle", "look", "call", "answer"}]
      /\ got \in [Request -> (SUBSET Model) \cup {Absent}]
      /\ \A m \in Model : steady[m] \in Nat
      /\ busy[r] \in 0..CallTime /\ age \in Nat
  BY DEF TypeOK
<1>2. \/ ServeFromCache(r) \/ ServeNothing(r) \/ CallSucceeds(r) \/ CallFails(r)
  <2>1. ASSUME NEW q \in Request, q # r, Ask(q) \/ RequestStep(q) PROVE FALSE
    BY <1>1, <2>1
       DEF Returned, Ask, RequestStep, ServeFromCache, ServeNothing, Call,
           UpstreamAnswers, CallSucceeds, CallFails, Returns, Goto
  <2>2. ASSUME Ask(r) \/ Call(r) \/ UpstreamAnswers(r) PROVE FALSE
    BY <1>1, <2>2 DEF Returned, Ask, Call, UpstreamAnswers, Goto
  <2>3. ASSUME NEW m \in Model, Changes(m) PROVE FALSE
    BY <2>3 DEF Returned, Changes, requestVars
  <2>4. ASSUME TimePasses PROVE FALSE
    BY <2>4 DEF Returned, TimePasses
  <2> QED
    BY <2>1, <2>2, <2>3, <2>4 DEF Next, RequestStep
<1>3. ~ServeNothing(r) /\ ~CallFails(r)
  BY <1>1 DEF ServeNothing, CallFails, Returns
<1>4. CASE ServeFromCache(r)
  BY <1>1, <1>4 DEF ServeFromCache, Returns, CacheRecent, Fresh
<1>5. CASE CallSucceeds(r)
  BY <1>1, <1>5 DEF CallSucceeds, Returns, Goto, AnswerRecent
<1> QED
  BY <1>2, <1>3, <1>4, <1>5

\* No request is refused a model that has been offered for an hour and the
\* time of one call (validateModel).
THEOREM RefusalsAreRecent == Spec => RefusalIsRecent
<1> DEFINE Fine == \A r \in Request, m \in offered :
        Returned(r) /\ Refuses(got'[r], m) => steady[m] < Horizon
<1>1. IInv /\ Next => Fine
  BY HandedOutRecent DEF Refuses, Differs, IInv, TypeOK
<1>2. UNCHANGED vars => Fine
  BY DEF vars, requestVars, Returned
<1>3. IInv /\ [Next]_vars => [Fine]_vars
  BY <1>1, <1>2
<1> QED
  BY Invariant, <1>3, PTL DEF Spec, RefusalIsRecent

\* No list that is handed out names a model that was withdrawn longer ago
\* than that (modelList).
THEOREM ListsAreRecent == Spec => ListedIsRecent
<1> DEFINE Fine == \A r \in Request : Returned(r) /\ got'[r] # Absent =>
        \A m \in got'[r] \ offered : steady[m] < Horizon
<1>1. IInv /\ Next => Fine
  <2> SUFFICES ASSUME IInv, Next, NEW r \in Request, Returned(r), got'[r] # Absent,
                      NEW m \in got'[r] \ offered
               PROVE  steady[m] < Horizon
    OBVIOUS
  <2>1. m \in Model
    BY NextTypeOK DEF TypeOK
  <2> QED
    BY <2>1, HandedOutRecent DEF Differs
<1>2. UNCHANGED vars => Fine
  BY DEF vars, requestVars, Returned
<1>3. IInv /\ [Next]_vars => [Fine]_vars
  BY <1>1, <1>2
<1> QED
  BY Invariant, <1>3, PTL DEF Spec, ListedIsRecent
=============================================================================
