------------------------------- MODULE ModelList -------------------------------
(***************************************************************************)
(* The model list that all requests share (dynamicModels, fetchModels,     *)
(* modelList, validateModel and mapModel in internal/server/handler.go).   *)
(* Whoever finds the list older than Life asks the upstream for a new one, *)
(* without the lock and without looking whether somebody else is asking:   *)
(* answers may be stored in another order than the upstream gave them.     *)
(*                                                                         *)
(* Time is counted in ticks.  A list has no order here and a description   *)
(* of a model is left out.                                                 *)
(***************************************************************************)
EXTENDS Naturals

CONSTANTS
    Model,          \* names a client may send or the upstream may offer
    Fallback,       \* fallbackModelNames
    Request,
    Life,           \* a list is used for less than that (one hour)
    Backoff,        \* after a failure the upstream is left alone (5 minutes)
    CallTime,       \* Timeout of the client that calls the upstream
    Absent          \* nil

ASSUME FallbackAssumption == Fallback \subseteq Model
ASSUME TimeAssumption == Life \in Nat \ {0} /\ Backoff \in Nat /\ CallTime \in Nat
ASSUME AbsentAssumption == \A infos \in SUBSET Model : Absent # infos

VARIABLES
    offered,    \* what the upstream has
    list,       \* dynamicModels.list; {} before the first success
    age,        \* time since dynamicModels.fetched, up to Life
    calm,       \* time since dynamicModels.lastFail, up to Backoff (zero time too)
    pc,         \* where each request is in fetchModels
    got,        \* the answer on its way to it, then what fetchModels returned
    busy,       \* time since its call began
    \* ghost
    steady      \* time since the upstream last offered or withdrew each model

requestVars == <<pc, got, busy>>
vars == <<offered, list, age, calm, requestVars, steady>>

\* The oldest an answer can be that is still in use.
Horizon == Life + CallTime

TypeOK ==
    /\ offered \in SUBSET Model
    /\ list \in SUBSET Model
    /\ age \in 0..Life
    /\ calm \in 0..Backoff
    /\ pc \in [Request -> {"idle", "look", "call", "answer"}]
    /\ got \in [Request -> (SUBSET Model) \cup {Absent}]
    /\ busy \in [Request -> 0..CallTime]
    /\ steady \in [Model -> 0..Horizon]

Init ==
    /\ offered \in SUBSET Model
    /\ list = {} /\ age = Life /\ calm = Backoff
    /\ pc = [r \in Request |-> "idle"]
    /\ got = [r \in Request |-> Absent]
    /\ busy = [r \in Request |-> 0]
    /\ steady = [m \in Model |-> Horizon]

----------------------------------------------------------------------------
Goto(r, from, to) == pc[r] = from /\ pc' = [pc EXCEPT ![r] = to]

Returns(r, from, infos) ==
    /\ Goto(r, from, "idle")
    /\ got' = [got EXCEPT ![r] = infos]
    /\ busy' = [busy EXCEPT ![r] = 0]

\* GET /v1/models, a chat request that names a model, and one whose model
\* mapModel is to choose: none of them tells fetchModels what it is after.
Ask(r) ==
    /\ Goto(r, "idle", "look")
    /\ got' = [got EXCEPT ![r] = Absent]
    /\ UNCHANGED <<offered, list, age, calm, busy, steady>>

\* Variant: the age is not looked at.
FreshForEver == list # {}

Fresh == list # {} /\ age < Life

ServeFromCache(r) ==
    /\ Fresh
    /\ Returns(r, "look", list)
    /\ UNCHANGED <<offered, list, age, calm, steady>>

\* The last failure is too recent, or the pool has no account to ask with.
ServeNothing(r) ==
    /\ ~Fresh
    /\ Returns(r, "look", Absent)
    /\ UNCHANGED <<offered, list, age, calm, steady>>

\* FetchModels is called, with nothing locked.
Call(r) ==
    /\ ~Fresh /\ calm = Backoff
    /\ Goto(r, "look", "call")
    /\ UNCHANGED <<offered, list, age, calm, got, busy, steady>>

UpstreamAnswers(r) ==
    /\ Goto(r, "call", "answer")
    /\ got' = [got EXCEPT ![r] = offered]
    /\ UNCHANGED <<offered, list, age, calm, busy, steady>>

\* The answer is stored whatever list has been stored since it was given.
CallSucceeds(r) ==
    /\ got[r] # {}
    /\ Returns(r, "answer", got[r])
    /\ list' = got[r] /\ age' = 0 /\ calm' = Backoff
    /\ UNCHANGED <<offered, steady>>

\* Variant: the failure dates the list too.
CallFailsRedates(r) ==
    /\ \/ Returns(r, "call", Absent)
       \/ got[r] = {} /\ Returns(r, "answer", Absent)
    /\ calm' = 0 /\ age' = 0
    /\ UNCHANGED <<offered, list, steady>>

\* An answer without models counts as an error; the list is kept.
CallFails(r) ==
    /\ \/ Returns(r, "call", Absent)
       \/ got[r] = {} /\ Returns(r, "answer", Absent)
    /\ calm' = 0
    /\ UNCHANGED <<offered, list, age, steady>>

RequestStep(r) ==
    \/ ServeFromCache(r) \/ ServeNothing(r) \/ Call(r)
    \/ UpstreamAnswers(r) \/ CallSucceeds(r) \/ CallFails(r)

----------------------------------------------------------------------------
Changes(m) ==
    /\ offered' = IF m \in offered THEN offered \ {m} ELSE offered \cup {m}
    /\ steady' = [steady EXCEPT ![m] = 0]
    /\ UNCHANGED <<list, age, calm, requestVars>>

Later(t, bound) == IF t < bound THEN t + 1 ELSE bound

Calling(r) == pc[r] \in {"call", "answer"}

\* Variant: calls have no timeout.
TimePassesUnbounded ==
    /\ age' = Later(age, Life)
    /\ calm' = Later(calm, Backoff)
    /\ busy' = [r \in Request |-> IF Calling(r) THEN busy[r] + 1 ELSE busy[r]]
    /\ steady' = [m \in Model |-> Later(steady[m], Horizon)]
    /\ UNCHANGED <<offered, list, pc, got>>

\* A call does not outlast CallTime.
TimePasses ==
    /\ \A r \in Request : Calling(r) => busy[r] < CallTime
    /\ age' = Later(age, Life)
    /\ calm' = Later(calm, Backoff)
    /\ busy' = [r \in Request |-> IF Calling(r) THEN busy[r] + 1 ELSE busy[r]]
    /\ steady' = [m \in Model |-> Later(steady[m], Horizon)]
    /\ UNCHANGED <<offered, list, pc, got>>

Next ==
    \/ \E r \in Request : Ask(r) \/ RequestStep(r)
    \/ \E m \in Model : Changes(m)
    \/ TimePasses

Spec == Init /\ [][Next]_vars

\* Time goes on, requests keep coming, a step of a request is made in the end,
\* and now and then there is an account and the upstream answers.
FairSpec ==
    /\ Spec
    /\ WF_vars(TimePasses)
    /\ \A r \in Request :
        /\ WF_vars(Ask(r)) /\ WF_vars(RequestStep(r))
        /\ SF_vars(Call(r)) /\ SF_vars(UpstreamAnswers(r)) /\ SF_vars(CallSucceeds(r))

----------------------------------------------------------------------------
(* Properties. *)

Returned(r) == pc[r] # "idle" /\ pc'[r] = "idle"

\* validateModel: without a list everything is left to the upstream.
Refuses(infos, m) == infos # Absent /\ m \notin infos \cup Fallback

\* Nobody is refused a model that the upstream has been offering for an hour
\* and the time of one call, however many calls overlap and in whatever order
\* their answers are stored (handler.go:815: the models of fetchModels are the
\* ones that are known).
RefusalIsRecent ==
    [][\A r \in Request, m \in offered :
        Returned(r) /\ Refuses(got'[r], m) => steady[m] < Horizon]_vars

\* The other half: no list that is handed out (and shown by /v1/models) names
\* a model that has been withdrawn for longer than that.
ListedIsRecent ==
    [][\A r \in Request : Returned(r) /\ got'[r] # Absent =>
        \A m \in got'[r] \ offered : steady[m] < Horizon]_vars

\* A model that the upstream adds for good gets on the list, though one late
\* failure after another may postpone the next call and late answers may take
\* it off again.
OfferNoticed == \A m \in Model : m \in offered ~> m \in list \/ m \notin offered
=============================================================================
