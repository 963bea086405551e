-------------------------- MODULE ConversationsProofs --------------------------
(***************************************************************************)
(* The table of conversations for any users, accounts, requests and sizes, *)
(* in five parts: the table and the owners of its chats, without the send  *)
(* lock; the reply, which rests on it; what a request is about to send,    *)
(* for one client that waits for each answer; what a chat has absorbed,    *)
(* for such a client and chats that can be written to; and the types,      *)
(* which count the requests.                                               *)
(***************************************************************************)
EXTENDS Conversations, FiniteSetTheorems, SequenceTheorems, WellFoundedInduction, TLAPS

(* Typing, as far as the argument needs it: the number of rounds of a chat *)
(* is left open.                                                           *)

Said == [role : {"user", "assistant"}, by : Request \cup Chat, n : Nat]

ConvState == [owner : Account \cup {None}, absorbed : Seq(Said), turns : Nat, stamp : Nat]

Round == [prompt : Seq(Said), state : {"running", "done"}]

Using == {"lock", "match", "cut", "send", "create", "poll", "finalize"}

ReqState ==
    [pc : {"new", "choose", "done", "panic", "lost"} \cup Using,
     user : User \cup {None}, msgs : Seq(Said), forced : Chat \cup {None},
     acct : Account \cup {None}, tried : SUBSET Account, conv : Chat \cup {None},
     matched : Nat, prompt : Seq(Said), round : Nat, got : Said \cup {None}]

Typed ==
    /\ conv \in [Chat -> ConvState]
    /\ table \in SUBSET Chat
    /\ latest \in [Account -> Chat \cup {None}]
    /\ now \in Nat
    /\ req \in [Request -> ReqState]
    /\ rounds \in [Chat -> Seq(Round)]
    /\ hist \in [User -> Seq(Said)]
    /\ last \in [User -> Seq(Said)]
    /\ lastConv \in [User -> Chat \cup {None}]

\* A chat that was created; its owner is settled then, once and for all.
Known(c) == c \in Chat /\ rounds[c] # <<>>

TableKnown == \A c \in table : Known(c) /\ conv[c].owner \in Account

\* What request r refers to is known, and belongs to the account it is using;
\* and it has a reply when it comes to record it.
Placed(r) ==
    /\ req[r].pc \in Using => req[r].acct \in Account
    /\ req[r].conv # None => Known(req[r].conv)
    /\ req[r].forced # None => Known(req[r].forced)
    /\ req[r].forced # None /\ req[r].pc \in Using => conv[req[r].forced].owner = req[r].acct
    /\ req[r].pc \in {"cut", "send", "poll", "finalize"} =>
          req[r].conv \in Chat /\ conv[req[r].conv].owner = req[r].acct
    /\ req[r].pc = "finalize" => req[r].got \in Said

IInv == Typed /\ TableKnown /\ (\A r \in Request : Placed(r)) /\ TableConsistent

LEMMA FreshTyped ==
    /\ Fresh \in ReqState
    /\ Fresh.conv = None /\ Fresh.forced = None /\ Fresh.pc = "new"
  BY DEF Fresh, ReqState, Using

LEMMA InitIInv == Init => IInv
<1> SUFFICES ASSUME Init PROVE IInv
  OBVIOUS
<1>1. Unknown \in ConvState
  BY DEF Unknown, ConvState
<1>2. Typed
  BY <1>1, FreshTyped DEF Init, Typed
<1>3. TableKnown /\ \A r \in Request : Placed(r)
  BY FreshTyped DEF Init, TableKnown, Placed, Using
<1>4. TableConsistent
  BY FS_EmptySet, BoundsAssumption DEF Init, TableConsistent
<1> QED
  BY <1>2, <1>3, <1>4 DEF IInv

----------------------------------------------------------------------------
(* A chat that is known stays known, with its owner. *)

Lasting == \A c \in Chat : Known(c) => Known(c)' /\ conv'[c].owner = conv[c].owner

LEMMA SameChats == UNCHANGED <<conv, rounds>> => Lasting
  BY DEF Lasting, Known

LEMMA OthersPlaced ==
    ASSUME IInv, Lasting, NEW q \in Request, req'[q] = req[q]
    PROVE  Placed(q)'
<1>1. Placed(q)
  BY DEF IInv
<1>2. req[q].conv \in Chat \cup {None} /\ req[q].forced \in Chat \cup {None}
  BY DEF IInv, Typed, ReqState
<1>3. \A c \in Chat : Known(c) => Known(c)' /\ conv'[c].owner = conv[c].owner
  BY DEF Lasting
<1>4. req[q].conv # None => Known(req[q].conv)' /\ conv'[req[q].conv].owner = conv[req[q].conv].owner
  BY <1>1, <1>2, <1>3 DEF Placed
<1>5. req[q].forced # None =>
        Known(req[q].forced)' /\ conv'[req[q].forced].owner = conv[req[q].forced].owner
  BY <1>1, <1>2, <1>3 DEF Placed
<1>6. req[q].pc \in {"cut", "send", "poll", "finalize"} => req[q].conv # None
  BY <1>1, NoneAssumption DEF Placed
<1> HIDE DEF Known
<1> QED
  BY <1>1, <1>4, <1>5, <1>6 DEF Placed

\* A step of request r that leaves the table alone.
LEMMA RequestStep ==
    ASSUME IInv, Lasting, NEW r \in Request, NEW s \in ReqState,
           req' = [req EXCEPT ![r] = s], Placed(r)',
           UNCHANGED <<table, latest, now>>,
           conv' \in [Chat -> ConvState], rounds' \in [Chat -> Seq(Round)],
           hist' \in [User -> Seq(Said)], last' \in [User -> Seq(Said)],
           lastConv' \in [User -> Chat \cup {None}]
    PROVE  IInv'
<1>1. Typed'
  BY DEF IInv, Typed
<1>2. \A q \in Request : Placed(q)'
  <2>1. \A q \in Request \ {r} : req'[q] = req[q]
    BY DEF IInv, Typed
  <2> QED
    BY <2>1, OthersPlaced
<1>3. TableKnown'
  BY DEF IInv, TableKnown, Typed, Lasting, Known
<1>4. TableConsistent'
  <2>1. \A a \in Account : latest[a] # None => conv'[latest[a]].owner = conv[latest[a]].owner
    BY DEF IInv, TableKnown, TableConsistent, Lasting, Known
  <2> QED
    BY <2>1 DEF IInv, TableConsistent
<1> QED
  BY <1>1, <1>2, <1>3, <1>4 DEF IInv

----------------------------------------------------------------------------
(* Asking and choosing. *)

LEMMA AskStep ==
    ASSUME IInv, NEW r \in Request, NEW u \in User, NEW msgs \in Sendable(u, r),
           NEW id \in Nameable(u), Ask(u, r, msgs, id)
    PROVE  IInv'
<1> DEFINE s == [Fresh EXCEPT !.pc = "choose", !.user = u, !.msgs = msgs, !.forced = id]
<1>1. msgs \in Seq(Said)
  <2>1. Asked(r) \in Said
    BY DEF Asked, Said
  <2>2. <<Asked(r)>> \in Seq(Said) /\ hist[u] \in Seq(Said) /\ last[u] \in Seq(Said)
    BY <2>1 DEF IInv, Typed
  <2>3. hist[u] \o <<Asked(r)>> \in Seq(Said)
    BY <2>2
  <2> QED
    BY <2>2, <2>3 DEF Sendable
<1>2. id \in Chat \cup {None} /\ (id # None => id \in table)
  BY DEF Nameable, IInv, Typed
<1>3. s \in ReqState /\ s.pc = "choose" /\ s.conv = None /\ s.forced = id
  BY <1>1, <1>2, FreshTyped DEF ReqState, Using
<1>4. req' = [req EXCEPT ![r] = s] /\ UNCHANGED <<conv, table, latest, now, rounds, hist, lastConv>>
  BY DEF Ask, gateway
<1>5. last' \in [User -> Seq(Said)]
  BY <1>1 DEF Ask, IInv, Typed
<1>6. req'[r] = s
  BY <1>4 DEF IInv, Typed
<1>7. Placed(r)'
  BY <1>2, <1>3, <1>4, <1>6 DEF IInv, TableKnown, Placed, Known, Using
<1> HIDE DEF s
<1> QED
  BY <1>3, <1>4, <1>5, <1>7, SameChats, RequestStep DEF IInv, Typed

LEMMA ChooseStep ==
    ASSUME IInv, NEW r \in Request, NEW a \in Account, Choose(r, a)
    PROVE  IInv'
<1> DEFINE s == [req[r] EXCEPT !.pc = "lock", !.acct = a, !.tried = @ \cup {a}]
<1>1. req[r] \in ReqState
  BY DEF IInv, Typed
<1>2. /\ s \in ReqState /\ s.pc = "lock" /\ s.acct = a
      /\ s.conv = req[r].conv /\ s.forced = req[r].forced
  BY <1>1 DEF ReqState, Using
<1>3. req' = [req EXCEPT ![r] = s] /\ UNCHANGED <<gateway, rounds, users>>
  BY DEF Choose
<1>4. req'[r] = s
  BY <1>3 DEF IInv, Typed
<1>5. req[r].forced # None => conv[req[r].forced].owner = a
  BY DEF Choose, Eligible
<1>6. Placed(r)'
  BY <1>2, <1>3, <1>4, <1>5 DEF IInv, Placed, Known, Using, gateway
<1> HIDE DEF s
<1> QED
  BY <1>2, <1>3, <1>6, SameChats, RequestStep DEF IInv, Typed, gateway, users

\* The goroutine ends: nothing is referred to any more.
LEMMA ReturnStep ==
    ASSUME IInv, NEW r \in Request, NEW from, Return(r, from),
           UNCHANGED <<conv, table, latest, now, rounds, users>>
    PROVE  IInv'
<1> DEFINE s == [Fresh EXCEPT !.pc = "done"]
<1>1. s \in ReqState /\ s.pc = "done" /\ s.conv = None /\ s.forced = None
  BY FreshTyped DEF ReqState, Using
<1>2. req' = [req EXCEPT ![r] = s]
  BY DEF Return
<1>3. req'[r] = s
  BY <1>2 DEF IInv, Typed
<1>4. Placed(r)'
  BY <1>1, <1>3 DEF Placed, Using
<1> HIDE DEF s
<1> QED
  BY <1>1, <1>2, <1>4, SameChats, RequestStep DEF IInv, Typed, users

\* The request goes from one place to another and keeps what it refers to; a
\* place where it needs the chat is reached from such a place only.
LEMMA GotoStep ==
    ASSUME IInv, NEW r \in Request, NEW from, NEW to, Goto(r, from, to),
           to \in {"choose", "panic"} \cup Using, to # "finalize",
           to \in Using => from \in Using,
           to \in {"cut", "send", "poll", "finalize"} => from \in {"cut", "send", "poll", "finalize"},
           UNCHANGED <<conv, table, latest, now, rounds, users>>
    PROVE  IInv'
<1> DEFINE s == [req[r] EXCEPT !.pc = to]
<1>1. req[r] \in ReqState /\ req[r].pc = from
  BY DEF IInv, Typed, Goto
<1>2. /\ s \in ReqState /\ s.pc = to /\ s.acct = req[r].acct
      /\ s.conv = req[r].conv /\ s.forced = req[r].forced
  BY <1>1 DEF ReqState
<1>3. req' = [req EXCEPT ![r] = s]
  BY DEF Goto
<1>4. req'[r] = s
  BY <1>3 DEF IInv, Typed
<1>5. Placed(r)'
  BY <1>1, <1>2, <1>4 DEF IInv, Placed, Known
<1> HIDE DEF s
<1> QED
  BY <1>2, <1>3, <1>5, SameChats, RequestStep DEF IInv, Typed, users

----------------------------------------------------------------------------
(* planConversation. *)

LEMMA CurrentOwned ==
    ASSUME IInv, NEW r \in Request, req[r].pc \in Using, Current(r) # None
    PROVE  Known(Current(r)) /\ conv[Current(r)].owner = req[r].acct
<1>1. Placed(r) /\ req[r].acct \in Account
  BY DEF IInv, Placed
<1>2. CASE req[r].forced # None
  BY <1>1, <1>2 DEF Current, Placed
<1>3. CASE req[r].forced = None
  <2>1. Current(r) = latest[req[r].acct] /\ Current(r) \in table
    BY <1>3 DEF Current
  <2>2. Current(r) \in Chat
    BY <2>1 DEF IInv, Typed
  <2>3. latest[req[r].acct] # None
    BY <2>1, <2>2, NoneAssumption
  <2> QED
    BY <1>1, <2>1, <2>3 DEF IInv, TableKnown, TableConsistent
<1> QED
  BY <1>2, <1>3

LEMMA MatchStep ==
    ASSUME IInv, NEW r \in Request, Match(r)
    PROVE  IInv'
<1> DEFINE c == Current(r)
<1>1. /\ req[r] \in ReqState /\ req[r].pc = "match" /\ Placed(r)
      /\ UNCHANGED <<gateway, rounds, users>>
  BY DEF IInv, Typed, Match
<1>2. c # None => Known(c) /\ conv[c].owner = req[r].acct /\ c \in Chat
  BY <1>1, CurrentOwned DEF Using, Known
<1>3. ASSUME NEW s \in ReqState, req' = [req EXCEPT ![r] = s],
             s.pc \in {"cut", "send", "create"}, s.acct = req[r].acct, s.forced = req[r].forced,
             \/ s.conv = c /\ c # None
             \/ s.conv = None /\ s.pc = "create"
      PROVE  IInv'
  <2>1. req'[r] = s
    BY <1>3 DEF IInv, Typed
  <2>2. Placed(r)'
    BY <1>1, <1>2, <1>3, <2>1 DEF Placed, Known, Using, gateway
  <2> QED
    BY <1>1, <1>3, <2>2, SameChats, RequestStep DEF IInv, Typed, gateway, users
<1>4. CASE /\ Replays(c, req[r].msgs)
           /\ req' = [req EXCEPT ![r].pc = "cut", ![r].conv = c,
                                 ![r].matched = Len(conv[c].absorbed)]
  <2> DEFINE s == [req[r] EXCEPT !.pc = "cut", !.conv = c, !.matched = Len(conv[c].absorbed)]
  <2>1. c # None /\ c \in Chat
    BY <1>2, <1>4 DEF Replays
  <2>2. Len(conv[c].absorbed) \in Nat
    BY <2>1 DEF IInv, Typed, ConvState
  <2>3. /\ s \in ReqState /\ s.pc = "cut" /\ s.conv = c
        /\ s.acct = req[r].acct /\ s.forced = req[r].forced
    BY <1>1, <2>1, <2>2 DEF ReqState, Using
  <2>4. req' = [req EXCEPT ![r] = s]
    BY <1>4
  <2> HIDE DEF s, c
  <2> QED
    BY <1>3, <2>1, <2>3, <2>4
<1>5. CASE /\ Continues(r, c, req[r].msgs)
           /\ req' = [req EXCEPT ![r].pc = "send", ![r].conv = c, ![r].prompt = req[r].msgs]
  <2> DEFINE s == [req[r] EXCEPT !.pc = "send", !.conv = c, !.prompt = req[r].msgs]
  <2>1. c # None /\ c \in Chat
    BY <1>2, <1>5 DEF Continues
  <2>2. /\ s \in ReqState /\ s.pc = "send" /\ s.conv = c
        /\ s.acct = req[r].acct /\ s.forced = req[r].forced
    BY <1>1, <2>1 DEF ReqState, Using
  <2>3. req' = [req EXCEPT ![r] = s]
    BY <1>5
  <2> HIDE DEF s, c
  <2> QED
    BY <1>3, <2>1, <2>2, <2>3
<1>6. CASE req' = [req EXCEPT ![r].pc = "create", ![r].conv = None, ![r].prompt = req[r].msgs]
  <2> DEFINE s == [req[r] EXCEPT !.pc = "create", !.conv = None, !.prompt = req[r].msgs]
  <2>1. /\ s \in ReqState /\ s.pc = "create" /\ s.conv = None
        /\ s.acct = req[r].acct /\ s.forced = req[r].forced
    BY <1>1 DEF ReqState, Using
  <2>2. req' = [req EXCEPT ![r] = s]
    BY <1>6
  <2> HIDE DEF s, c
  <2> QED
    BY <1>3, <2>1, <2>2
<1> QED
  BY <1>4, <1>5, <1>6 DEF Match

LEMMA CutStep ==
    ASSUME IInv, NEW r \in Request, Cut(r)
    PROVE  IInv'
<1> DEFINE k == Len(conv[req[r].conv].absorbed)
           msgs == req[r].msgs
           tail == TailAfter(msgs, k)
           s == [req[r] EXCEPT !.pc = "send", !.prompt = tail]
<1>1. /\ req[r] \in ReqState /\ req[r].pc = "cut" /\ Placed(r)
      /\ UNCHANGED <<conv, table, latest, now, rounds, users>>
  BY DEF IInv, Typed, Cut
<1>2. CASE Goto(r, "cut", "panic")
  BY <1>1, <1>2, GotoStep DEF Using
<1>3. CASE Return(r, "cut")
  BY <1>1, <1>3, ReturnStep
<1>4. CASE k < Len(msgs) /\ req' = [req EXCEPT ![r].pc = "send", ![r].prompt = tail]
  <2>1. k \in Nat /\ msgs \in Seq(Said)
    <3>1. req[r].conv \in Chat
      BY <1>1 DEF Placed
    <3> QED
      BY <1>1, <3>1 DEF IInv, Typed, ConvState, ReqState
  <2>2. tail \in Seq(Said)
    <3>1. \A i \in (k + 1)..Len(msgs) : msgs[i] \in Said
      BY <2>1
    <3> QED
      BY <2>1, <3>1, SubSeqProperties DEF TailAfter
  <2> HIDE DEF tail
  <2>3. /\ s \in ReqState /\ s.pc = "send" /\ s.conv = req[r].conv
        /\ s.acct = req[r].acct /\ s.forced = req[r].forced
    BY <1>1, <2>2 DEF ReqState, Using
  <2>4. req' = [req EXCEPT ![r] = s]
    BY <1>4
  <2>5. req'[r] = s
    BY <2>4 DEF IInv, Typed
  <2> HIDE DEF s
  <2>6. Placed(r)'
    BY <1>1, <2>3, <2>5 DEF Placed, Known, Using
  <2> QED
    BY <1>1, <2>3, <2>4, <2>6, SameChats, RequestStep DEF IInv, Typed, users
<1> QED
  BY <1>2, <1>3, <1>4 DEF Cut

----------------------------------------------------------------------------
(* driveConversation and PollAssistant. *)

\* rounds' with one more round of chat c.
LEMMA RoundAdded ==
    ASSUME IInv, NEW c \in Chat, NEW prompt \in Seq(Said)
    PROVE  /\ WithRound(c, prompt) \in [Chat -> Seq(Round)]
           /\ WithRound(c, prompt)[c] # <<>>
           /\ Len(WithRound(c, prompt)[c]) \in Nat
           /\ \A d \in Chat : rounds[d] # <<>> => WithRound(c, prompt)[d] # <<>>
<1> DEFINE more == Append(rounds[c], [prompt |-> prompt, state |-> "running"])
<1>1. rounds \in [Chat -> Seq(Round)]
  BY DEF IInv, Typed
<1>2. [prompt |-> prompt, state |-> "running"] \in Round
  BY DEF Round
<1>3. more \in Seq(Round) /\ Len(more) = Len(rounds[c]) + 1 /\ Len(rounds[c]) \in Nat
  BY <1>1, <1>2
<1>4. more # <<>>
  BY <1>3
<1>5. WithRound(c, prompt) = [rounds EXCEPT ![c] = more]
  BY DEF WithRound
<1> HIDE DEF more
<1> QED
  BY <1>1, <1>3, <1>4, <1>5

LEMMA SendStep ==
    ASSUME IInv, NEW r \in Request, SendReuse(r)
    PROVE  IInv'
<1> DEFINE c == req[r].conv
           n == Len(rounds'[c])
           s == [req[r] EXCEPT !.pc = "poll", !.round = n]
<1>1. /\ req[r] \in ReqState /\ req[r].pc = "send" /\ Placed(r)
      /\ UNCHANGED <<gateway, users>> /\ rounds' = WithRound(c, req[r].prompt)
  BY DEF IInv, Typed, SendReuse
<1>2. c \in Chat /\ req[r].prompt \in Seq(Said)
  BY <1>1 DEF Placed, ReqState
<1>3. Lasting
  BY <1>1, <1>2, RoundAdded DEF Lasting, Known, gateway
<1>4. /\ s \in ReqState /\ s.pc = "poll" /\ s.conv = c
      /\ s.acct = req[r].acct /\ s.forced = req[r].forced
  <2>1. n \in Nat
    BY <1>1, <1>2, RoundAdded
  <2> HIDE DEF n
  <2> QED
    BY <1>1, <2>1 DEF ReqState, Using
<1>5. req' = [req EXCEPT ![r] = s]
  BY DEF SendReuse
<1> HIDE DEF s
<1>6. req'[r] = s
  BY <1>5 DEF IInv, Typed
<1>7. Placed(r)'
  <2>1. req[r].forced \in Chat \cup {None}
    BY <1>1 DEF ReqState
  <2>2. req[r].forced # None =>
          /\ Known(req[r].forced)'
          /\ conv'[req[r].forced].owner = conv[req[r].forced].owner
    BY <1>1, <1>3, <1>4, <1>6, <2>1 DEF Placed, Lasting
  <2>3. Known(c)' /\ conv'[c].owner = conv[c].owner
    BY <1>1, <1>2, <1>3, <1>4, <1>6, NoneAssumption DEF Placed, Lasting
  <2> HIDE DEF Known
  <2> QED
    BY <1>1, <1>2, <1>4, <1>6, <2>2, <2>3 DEF Placed, Using
<1> HIDE DEF c
<1> QED
  BY <1>1, <1>2, <1>3, <1>4, <1>5, <1>7, RoundAdded, RequestStep DEF IInv, Typed, gateway, users

LEMMA ChatMinimum ==
    ASSUME NEW S \in SUBSET Chat, S # {}
    PROVE  \E m \in S : \A n \in S : m <= n
<1>1. S \subseteq Nat
  BY BoundsAssumption DEF Chat
<1>2. \E m \in S : \A n \in S : <<n, m>> \notin OpToRel(<, Nat)
  BY <1>1, NatLessThanWellFounded, WFMin
<1>3. ASSUME NEW m \in S, NEW n \in S, <<n, m>> \notin OpToRel(<, Nat)
      PROVE  m <= n
  BY <1>1, <1>3 DEF OpToRel
<1> QED
  BY <1>2, <1>3

LEMMA CreateStep ==
    ASSUME IInv, NEW r \in Request, CreateChat(r)
    PROVE  IInv'
<1> DEFINE First(c) == c \in Unused /\ \A d \in Unused : c <= d
<1>1. PICK c \in Unused :
        /\ rounds' = WithRound(c, req[r].prompt)
        /\ conv' = [conv EXCEPT ![c] = [Unknown EXCEPT !.owner = req[r].acct, !.turns = 1]]
        /\ req' = [req EXCEPT ![r].pc = "poll", ![r].conv = c, ![r].round = 1]
  <2>1. \E c \in Unused : \A d \in Unused : c <= d
    BY ChatMinimum DEF CreateChat, Unused
  <2> QED
    BY <2>1 DEF CreateChat
<1> DEFINE s == [req[r] EXCEPT !.pc = "poll", !.conv = c, !.round = 1]
           k == [Unknown EXCEPT !.owner = req[r].acct, !.turns = 1]
<1>2. /\ req[r] \in ReqState /\ req[r].pc = "create" /\ Placed(r) /\ c \in Chat /\ rounds[c] = <<>>
      /\ UNCHANGED <<table, latest, now, users>>
  BY DEF IInv, Typed, CreateChat, Unused
<1>3. k \in ConvState /\ k.owner = req[r].acct
  <2>1. Unknown \in ConvState
    BY DEF Unknown, ConvState
  <2> QED
    BY <1>2, <2>1 DEF ConvState, ReqState
<1>4. conv' = [conv EXCEPT ![c] = k]
  BY <1>1
<1> HIDE DEF k
<1>5. /\ conv' \in [Chat -> ConvState] /\ conv'[c].owner = req[r].acct
      /\ \A d \in Chat \ {c} : conv'[d] = conv[d]
  BY <1>2, <1>3, <1>4 DEF IInv, Typed
<1>6. req[r].prompt \in Seq(Said)
  BY <1>2 DEF ReqState
<1>7. Lasting /\ Known(c)'
  BY <1>1, <1>2, <1>5, <1>6, RoundAdded DEF Lasting, Known
<1>8. /\ s \in ReqState /\ s.pc = "poll" /\ s.conv = c
      /\ s.acct = req[r].acct /\ s.forced = req[r].forced
  BY <1>2 DEF ReqState, Using
<1>9. req' = [req EXCEPT ![r] = s]
  BY <1>1
<1> HIDE DEF s
<1>10. req'[r] = s
  BY <1>9 DEF IInv, Typed
<1>11. Placed(r)'
  <2>1. req[r].forced \in Chat \cup {None}
    BY <1>2 DEF ReqState
  <2>2. req[r].forced # None =>
          /\ Known(req[r].forced)'
          /\ conv'[req[r].forced].owner = conv[req[r].forced].owner
    BY <1>2, <1>7, <1>8, <1>10, <2>1 DEF Placed, Lasting
  <2> HIDE DEF Known
  <2> QED
    BY <1>2, <1>5, <1>7, <1>8, <1>10, <2>2 DEF Placed, Using
<1>12. rounds' \in [Chat -> Seq(Round)]
  BY <1>1, <1>2, <1>6, RoundAdded
<1> QED
  BY <1>2, <1>5, <1>7, <1>8, <1>9, <1>11, <1>12, RequestStep DEF IInv, Typed, users

LEMMA PollStep ==
    ASSUME IInv, NEW r \in Request, PollReturns(r)
    PROVE  IInv'
<1> DEFINE c == req[r].conv
<1>1. /\ req[r] \in ReqState /\ req[r].pc = "poll" /\ Placed(r) /\ c \in Chat
      /\ UNCHANGED <<conv, table, latest, now, rounds, users>>
  BY DEF IInv, Typed, PollReturns, Placed
<1>2. PICK n \in Listed(c) : req' = [req EXCEPT ![r].pc = "finalize", ![r].got = Reply(c, n)]
  BY DEF PollReturns
<1>3. Reply(c, n) \in Said
  <2>1. rounds[c] \in Seq(Round) /\ n \in DOMAIN rounds[c]
    BY <1>1 DEF IInv, Typed, Listed
  <2>2. n \in Nat
    BY <2>1
  <2> QED
    BY <1>1, <2>2 DEF Reply, Said
<1> DEFINE s == [req[r] EXCEPT !.pc = "finalize", !.got = Reply(c, n)]
<1>4. /\ s \in ReqState /\ s.pc = "finalize" /\ s.conv = c /\ s.got \in Said
      /\ s.acct = req[r].acct /\ s.forced = req[r].forced
  BY <1>1, <1>3 DEF ReqState, Using
<1>5. req' = [req EXCEPT ![r] = s]
  BY <1>2
<1> HIDE DEF s
<1>6. req'[r] = s
  BY <1>5 DEF IInv, Typed
<1>7. Placed(r)'
  BY <1>1, <1>4, <1>6 DEF Placed, Known, Using
<1> QED
  BY <1>1, <1>4, <1>5, <1>7, SameChats, RequestStep DEF IInv, Typed, users

----------------------------------------------------------------------------
(* finalizeConversation. *)

\* The table never outgrows maxConvs: it grows by one, and one is evicted.
LEMMA TableBounded ==
    ASSUME NEW ids \in SUBSET Chat, Cardinality(ids) <= MaxConvs, NEW c \in Chat, NEW c2,
           NEW out \in Evicted(ids \cup {c}, c2)
    PROVE  Cardinality((ids \cup {c}) \ out) <= MaxConvs
<1> DEFINE all == ids \cup {c}
<1>1. IsFiniteSet(ids)
  <2>1. IsFiniteSet(Chat)
    BY FS_Interval, BoundsAssumption DEF Chat
  <2> QED
    BY <2>1, FS_Subset
<1>2. /\ IsFiniteSet(all) /\ Cardinality(all) \in Nat /\ Cardinality(ids) \in Nat
      /\ Cardinality(all) <= Cardinality(ids) + 1
  <2>1. Cardinality(ids) \in Nat
    BY <1>1, FS_CardinalityType
  <2>2. IsFiniteSet(all) /\ Cardinality(all) = IF c \in ids THEN Cardinality(ids) ELSE Cardinality(ids) + 1
    BY <1>1, FS_AddElement
  <2> HIDE DEF all
  <2> QED
    BY <2>1, <2>2
<1>3. CASE Cardinality(all) <= MaxConvs
  <2>1. out = {}
    BY <1>3 DEF Evicted
  <2> QED
    BY <1>3, <2>1
<1>4. CASE ~(Cardinality(all) <= MaxConvs)
  <2>1. PICK d \in all : out = {d}
    BY <1>4 DEF Evicted, Oldest
  <2>2. Cardinality(all \ {d}) = Cardinality(all) - 1
    BY <1>2, FS_RemoveElement
  <2> HIDE DEF all
  <2>3. Cardinality(all \ out) <= MaxConvs
    BY <1>2, <2>1, <2>2, BoundsAssumption
  <2> QED
    BY <2>3 DEF all
<1> QED
  BY <1>3, <1>4

LEMMA RecordedTyped ==
    ASSUME IInv, NEW r \in Request, req[r].got \in Said
    PROVE  Recorded(r) \in Seq(Said)
<1>1. req[r].msgs \in Seq(Said)
  BY DEF IInv, Typed, ReqState
<1>2. <<req[r].got>> \in Seq(Said)
  OBVIOUS
<1> QED
  BY <1>1, <1>2 DEF Recorded

LEMMA FinalizeStep ==
    ASSUME IInv, NEW r \in Request, NEW out \in SUBSET Chat,
           NEW delivered \in BOOLEAN, Finalize(r, out, delivered)
    PROVE  IInv'
<1> DEFINE s == [Fresh EXCEPT !.pc = "done"]
<1>1. PICK c \in Chat :
        /\ c = req[r].conv /\ Known(c) /\ conv[c].owner = req[r].acct /\ req[r].acct \in Account
  <2>1. Placed(r) /\ req[r].pc = "finalize"
    BY DEF IInv, Finalize, Return
  <2> QED
    BY <2>1, NoneAssumption DEF Placed, Using
<1>2. /\ conv' = [conv EXCEPT ![c].absorbed = Recorded(r), ![c].turns = @ + 1, ![c].stamp = now]
      /\ out \in Evicted(table \cup {c}, conv')
      /\ table' = (table \cup {c}) \ out
      /\ latest' = Forget([latest EXCEPT ![req[r].acct] = c], out)
      /\ UNCHANGED <<now, rounds, last>>
  BY <1>1 DEF Finalize
<1>3. Recorded(r) \in Seq(Said)
  <2>1. req[r].got \in Said
    BY DEF IInv, Placed, Finalize, Return
  <2> QED
    BY <2>1, RecordedTyped
<1>4. /\ conv' \in [Chat -> ConvState]
      /\ \A d \in Chat : conv'[d].owner = conv[d].owner
  <2> DEFINE k == [conv[c] EXCEPT !.absorbed = Recorded(r), !.turns = @ + 1, !.stamp = now]
  <2>1. conv[c] \in ConvState /\ now \in Nat
    BY DEF IInv, Typed
  <2>2. conv[c].turns \in Nat /\ conv[c].turns + 1 \in Nat
    BY <2>1 DEF ConvState
  <2>3. k \in ConvState /\ k.owner = conv[c].owner
    BY <1>3, <2>1, <2>2 DEF ConvState
  <2>4. conv' = [conv EXCEPT ![c] = k]
    BY <1>2
  <2> HIDE DEF k
  <2> QED
    BY <2>3, <2>4 DEF IInv, Typed
<1>5. Lasting
  BY <1>2, <1>4 DEF Lasting, Known
<1>6. s \in ReqState /\ s.pc = "done" /\ s.conv = None /\ s.forced = None
  BY FreshTyped DEF ReqState, Using
<1>7. req' = [req EXCEPT ![r] = s]
  BY DEF Finalize, Return
<1> HIDE DEF s
<1>8. req' \in [Request -> ReqState] /\ req'[r] = s /\ \A q \in Request \ {r} : req'[q] = req[q]
  BY <1>6, <1>7 DEF IInv, Typed
<1>9. table' \in SUBSET Chat
  BY <1>2 DEF IInv, Typed
<1>10. /\ latest' \in [Account -> Chat \cup {None}]
       /\ \A a \in Account : latest'[a] # None =>
            latest'[a] \in table' /\ conv'[latest'[a]].owner = a
  <2>1. \A a \in Account : latest'[a] =
          LET d == IF a = req[r].acct THEN c ELSE latest[a] IN IF d \in out THEN None ELSE d
    BY <1>1, <1>2 DEF Forget, IInv, Typed
  <2>2. latest' \in [Account -> Chat \cup {None}]
    BY <1>1, <1>2 DEF Forget, IInv, Typed
  <2>3. ASSUME NEW a \in Account, latest'[a] # None
        PROVE  latest'[a] \in table' /\ conv'[latest'[a]].owner = a
    <3>1. CASE a = req[r].acct
      BY <1>1, <1>2, <1>4, <2>1, <2>3, <3>1
    <3>2. CASE a # req[r].acct
      <4>1. latest'[a] = latest[a] /\ latest[a] \notin out /\ latest[a] # None
        BY <2>1, <2>3, <3>2
      <4>2. latest[a] \in table /\ latest[a] \in Chat /\ conv[latest[a]].owner = a
        BY <4>1 DEF IInv, Typed, TableConsistent
      <4> QED
        BY <1>2, <1>4, <4>1, <4>2
    <3> QED
      BY <3>1, <3>2
  <2> QED
    BY <2>2, <2>3
<1>11. hist' \in [User -> Seq(Said)] /\ lastConv' \in [User -> Chat \cup {None}]
  BY <1>1, <1>3 DEF Finalize, IInv, Typed
<1>12. Typed'
  BY <1>2, <1>4, <1>8, <1>9, <1>10, <1>11 DEF IInv, Typed
<1>13. TableKnown'
  BY <1>1, <1>2, <1>4, <1>9 DEF IInv, TableKnown, Known
<1>14. \A q \in Request : Placed(q)'
  <2>1. Placed(r)'
    BY <1>6, <1>8 DEF Placed, Using
  <2> QED
    BY <1>5, <1>8, <2>1, OthersPlaced
<1>15. TableConsistent'
  BY <1>2, <1>10, TableBounded DEF IInv, Typed, TableConsistent
<1> QED
  BY <1>12, <1>13, <1>14, <1>15 DEF IInv

----------------------------------------------------------------------------
(* The steps of nobody in particular. *)

LEMMA RoundEndsStep ==
    ASSUME IInv, NEW c \in Chat, NEW n \in DOMAIN rounds[c], RoundEnds(c, n)
    PROVE  IInv'
<1> DEFINE ended == [rounds[c] EXCEPT ![n] = [rounds[c][n] EXCEPT !.state = "done"]]
<1>1. rounds[c] \in Seq(Round) /\ rounds \in [Chat -> Seq(Round)]
  BY DEF IInv, Typed
<1>2. [rounds[c][n] EXCEPT !.state = "done"] \in Round
  <2>1. rounds[c][n] \in Round
    BY <1>1
  <2> QED
    BY <2>1 DEF Round
<1>3. ended \in Seq(Round) /\ Len(ended) = Len(rounds[c])
  BY <1>1, <1>2
<1>4. rounds' = [rounds EXCEPT ![c] = ended] /\ UNCHANGED <<gateway, req, users>>
  BY DEF RoundEnds
<1>5. ended # <<>>
  BY <1>1, <1>3
<1> HIDE DEF ended
<1>6. rounds' \in [Chat -> Seq(Round)] /\ \A d \in Chat : rounds[d] # <<>> => rounds'[d] # <<>>
  BY <1>1, <1>3, <1>4, <1>5
<1>7. Lasting
  BY <1>4, <1>6 DEF Lasting, Known, gateway
<1>8. \A q \in Request : Placed(q)'
  BY <1>4, <1>7, OthersPlaced
<1>9. Typed' /\ TableKnown' /\ TableConsistent'
  BY <1>4, <1>6 DEF IInv, Typed, TableKnown, Known, TableConsistent, gateway, users
<1> QED
  BY <1>8, <1>9 DEF IInv

LEMMA RestartStep ==
    ASSUME IInv, Restart
    PROVE  IInv'
<1> DEFINE s == [Fresh EXCEPT !.pc = "lost"]
<1>1. s \in ReqState /\ s.pc = "lost" /\ s.conv = None /\ s.forced = None
  BY FreshTyped DEF ReqState, Using
<1>2. /\ req' = [r \in Request |-> IF InFlight(r) THEN s ELSE req[r]]
      /\ UNCHANGED <<conv, table, latest, now, rounds, users>>
  BY DEF Restart
<1> HIDE DEF s
<1>3. \A r \in Request : Placed(r)'
  <2> TAKE r \in Request
  <2>1. CASE InFlight(r)
    BY <1>1, <1>2, <2>1 DEF Placed, Using
  <2>2. CASE ~InFlight(r)
    BY <1>2, <2>2, SameChats, OthersPlaced
  <2> QED
    BY <2>1, <2>2
<1>4. Typed' /\ TableKnown' /\ TableConsistent'
  BY <1>1, <1>2 DEF IInv, Typed, TableKnown, Known, TableConsistent, users
<1> QED
  BY <1>3, <1>4 DEF IInv

LEMMA AsideStep ==
    ASSUME IInv, SecondPasses \/ Quiet \/ UNCHANGED vars
    PROVE  IInv'
<1>1. UNCHANGED <<conv, table, latest, req, rounds, users>> /\ now' \in Nat
  BY BoundsAssumption DEF IInv, Typed, SecondPasses, Quiet, vars, gateway
<1>2. \A r \in Request : Placed(r)'
  BY <1>1, SameChats, OthersPlaced
<1>3. Typed' /\ TableKnown' /\ TableConsistent'
  BY <1>1 DEF IInv, Typed, TableKnown, Known, TableConsistent, users
<1> QED
  BY <1>2, <1>3 DEF IInv

----------------------------------------------------------------------------
LEMMA NextIInv == IInv /\ [Next]_vars => IInv'
<1> SUFFICES ASSUME IInv, [Next]_vars PROVE IInv'
  OBVIOUS
<1>1. ASSUME NEW r \in Request, NEW u \in User, NEW msgs \in Sendable(u, r),
             NEW id \in Nameable(u), Ask(u, r, msgs, id)
      PROVE  IInv'
  BY <1>1, AskStep
<1>2. ASSUME NEW r \in Request, NEW a \in Account, Choose(r, a) PROVE IInv'
  BY <1>2, ChooseStep
<1>3. ASSUME NEW r \in Request, GiveUp(r) PROVE IInv'
  BY <1>3, ReturnStep DEF GiveUp, gateway
<1>4. ASSUME NEW r \in Request,
             Lock(r) \/ SendFails(r) \/ CreateFails(r) \/ PollFails(r)
      PROVE  IInv'
  BY <1>4, GotoStep DEF Lock, SendFails, CreateFails, PollFails, Using, gateway
<1>5. ASSUME NEW r \in Request,
             Match(r) \/ Cut(r) \/ SendReuse(r) \/ CreateChat(r) \/ PollReturns(r)
      PROVE  IInv'
  BY <1>5, MatchStep, CutStep, SendStep, CreateStep, PollStep
<1>6. ASSUME NEW r \in Request, NEW out \in SUBSET Chat, NEW delivered \in BOOLEAN,
             Finalize(r, out, delivered)
      PROVE  IInv'
  BY <1>6, FinalizeStep
<1>7. ASSUME NEW c \in Chat, NEW n \in DOMAIN rounds[c], RoundEnds(c, n) PROVE IInv'
  BY <1>7, RoundEndsStep
<1>8. CASE Restart
  BY <1>8, RestartStep
<1>9. CASE SecondPasses \/ Quiet \/ UNCHANGED vars
  BY <1>9, AsideStep
<1> QED
  BY <1>1, <1>2, <1>3, <1>4, <1>5, <1>6, <1>7, <1>8, <1>9 DEF Next

LEMMA Invariance == Spec => []IInv
  BY InitIInv, NextIInv, PTL DEF Spec

\* The table stays within maxConvs, and the latest conversation of an account is
\* in it and belongs to the account (finalizeConversation and evictConvsLocked,
\* which take the table, latest and the owner in hand together).
THEOREM TableStaysConsistent == Spec => []TableConsistent
<1>1. IInv => TableConsistent
  BY DEF IInv
<1> QED
  BY <1>1, Invariance, PTL

\* A request writes to and reads from chats of the account it is using only:
\* planConversation takes the named chat, whose owner was picked, or the latest
\* one of the account, and driveConversation creates the others for it.
THEOREM ChatsStayOwned == Spec => []ChatOwned
<1>1. IInv => ChatOwned
  BY DEF IInv, Placed, ChatOwned
<1> QED
  BY <1>1, Invariance, PTL

----------------------------------------------------------------------------
(* What each step makes of its request, for the invariants that follow. *)

Others(r) == \A q \in Request \ {r} : req'[q] = req[q]

\* The request is still the same one, on the same account.
Keeps(r) ==
    /\ req'[r].user = req[r].user /\ req'[r].msgs = req[r].msgs
    /\ req'[r].forced = req[r].forced
    /\ req'[r].acct = req[r].acct /\ req'[r].tried = req[r].tried

\* And it has written and read the same.
Speaks(r) == req'[r].prompt = req[r].prompt /\ req'[r].got = req[r].got

LEMMA AskMoves ==
    ASSUME IInv, NEW r \in Request, NEW u \in User, NEW msgs, NEW id, Ask(u, r, msgs, id)
    PROVE  /\ Others(r) /\ req[r].pc = "new" /\ req'[r].pc = "choose"
           /\ req'[r].user = u /\ req'[r].msgs = msgs /\ req'[r].forced = id
           /\ req'[r].tried = {} /\ req'[r].matched = 0
           /\ req'[r].prompt = <<>> /\ req'[r].got = None
<1> DEFINE s == [Fresh EXCEPT !.pc = "choose", !.user = u, !.msgs = msgs, !.forced = id]
<1>1. req \in [Request -> ReqState] /\ req[r].pc = "new" /\ req' = [req EXCEPT ![r] = s]
  BY DEF IInv, Typed, Ask
<1>2. /\ s.pc = "choose" /\ s.user = u /\ s.msgs = msgs /\ s.forced = id
      /\ s.tried = {} /\ s.matched = 0 /\ s.prompt = <<>> /\ s.got = None
  BY DEF Fresh
<1> HIDE DEF s
<1> QED
  BY <1>1, <1>2 DEF Others

LEMMA ChooseMoves ==
    ASSUME IInv, NEW r \in Request, NEW a \in Account, Choose(r, a)
    PROVE  /\ Others(r) /\ req[r].pc = "choose" /\ req'[r].pc = "lock"
           /\ req'[r].acct = a /\ req'[r].tried = req[r].tried \cup {a}
           /\ req'[r].user = req[r].user /\ req'[r].msgs = req[r].msgs
           /\ req'[r].forced = req[r].forced /\ req'[r].matched = req[r].matched
           /\ Speaks(r)
<1> DEFINE s == [req[r] EXCEPT !.pc = "lock", !.acct = a, !.tried = @ \cup {a}]
<1>1. /\ req \in [Request -> ReqState] /\ req[r] \in ReqState
      /\ req[r].pc = "choose" /\ req' = [req EXCEPT ![r] = s]
  BY DEF IInv, Typed, Choose
<1>2. /\ s.pc = "lock" /\ s.acct = a /\ s.tried = req[r].tried \cup {a}
      /\ s.user = req[r].user /\ s.msgs = req[r].msgs
      /\ s.forced = req[r].forced /\ s.matched = req[r].matched
      /\ s.prompt = req[r].prompt /\ s.got = req[r].got
  BY <1>1 DEF ReqState
<1> HIDE DEF s
<1> QED
  BY <1>1, <1>2 DEF Others, Speaks

LEMMA ReturnMoves ==
    ASSUME IInv, NEW r \in Request, NEW from, Return(r, from)
    PROVE  /\ Others(r) /\ req[r].pc = from /\ req'[r].pc = "done"
           /\ req'[r].forced = None /\ req'[r].matched = 0 /\ req'[r].tried = {}
           /\ req'[r].msgs = <<>> /\ req'[r].user = None
           /\ req'[r].prompt = <<>> /\ req'[r].got = None
<1> DEFINE s == [Fresh EXCEPT !.pc = "done"]
<1>1. req \in [Request -> ReqState] /\ req[r].pc = from /\ req' = [req EXCEPT ![r] = s]
  BY DEF IInv, Typed, Return
<1>2. /\ s.pc = "done" /\ s.forced = None /\ s.matched = 0 /\ s.tried = {}
      /\ s.msgs = <<>> /\ s.user = None /\ s.prompt = <<>> /\ s.got = None
  BY DEF Fresh
<1> HIDE DEF s
<1> QED
  BY <1>1, <1>2 DEF Others

LEMMA GotoMoves ==
    ASSUME IInv, NEW r \in Request, NEW from, NEW to, Goto(r, from, to)
    PROVE  /\ Others(r) /\ Keeps(r) /\ req[r].pc = from /\ req'[r].pc = to
           /\ req'[r].conv = req[r].conv /\ req'[r].matched = req[r].matched
           /\ req'[r].prompt = req[r].prompt /\ Speaks(r)
<1> DEFINE s == [req[r] EXCEPT !.pc = to]
<1>1. /\ req \in [Request -> ReqState] /\ req[r] \in ReqState
      /\ req[r].pc = from /\ req' = [req EXCEPT ![r] = s]
  BY DEF IInv, Typed, Goto
<1>2. /\ s.pc = to /\ s.user = req[r].user /\ s.msgs = req[r].msgs
      /\ s.forced = req[r].forced /\ s.acct = req[r].acct /\ s.tried = req[r].tried
      /\ s.conv = req[r].conv /\ s.matched = req[r].matched /\ s.prompt = req[r].prompt
      /\ s.got = req[r].got
  BY <1>1 DEF ReqState
<1> HIDE DEF s
<1> QED
  BY <1>1, <1>2 DEF Others, Keeps, Speaks

LEMMA MatchMoves ==
    ASSUME IInv, NEW r \in Request, Match(r)
    PROVE  /\ Others(r) /\ Keeps(r) /\ req[r].pc = "match" /\ req'[r].got = req[r].got
           /\ \/ /\ req'[r].pc = "cut" /\ req'[r].conv = Current(r)
                 /\ req'[r].matched = Len(conv[Current(r)].absorbed)
                 /\ Replays(Current(r), req[r].msgs) /\ req'[r].prompt = req[r].prompt
              \/ /\ req'[r].pc = "send" /\ req'[r].conv = Current(r)
                 /\ req'[r].matched = req[r].matched /\ req'[r].prompt = req[r].msgs
                 /\ Continues(r, Current(r), req[r].msgs)
              \/ /\ req'[r].pc = "create"
                 /\ req'[r].matched = req[r].matched /\ req'[r].prompt = req[r].msgs
<1> DEFINE c == Current(r)
           msgs == req[r].msgs
           n == Len(conv[c].absorbed)
           s1 == [req[r] EXCEPT !.pc = "cut", !.conv = c, !.matched = n]
           s2 == [req[r] EXCEPT !.pc = "send", !.conv = c, !.prompt = msgs]
           s3 == [req[r] EXCEPT !.pc = "create", !.conv = None, !.prompt = msgs]
           Same(s) == /\ s.user = req[r].user /\ s.msgs = msgs /\ s.forced = req[r].forced
                      /\ s.acct = req[r].acct /\ s.tried = req[r].tried
                      /\ s.got = req[r].got
<1>1. /\ req \in [Request -> ReqState] /\ req[r] \in ReqState /\ req[r].pc = "match"
      /\ \/ req' = [req EXCEPT ![r] = s1] /\ Replays(c, msgs)
         \/ req' = [req EXCEPT ![r] = s2] /\ Continues(r, c, msgs)
         \/ req' = [req EXCEPT ![r] = s3]
  BY DEF IInv, Typed, Match
<1>2. /\ Same(s1) /\ s1.pc = "cut" /\ s1.conv = c /\ s1.matched = n
      /\ s1.prompt = req[r].prompt
  BY <1>1 DEF ReqState
<1>3. Same(s2) /\ s2.pc = "send" /\ s2.conv = c /\ s2.prompt = msgs /\ s2.matched = req[r].matched
  BY <1>1 DEF ReqState
<1>4. Same(s3) /\ s3.pc = "create" /\ s3.prompt = msgs /\ s3.matched = req[r].matched
  BY <1>1 DEF ReqState
<1> HIDE DEF c, n, s1, s2, s3
<1>5. Others(r) /\ (req'[r] = s1 \/ req'[r] = s2 \/ req'[r] = s3)
  BY <1>1 DEF Others
<1>6. \/ req'[r] = s1 /\ Replays(c, msgs)
      \/ req'[r] = s2 /\ Continues(r, c, msgs)
      \/ req'[r] = s3
  BY <1>1
<1>7. Keeps(r) /\ req'[r].got = req[r].got
  BY <1>2, <1>3, <1>4, <1>5 DEF Keeps
<1>8. \/ /\ req'[r].pc = "cut" /\ req'[r].conv = c /\ req'[r].matched = n
         /\ Replays(c, msgs) /\ req'[r].prompt = req[r].prompt
      \/ /\ req'[r].pc = "send" /\ req'[r].conv = c
         /\ req'[r].matched = req[r].matched /\ req'[r].prompt = msgs
         /\ Continues(r, c, msgs)
      \/ req'[r].pc = "create" /\ req'[r].matched = req[r].matched /\ req'[r].prompt = msgs
  BY <1>2, <1>3, <1>4, <1>6
<1> QED
  BY <1>1, <1>5, <1>7, <1>8 DEF c, n

\* Cut either ends the request or goes on to send.
LEMMA CutMoves ==
    ASSUME IInv, NEW r \in Request, Cut(r)
    PROVE  LET k == Len(conv[req[r].conv].absorbed) IN
           /\ Others(r) /\ req[r].pc = "cut"
           /\ \/ k > Len(req[r].msgs) /\ Goto(r, "cut", "panic") /\ UNCHANGED sendMu
              \/ Return(r, "cut") /\ Unlock(r)
              \/ /\ k < Len(req[r].msgs) /\ UNCHANGED sendMu
                 /\ Keeps(r) /\ req'[r].pc = "send"
                 /\ req'[r].conv = req[r].conv /\ req'[r].matched = req[r].matched
                 /\ req'[r].prompt = TailAfter(req[r].msgs, k) /\ req'[r].got = req[r].got
<1> DEFINE k == Len(conv[req[r].conv].absorbed)
           tail == TailAfter(req[r].msgs, k)
           s == [req[r] EXCEPT !.pc = "send", !.prompt = tail]
<1>1. /\ req \in [Request -> ReqState] /\ req[r] \in ReqState /\ req[r].pc = "cut"
      /\ \/ k > Len(req[r].msgs) /\ Goto(r, "cut", "panic") /\ UNCHANGED sendMu
         \/ Return(r, "cut") /\ Unlock(r)
         \/ k < Len(req[r].msgs) /\ UNCHANGED sendMu /\ req' = [req EXCEPT ![r] = s]
  BY DEF IInv, Typed, Cut
<1>2. /\ s.pc = "send" /\ s.user = req[r].user /\ s.msgs = req[r].msgs
      /\ s.forced = req[r].forced /\ s.acct = req[r].acct /\ s.tried = req[r].tried
      /\ s.conv = req[r].conv /\ s.matched = req[r].matched /\ s.prompt = tail
      /\ s.got = req[r].got
  BY <1>1 DEF ReqState
<1> HIDE DEF s, k, tail
<1>3. CASE k > Len(req[r].msgs) /\ Goto(r, "cut", "panic") /\ UNCHANGED sendMu
  BY <1>1, <1>3, GotoMoves DEF k
<1>4. CASE Return(r, "cut") /\ Unlock(r)
  BY <1>1, <1>4, ReturnMoves
<1>5. CASE k < Len(req[r].msgs) /\ UNCHANGED sendMu /\ req' = [req EXCEPT ![r] = s]
  BY <1>1, <1>2, <1>5 DEF Others, Keeps, k, tail
<1> QED
  BY <1>1, <1>3, <1>4, <1>5

LEMMA SendMoves ==
    ASSUME IInv, NEW r \in Request, SendReuse(r)
    PROVE  /\ Others(r) /\ Keeps(r) /\ Speaks(r) /\ req[r].pc = "send" /\ req'[r].pc = "poll"
           /\ req'[r].conv = req[r].conv /\ req'[r].matched = req[r].matched
           /\ req'[r].round = Len(rounds'[req[r].conv])
<1> DEFINE n == Len(rounds'[req[r].conv])
           s == [req[r] EXCEPT !.pc = "poll", !.round = n]
<1>1. /\ req \in [Request -> ReqState] /\ req[r] \in ReqState
      /\ req[r].pc = "send" /\ req' = [req EXCEPT ![r] = s]
  BY DEF IInv, Typed, SendReuse
<1>2. /\ s.pc = "poll" /\ s.user = req[r].user /\ s.msgs = req[r].msgs
      /\ s.forced = req[r].forced /\ s.acct = req[r].acct /\ s.tried = req[r].tried
      /\ s.conv = req[r].conv /\ s.matched = req[r].matched /\ s.round = n
      /\ s.prompt = req[r].prompt /\ s.got = req[r].got
  BY <1>1 DEF ReqState
<1> HIDE DEF s
<1> QED
  BY <1>1, <1>2 DEF Others, Keeps, Speaks

\* The chat is one that nobody has written to.
LEMMA CreateMoves ==
    ASSUME IInv, NEW r \in Request, CreateChat(r)
    PROVE  /\ Others(r) /\ Keeps(r) /\ Speaks(r) /\ req[r].pc = "create" /\ req'[r].pc = "poll"
           /\ req'[r].matched = req[r].matched
           /\ req'[r].conv \in Chat /\ rounds[req'[r].conv] = <<>> /\ req'[r].round = 1
           /\ rounds' = WithRound(req'[r].conv, req[r].prompt)
           /\ conv' = [conv EXCEPT ![req'[r].conv] =
                          [Unknown EXCEPT !.owner = req[r].acct, !.turns = 1]]
<1>1. PICK c \in Unused :
        /\ rounds' = WithRound(c, req[r].prompt)
        /\ conv' = [conv EXCEPT ![c] = [Unknown EXCEPT !.owner = req[r].acct, !.turns = 1]]
        /\ req' = [req EXCEPT ![r].pc = "poll", ![r].conv = c, ![r].round = 1]
  <2>1. \E c \in Unused : \A d \in Unused : c <= d
    BY ChatMinimum DEF CreateChat, Unused
  <2> QED
    BY <2>1 DEF CreateChat
<1> DEFINE s == [req[r] EXCEPT !.pc = "poll", !.conv = c, !.round = 1]
<1>2. /\ req \in [Request -> ReqState] /\ req[r] \in ReqState
      /\ req[r].pc = "create" /\ req' = [req EXCEPT ![r] = s]
  BY <1>1 DEF IInv, Typed, CreateChat
<1>3. /\ s.pc = "poll" /\ s.user = req[r].user /\ s.msgs = req[r].msgs
      /\ s.forced = req[r].forced /\ s.acct = req[r].acct /\ s.tried = req[r].tried
      /\ s.conv = c /\ s.matched = req[r].matched /\ s.round = 1
      /\ s.prompt = req[r].prompt /\ s.got = req[r].got
  BY <1>2 DEF ReqState
<1> HIDE DEF s
<1>4. req'[r] = s /\ Others(r)
  BY <1>2 DEF Others
<1>5. c \in Chat /\ rounds[c] = <<>>
  BY DEF Unused
<1> QED
  BY <1>1, <1>2, <1>3, <1>4, <1>5 DEF Keeps, Speaks

LEMMA PollMoves ==
    ASSUME IInv, NEW r \in Request, PollReturns(r)
    PROVE  /\ Others(r) /\ Keeps(r) /\ req[r].pc = "poll" /\ req'[r].pc = "finalize"
           /\ req'[r].conv = req[r].conv /\ req'[r].matched = req[r].matched
           /\ req'[r].round = req[r].round /\ req'[r].prompt = req[r].prompt
           /\ \E n \in Listed(req[r].conv) : req'[r].got = Reply(req[r].conv, n)
<1>1. PICK n \in Listed(req[r].conv) :
        req' = [req EXCEPT ![r].pc = "finalize", ![r].got = Reply(req[r].conv, n)]
  BY DEF PollReturns
<1> DEFINE g == Reply(req[r].conv, n)
           s == [req[r] EXCEPT !.pc = "finalize", !.got = g]
<1>2. /\ req \in [Request -> ReqState] /\ req[r] \in ReqState
      /\ req[r].pc = "poll" /\ req' = [req EXCEPT ![r] = s]
  BY <1>1 DEF IInv, Typed, PollReturns
<1>3. /\ s.pc = "finalize" /\ s.user = req[r].user /\ s.msgs = req[r].msgs
      /\ s.forced = req[r].forced /\ s.acct = req[r].acct /\ s.tried = req[r].tried
      /\ s.conv = req[r].conv /\ s.matched = req[r].matched /\ s.round = req[r].round
      /\ s.got = g /\ s.prompt = req[r].prompt
  BY <1>2 DEF ReqState
<1> HIDE DEF s
<1> QED
  BY <1>2, <1>3 DEF Others, Keeps

----------------------------------------------------------------------------
(* The send lock, for any upstream: of the requests on an account, one at  *)
(* most is between planConversation and the end of PollAssistant.          *)

Holding == {"match", "cut", "send", "create", "poll"}

HoldsLock(r) == req[r].pc \in Holding => sendMu[req[r].acct] = r

SendLocked ==
    /\ sendMu \in [Account -> Request \cup {None}]
    /\ \A r \in Request : HoldsLock(r)

LEMMA AccountInUse ==
    ASSUME IInv, NEW r \in Request, req[r].pc \in Using
    PROVE  req[r].acct \in Account
BY DEF IInv, Placed

\* A step of request r that leaves the lock to whom it belongs, or takes the
\* lock that is free, or gives back the lock it has.
LEMMA LockStep ==
    ASSUME IInv, SendLocked, NEW r \in Request, Others(r),
           \/ /\ UNCHANGED sendMu
              /\ req'[r].pc \in Holding => req[r].pc \in Holding /\ req'[r].acct = req[r].acct
           \/ req[r].pc \in Holding /\ req'[r].pc \notin Holding /\ Unlock(r)
           \/ /\ req[r].pc = "lock" /\ req'[r].acct = req[r].acct
              /\ sendMu[req[r].acct] = None
              /\ sendMu' = [sendMu EXCEPT ![req[r].acct] = r]
    PROVE  SendLocked'
<1>1. ASSUME UNCHANGED sendMu,
             req'[r].pc \in Holding => req[r].pc \in Holding /\ req'[r].acct = req[r].acct
      PROVE  SendLocked'
  BY <1>1 DEF SendLocked, HoldsLock, Others
<1>2. ASSUME req[r].pc \in Holding, req'[r].pc \notin Holding, Unlock(r)
      PROVE  SendLocked'
  <2>1. req[r].acct \in Account /\ sendMu[req[r].acct] = r
    BY <1>2, AccountInUse DEF SendLocked, HoldsLock, Holding, Using
  <2>2. \A q \in Request \ {r} : req'[q].pc \in Holding => req[q].acct # req[r].acct
    BY <2>1 DEF SendLocked, HoldsLock, Others
  <2> QED
    BY <1>2, <2>1, <2>2 DEF SendLocked, HoldsLock, Others, Unlock
<1>3. ASSUME req[r].pc = "lock", req'[r].acct = req[r].acct, sendMu[req[r].acct] = None,
             sendMu' = [sendMu EXCEPT ![req[r].acct] = r]
      PROVE  SendLocked'
  <2>1. req[r].acct \in Account
    BY <1>3, AccountInUse DEF Using
  <2>2. \A q \in Request \ {r} : req'[q].pc \in Holding => req[q].acct # req[r].acct
    BY <1>3, NoneAssumption DEF SendLocked, HoldsLock, Others
  <2> QED
    BY <1>3, <2>1, <2>2 DEF SendLocked, HoldsLock, Others
<1> QED
  BY <1>1, <1>2, <1>3

LEMMA NextSendLocked ==
    ASSUME IInv, SendLocked, [Next]_vars
    PROVE  SendLocked'
<1>1. ASSUME NEW r \in Request, NEW u \in User, NEW msgs \in Sendable(u, r),
             NEW id \in Nameable(u), Ask(u, r, msgs, id)
      PROVE  SendLocked'
  BY <1>1, AskMoves, LockStep DEF Ask, gateway, Holding
<1>2. ASSUME NEW r \in Request, NEW a \in Account, Choose(r, a) PROVE SendLocked'
  BY <1>2, ChooseMoves, LockStep DEF Choose, gateway, Holding
<1>3. ASSUME NEW r \in Request, GiveUp(r) PROVE SendLocked'
  BY <1>3, ReturnMoves, LockStep DEF GiveUp, gateway, Holding
<1>4. ASSUME NEW r \in Request, Lock(r) PROVE SendLocked'
  BY <1>4, GotoMoves, LockStep DEF Lock, Keeps
<1>5. ASSUME NEW r \in Request, SendFails(r) PROVE SendLocked'
  BY <1>5, GotoMoves, LockStep DEF SendFails, gateway, Keeps, Holding
<1>6. ASSUME NEW r \in Request, CreateFails(r) \/ PollFails(r) PROVE SendLocked'
  BY <1>6, GotoMoves, LockStep DEF CreateFails, PollFails, Holding
<1>7. ASSUME NEW r \in Request, Match(r) PROVE SendLocked'
  BY <1>7, MatchMoves, LockStep DEF Match, gateway, Keeps, Holding
<1>8. ASSUME NEW r \in Request, Cut(r) PROVE SendLocked'
  <2>1. CASE Goto(r, "cut", "panic") /\ UNCHANGED sendMu
    BY <2>1, GotoMoves, LockStep DEF Holding
  <2>2. CASE Return(r, "cut") /\ Unlock(r)
    BY <2>2, ReturnMoves, LockStep DEF Holding
  <2>3. CASE Others(r) /\ Keeps(r) /\ req[r].pc = "cut" /\ UNCHANGED sendMu
    BY <2>3, LockStep DEF Keeps, Holding
  <2> QED
    BY <1>8, <2>1, <2>2, <2>3, CutMoves
<1>9. ASSUME NEW r \in Request, SendReuse(r) PROVE SendLocked'
  BY <1>9, SendMoves, LockStep DEF SendReuse, gateway, Keeps, Holding
<1>10. ASSUME NEW r \in Request, CreateChat(r) PROVE SendLocked'
  <2>1. UNCHANGED sendMu
    BY <1>10 DEF CreateChat
  <2> QED
    BY <1>10, <2>1, CreateMoves, LockStep DEF Keeps, Holding
<1>11. ASSUME NEW r \in Request, PollReturns(r) PROVE SendLocked'
  <2>1. Unlock(r)
    BY <1>11 DEF PollReturns
  <2> QED
    BY <1>11, <2>1, PollMoves, LockStep DEF Holding
<1>12. ASSUME NEW r \in Request, NEW out \in SUBSET Chat, NEW delivered \in BOOLEAN,
              Finalize(r, out, delivered)
       PROVE  SendLocked'
  BY <1>12, ReturnMoves, LockStep DEF Finalize, Holding
<1>13. ASSUME UNCHANGED <<req, sendMu>> PROVE SendLocked'
  BY <1>13 DEF SendLocked, HoldsLock
<1>14. CASE Restart
  BY <1>14 DEF Restart, SendLocked, HoldsLock, InFlight, Holding, Fresh
<1> QED
  BY <1>1, <1>2, <1>3, <1>4, <1>5, <1>6, <1>7, <1>8, <1>9, <1>10, <1>11, <1>12, <1>13, <1>14
  DEF Next, RoundEnds, SecondPasses, Quiet, vars, gateway

\* Two requests that hold the lock of one account are one.
LEMMA HolderAlone ==
    ASSUME SendLocked, NEW q \in Request, NEW r \in Request, req[q].acct = req[r].acct,
           req[q].pc \in Holding, req[r].pc \in Holding
    PROVE  q = r
BY DEF SendLocked, HoldsLock

----------------------------------------------------------------------------
(* The reply, where the history endpoint lists the latest round.  A chat   *)
(* belongs to one account and its lock is held from before SendMessage to  *)
(* after PollAssistant: no other request sends in between.                 *)

Awaits(r) ==
    /\ req[r].pc = "poll" => req[r].round = Len(rounds[req[r].conv])
    /\ req[r].pc = "finalize" => req[r].got = Reply(req[r].conv, req[r].round)

\* What the steps do to the rounds of the chats.
LEMMA RoundsAdded ==
    ASSUME IInv, NEW c \in Chat, NEW prompt \in Seq(Said), rounds' = WithRound(c, prompt)
    PROVE  /\ rounds'[c] = Append(rounds[c], [prompt |-> prompt, state |-> "running"])
           /\ Len(rounds'[c]) = Len(rounds[c]) + 1 /\ Len(rounds[c]) \in Nat
           /\ \A d \in Chat \ {c} : rounds'[d] = rounds[d]
<1>1. rounds \in [Chat -> Seq(Round)] /\ [prompt |-> prompt, state |-> "running"] \in Round
  BY DEF IInv, Typed, Round
<1> QED
  BY <1>1 DEF WithRound

LEMMA SameLengths ==
    ASSUME IInv, NEW c \in Chat, NEW n \in DOMAIN rounds[c], RoundEnds(c, n)
    PROVE  /\ \A d \in Chat : Len(rounds'[d]) = Len(rounds[d]) /\ Len(rounds[d]) \in Nat
           /\ \A d \in Chat, i \in Nat : i \in 1..Len(rounds[d]) =>
                  rounds'[d][i].prompt = rounds[d][i].prompt
<1> DEFINE ended == [rounds[c] EXCEPT ![n] = [rounds[c][n] EXCEPT !.state = "done"]]
<1>1. rounds[c] \in Seq(Round) /\ rounds \in [Chat -> Seq(Round)]
  BY DEF IInv, Typed
<1>2. rounds[c][n] \in Round
  BY <1>1
<1>3. /\ [rounds[c][n] EXCEPT !.state = "done"] \in Round
      /\ [rounds[c][n] EXCEPT !.state = "done"].prompt = rounds[c][n].prompt
  BY <1>2 DEF Round
<1>4. /\ ended \in Seq(Round) /\ Len(ended) = Len(rounds[c])
      /\ \A i \in 1..Len(rounds[c]) : ended[i].prompt = rounds[c][i].prompt
  BY <1>1, <1>3
<1>5. rounds' = [rounds EXCEPT ![c] = ended]
  BY DEF RoundEnds
<1> HIDE DEF ended
<1> QED
  BY <1>1, <1>4, <1>5

\* The requests that do not move keep waiting for the round they sent, if the
\* step adds no round to a chat that somebody waits for.
LEMMA OthersAwait ==
    ASSUME IInv, NEW q \in Request, Awaits(q), req'[q] = req[q],
           req[q].pc = "poll" => Len(rounds'[req[q].conv]) = Len(rounds[req[q].conv])
    PROVE  Awaits(q)'
BY DEF Awaits

LEMMA NextAwaits ==
    ASSUME IInv, SendLocked, \A q \in Request : Awaits(q), [Next]_vars,
           HistoryShows = "latest"
    PROVE  \A q \in Request : Awaits(q)'
<1>1. ASSUME NEW r \in Request, Others(r), UNCHANGED rounds,
             req'[r].pc \notin {"poll", "finalize"}
      PROVE  \A q \in Request : Awaits(q)'
  BY <1>1, OthersAwait DEF Others, Awaits
<1>2. ASSUME NEW r \in Request, SendReuse(r)
      PROVE  \A q \in Request : Awaits(q)'
  <2>1. /\ req[r].pc = "send" /\ req[r].conv \in Chat
        /\ req[r].prompt \in Seq(Said) /\ conv[req[r].conv].owner = req[r].acct
    BY <1>2 DEF SendReuse, IInv, Typed, Placed, ReqState
  <2>2. \A d \in Chat \ {req[r].conv} : rounds'[d] = rounds[d]
    BY <1>2, <2>1, RoundsAdded DEF SendReuse
  <2>3. ASSUME NEW q \in Request, q # r, req[q].pc = "poll"
        PROVE  req[q].conv \in Chat /\ req[q].conv # req[r].conv
    <3>1. req[q].conv \in Chat /\ conv[req[q].conv].owner = req[q].acct
      BY <2>3 DEF IInv, Placed
    <3> QED
      BY <2>1, <2>3, <3>1, HolderAlone DEF Holding
  <2>4. Awaits(r)'
    BY <1>2, SendMoves DEF Awaits
  <2>5. \A q \in Request \ {r} : Awaits(q)'
    BY <1>2, <2>2, <2>3, SendMoves, OthersAwait DEF Others
  <2> QED
    BY <2>4, <2>5
<1>3. ASSUME NEW r \in Request, CreateChat(r)
      PROVE  \A q \in Request : Awaits(q)'
  <2> DEFINE c == req'[r].conv
  <2>1. /\ c \in Chat /\ rounds[c] = <<>> /\ req'[r].pc = "poll" /\ req'[r].round = 1
        /\ Others(r) /\ rounds' = WithRound(c, req[r].prompt)
    BY <1>3, CreateMoves
  <2> HIDE DEF c
  <2>2. req[r].prompt \in Seq(Said)
    BY DEF IInv, Typed, ReqState
  <2>3. /\ Len(rounds'[c]) = 1
        /\ \A d \in Chat \ {c} : rounds'[d] = rounds[d]
    <3>1. Len(rounds[c]) = 0
      BY <2>1
    <3>2. /\ Len(rounds'[c]) = Len(rounds[c]) + 1
          /\ \A d \in Chat \ {c} : rounds'[d] = rounds[d]
      BY <2>1, <2>2, RoundsAdded
    <3> QED
      BY <3>1, <3>2
  <2>4. Awaits(r)'
    BY <2>1, <2>3 DEF Awaits, c
  <2>5. ASSUME NEW q \in Request \ {r} PROVE Awaits(q)'
    <3>1. req[q].pc = "poll" => req[q].conv \in Chat \ {c}
      BY <2>1, NoneAssumption DEF IInv, Placed, Known
    <3> QED
      BY <2>1, <2>3, <3>1, OthersAwait DEF Others
  <2> QED
    BY <2>4, <2>5
<1>4. ASSUME NEW r \in Request, PollReturns(r)
      PROVE  \A q \in Request : Awaits(q)'
  <2>1. PICK n \in Listed(req[r].conv) : req'[r].got = Reply(req[r].conv, n)
    BY <1>4, PollMoves
  <2>2. n = req[r].round
    BY <1>4, <2>1, PollMoves DEF Listed, Awaits
  <2>3. Awaits(r)'
    BY <1>4, <2>1, <2>2, PollMoves DEF Awaits
  <2>4. UNCHANGED rounds
    BY <1>4 DEF PollReturns
  <2> QED
    BY <1>4, <2>3, <2>4, PollMoves, OthersAwait DEF Others
<1>5. ASSUME NEW c \in Chat, NEW n \in DOMAIN rounds[c], RoundEnds(c, n)
      PROVE  \A q \in Request : Awaits(q)'
  <2> TAKE q \in Request
  <2>1. req[q].pc = "poll" => req[q].conv \in Chat
    BY DEF IInv, Placed
  <2> QED
    BY <1>5, <2>1, SameLengths, OthersAwait DEF RoundEnds
<1>6. ASSUME UNCHANGED <<req, rounds>>
      PROVE  \A q \in Request : Awaits(q)'
  BY <1>6 DEF Awaits
<1>7. CASE Restart
  BY <1>7 DEF Restart, Awaits, InFlight, Fresh
<1>8. ASSUME NEW r \in Request, NEW u \in User, NEW msgs \in Sendable(u, r),
             NEW id \in Nameable(u), Ask(u, r, msgs, id)
      PROVE  \A q \in Request : Awaits(q)'
  BY <1>1, <1>8, AskMoves DEF Ask
<1>9. ASSUME NEW r \in Request, NEW a \in Account, Choose(r, a)
      PROVE  \A q \in Request : Awaits(q)'
  BY <1>1, <1>9, ChooseMoves DEF Choose
<1>10. ASSUME NEW r \in Request, NEW out \in SUBSET Chat, NEW delivered \in BOOLEAN,
              GiveUp(r) \/ Finalize(r, out, delivered)
       PROVE  \A q \in Request : Awaits(q)'
  BY <1>1, <1>10, ReturnMoves DEF GiveUp, Finalize
<1>11. ASSUME NEW r \in Request, Lock(r) \/ SendFails(r) \/ CreateFails(r) \/ PollFails(r)
       PROVE  \A q \in Request : Awaits(q)'
  BY <1>1, <1>11, GotoMoves DEF Lock, SendFails, CreateFails, PollFails
<1>12. ASSUME NEW r \in Request, Match(r) PROVE \A q \in Request : Awaits(q)'
  BY <1>1, <1>12, MatchMoves DEF Match
<1>13. ASSUME NEW r \in Request, Cut(r) PROVE \A q \in Request : Awaits(q)'
  <2>1. Others(r) /\ req'[r].pc \in {"panic", "done", "send"}
    BY <1>13, CutMoves, GotoMoves, ReturnMoves
  <2> QED
    BY <1>1, <1>13, <2>1 DEF Cut
<1> QED
  BY <1>2, <1>3, <1>4, <1>5, <1>6, <1>7, <1>8, <1>9, <1>10, <1>11, <1>12, <1>13
  DEF Next, SecondPasses, Quiet, vars

LEMMA LockInvariance == Spec => []SendLocked
<1>1. Init => SendLocked
  BY FreshTyped DEF Init, SendLocked, HoldsLock, Holding
<1> QED
  BY <1>1, Invariance, NextSendLocked, PTL DEF Spec

\* The reply a request records and hands out answers the message it sent itself,
\* whatever other requests, time-outs and restarts there are, where the history
\* endpoint lists the latest round: sendMu is held from SendMessage until
\* PollAssistant returns (driveConversation in handler.go).
THEOREM RepliesAreOwn ==
    ASSUME HistoryShows = "latest"
    PROVE  Spec => []ReplyOfThisRound
<1> DEFINE J == \A q \in Request : Awaits(q)
<1>1. Init => J
  BY FreshTyped DEF Init, Awaits
<1>2. IInv /\ SendLocked /\ J /\ [Next]_vars => J'
  BY NextAwaits
<1>3. J => ReplyOfThisRound
  BY DEF Awaits, ReplyOfThisRound
<1> HIDE DEF J
<1> QED
  BY <1>1, <1>2, <1>3, Invariance, LockInvariance, PTL DEF Spec

----------------------------------------------------------------------------
(* What a request has tried, and what an absorbed prefix looks like. *)

\* An account in use counts as tried, and a new request has tried nothing.
TriesCounted ==
    \A r \in Request :
        /\ req[r].pc \in Using => req[r].acct \in req[r].tried
        /\ req[r].pc = "new" => req[r].tried = {}

\* A prefix that is recorded holds an answer, so a client that replays it is
\* not taken for a stateless one.
AbsorbedAnswered ==
    /\ \A r \in Request : req[r].pc = "finalize" => req[r].got.role = "assistant"
    /\ \A c \in Chat : conv[c].absorbed # <<>> => HasAssistant(conv[c].absorbed)

\* What finalizeConversation and CreateChat make of the chats.
LEMMA FinalizeConv ==
    ASSUME IInv, NEW r \in Request, NEW out \in SUBSET Chat,
           NEW delivered \in BOOLEAN, Finalize(r, out, delivered)
    PROVE  /\ req[r].conv \in Chat /\ req[r].got \in Said /\ req[r].pc = "finalize"
           /\ Recorded(r) \in Seq(Said)
           /\ conv'[req[r].conv].absorbed = Recorded(r)
           /\ conv'[req[r].conv].turns = conv[req[r].conv].turns + 1
           /\ conv'[req[r].conv].stamp = now
           /\ \A d \in Chat : conv'[d].owner = conv[d].owner
           /\ \A d \in Chat \ {req[r].conv} : conv'[d] = conv[d]
<1> DEFINE c == req[r].conv
           n == conv[c].turns + 1
           m == Recorded(r)
           k == [conv[c] EXCEPT !.absorbed = m, !.turns = n, !.stamp = now]
<1>1. c \in Chat /\ req[r].got \in Said /\ req[r].pc = "finalize"
  BY DEF IInv, Placed, Finalize, Return
<1>2. m \in Seq(Said)
  BY <1>1, RecordedTyped
<1>3. conv \in [Chat -> ConvState] /\ conv[c] \in ConvState /\ conv' = [conv EXCEPT ![c] = k]
  BY <1>1 DEF IInv, Typed, Finalize
<1>4. k.absorbed = m /\ k.turns = n /\ k.stamp = now /\ k.owner = conv[c].owner
  BY <1>3 DEF ConvState
<1> HIDE DEF k
<1> QED
  BY <1>1, <1>2, <1>3, <1>4

LEMMA CreateConv ==
    ASSUME IInv, NEW r \in Request, CreateChat(r)
    PROVE  /\ req'[r].conv \in Chat
           /\ conv'[req'[r].conv].owner = req[r].acct
           /\ conv'[req'[r].conv].absorbed = <<>>
           /\ conv'[req'[r].conv].turns = 1
           /\ conv'[req'[r].conv].stamp = 0
           /\ \A d \in Chat \ {req'[r].conv} : conv'[d] = conv[d]
<1> DEFINE c == req'[r].conv
           k == [Unknown EXCEPT !.owner = req[r].acct, !.turns = 1]
<1>1. c \in Chat /\ conv \in [Chat -> ConvState] /\ conv' = [conv EXCEPT ![c] = k]
  BY CreateMoves DEF IInv, Typed
<1>2. k.owner = req[r].acct /\ k.absorbed = <<>> /\ k.turns = 1 /\ k.stamp = 0
  BY DEF Unknown
<1> HIDE DEF c, k
<1> QED
  BY <1>1, <1>2 DEF c

LEMMA NextTries ==
    ASSUME IInv, TriesCounted, [Next]_vars
    PROVE  TriesCounted'
<1>1. ASSUME NEW r \in Request, Others(r), Keeps(r), req[r].pc \in Using, req'[r].pc # "new"
      PROVE  TriesCounted'
  BY <1>1 DEF TriesCounted, Others, Keeps
<1>2. ASSUME NEW r \in Request, Others(r), req'[r].pc \notin Using, req'[r].pc # "new"
      PROVE  TriesCounted'
  BY <1>2 DEF TriesCounted, Others
<1>3. ASSUME UNCHANGED req PROVE TriesCounted'
  BY <1>3 DEF TriesCounted
<1>4. ASSUME NEW r \in Request, NEW u \in User, NEW msgs \in Sendable(u, r),
             NEW id \in Nameable(u), Ask(u, r, msgs, id)
      PROVE  TriesCounted'
  BY <1>2, <1>4, AskMoves DEF Using
<1>5. ASSUME NEW r \in Request, NEW a \in Account, Choose(r, a) PROVE TriesCounted'
  BY <1>5, ChooseMoves DEF TriesCounted, Others
<1>6. ASSUME NEW r \in Request, NEW out \in SUBSET Chat, NEW delivered \in BOOLEAN,
             GiveUp(r) \/ Finalize(r, out, delivered)
      PROVE  TriesCounted'
  BY <1>2, <1>6, ReturnMoves DEF GiveUp, Finalize, Using
<1>7. ASSUME NEW r \in Request, Lock(r) \/ SendFails(r) \/ CreateFails(r) \/ PollFails(r)
      PROVE  TriesCounted'
  BY <1>1, <1>7, GotoMoves DEF Lock, SendFails, CreateFails, PollFails, Using
<1>8. ASSUME NEW r \in Request,
             Match(r) \/ SendReuse(r) \/ CreateChat(r) \/ PollReturns(r)
      PROVE  TriesCounted'
  BY <1>1, <1>8, MatchMoves, SendMoves, CreateMoves, PollMoves DEF Using
<1>9. ASSUME NEW r \in Request, Cut(r) PROVE TriesCounted'
  BY <1>1, <1>2, <1>9, CutMoves, GotoMoves, ReturnMoves DEF Using
<1>10. CASE Restart
  BY <1>10 DEF Restart, TriesCounted, InFlight, Fresh, Using
<1> QED
  BY <1>3, <1>4, <1>5, <1>6, <1>7, <1>8, <1>9, <1>10
  DEF Next, RoundEnds, SecondPasses, Quiet, vars

LEMMA RecordedAnswered ==
    ASSUME IInv, NEW r \in Request, req[r].got.role = "assistant"
    PROVE  HasAssistant(Recorded(r))
<1>1. req[r].msgs \in Seq(Said)
  BY DEF IInv, Typed, ReqState
<1>2. /\ Len(req[r].msgs) + 1 \in DOMAIN Recorded(r)
      /\ Recorded(r)[Len(req[r].msgs) + 1] = req[r].got
  BY <1>1 DEF Recorded
<1> QED
  BY <1>2 DEF HasAssistant

LEMMA NextAnswered ==
    ASSUME IInv, AbsorbedAnswered, [Next]_vars
    PROVE  AbsorbedAnswered'
<1>1. ASSUME NEW r \in Request, Others(r), req'[r].pc # "finalize", UNCHANGED conv
      PROVE  AbsorbedAnswered'
  BY <1>1 DEF AbsorbedAnswered, Others, HasAssistant
<1>2. ASSUME UNCHANGED <<req, conv>> PROVE AbsorbedAnswered'
  BY <1>2 DEF AbsorbedAnswered, HasAssistant
<1>3. ASSUME NEW r \in Request, CreateChat(r) PROVE AbsorbedAnswered'
  <2>1. \A c \in Chat : conv'[c].absorbed \in {<<>>, conv[c].absorbed}
    BY <1>3, CreateConv
  <2>2. Others(r) /\ req'[r].pc = "poll"
    BY <1>3, CreateMoves
  <2> QED
    BY <2>1, <2>2 DEF AbsorbedAnswered, Others, HasAssistant
<1>4. ASSUME NEW r \in Request, PollReturns(r) PROVE AbsorbedAnswered'
  <2>1. Others(r) /\ \E n \in Listed(req[r].conv) : req'[r].got = Reply(req[r].conv, n)
    BY <1>4, PollMoves
  <2>2. req'[r].got.role = "assistant"
    BY <2>1 DEF Reply
  <2>3. UNCHANGED conv
    BY <1>4 DEF PollReturns
  <2> QED
    BY <2>1, <2>2, <2>3 DEF AbsorbedAnswered, Others, HasAssistant
<1>5. ASSUME NEW r \in Request, NEW out \in SUBSET Chat, NEW delivered \in BOOLEAN,
             Finalize(r, out, delivered)
      PROVE  AbsorbedAnswered'
  <2>1. Others(r) /\ req'[r].pc = "done" /\ req[r].pc = "finalize"
    BY <1>5, ReturnMoves DEF Finalize
  <2>2. HasAssistant(Recorded(r))
    BY <2>1, RecordedAnswered DEF AbsorbedAnswered
  <2>3. \A c \in Chat :
          conv'[c].absorbed = conv[c].absorbed \/ conv'[c].absorbed = Recorded(r)
    BY <1>5, FinalizeConv
  <2>4. \A c \in Chat : conv'[c].absorbed # <<>> => HasAssistant(conv'[c].absorbed)
    BY <2>2, <2>3 DEF AbsorbedAnswered
  <2> QED
    BY <2>1, <2>4 DEF AbsorbedAnswered, Others, HasAssistant
<1>6. ASSUME NEW r \in Request, NEW u \in User, NEW msgs \in Sendable(u, r),
             NEW id \in Nameable(u), Ask(u, r, msgs, id)
      PROVE  AbsorbedAnswered'
  BY <1>1, <1>6, AskMoves DEF Ask, gateway
<1>7. ASSUME NEW r \in Request, NEW a \in Account, Choose(r, a) PROVE AbsorbedAnswered'
  BY <1>1, <1>7, ChooseMoves DEF Choose, gateway
<1>8. ASSUME NEW r \in Request, GiveUp(r) PROVE AbsorbedAnswered'
  BY <1>1, <1>8, ReturnMoves DEF GiveUp, gateway
<1>9. ASSUME NEW r \in Request, Lock(r) \/ SendFails(r) \/ CreateFails(r) \/ PollFails(r)
      PROVE  AbsorbedAnswered'
  BY <1>1, <1>9, GotoMoves DEF Lock, SendFails, CreateFails, PollFails, gateway
<1>10. ASSUME NEW r \in Request, Match(r) \/ SendReuse(r) PROVE AbsorbedAnswered'
  BY <1>1, <1>10, MatchMoves, SendMoves DEF Match, SendReuse, gateway
<1>11. ASSUME NEW r \in Request, Cut(r) PROVE AbsorbedAnswered'
  BY <1>1, <1>11, CutMoves, GotoMoves, ReturnMoves DEF Cut
<1>12. CASE Restart
  BY <1>12 DEF Restart, AbsorbedAnswered, InFlight, Fresh, HasAssistant
<1> QED
  BY <1>2, <1>3, <1>4, <1>5, <1>6, <1>7, <1>8, <1>9, <1>10, <1>11, <1>12
  DEF Next, RoundEnds, SecondPasses, Quiet, vars, gateway

LEMMA TriesInvariance == Spec => [](TriesCounted /\ AbsorbedAnswered)
<1>1. Init => TriesCounted /\ AbsorbedAnswered
  BY DEF Init, TriesCounted, AbsorbedAnswered, Fresh, Unknown, Using
<1> QED
  BY <1>1, Invariance, NextTries, NextAnswered, PTL DEF Spec

----------------------------------------------------------------------------
(* The prefix and the tail, for one client that waits for each answer:     *)
(* nothing changes the chat between the comparison and the cut.            *)

Alone ==
    /\ \A q, r \in Request : InFlight(q) /\ InFlight(r) => q = r
    /\ \A r \in Request : InFlight(r) => req[r].user \in User

\* What the comparison has left behind: matched messages of msgs are a prefix
\* that ends in an answer, and a request that goes to a second account, or that
\* names its conversation, does not send what follows an old comparison.
Tracks(r) ==
    /\ req[r].pc # "panic"
    /\ req[r].matched > 0 => HasAssistant(req[r].msgs)
    /\ req[r].pc = "cut" =>
          /\ req[r].matched = Len(conv[req[r].conv].absorbed)
          /\ IsPrefix(conv[req[r].conv].absorbed, req[r].msgs)
    /\ req[r].forced # None /\ req[r].pc \in {"lock", "match"} => ~(req[r].matched > 0)
    /\ req[r].forced # None /\ req[r].pc = "choose" /\ req[r].matched > 0 =>
          conv[req[r].forced].owner \in req[r].tried
    /\ req[r].pc = "send" /\ req[r].matched > 0 =>
          req[r].prompt = SubSeq(req[r].msgs, req[r].matched + 1, Len(req[r].msgs))

OneWaitingUser == ~ParallelAsks /\ \A u, v \in User : u = v

\* A prefix is where the sequence starts.
LEMMA PrefixElements ==
    ASSUME NEW s \in Seq(Said), NEW t \in Seq(Said), IsPrefix(s, t)
    PROVE  /\ Len(s) \in Nat /\ Len(t) \in Nat /\ Len(s) <= Len(t)
           /\ \A i \in 1..Len(s) : s[i] = t[i]
<1>1. Len(s) \in Nat /\ Len(t) \in Nat /\ Len(s) <= Len(t)
  BY DEF IsPrefix
<1>2. ASSUME NEW i \in 1..Len(s) PROVE s[i] = t[i]
  <2>1. SubSeq(s, 1, Len(s))[i] = SubSeq(t, 1, Len(s))[i]
    BY DEF IsPrefix
  <2>2. SubSeq(s, 1, Len(s))[i] = s[i] /\ SubSeq(t, 1, Len(s))[i] = t[i]
    BY <1>1, <1>2
  <2> QED
    BY <2>1, <2>2
<1> QED
  BY <1>1, <1>2

LEMMA PrefixAnswered ==
    ASSUME NEW s \in Seq(Said), NEW t \in Seq(Said), IsPrefix(s, t), HasAssistant(s)
    PROVE  HasAssistant(t)
<1>1. PICK i \in 1..Len(s) : s[i].role = "assistant"
  BY DEF HasAssistant
<1>2. i \in DOMAIN t /\ t[i] = s[i]
  BY <1>1, PrefixElements
<1> QED
  BY <1>1, <1>2 DEF HasAssistant

LEMMA NextAlone ==
    ASSUME IInv, Alone, [Next]_vars, OneWaitingUser
    PROVE  Alone'
<1>1. ASSUME NEW r \in Request, Others(r), req[r].pc \notin {"new", "done", "panic", "lost"},
             \/ req'[r].pc \in {"new", "done", "panic", "lost"}
             \/ req'[r].user = req[r].user
      PROVE  Alone'
  BY <1>1 DEF Alone, Others, InFlight
<1>2. ASSUME UNCHANGED req PROVE Alone'
  BY <1>2 DEF Alone, InFlight
<1>3. ASSUME NEW r \in Request, NEW u \in User, NEW msgs \in Sendable(u, r),
             NEW id \in Nameable(u), Ask(u, r, msgs, id)
      PROVE  Alone'
  <2>1. \A q \in Request : ~InFlight(q)
    BY <1>3 DEF Ask, Alone, OneWaitingUser
  <2>2. Others(r) /\ req'[r].user = u
    BY <1>3, AskMoves
  <2> QED
    BY <2>1, <2>2 DEF Alone, Others, InFlight
<1>4. ASSUME NEW r \in Request, NEW a \in Account, Choose(r, a) PROVE Alone'
  BY <1>1, <1>4, ChooseMoves
<1>5. ASSUME NEW r \in Request, NEW out \in SUBSET Chat, NEW delivered \in BOOLEAN,
             GiveUp(r) \/ Finalize(r, out, delivered)
      PROVE  Alone'
  BY <1>1, <1>5, ReturnMoves DEF GiveUp, Finalize
<1>6. ASSUME NEW r \in Request, Lock(r) \/ SendFails(r) \/ CreateFails(r) \/ PollFails(r)
      PROVE  Alone'
  BY <1>1, <1>6, GotoMoves DEF Lock, SendFails, CreateFails, PollFails, Keeps
<1>7. ASSUME NEW r \in Request,
             Match(r) \/ SendReuse(r) \/ CreateChat(r) \/ PollReturns(r)
      PROVE  Alone'
  BY <1>1, <1>7, MatchMoves, SendMoves, CreateMoves, PollMoves DEF Keeps
<1>8. ASSUME NEW r \in Request, Cut(r) PROVE Alone'
  BY <1>1, <1>8, CutMoves, GotoMoves, ReturnMoves DEF Keeps
<1>9. CASE Restart
  BY <1>9 DEF Restart, Alone, InFlight, Fresh
<1> QED
  BY <1>2, <1>3, <1>4, <1>5, <1>6, <1>7, <1>8, <1>9
  DEF Next, RoundEnds, SecondPasses, Quiet, vars

\* The requests that are not in flight have nothing to follow.
LEMMA TrackStep ==
    ASSUME Alone, \A q \in Request : Tracks(q), NEW r \in Request, Others(r),
           InFlight(r) \/ (\A q \in Request : ~InFlight(q)), Tracks(r)'
    PROVE  \A q \in Request : Tracks(q)'
<1> SUFFICES ASSUME NEW q \in Request \ {r} PROVE Tracks(q)'
  OBVIOUS
<1>1. ~InFlight(q) /\ req'[q] = req[q]
  BY DEF Alone, Others
<1> QED
  BY <1>1 DEF Tracks, InFlight, HasAssistant

LEMMA MatchTracks ==
    ASSUME IInv, AbsorbedAnswered, NEW r \in Request, Tracks(r), Match(r)
    PROVE  Tracks(r)'
<1>1. Keeps(r) /\ req[r].pc = "match" /\ UNCHANGED conv
  BY MatchMoves DEF Match, gateway
<1>2. CASE /\ req'[r].pc = "cut" /\ req'[r].conv = Current(r)
           /\ req'[r].matched = Len(conv[Current(r)].absorbed)
           /\ Replays(Current(r), req[r].msgs)
  <2>1. Current(r) # None /\ IsPrefix(conv[Current(r)].absorbed, req[r].msgs)
    BY <1>2 DEF Replays
  <2>2. Current(r) \in Chat
    BY <1>1, <2>1, CurrentOwned DEF Using, Known
  <2>3. conv[Current(r)].absorbed \in Seq(Said) /\ req[r].msgs \in Seq(Said)
    BY <2>2 DEF IInv, Typed, ConvState, ReqState
  <2>4. Len(conv[Current(r)].absorbed) > 0 => conv[Current(r)].absorbed # <<>>
    BY <2>3
  <2>5. Len(conv[Current(r)].absorbed) > 0 => HasAssistant(req[r].msgs)
    BY <2>1, <2>2, <2>3, <2>4, PrefixAnswered DEF AbsorbedAnswered
  <2> QED
    BY <1>1, <1>2, <2>1, <2>5 DEF Tracks, Keeps, HasAssistant
<1>3. CASE /\ req'[r].pc = "send" /\ req'[r].conv = Current(r)
           /\ req'[r].matched = req[r].matched /\ req'[r].prompt = req[r].msgs
           /\ Continues(r, Current(r), req[r].msgs)
  <2>1. ~(req[r].matched > 0)
    BY <1>1, <1>3 DEF Continues, Shareable, Tracks
  <2> QED
    BY <1>1, <1>3, <2>1 DEF Tracks, Keeps
<1>4. CASE req'[r].pc = "create" /\ req'[r].matched = req[r].matched
  BY <1>1, <1>4 DEF Tracks, Keeps, HasAssistant
<1> QED
  BY <1>2, <1>3, <1>4, MatchMoves

LEMMA CutTracks ==
    ASSUME IInv, NEW r \in Request, Tracks(r), Cut(r)
    PROVE  Tracks(r)'
<1> DEFINE k == Len(conv[req[r].conv].absorbed)
<1>1. /\ req[r].pc = "cut" /\ req[r].matched = k
      /\ IsPrefix(conv[req[r].conv].absorbed, req[r].msgs) /\ UNCHANGED conv
  BY CutMoves DEF Tracks, Cut
<1>2. req[r].conv \in Chat /\ req[r].msgs \in Seq(Said)
  BY <1>1 DEF IInv, Typed, Placed, ReqState
<1>3. conv[req[r].conv].absorbed \in Seq(Said)
  BY <1>2 DEF IInv, Typed, ConvState
<1>4. ~(k > Len(req[r].msgs))
  BY <1>1, <1>2, <1>3, PrefixElements
<1>5. CASE Return(r, "cut")
  BY <1>5, ReturnMoves DEF Tracks, HasAssistant
<1>6. CASE /\ Keeps(r) /\ req'[r].pc = "send"
           /\ req'[r].conv = req[r].conv /\ req'[r].matched = req[r].matched
           /\ req'[r].prompt = TailAfter(req[r].msgs, k)
  BY <1>1, <1>6 DEF Tracks, Keeps, TailAfter, HasAssistant
<1> QED
  BY <1>4, <1>5, <1>6, CutMoves

LEMMA NextTracks ==
    ASSUME IInv, TriesCounted, AbsorbedAnswered, Alone, \A q \in Request : Tracks(q),
           [Next]_vars, OneWaitingUser
    PROVE  \A q \in Request : Tracks(q)'
<1> DEFINE Goal == \A q \in Request : Tracks(q)'
<1>1. ASSUME UNCHANGED <<req, conv>> PROVE Goal
  BY <1>1 DEF Tracks, HasAssistant
<1>2. ASSUME NEW r \in Request, NEW u \in User, NEW msgs \in Sendable(u, r),
             NEW id \in Nameable(u), Ask(u, r, msgs, id)
      PROVE  Goal
  <2>1. \A q \in Request : ~InFlight(q)
    BY <1>2 DEF Ask, Alone, OneWaitingUser
  <2>2. Tracks(r)'
    BY <1>2, AskMoves DEF Tracks
  <2> QED
    BY <1>2, <2>1, <2>2, AskMoves, TrackStep
<1>3. ASSUME NEW r \in Request, NEW a \in Account, Choose(r, a) PROVE Goal
  <2>1. Others(r) /\ InFlight(r) /\ UNCHANGED conv
    BY <1>3, ChooseMoves DEF Choose, gateway, InFlight
  <2>2. req[r].forced # None => conv[req[r].forced].owner \notin req[r].tried
    BY <1>3 DEF Choose, Eligible
  <2>3. Tracks(r)'
    BY <1>3, <2>1, <2>2, ChooseMoves DEF Tracks, HasAssistant
  <2> QED
    BY <2>1, <2>3, TrackStep
<1>4. ASSUME NEW r \in Request, NEW out \in SUBSET Chat, NEW delivered \in BOOLEAN,
             GiveUp(r) \/ Finalize(r, out, delivered)
      PROVE  Goal
  <2>1. Others(r) /\ InFlight(r) /\ Tracks(r)'
    BY <1>4, ReturnMoves DEF GiveUp, Finalize, InFlight, Tracks, HasAssistant
  <2> QED
    BY <2>1, TrackStep
<1>5. ASSUME NEW r \in Request, Lock(r) \/ SendFails(r) PROVE Goal
  <2>1. Others(r) /\ InFlight(r)
    BY <1>5, GotoMoves DEF Lock, SendFails, InFlight
  <2>2. Tracks(r)'
    BY <1>5, GotoMoves DEF Lock, SendFails, Keeps, Tracks, HasAssistant
  <2> QED
    BY <2>1, <2>2, TrackStep
<1>6. ASSUME NEW r \in Request, CreateFails(r) \/ PollFails(r) PROVE Goal
  <2>1. /\ Others(r) /\ InFlight(r) /\ Keeps(r) /\ req[r].pc \in {"create", "poll"}
        /\ req'[r].pc = "choose" /\ req'[r].matched = req[r].matched /\ UNCHANGED conv
    BY <1>6, GotoMoves DEF CreateFails, PollFails, InFlight
  <2>2. req[r].forced # None => conv[req[r].forced].owner \in req[r].tried
    BY <2>1 DEF IInv, Placed, TriesCounted, Using
  <2>3. Tracks(r)'
    BY <2>1, <2>2 DEF Keeps, Tracks, HasAssistant
  <2> QED
    BY <2>1, <2>3, TrackStep
<1>7. ASSUME NEW r \in Request, Match(r) PROVE Goal
  BY <1>7, MatchMoves, MatchTracks, TrackStep DEF InFlight
<1>8. ASSUME NEW r \in Request, Cut(r) PROVE Goal
  BY <1>8, CutMoves, CutTracks, TrackStep DEF InFlight
<1>9. ASSUME NEW r \in Request, SendReuse(r) \/ CreateChat(r) \/ PollReturns(r) PROVE Goal
  <2>1. /\ Others(r) /\ InFlight(r) /\ Keeps(r) /\ req'[r].pc \in {"poll", "finalize"}
        /\ req'[r].matched = req[r].matched
    BY <1>9, SendMoves, CreateMoves, PollMoves DEF InFlight
  <2>2. Tracks(r)'
    BY <2>1 DEF Keeps, Tracks, HasAssistant
  <2> QED
    BY <2>1, <2>2, TrackStep
<1>10. CASE Restart
  BY <1>10 DEF Restart, Tracks, InFlight, Fresh, HasAssistant
<1> QED
  BY <1>1, <1>2, <1>3, <1>4, <1>5, <1>6, <1>7, <1>8, <1>9, <1>10
  DEF Next, RoundEnds, SecondPasses, Quiet, vars, gateway

LEMMA TrackInvariance ==
    ASSUME OneWaitingUser
    PROVE  Spec => [](Alone /\ \A q \in Request : Tracks(q))
<1> DEFINE J == \A q \in Request : Tracks(q)
<1>1. Init => Alone /\ J
  BY DEF Init, Alone, InFlight, Tracks, Fresh
<1>2. IInv /\ TriesCounted /\ AbsorbedAnswered /\ Alone /\ J /\ [Next]_vars => Alone' /\ J'
  BY NextAlone, NextTracks
<1> HIDE DEF J
<1>3. Spec => [](Alone /\ J)
  BY <1>1, <1>2, Invariance, TriesInvariance, PTL DEF Spec
<1> QED
  BY <1>3 DEF J

----------------------------------------------------------------------------
(* Subsequences.  What a recursive function computes is shown on its least *)
(* counterexample.                                                         *)

LEMMA LeastNat ==
    ASSUME NEW S \in SUBSET Nat, S # {}
    PROVE  \E m \in S : \A n \in S : m <= n
<1>1. \E m \in S : \A n \in S : <<n, m>> \notin OpToRel(<, Nat)
  BY NatLessThanWellFounded, WFMin
<1>2. ASSUME NEW m \in S, NEW n \in S, <<n, m>> \notin OpToRel(<, Nat)
      PROVE  m <= n
  BY <1>2 DEF OpToRel
<1> QED
  BY <1>1, <1>2

\* The least number of a set of them that is bounded.
LEMMA LeastUpTo ==
    ASSUME NEW n \in Nat, NEW S \in SUBSET (0..n), S # {}
    PROVE  \E m \in S : m = 0 \/ (m \in 1..n /\ m - 1 \in 0..n /\ m - 1 \notin S)
<1>1. S \in SUBSET Nat
  OBVIOUS
<1>2. PICK m \in S : \A k \in S : m <= k
  BY <1>1, LeastNat
<1>3. m \in 0..n /\ m - 1 \notin S
  BY <1>1, <1>2
<1> QED
  BY <1>3

\* A function can be built step by step.
Iterates(S, base, n, step) ==
    \E g \in [0..n -> S] : g[0] = base /\ \A i \in 1..n : g[i] = step[i][g[i - 1]]

LEMMA Iteration ==
    ASSUME NEW S, NEW base \in S, NEW n \in Nat, NEW step \in [1..n -> [S -> S]]
    PROVE  Iterates(S, base, n, step)
<1> DEFINE Built(m) == \E g \in [0..m -> S] :
                          g[0] = base /\ \A i \in 1..m : g[i] = step[i][g[i - 1]]
           Bad == {m \in 0..n : ~Built(m)}
<1>1. SUFFICES Bad = {}
  BY n \in 0..n DEF Iterates
<1>2. SUFFICES ASSUME Bad # {} PROVE FALSE
  OBVIOUS
<1>3. PICK m \in Bad : m = 0 \/ (m \in 1..n /\ m - 1 \in 0..n /\ m - 1 \notin Bad)
  <2>1. Bad \in SUBSET (0..n)
    OBVIOUS
  <2> HIDE DEF Bad
  <2> QED
    BY <1>2, <2>1, LeastUpTo
<1>4. Built(0)
  <2>1. /\ [i \in 0..0 |-> base] \in [0..0 -> S]
        /\ [i \in 0..0 |-> base][0] = base /\ 1..0 = {}
    OBVIOUS
  <2> QED
    BY <2>1
<1>5. m \in 1..n /\ Built(m - 1) /\ ~Built(m)
  <2> HIDE DEF Built
  <2> QED
    BY <1>3, <1>4
<1>6. PICK g \in [0..(m - 1) -> S] :
        g[0] = base /\ \A i \in 1..(m - 1) : g[i] = step[i][g[i - 1]]
  BY <1>5
<1> DEFINE end == step[m][g[m - 1]]
           h == [i \in 0..m |-> IF i = m THEN end ELSE g[i]]
<1>7. g[m - 1] \in S /\ end \in S
  BY <1>5, <1>6
<1> HIDE DEF end
<1>8. h \in [0..m -> S]
  BY <1>5, <1>6, <1>7
<1>9. \A i \in 0..(m - 1) : h[i] = g[i]
  BY <1>5
<1>10. h[m] = end
  BY <1>5
<1> HIDE DEF h
<1>11. ASSUME NEW i \in 1..m PROVE h[i] = step[i][h[i - 1]]
  <2>1. CASE i = m
    BY <1>5, <1>9, <1>10, <2>1 DEF end
  <2>2. CASE i # m
    <3>1. i \in 1..(m - 1) /\ i - 1 \in 0..(m - 1) /\ i \in 0..(m - 1)
      BY <1>5, <2>2
    <3> QED
      BY <1>6, <1>9, <3>1
  <2> QED
    BY <2>1, <2>2
<1>12. h[0] = base
  BY <1>5, <1>6, <1>9
<1> QED
  BY <1>5, <1>8, <1>11, <1>12

\* The positions of t at which the messages of s are met, in order.
Embeds(s, t) ==
    \E f \in [1..Len(s) -> 1..Len(t)] :
        /\ \A i \in 1..Len(s) : s[i] = t[f[i]]
        /\ \A i, j \in 1..Len(s) : i < j => f[i] < f[j]

\* The next message of s is met if t goes on with it.
MetNext(s, t, j, k) == IF k < Len(s) /\ s[k + 1] = t[j] THEN k + 1 ELSE k

LEMMA MetSteps ==
    ASSUME NEW s \in Seq(Said), NEW t \in Seq(Said)
    PROVE  /\ Met(s, t) \in [0..Len(t) -> 0..Len(s)]
           /\ Met(s, t)[0] = 0
           /\ \A j \in 1..Len(t) : Met(s, t)[j] = MetNext(s, t, j, Met(s, t)[j - 1])
<1> DEFINE n == Len(t)
           K == 0..Len(s)
           Body(f) == [j \in 0..n |-> IF j = 0 THEN 0 ELSE MetNext(s, t, j, f[j - 1])]
           step == [j \in 1..n |-> [k \in K |-> MetNext(s, t, j, k)]]
           met == Met(s, t)
<1>1. n \in Nat /\ 0 \in K /\ 0 \in 0..n
  OBVIOUS
<1>2. \A j \in 1..n, k \in K : MetNext(s, t, j, k) \in K
  BY DEF MetNext
<1>3. met = CHOOSE f : f = Body(f)
  BY DEF Met, MetNext
<1> HIDE DEF n, K
<1>4. step \in [1..n -> [K -> K]]
  BY <1>2
<1>5. \A j \in 1..n, k \in K : step[j][k] = MetNext(s, t, j, k)
  OBVIOUS
<1>6. \E f : f = Body(f)
  <2> HIDE DEF step
  <2>1. PICK g \in [0..n -> K] : g[0] = 0 /\ \A i \in 1..n : g[i] = step[i][g[i - 1]]
    <3>1. Iterates(K, 0, n, step)
      BY <1>1, <1>4, Iteration
    <3> QED
      BY <3>1 DEF Iterates
  <2>2. \A i \in 1..n : g[i - 1] \in K
    BY <1>1, <2>1
  <2>3. \A i \in 1..n : g[i] = MetNext(s, t, i, g[i - 1])
    BY <1>5, <2>1, <2>2
  <2>4. \A i \in 0..n : g[i] = IF i = 0 THEN 0 ELSE MetNext(s, t, i, g[i - 1])
    BY <1>1, <2>1, <2>3
  <2>5. g = Body(g)
    BY <2>1, <2>4
  <2> QED
    BY <2>5
<1> HIDE DEF Body, met
<1>7. met = Body(met)
  BY <1>3, <1>6, Zenon
<1>8. \A j \in 0..n : met[j] = IF j = 0 THEN 0 ELSE MetNext(s, t, j, met[j - 1])
  <2>1. \A j \in 0..n : Body(met)[j] = IF j = 0 THEN 0 ELSE MetNext(s, t, j, met[j - 1])
    BY DEF Body
  <2> QED
    BY <1>7, <2>1
<1>9. met[0] = 0 /\ \A j \in 1..n : met[j] = MetNext(s, t, j, met[j - 1])
  <2>1. \A j \in 1..n : j \in 0..n /\ j # 0
    BY <1>1
  <2> QED
    BY <1>1, <1>8, <2>1
<1>10. \A j \in 0..n : met[j] \in K
  <2> DEFINE Bad == {j \in 0..n : met[j] \notin K}
  <2>1. SUFFICES ASSUME Bad # {} PROVE FALSE
    OBVIOUS
  <2>2. PICK m \in Bad : m = 0 \/ (m \in 1..n /\ m - 1 \in 0..n /\ m - 1 \notin Bad)
    <3>1. Bad \in SUBSET (0..n)
      OBVIOUS
    <3> HIDE DEF Bad
    <3> QED
      BY <1>1, <2>1, <3>1, LeastUpTo
  <2>3. m \in 1..n /\ met[m - 1] \in K
    BY <1>1, <1>9, <2>2
  <2> QED
    BY <1>2, <1>9, <2>2, <2>3
<1>11. met \in [0..n -> K]
  <2>1. DOMAIN met = 0..n /\ met = [j \in 0..n |-> met[j]]
    <3>1. DOMAIN Body(met) = 0..n /\ Body(met) = [j \in 0..n |-> Body(met)[j]]
      BY DEF Body
    <3> QED
      BY <1>7, <3>1
  <2> QED
    BY <1>10, <2>1
<1> QED
  BY <1>9, <1>11 DEF met, n, K

\* Reading greedily meets every message that can be met in order.
LEMMA EmbedsMet ==
    ASSUME NEW s \in Seq(Said), NEW t \in Seq(Said), Embeds(s, t)
    PROVE  IsSubsequence(s, t)
<1> DEFINE met == Met(s, t)
           n == Len(t)
           l == Len(s)
<1>1. PICK f \in [1..l -> 1..n] :
        /\ \A i \in 1..l : s[i] = t[f[i]]
        /\ \A i, j \in 1..l : i < j => f[i] < f[j]
  BY DEF Embeds
<1>2. l \in Nat /\ n \in Nat
  OBVIOUS
<1>2a. /\ met \in [0..n -> 0..l]
       /\ \A j \in 1..n : met[j] = MetNext(s, t, j, met[j - 1])
  BY MetSteps, Zenon
<1>3. IsSubsequence(s, t) <=> met[n] = l
  BY DEF IsSubsequence
<1> HIDE DEF met, n, l
<1> DEFINE Behind(j) == \E i \in 1..l : f[i] <= j /\ met[j] < i
           Bad == {j \in 0..n : Behind(j)}
<1>4. \A i \in 1..l : f[i] \in 1..n
  BY <1>1
<1>5. Bad = {}
  <2>1. SUFFICES ASSUME Bad # {} PROVE FALSE
    OBVIOUS
  <2>2. PICK m \in Bad : m = 0 \/ (m \in 1..n /\ m - 1 \in 0..n /\ m - 1 \notin Bad)
    <3>1. Bad \in SUBSET (0..n)
      OBVIOUS
    <3> HIDE DEF Bad
    <3> QED
      BY <1>2, <2>1, <3>1, LeastUpTo
  <2>3. PICK i \in 1..l : f[i] <= m /\ met[m] < i
    BY <2>2
  <2>4. m \in 1..n /\ m - 1 \in 0..n /\ ~Behind(m - 1)
    <3>1. m # 0
      BY <1>4, <2>3
    <3> QED
      BY <2>2, <3>1
  <2>5. met[m] \in 0..l /\ met[m - 1] \in 0..l /\ met[m] = MetNext(s, t, m, met[m - 1])
    <3>1. m \in 0..n
      BY <2>2
    <3> QED
      BY <1>2a, <2>4, <3>1
  <2>6. \A h \in 1..l : f[h] <= m - 1 => h <= met[m - 1]
    <3>1. \A h \in 1..l : ~(f[h] <= m - 1 /\ met[m - 1] < h)
      BY <2>4
    <3> HIDE DEF Behind, Bad
    <3> QED
      BY <1>2, <2>5, <3>1
  <2> HIDE DEF Behind, Bad
  <2>7. met[m - 1] <= met[m]
    BY <2>5 DEF MetNext
  <2>8. f[i] = m
    <3>1. ~(f[i] <= m - 1)
      <4>1. SUFFICES ASSUME f[i] <= m - 1 PROVE FALSE
        OBVIOUS
      <4>2. i <= met[m - 1]
        BY <2>6, <4>1
      <4> QED
        BY <1>2, <2>3, <2>5, <2>7, <4>2
    <3> QED
      BY <1>4, <2>3, <2>4, <3>1
  <2>9. i - 1 <= met[m - 1]
    <3>1. CASE i = 1
      BY <2>5, <3>1
    <3>2. CASE i # 1
      <4>1. i - 1 \in 1..l /\ i - 1 < i
        BY <1>2, <3>2
      <4>2. f[i - 1] < f[i] /\ f[i - 1] \in 1..n
        BY <1>1, <1>4, <4>1
      <4>3. f[i - 1] <= m - 1
        BY <2>4, <2>8, <4>2
      <4> QED
        BY <2>6, <4>1, <4>3
    <3> QED
      BY <3>1, <3>2
  <2>10. met[m - 1] = i - 1
    BY <2>3, <2>5, <2>7, <2>9
  <2>11. s[i] = t[m]
    BY <1>1, <2>8
  <2>12. MetNext(s, t, m, i - 1) = i
    BY <1>2, <2>11 DEF MetNext, l
  <2> QED
    BY <2>3, <2>5, <2>10, <2>12
<1>6. n \in 0..n /\ met[n] \in 0..l
  BY <1>2, <1>2a
<1>7. CASE l = 0
  BY <1>3, <1>6, <1>7
<1>8. CASE l # 0
  <2>1. l \in 1..l /\ f[l] <= n
    BY <1>2, <1>4, <1>8
  <2>2. ~(met[n] < l)
    BY <1>5, <1>6, <2>1
  <2> QED
    BY <1>2, <1>3, <1>6, <2>2
<1> QED
  BY <1>7, <1>8

LEMMA EmbedsNothing ==
    ASSUME NEW t \in Seq(Said)
    PROVE  Embeds(<<>>, t)
<1>1. Len(<<>>) = 0 /\ 1..0 = {}
  OBVIOUS
<1>2. [i \in 1..0 |-> 1] \in [1..0 -> 1..Len(t)]
  BY <1>1
<1> QED
  BY <1>1, <1>2 DEF Embeds

LEMMA EmbedsMore ==
    ASSUME NEW s \in Seq(Said), NEW t \in Seq(Said), NEW u \in Seq(Said), Embeds(s, t)
    PROVE  Embeds(s, t \o u)
<1>1. PICK f \in [1..Len(s) -> 1..Len(t)] :
        /\ \A i \in 1..Len(s) : s[i] = t[f[i]]
        /\ \A i, j \in 1..Len(s) : i < j => f[i] < f[j]
  BY DEF Embeds
<1>2. Len(t) \in Nat /\ Len(t \o u) \in Nat /\ Len(t) <= Len(t \o u)
  OBVIOUS
<1>3. \A i \in 1..Len(t) : (t \o u)[i] = t[i]
  OBVIOUS
<1>4. f \in [1..Len(s) -> 1..Len(t \o u)]
  BY <1>2
<1>5. \A i \in 1..Len(s) : s[i] = (t \o u)[f[i]]
  BY <1>1, <1>3
<1> QED
  BY <1>1, <1>4, <1>5 DEF Embeds

LEMMA EmbedsBoth ==
    ASSUME NEW s \in Seq(Said), NEW t \in Seq(Said), NEW u \in Seq(Said), Embeds(s, t)
    PROVE  Embeds(s \o u, t \o u)
<1>1. PICK f \in [1..Len(s) -> 1..Len(t)] :
        /\ \A i \in 1..Len(s) : s[i] = t[f[i]]
        /\ \A i, j \in 1..Len(s) : i < j => f[i] < f[j]
  BY DEF Embeds
<1> DEFINE g == [i \in 1..Len(s \o u) |-> IF i <= Len(s) THEN f[i] ELSE Len(t) + (i - Len(s))]
<1>2. /\ Len(s) \in Nat /\ Len(t) \in Nat /\ Len(u) \in Nat
      /\ Len(s \o u) = Len(s) + Len(u) /\ Len(t \o u) = Len(t) + Len(u)
  OBVIOUS
<1>3. /\ \A i \in 1..Len(s) : (s \o u)[i] = s[i]
      /\ \A i \in 1..Len(u) : (s \o u)[Len(s) + i] = u[i]
      /\ \A i \in 1..Len(t) : (t \o u)[i] = t[i]
      /\ \A i \in 1..Len(u) : (t \o u)[Len(t) + i] = u[i]
  OBVIOUS
<1>4. \A i \in 1..Len(s) : i \in 1..Len(s \o u) /\ f[i] \in 1..Len(t) /\ g[i] = f[i]
  <2>1. \A i \in 1..Len(s) : i \in 1..Len(s \o u) /\ i <= Len(s)
    BY <1>2
  <2>2. \A i \in 1..Len(s) : f[i] \in 1..Len(t)
    BY <1>1
  <2> QED
    BY <2>1, <2>2
<1>5. \A i \in 1..Len(s \o u) : ~(i <= Len(s)) =>
        i - Len(s) \in 1..Len(u) /\ g[i] = Len(t) + (i - Len(s))
  BY <1>2
<1>6. \A i \in 1..Len(s \o u) : i <= Len(s) => i \in 1..Len(s)
  BY <1>2
<1>7. g \in [1..Len(s \o u) -> 1..Len(t \o u)]
  <2>1. ASSUME NEW i \in 1..Len(s \o u) PROVE g[i] \in 1..Len(t \o u)
    <3> HIDE DEF g
    <3>1. CASE i <= Len(s)
      BY <1>2, <1>4, <1>6, <3>1
    <3>2. CASE ~(i <= Len(s))
      BY <1>2, <1>5, <3>2
    <3> QED
      BY <3>1, <3>2
  <2> QED
    BY <2>1
<1> HIDE DEF g
<1>8. ASSUME NEW i \in 1..Len(s \o u) PROVE (s \o u)[i] = (t \o u)[g[i]]
  <2>1. CASE i <= Len(s)
    BY <1>1, <1>3, <1>4, <1>6, <2>1
  <2>2. CASE ~(i <= Len(s))
    <3>1. PICK k \in 1..Len(u) : i = Len(s) + k /\ g[i] = Len(t) + k
      <4>1. i - Len(s) \in 1..Len(u) /\ g[i] = Len(t) + (i - Len(s)) /\ i = Len(s) + (i - Len(s))
        BY <1>2, <1>5, <2>2
      <4> QED
        BY <4>1
    <3> QED
      BY <1>3, <3>1
  <2> QED
    BY <2>1, <2>2
<1>9. ASSUME NEW i \in 1..Len(s \o u), NEW j \in 1..Len(s \o u), i < j PROVE g[i] < g[j]
  <2>1. CASE j <= Len(s)
    BY <1>1, <1>2, <1>4, <1>6, <1>9, <2>1
  <2>2. CASE ~(j <= Len(s)) /\ i <= Len(s)
    BY <1>2, <1>4, <1>5, <1>6, <2>2
  <2>3. CASE ~(j <= Len(s)) /\ ~(i <= Len(s))
    BY <1>2, <1>5, <1>9, <2>3
  <2> QED
    BY <1>2, <1>9, <2>1, <2>2, <2>3
<1> QED
  BY <1>7, <1>8, <1>9 DEF Embeds

\* What follows a prefix.
LEMMA PrefixSplits ==
    ASSUME NEW s \in Seq(Said), NEW t \in Seq(Said), IsPrefix(s, t)
    PROVE  /\ TailAfter(t, Len(s)) \in Seq(Said)
           /\ t = s \o TailAfter(t, Len(s))
<1> DEFINE k == Len(s)
           tail == TailAfter(t, k)
<1>1. /\ k \in Nat /\ Len(t) \in Nat /\ k <= Len(t)
      /\ \A i \in 1..k : s[i] = t[i]
  BY PrefixElements
<1>2. tail \in Seq(Said) /\ Len(tail) = Len(t) - k /\ \A i \in 1..(Len(t) - k) : tail[i] = t[k + i]
  BY <1>1 DEF TailAfter
<1> HIDE DEF tail
<1>3. s \o tail \in Seq(Said) /\ Len(s \o tail) = Len(t)
  BY <1>1, <1>2
<1>4. ASSUME NEW i \in 1..Len(t) PROVE (s \o tail)[i] = t[i]
  <2>1. CASE i <= k
    BY <1>1, <1>2, <2>1
  <2>2. CASE ~(i <= k)
    <3>1. i - k \in 1..Len(tail) /\ i - k \in 1..(Len(t) - k) /\ k + (i - k) = i
      BY <1>1, <1>2, <2>2
    <3>2. (s \o tail)[i] = tail[i - k]
      BY <1>2, <2>2, <3>1
    <3> QED
      BY <1>2, <3>1, <3>2
  <2> QED
    BY <2>1, <2>2
<1>5. t = s \o tail
  BY <1>3, <1>4, SeqEqual
<1> QED
  BY <1>2, <1>5 DEF tail

----------------------------------------------------------------------------
(* The transcript of a chat grows at its end. *)

\* g joins the first sequences of ss, step by step.
Joins(g, ss) ==
    /\ g \in [0..Len(ss) -> Seq(Said)]
    /\ g[0] = <<>>
    /\ \A i \in 1..Len(ss) : g[i] = g[i - 1] \o ss[i]

LEMMA JoinExists ==
    ASSUME NEW ss \in Seq(Seq(Said))
    PROVE  \E g : Joins(g, ss)
<1> DEFINE S == Seq(Said)
           n == Len(ss)
           step == [i \in 1..n |-> [a \in S |-> a \o ss[i]]]
<1>1. n \in Nat /\ <<>> \in S /\ \A i \in 1..n : ss[i] \in S
  OBVIOUS
<1>2. \A a \in S, b \in S : a \o b \in S
  OBVIOUS
<1> HIDE DEF S, n
<1>3. step \in [1..n -> [S -> S]]
  BY <1>1, <1>2
<1>4. \A i \in 1..n, a \in S : step[i][a] = a \o ss[i]
  OBVIOUS
<1> HIDE DEF step
<1>5. Iterates(S, <<>>, n, step)
  BY <1>1, <1>3, Iteration
<1>6. PICK g \in [0..n -> S] : g[0] = <<>> /\ \A i \in 1..n : g[i] = step[i][g[i - 1]]
  BY <1>5 DEF Iterates
<1>7. \A i \in 1..n : g[i - 1] \in S
  BY <1>1
<1>8. \A i \in 1..n : g[i] = g[i - 1] \o ss[i]
  BY <1>4, <1>6, <1>7
<1> QED
  BY <1>6, <1>8 DEF Joins, S, n

LEMMA FlattenJoins ==
    ASSUME NEW ss \in Seq(Seq(Said)), NEW g, Joins(g, ss)
    PROVE  FlattenSeq(ss) = g[Len(ss)]
<1> DEFINE n == Len(ss)
           Body(f) == [i \in 1..n |-> IF i = 1 THEN ss[i] ELSE f[i - 1] \o ss[i]]
           flatten == CHOOSE f : f = Body(f)
<1>1. n \in Nat /\ \A i \in 1..n : ss[i] \in Seq(Said)
  OBVIOUS
<1>2. /\ g \in [0..n -> Seq(Said)] /\ g[0] = <<>>
      /\ \A i \in 1..n : g[i] = g[i - 1] \o ss[i]
  BY DEF Joins
<1>2a. n # 0 => g[1] = <<>> \o ss[1] /\ ss[1] \in Seq(Said) /\ 1 \in 1..n
  <2>1. n # 0 => 1 \in 1..n /\ 1 - 1 = 0
    BY <1>1
  <2> QED
    BY <1>1, <1>2, <2>1
<1>3. CASE n = 0
  <2>1. FlattenSeq(ss) = ss
    BY <1>3 DEF FlattenSeq
  <2>2. ss = <<>>
    BY <1>3
  <2> QED
    BY <1>2, <1>3, <2>1, <2>2
<1>4. CASE n # 0
  <2>1. FlattenSeq(ss) = flatten[n]
    BY <1>4 DEF FlattenSeq
  <2> HIDE DEF n
  <2>2. \E f : f = Body(f)
    <3> DEFINE h == [i \in 1..n |-> g[i]]
    <3>1. \A i \in 1..n : h[i] = g[i]
      OBVIOUS
    <3>2. \A i \in 1..n : h[i] = IF i = 1 THEN ss[i] ELSE h[i - 1] \o ss[i]
      <4> TAKE i \in 1..n
      <4>1. CASE i = 1
        <5>1. g[1] = ss[1]
          BY <1>2a, <1>4
        <5> QED
          BY <3>1, <4>1, <5>1
      <4>2. CASE i # 1
        <5>1. i - 1 \in 1..n
          BY <1>1, <4>2
        <5>2. h[i - 1] = g[i - 1] /\ h[i] = g[i] /\ g[i] = g[i - 1] \o ss[i]
          BY <1>2, <3>1, <5>1
        <5> HIDE DEF h
        <5> QED
          BY <4>2, <5>2
      <4> QED
        BY <4>1, <4>2
    <3>3. h = [i \in 1..n |-> h[i]]
      OBVIOUS
    <3> HIDE DEF h
    <3>4. h = Body(h)
      BY <3>2, <3>3
    <3> QED
      BY <3>4
  <2> HIDE DEF Body
  <2>3. flatten = Body(flatten)
    BY <2>2, Zenon
  <2> HIDE DEF flatten
  <2>4. \A i \in 1..n : flatten[i] = IF i = 1 THEN ss[i] ELSE flatten[i - 1] \o ss[i]
    <3>1. \A i \in 1..n : Body(flatten)[i] = IF i = 1 THEN ss[i] ELSE flatten[i - 1] \o ss[i]
      BY DEF Body
    <3> QED
      BY <2>3, <3>1
  <2> DEFINE Bad == {i \in 0..n : i # 0 /\ flatten[i] # g[i]}
  <2>5. Bad = {}
    <3>1. SUFFICES ASSUME Bad # {} PROVE FALSE
      OBVIOUS
    <3>2. PICK m \in Bad : m = 0 \/ (m \in 1..n /\ m - 1 \in 0..n /\ m - 1 \notin Bad)
      <4>1. Bad \in SUBSET (0..n)
        OBVIOUS
      <4> HIDE DEF Bad
      <4> QED
        BY <1>1, <3>1, <4>1, LeastUpTo
    <3>3. m \in 1..n /\ flatten[m] # g[m] /\ (m = 1 \/ flatten[m - 1] = g[m - 1])
      BY <1>1, <3>2
    <3>4. CASE m = 1
      <4>1. flatten[1] = ss[1] /\ g[1] = ss[1]
        BY <1>2a, <1>4, <2>4
      <4> QED
        BY <3>3, <3>4, <4>1
    <3>5. CASE m # 1
      <4>1. flatten[m] = flatten[m - 1] \o ss[m]
        BY <2>4, <3>3, <3>5
      <4> QED
        BY <1>2, <3>3, <3>5, <4>1
    <3> QED
      BY <3>4, <3>5
  <2>6. n \in 0..n
    BY <1>1
  <2> QED
    BY <1>4, <2>1, <2>5, <2>6 DEF n
<1> QED
  BY <1>3, <1>4

LEMMA FlattenAppend ==
    ASSUME NEW ss \in Seq(Seq(Said)), NEW x \in Seq(Said)
    PROVE  /\ FlattenSeq(ss) \in Seq(Said)
           /\ FlattenSeq(Append(ss, x)) = FlattenSeq(ss) \o x
<1> DEFINE n == Len(ss)
           more == Append(ss, x)
<1>1. /\ n \in Nat /\ more \in Seq(Seq(Said)) /\ Len(more) = n + 1
      /\ more[n + 1] = x /\ \A i \in 1..n : more[i] = ss[i]
  OBVIOUS
<1>2. PICK g : Joins(g, ss)
  BY JoinExists
<1>3. /\ g \in [0..n -> Seq(Said)] /\ g[0] = <<>>
      /\ \A i \in 1..n : g[i] = g[i - 1] \o ss[i]
  BY <1>2 DEF Joins
<1>4. FlattenSeq(ss) = g[n] /\ g[n] \in Seq(Said)
  BY <1>1, <1>2, <1>3, FlattenJoins
<1> DEFINE end == g[n] \o x
           h == [i \in 0..(n + 1) |-> IF i = n + 1 THEN end ELSE g[i]]
<1>5. end \in Seq(Said)
  BY <1>4
<1> HIDE DEF n, more, end
<1>6. h \in [0..(n + 1) -> Seq(Said)]
  BY <1>1, <1>3, <1>5
<1>7. /\ \A i \in 0..n : h[i] = g[i]
      /\ h[n + 1] = end
  BY <1>1
<1> HIDE DEF h
<1>8. h[0] = <<>>
  BY <1>1, <1>3, <1>7
<1>9. ASSUME NEW i \in 1..(n + 1) PROVE h[i] = h[i - 1] \o more[i]
  <2>1. CASE i = n + 1
    <3>1. n \in 0..n /\ i - 1 = n
      <4>1. n \in Nat
        BY <1>1
      <4> QED
        BY <2>1, <4>1
    <3>2. h[n + 1] = g[n] \o x /\ h[n] = g[n] /\ more[n + 1] = x
      BY <1>1, <1>7, <3>1 DEF end
    <3> QED
      BY <2>1, <3>1, <3>2
  <2>2. CASE i # n + 1
    <3>1. i \in 1..n /\ i \in 0..n /\ i - 1 \in 0..n
      BY <1>1, <2>2
    <3> QED
      BY <1>1, <1>3, <1>7, <3>1
  <2> QED
    BY <2>1, <2>2
<1>10. Joins(h, more)
  BY <1>1, <1>6, <1>8, <1>9 DEF Joins
<1>11. FlattenSeq(more) = h[n + 1]
  BY <1>1, <1>10, FlattenJoins
<1> QED
  BY <1>4, <1>7, <1>11 DEF more, end

\* What was said in the rounds rs of chat c, round by round.
Sayings(c, rs) == [n \in DOMAIN rs |-> Append(rs[n].prompt, Reply(c, n))]

\* All of it, in order: what Transcript is of rounds[c].
Told(c, rs) == FlattenSeq(Sayings(c, rs))

LEMMA TranscriptIs == \A c \in Chat : Transcript(c) = Told(c, rounds[c])
  BY DEF Transcript, Sayings, Told

LEMMA SayingsTyped ==
    ASSUME NEW c \in Chat, NEW rs \in Seq(Round)
    PROVE  /\ Sayings(c, rs) \in Seq(Seq(Said)) /\ Len(Sayings(c, rs)) = Len(rs)
           /\ \A i \in 1..Len(rs) : Sayings(c, rs)[i] = Append(rs[i].prompt, Reply(c, i))
<1>1. DOMAIN rs = 1..Len(rs) /\ Len(rs) \in Nat
  OBVIOUS
<1>2. ASSUME NEW n \in 1..Len(rs) PROVE Append(rs[n].prompt, Reply(c, n)) \in Seq(Said)
  <2>1. rs[n] \in Round /\ n \in Nat
    BY <1>1
  <2>2. rs[n].prompt \in Seq(Said) /\ Reply(c, n) \in Said
    BY <2>1 DEF Round, Reply, Said
  <2> QED
    BY <2>2
<1>3. Sayings(c, rs) = [i \in 1..Len(rs) |-> Append(rs[i].prompt, Reply(c, i))]
  BY <1>1 DEF Sayings
<1>4. Sayings(c, rs) \in [1..Len(rs) -> Seq(Said)]
  BY <1>2, <1>3
<1>5. \A i \in 1..Len(rs) : Sayings(c, rs)[i] = Append(rs[i].prompt, Reply(c, i))
  BY <1>3
<1> HIDE DEF Sayings
<1> QED
  BY <1>1, <1>4, <1>5

LEMMA ToldTyped ==
    ASSUME IInv, NEW c \in Chat
    PROVE  Told(c, rounds[c]) \in Seq(Said)
<1>1. rounds[c] \in Seq(Round)
  BY DEF IInv, Typed
<1> QED
  BY <1>1, SayingsTyped, FlattenAppend, EmptySeq DEF Told

\* A round more: what was said goes on with what was sent and its reply.
LEMMA SayingsGrow ==
    ASSUME NEW c \in Chat, NEW rs \in Seq(Round), NEW round \in Round
    PROVE  /\ Append(round.prompt, Reply(c, Len(rs) + 1)) \in Seq(Said)
           /\ Sayings(c, Append(rs, round)) =
                Append(Sayings(c, rs), Append(round.prompt, Reply(c, Len(rs) + 1)))
<1> DEFINE n == Len(rs)
           x == Append(round.prompt, Reply(c, n + 1))
           more == Append(rs, round)
           old == Sayings(c, rs)
<1>1. /\ n \in Nat /\ more \in Seq(Round) /\ Len(more) = n + 1
      /\ more[n + 1] = round /\ \A i \in 1..n : more[i] = rs[i]
  OBVIOUS
<1>2. x \in Seq(Said)
  <2>1. Reply(c, n + 1) \in Said /\ round.prompt \in Seq(Said)
    BY <1>1 DEF Reply, Said, Round
  <2> QED
    BY <2>1
<1>3. /\ old \in Seq(Seq(Said)) /\ Len(old) = n
      /\ \A i \in 1..n : old[i] = Append(rs[i].prompt, Reply(c, i))
  BY SayingsTyped
<1>4. /\ Sayings(c, more) \in Seq(Seq(Said)) /\ Len(Sayings(c, more)) = n + 1
      /\ \A i \in 1..(n + 1) : Sayings(c, more)[i] = Append(more[i].prompt, Reply(c, i))
  BY <1>1, SayingsTyped
<1> HIDE DEF n, more, old
<1>5. n + 1 \in 1..(n + 1)
  BY <1>1
<1>6. Sayings(c, more)[n + 1] = x
  BY <1>1, <1>4, <1>5
<1> HIDE DEF x
<1>7. /\ Append(old, x) \in Seq(Seq(Said)) /\ Len(Append(old, x)) = n + 1
      /\ Append(old, x)[n + 1] = x /\ \A i \in 1..n : Append(old, x)[i] = old[i]
  BY <1>2, <1>3
<1>8. ASSUME NEW i \in 1..(n + 1) PROVE Sayings(c, more)[i] = Append(old, x)[i]
  <2>1. CASE i = n + 1
    BY <1>6, <1>7, <2>1
  <2>2. CASE i # n + 1
    <3>1. i \in 1..n
      <4>1. n \in Nat
        BY <1>1
      <4> QED
        BY <2>2, <4>1
    <3> QED
      BY <1>1, <1>3, <1>4, <1>7, <3>1
  <2> QED
    BY <2>1, <2>2
<1>9. Sayings(c, more) = Append(old, x)
  BY <1>4, <1>7, <1>8, SeqEqual
<1> QED
  BY <1>2, <1>9 DEF x, n, more, old

LEMMA ToldGrows ==
    ASSUME IInv, NEW c \in Chat, NEW prompt \in Seq(Said), rounds' = WithRound(c, prompt)
    PROVE  /\ Append(prompt, Reply(c, Len(rounds'[c]))) \in Seq(Said)
           /\ Told(c, rounds'[c]) =
                Told(c, rounds[c]) \o Append(prompt, Reply(c, Len(rounds'[c])))
           /\ \A d \in Chat \ {c} : rounds'[d] = rounds[d]
<1> DEFINE round == [prompt |-> prompt, state |-> "running"]
           x == Append(prompt, Reply(c, Len(rounds[c]) + 1))
<1>1. /\ rounds'[c] = Append(rounds[c], round) /\ Len(rounds'[c]) = Len(rounds[c]) + 1
      /\ \A d \in Chat \ {c} : rounds'[d] = rounds[d]
  BY RoundsAdded
<1>2. rounds[c] \in Seq(Round) /\ round \in Round /\ round.prompt = prompt
  BY DEF IInv, Typed, Round
<1> HIDE DEF round
<1>3. /\ x \in Seq(Said)
      /\ Sayings(c, Append(rounds[c], round)) = Append(Sayings(c, rounds[c]), x)
  BY <1>2, SayingsGrow
<1> HIDE DEF x
<1>4. Sayings(c, rounds[c]) \in Seq(Seq(Said))
  BY <1>2, SayingsTyped
<1>5. Told(c, rounds'[c]) = Told(c, rounds[c]) \o x
  BY <1>1, <1>3, <1>4, FlattenAppend DEF Told
<1> QED
  BY <1>1, <1>3, <1>5 DEF x

LEMMA ToldStays ==
    ASSUME IInv, NEW c \in Chat, NEW n \in DOMAIN rounds[c], RoundEnds(c, n), NEW d \in Chat
    PROVE  Told(d, rounds'[d]) = Told(d, rounds[d])
<1>1. /\ Len(rounds'[d]) = Len(rounds[d])
      /\ \A i \in 1..Len(rounds[d]) : rounds'[d][i].prompt = rounds[d][i].prompt
  BY SameLengths
<1>2. DOMAIN rounds[d] = 1..Len(rounds[d]) /\ DOMAIN rounds'[d] = 1..Len(rounds'[d])
  <2>1. rounds[d] \in Seq(Round) /\ rounds'[d] \in Seq(Round)
    BY RoundEndsStep DEF IInv, Typed
  <2> QED
    BY <2>1
<1>3. Sayings(d, rounds'[d]) = Sayings(d, rounds[d])
  BY <1>1, <1>2 DEF Sayings
<1> QED
  BY <1>3 DEF Told

----------------------------------------------------------------------------
(* What a chat has absorbed, for one client that waits for each answer and *)
(* an upstream whose chats can be written to.                              *)

\* Whatever had been said in a chat, in order, has still been.
ToldKept ==
    \A c \in Chat, s \in Seq(Said) :
        Embeds(s, Told(c, rounds[c])) => Embeds(s, Told(c, rounds'[c]))

AbsorbedTold == \A c \in Chat : Embeds(conv[c].absorbed, Told(c, rounds[c]))

\* What leads up to it: before the prompt is sent, the messages ahead of it have
\* been said in the chat; after it is sent, all the messages and the reply to them.
Delivers(r) ==
    /\ req[r].pc = "send" =>
          \E head \in Seq(Said) :
              /\ Embeds(head, Told(req[r].conv, rounds[req[r].conv]))
              /\ req[r].msgs = head \o req[r].prompt
    /\ req[r].pc = "create" => req[r].prompt = req[r].msgs
    /\ req[r].pc = "poll" =>
          Embeds(Append(req[r].msgs, Reply(req[r].conv, req[r].round)),
                 Told(req[r].conv, rounds[req[r].conv]))
    /\ req[r].pc = "finalize" =>
          Embeds(Append(req[r].msgs, req[r].got), Told(req[r].conv, rounds[req[r].conv]))

LEMMA SameTold == UNCHANGED rounds => ToldKept
  BY DEF ToldKept

LEMMA RoundToldKept ==
    ASSUME IInv, NEW c \in Chat, NEW prompt \in Seq(Said), rounds' = WithRound(c, prompt)
    PROVE  ToldKept
<1> DEFINE more == Append(prompt, Reply(c, Len(rounds'[c])))
<1>1. /\ more \in Seq(Said) /\ Told(c, rounds'[c]) = Told(c, rounds[c]) \o more
      /\ \A d \in Chat \ {c} : rounds'[d] = rounds[d]
  BY ToldGrows
<1>2. Told(c, rounds[c]) \in Seq(Said)
  BY ToldTyped
<1> HIDE DEF more
<1>3. \A s \in Seq(Said) :
        Embeds(s, Told(c, rounds[c])) => Embeds(s, Told(c, rounds'[c]))
  BY <1>1, <1>2, EmbedsMore
<1> QED
  BY <1>1, <1>3 DEF ToldKept

LEMMA OthersDeliver ==
    ASSUME IInv, ToldKept, NEW q \in Request, Delivers(q), req'[q] = req[q]
    PROVE  Delivers(q)'
<1> DEFINE c == req[q].conv
<1>1. /\ req[q].pc \in {"send", "poll", "finalize"} => c \in Chat
      /\ req[q].pc = "finalize" => req[q].got \in Said
  BY DEF IInv, Placed
<1>2. req[q].msgs \in Seq(Said) /\ req[q].round \in Nat
  BY DEF IInv, Typed, ReqState
<1>3. ASSUME c \in Chat, NEW s \in Seq(Said), Embeds(s, Told(c, rounds[c]))
      PROVE  Embeds(s, Told(c, rounds'[c]))
  BY <1>3 DEF ToldKept
<1>4. CASE req[q].pc = "send"
  <2>1. PICK head \in Seq(Said) :
          Embeds(head, Told(c, rounds[c])) /\ req[q].msgs = head \o req[q].prompt
    BY <1>4 DEF Delivers
  <2>2. Embeds(head, Told(c, rounds'[c]))
    BY <1>1, <1>3, <1>4, <2>1
  <2> QED
    BY <1>4, <2>1, <2>2 DEF Delivers
<1>5. CASE req[q].pc = "poll"
  <2> DEFINE s == Append(req[q].msgs, Reply(c, req[q].round))
  <2>1. Reply(c, req[q].round) \in Said
    BY <1>1, <1>2, <1>5 DEF Reply, Said
  <2>2. s \in Seq(Said)
    BY <1>2, <2>1
  <2>3. Embeds(s, Told(c, rounds[c]))
    BY <1>5 DEF Delivers
  <2> HIDE DEF s
  <2>4. Embeds(s, Told(c, rounds'[c]))
    BY <1>1, <1>3, <1>5, <2>2, <2>3
  <2> QED
    BY <1>5, <2>4 DEF Delivers, s
<1>6. CASE req[q].pc = "finalize"
  <2> DEFINE s == Append(req[q].msgs, req[q].got)
  <2>1. s \in Seq(Said) /\ Embeds(s, Told(c, rounds[c]))
    BY <1>1, <1>2, <1>6 DEF Delivers
  <2> HIDE DEF s
  <2>2. Embeds(s, Told(c, rounds'[c]))
    BY <1>1, <1>3, <1>6, <2>1
  <2> QED
    BY <1>6, <2>2 DEF Delivers, s
<1>7. CASE req[q].pc \notin {"send", "poll", "finalize"}
  BY <1>7 DEF Delivers
<1> QED
  BY <1>4, <1>5, <1>6, <1>7

\* A prompt that goes on where the chat has got to is said, and then answered.
LEMMA PromptTold ==
    ASSUME IInv, NEW c \in Chat, NEW prompt \in Seq(Said), rounds' = WithRound(c, prompt),
           NEW head \in Seq(Said), Embeds(head, Told(c, rounds[c]))
    PROVE  Embeds(Append(head \o prompt, Reply(c, Len(rounds'[c]))), Told(c, rounds'[c]))
<1> DEFINE a == Reply(c, Len(rounds'[c]))
           more == Append(prompt, a)
<1>1. more \in Seq(Said) /\ Told(c, rounds'[c]) = Told(c, rounds[c]) \o more
  BY ToldGrows
<1>2. Told(c, rounds[c]) \in Seq(Said)
  BY ToldTyped
<1>3. a \in Said
  <2>1. Len(rounds'[c]) \in Nat
    BY RoundsAdded
  <2> QED
    BY <2>1 DEF Reply, Said
<1> HIDE DEF a
<1>4. head \o more = Append(head \o prompt, a)
  <2>1. /\ more = prompt \o <<a>> /\ Append(head \o prompt, a) = (head \o prompt) \o <<a>>
        /\ <<a>> \in Seq(Said)
    <3>1. head \o prompt \in Seq(Said)
      OBVIOUS
    <3> QED
      BY <1>3, <3>1, AppendIsConcat
  <2> QED
    BY <2>1, ConcatAssociative
<1> HIDE DEF more
<1>5. Embeds(head \o more, Told(c, rounds[c]) \o more)
  BY <1>1, <1>2, EmbedsBoth
<1> QED
  BY <1>1, <1>4, <1>5 DEF a

LEMMA AbsorbedKept ==
    ASSUME IInv, AbsorbedTold, ToldKept,
           \A c \in Chat : conv'[c].absorbed = conv[c].absorbed
    PROVE  AbsorbedTold'
<1>1. \A c \in Chat : conv[c].absorbed \in Seq(Said)
  BY DEF IInv, Typed, ConvState
<1> QED
  BY <1>1 DEF AbsorbedTold, ToldKept

\* The steps that leave the chats alone, and take r elsewhere or nowhere.
LEMMA AsideDelivers ==
    ASSUME IInv, AbsorbedTold, \A q \in Request : Delivers(q),
           NEW r \in Request, Others(r), UNCHANGED <<conv, rounds>>, Delivers(r)'
    PROVE  AbsorbedTold' /\ \A q \in Request : Delivers(q)'
<1>1. ToldKept
  BY SameTold
<1>2. AbsorbedTold'
  BY <1>1, AbsorbedKept
<1>3. \A q \in Request \ {r} : Delivers(q)'
  BY <1>1, OthersDeliver DEF Others
<1> QED
  BY <1>2, <1>3

LEMMA MatchDelivers ==
    ASSUME IInv, NEW r \in Request, Match(r)
    PROVE  Delivers(r)'
<1>1. Keeps(r) /\ req[r].pc = "match" /\ req[r].msgs \in Seq(Said) /\ UNCHANGED rounds
  <2>1. UNCHANGED rounds
    BY DEF Match
  <2>2. req[r].msgs \in Seq(Said)
    BY DEF IInv, Typed, ReqState
  <2> QED
    BY <2>1, <2>2, MatchMoves
<1>2. CASE /\ req'[r].pc = "send" /\ req'[r].conv = Current(r)
           /\ req'[r].prompt = req[r].msgs
           /\ Continues(r, Current(r), req[r].msgs)
  <2>1. Current(r) \in Chat
    BY <1>1, <1>2, CurrentOwned DEF Continues, Known, Using
  <2>2. <<>> \in Seq(Said) /\ Embeds(<<>>, Told(Current(r), rounds[Current(r)]))
    BY <2>1, ToldTyped, EmbedsNothing
  <2>3. req[r].msgs = <<>> \o req[r].msgs
    BY <1>1
  <2> QED
    BY <1>1, <1>2, <2>2, <2>3 DEF Delivers, Keeps
<1>3. CASE req'[r].pc = "create" /\ req'[r].prompt = req[r].msgs
  BY <1>1, <1>3 DEF Delivers, Keeps
<1>4. CASE req'[r].pc = "cut"
  BY <1>4 DEF Delivers
<1> QED
  BY <1>2, <1>3, <1>4, MatchMoves

LEMMA CutDelivers ==
    ASSUME IInv, AbsorbedTold, NEW r \in Request, Tracks(r), Cut(r)
    PROVE  Delivers(r)'
<1> DEFINE s == conv[req[r].conv].absorbed
<1>1. req[r].pc = "cut" /\ IsPrefix(s, req[r].msgs) /\ UNCHANGED rounds
  BY CutMoves DEF Tracks, Cut
<1>2. req[r].conv \in Chat /\ req[r].msgs \in Seq(Said)
  BY <1>1 DEF IInv, Typed, Placed, ReqState
<1>3. s \in Seq(Said) /\ Embeds(s, Told(req[r].conv, rounds[req[r].conv]))
  BY <1>2 DEF IInv, Typed, ConvState, AbsorbedTold
<1>4. CASE req'[r].pc \in {"panic", "done"}
  BY <1>4 DEF Delivers
<1>5. CASE /\ Keeps(r) /\ req'[r].pc = "send" /\ req'[r].conv = req[r].conv
           /\ req'[r].prompt = TailAfter(req[r].msgs, Len(s))
  <2>1. req[r].msgs = s \o TailAfter(req[r].msgs, Len(s))
    BY <1>1, <1>2, <1>3, PrefixSplits
  <2>2. s \in Seq(Said) /\ Embeds(s, Told(req'[r].conv, rounds'[req'[r].conv]))
    BY <1>1, <1>3, <1>5
  <2>3. req'[r].msgs = s \o req'[r].prompt
    BY <1>5, <2>1 DEF Keeps
  <2> HIDE DEF s
  <2> QED
    BY <1>5, <2>2, <2>3 DEF Delivers
<1> QED
  BY <1>4, <1>5, CutMoves, GotoMoves, ReturnMoves

LEMMA SendDelivers ==
    ASSUME IInv, AbsorbedTold, \A q \in Request : Delivers(q), NEW r \in Request, SendReuse(r)
    PROVE  AbsorbedTold' /\ \A q \in Request : Delivers(q)'
<1> DEFINE c == req[r].conv
<1>1. /\ Others(r) /\ Keeps(r) /\ req[r].pc = "send" /\ req'[r].pc = "poll"
      /\ req'[r].conv = c /\ req'[r].round = Len(rounds'[c])
  BY SendMoves
<1>2. /\ c \in Chat /\ req[r].prompt \in Seq(Said)
      /\ rounds' = WithRound(c, req[r].prompt) /\ UNCHANGED conv
  BY <1>1 DEF SendReuse, IInv, Typed, Placed, ReqState, gateway
<1>3. ToldKept
  BY <1>2, RoundToldKept
<1>4. PICK head \in Seq(Said) :
        Embeds(head, Told(c, rounds[c])) /\ req[r].msgs = head \o req[r].prompt
  BY <1>1 DEF Delivers
<1>5. Embeds(Append(req[r].msgs, Reply(c, Len(rounds'[c]))), Told(c, rounds'[c]))
  BY <1>2, <1>4, PromptTold
<1>6. Delivers(r)'
  BY <1>1, <1>5 DEF Delivers, Keeps
<1>7. \A q \in Request \ {r} : Delivers(q)'
  BY <1>1, <1>3, OthersDeliver DEF Others
<1>8. AbsorbedTold'
  BY <1>2, <1>3, AbsorbedKept
<1> QED
  BY <1>6, <1>7, <1>8

LEMMA CreateDelivers ==
    ASSUME IInv, AbsorbedTold, \A q \in Request : Delivers(q), NEW r \in Request, CreateChat(r)
    PROVE  AbsorbedTold' /\ \A q \in Request : Delivers(q)'
<1> DEFINE c == req'[r].conv
           msgs == req[r].msgs
<1>1. /\ Others(r) /\ Keeps(r) /\ req[r].pc = "create" /\ req'[r].pc = "poll"
      /\ c \in Chat /\ rounds[c] = <<>> /\ req'[r].round = 1
      /\ rounds' = WithRound(c, req[r].prompt)
  BY CreateMoves
<1>2. conv'[c].absorbed = <<>> /\ \A d \in Chat \ {c} : conv'[d] = conv[d]
  BY CreateConv
<1> HIDE DEF c
<1>3. req[r].prompt = msgs /\ msgs \in Seq(Said) /\ <<>> \o msgs = msgs
  <2>1. req[r].prompt = msgs /\ msgs \in Seq(Said)
    BY <1>1 DEF Delivers, IInv, Typed, ReqState
  <2> QED
    BY <2>1
<1>4. ToldKept
  BY <1>1, <1>3, RoundToldKept
<1>5. <<>> \in Seq(Said) /\ Embeds(<<>>, Told(c, rounds[c]))
  BY <1>1, ToldTyped, EmbedsNothing
<1>6. Embeds(Append(msgs, Reply(c, 1)), Told(c, rounds'[c]))
  <2>1. Len(rounds'[c]) = 1
    <3>1. Len(rounds[c]) = 0
      BY <1>1
    <3>2. Len(rounds'[c]) = Len(rounds[c]) + 1
      BY <1>1, <1>3, RoundsAdded
    <3> QED
      BY <3>1, <3>2
  <2>2. Embeds(Append(<<>> \o msgs, Reply(c, Len(rounds'[c]))), Told(c, rounds'[c]))
    BY <1>1, <1>3, <1>5, PromptTold
  <2> QED
    BY <1>3, <2>1, <2>2
<1>7. Delivers(r)'
  BY <1>1, <1>6 DEF Delivers, Keeps, c
<1>8. \A q \in Request \ {r} : Delivers(q)'
  BY <1>1, <1>4, OthersDeliver DEF Others
<1>9. AbsorbedTold'
  <2>1. Embeds(conv'[c].absorbed, Told(c, rounds'[c]))
    BY <1>1, <1>2, <1>4, <1>5 DEF ToldKept
  <2>2. ASSUME NEW d \in Chat \ {c} PROVE Embeds(conv'[d].absorbed, Told(d, rounds'[d]))
    <3>1. conv[d].absorbed \in Seq(Said) /\ conv'[d] = conv[d]
      BY <1>2 DEF IInv, Typed, ConvState
    <3> QED
      BY <1>4, <3>1 DEF AbsorbedTold, ToldKept
  <2> QED
    BY <2>1, <2>2 DEF AbsorbedTold
<1> QED
  BY <1>7, <1>8, <1>9

LEMMA FinalizeDelivers ==
    ASSUME IInv, AbsorbedTold, \A q \in Request : Delivers(q), NEW r \in Request,
           NEW out \in SUBSET Chat, NEW delivered \in BOOLEAN, Finalize(r, out, delivered)
    PROVE  AbsorbedTold' /\ \A q \in Request : Delivers(q)'
<1> DEFINE c == req[r].conv
<1>1. /\ c \in Chat /\ req[r].pc = "finalize" /\ conv'[c].absorbed = Recorded(r)
      /\ \A d \in Chat \ {c} : conv'[d] = conv[d]
  BY FinalizeConv
<1>2. Others(r) /\ req'[r].pc = "done" /\ UNCHANGED rounds
  BY ReturnMoves DEF Finalize
<1>3. ToldKept
  BY <1>2, SameTold
<1>4. Recorded(r) = Append(req[r].msgs, req[r].got)
  <2>1. req[r].msgs \in Seq(Said) /\ req[r].got \in Said
    BY FinalizeConv DEF IInv, Typed, ReqState
  <2> QED
    BY <2>1, AppendIsConcat DEF Recorded
<1>5. Embeds(conv'[c].absorbed, Told(c, rounds'[c]))
  BY <1>1, <1>2, <1>4 DEF Delivers
<1>6. \A d \in Chat \ {c} : Embeds(conv'[d].absorbed, Told(d, rounds'[d]))
  BY <1>1, <1>2 DEF AbsorbedTold
<1>7. Delivers(r)'
  BY <1>2 DEF Delivers
<1>8. \A q \in Request \ {r} : Delivers(q)'
  BY <1>2, <1>3, OthersDeliver DEF Others
<1> QED
  BY <1>5, <1>6, <1>7, <1>8 DEF AbsorbedTold

LEMMA NextDelivers ==
    ASSUME IInv, AbsorbedTold, \A q \in Request : Delivers(q), \A q \in Request : Tracks(q),
           \A q \in Request : Awaits(q)', [Next]_vars, ~ReuseCanFail
    PROVE  AbsorbedTold' /\ \A q \in Request : Delivers(q)'
<1> DEFINE Goal == AbsorbedTold' /\ \A q \in Request : Delivers(q)'
<1>1. ASSUME NEW r \in Request, Others(r), UNCHANGED <<conv, rounds>>,
             req'[r].pc \notin {"send", "create", "poll", "finalize"}
      PROVE  Goal
  <2>1. Delivers(r)'
    BY <1>1 DEF Delivers
  <2> QED
    BY <1>1, <2>1, AsideDelivers
<1>2. ASSUME UNCHANGED <<conv, req, rounds>> PROVE Goal
  <2>1. ToldKept
    BY <1>2, SameTold
  <2> QED
    BY <1>2, <2>1, OthersDeliver, AbsorbedKept
<1>3. ASSUME NEW r \in Request, NEW u \in User, NEW msgs \in Sendable(u, r),
             NEW id \in Nameable(u), Ask(u, r, msgs, id)
      PROVE  Goal
  BY <1>1, <1>3, AskMoves DEF Ask, gateway
<1>4. ASSUME NEW r \in Request, NEW a \in Account, Choose(r, a) PROVE Goal
  BY <1>1, <1>4, ChooseMoves DEF Choose, gateway
<1>5. ASSUME NEW r \in Request, GiveUp(r) PROVE Goal
  BY <1>1, <1>5, ReturnMoves DEF GiveUp, gateway
<1>6. ASSUME NEW r \in Request, Lock(r) \/ CreateFails(r) \/ PollFails(r) PROVE Goal
  BY <1>1, <1>6, GotoMoves DEF Lock, CreateFails, PollFails
<1>7. ASSUME NEW r \in Request, Match(r) PROVE Goal
  BY <1>7, MatchMoves, MatchDelivers, AsideDelivers DEF Match, gateway
<1>8. ASSUME NEW r \in Request, Cut(r) PROVE Goal
  <2>1. Others(r) /\ UNCHANGED <<conv, rounds>>
    BY <1>8, CutMoves DEF Cut
  <2>2. Delivers(r)'
    BY <1>8, CutDelivers
  <2> QED
    BY <2>1, <2>2, AsideDelivers
<1>9. ASSUME NEW r \in Request, PollReturns(r) PROVE Goal
  <2>1. /\ Others(r) /\ Keeps(r) /\ req[r].pc = "poll" /\ req'[r].pc = "finalize"
        /\ req'[r].conv = req[r].conv /\ req'[r].round = req[r].round
        /\ UNCHANGED <<conv, rounds>>
    BY <1>9, PollMoves DEF PollReturns
  <2>2. req'[r].got = Reply(req[r].conv, req[r].round)
    BY <2>1 DEF Awaits
  <2>3. Delivers(r)'
    BY <2>1, <2>2 DEF Delivers, Keeps
  <2> QED
    BY <2>1, <2>3, AsideDelivers
<1>10. ASSUME NEW c \in Chat, NEW n \in DOMAIN rounds[c], RoundEnds(c, n) PROVE Goal
  <2>1. UNCHANGED <<conv, req>>
    BY <1>10 DEF RoundEnds, gateway
  <2>2. ToldKept
    BY <1>10, ToldStays DEF ToldKept
  <2> QED
    BY <2>1, <2>2, OthersDeliver, AbsorbedKept
<1>11. CASE Restart
  <2>1. UNCHANGED <<conv, rounds>>
    BY <1>11 DEF Restart
  <2>2. ToldKept
    BY <2>1, SameTold
  <2>3. ASSUME NEW q \in Request PROVE Delivers(q)'
    <3>1. CASE InFlight(q)
      BY <1>11, <3>1 DEF Restart, Delivers, Fresh
    <3>2. CASE ~InFlight(q)
      <4>1. req'[q] = req[q]
        BY <1>11, <3>2 DEF Restart
      <4> QED
        BY <2>2, <4>1, OthersDeliver
    <3> QED
      BY <3>1, <3>2
  <2> QED
    BY <2>1, <2>2, <2>3, AbsorbedKept
<1>12. ASSUME NEW r \in Request, SendFails(r) PROVE Goal
  BY <1>12 DEF SendFails
<1>13. CASE UNCHANGED vars
  BY <1>2, <1>13 DEF vars, gateway
<1>14. CASE SecondPasses
  BY <1>2, <1>14 DEF SecondPasses
<1> QED
  BY <1>3, <1>4, <1>5, <1>6, <1>7, <1>8, <1>9, <1>10, <1>11, <1>12, <1>13, <1>14,
     SendDelivers, CreateDelivers, FinalizeDelivers
  DEF Next, Quiet

\* What the table says a chat has absorbed was sent to that chat or answered by
\* it, in that order (the comment of convState in handler.go), through retries,
\* lost replies, evictions and restarts: for one client that waits for its
\* answers, where the history endpoint lists the latest round and a chat that is
\* reused can be written to.  Where it cannot, the tail alone goes to a new chat
\* and the whole history is recorded of it: a run finds that.
THEOREM AbsorbedIsDelivered ==
    ASSUME OneWaitingUser, ~ReuseCanFail, HistoryShows = "latest"
    PROVE  Spec => []AbsorbedDelivered
<1> DEFINE A == \A q \in Request : Awaits(q)
           D == \A q \in Request : Delivers(q)
           T == \A q \in Request : Tracks(q)
<1>1. Init => A /\ AbsorbedTold /\ D
  <2> SUFFICES ASSUME Init PROVE A /\ AbsorbedTold /\ D
    OBVIOUS
  <2>1. A /\ D
    BY FreshTyped DEF Init, Awaits, Delivers
  <2>2. AbsorbedTold
    BY InitIInv, ToldTyped, EmbedsNothing DEF Init, Unknown, AbsorbedTold
  <2> QED
    BY <2>1, <2>2
<1>2. IInv /\ SendLocked /\ A /\ [Next]_vars => A'
  BY NextAwaits
<1>3. IInv /\ T /\ A' /\ AbsorbedTold /\ D /\ [Next]_vars => AbsorbedTold' /\ D'
  BY NextDelivers
<1>4. IInv /\ AbsorbedTold => AbsorbedDelivered
  <2> SUFFICES ASSUME IInv, AbsorbedTold, NEW c \in table
               PROVE  IsSubsequence(conv[c].absorbed, Transcript(c))
    BY DEF AbsorbedDelivered
  <2>1. c \in Chat /\ conv[c].absorbed \in Seq(Said)
    BY DEF IInv, Typed, ConvState
  <2>2. Transcript(c) \in Seq(Said) /\ Embeds(conv[c].absorbed, Transcript(c))
    BY <2>1, TranscriptIs, ToldTyped DEF AbsorbedTold
  <2> QED
    BY <2>1, <2>2, EmbedsMet
<1>5. Spec => [](Alone /\ T)
  BY TrackInvariance
<1> HIDE DEF A, D, T
<1> QED
  BY <1>1, <1>2, <1>3, <1>4, <1>5, Invariance, LockInvariance, PTL DEF Spec

----------------------------------------------------------------------------
(* Counting, for any users, upstream and restarts: a request writes to a   *)
(* chat once at most, and is recorded once at most.                        *)

Ended == {"done", "lost", "panic"}
Heading == {"lock", "match", "cut", "send", "create"}

\* What a step may make of a request, seen from its account.
Course(q) ==
    \/ req'[q] = req[q]
    \/ req[q].pc \notin Ended /\ req'[q].pc \in Ended
    \/ req[q].pc = "new" /\ req'[q].pc = "choose"
    \/ /\ req[q].pc = "choose" /\ req'[q].pc = "lock" /\ req'[q].acct \notin req[q].tried
       /\ req'[q].tried = req[q].tried \cup {req'[q].acct}
    \/ /\ req[q].pc \in Using /\ req'[q].pc \notin Ended
       /\ req'[q].acct = req[q].acct /\ req'[q].tried = req[q].tried
       /\ req'[q].pc \in Heading => req[q].pc \in Heading

LEMMA Courses ==
    ASSUME IInv, [Next]_vars
    PROVE  \A q \in Request : Course(q)
<1>1. ASSUME NEW r \in Request, Others(r), Course(r)
      PROVE  \A q \in Request : Course(q)
  BY <1>1 DEF Others, Course
<1>2. ASSUME UNCHANGED req PROVE \A q \in Request : Course(q)
  BY <1>2 DEF Course
<1>3. ASSUME NEW r \in Request, NEW u \in User, NEW msgs \in Sendable(u, r),
             NEW id \in Nameable(u), Ask(u, r, msgs, id)
      PROVE  \A q \in Request : Course(q)
  BY <1>1, <1>3, AskMoves DEF Course
<1>4. ASSUME NEW r \in Request, NEW a \in Account, Choose(r, a)
      PROVE  \A q \in Request : Course(q)
  <2>1. a \notin req[r].tried
    BY <1>4 DEF Choose, Eligible
  <2> QED
    BY <1>1, <1>4, <2>1, ChooseMoves DEF Course
<1>5. ASSUME NEW r \in Request, NEW out \in SUBSET Chat, NEW delivered \in BOOLEAN,
             GiveUp(r) \/ Finalize(r, out, delivered)
      PROVE  \A q \in Request : Course(q)
  <2>1. Others(r) /\ req[r].pc \in {"choose", "finalize"} /\ req'[r].pc = "done"
    BY <1>5, ReturnMoves DEF GiveUp, Finalize
  <2> QED
    BY <1>1, <2>1 DEF Course, Ended
<1>6. ASSUME NEW r \in Request, Lock(r) \/ SendFails(r) \/ CreateFails(r) \/ PollFails(r)
      PROVE  \A q \in Request : Course(q)
  <2>1. /\ Others(r) /\ Keeps(r)
        /\ \/ req[r].pc \in {"lock", "send"} /\ req'[r].pc \in {"match", "create"}
           \/ req[r].pc \in {"create", "poll"} /\ req'[r].pc = "choose"
    BY <1>6, GotoMoves DEF Lock, SendFails, CreateFails, PollFails
  <2> QED
    BY <1>1, <2>1 DEF Course, Keeps, Using, Heading, Ended
<1>7. ASSUME NEW r \in Request,
             Match(r) \/ SendReuse(r) \/ CreateChat(r) \/ PollReturns(r)
      PROVE  \A q \in Request : Course(q)
  <2>1. /\ Others(r) /\ Keeps(r)
        /\ \/ req[r].pc = "match" /\ req'[r].pc \in {"cut", "send", "create"}
           \/ req[r].pc \in {"send", "create", "poll"} /\ req'[r].pc \in {"poll", "finalize"}
    BY <1>7, MatchMoves, SendMoves, CreateMoves, PollMoves
  <2> QED
    BY <1>1, <2>1 DEF Course, Keeps, Using, Heading, Ended
<1>8. ASSUME NEW r \in Request, Cut(r) PROVE \A q \in Request : Course(q)
  <2>1. /\ Others(r) /\ req[r].pc = "cut"
        /\ req'[r].pc \in {"panic", "done"} \/ (Keeps(r) /\ req'[r].pc = "send")
    BY <1>8, CutMoves, GotoMoves, ReturnMoves
  <2> QED
    BY <1>1, <2>1 DEF Course, Keeps, Using, Heading, Ended
<1>9. CASE Restart
  <2> TAKE q \in Request
  <2>1. CASE InFlight(q)
    BY <1>9, <2>1 DEF Restart, Course, InFlight, Fresh, Ended
  <2>2. CASE ~InFlight(q)
    BY <1>9, <2>2 DEF Restart, Course
  <2> QED
    BY <2>1, <2>2
<1> QED
  BY <1>2, <1>3, <1>4, <1>5, <1>6, <1>7, <1>8, <1>9
  DEF Next, RoundEnds, SecondPasses, Quiet, vars

\* r can no longer write to chat c: it has ended, or it has tried the owner of c
\* and got past SendMessage.
Spent(r, c) ==
    \/ req[r].pc \in Ended
    \/ /\ conv[c].owner \in req[r].tried
       /\ req[r].pc \in Heading => req[r].acct # conv[c].owner

Sent(c) == {r \in Request : Spent(r, c)}

Done == {r \in Request : req[r].pc = "done"}

RoundsCounted == \A c \in Chat : Len(rounds[c]) <= Cardinality(Sent(c))

TurnsCounted == \A c \in Chat : conv[c].turns <= Cardinality(Done) + 1

Clocked == now <= MaxSeconds /\ \A c \in Chat : conv[c].stamp <= MaxSeconds

LEMMA RequestsFinite ==
    ASSUME NEW S \in SUBSET Request, NEW T \in SUBSET Request, S \subseteq T
    PROVE  /\ IsFiniteSet(S) /\ Cardinality(S) \in Nat /\ Cardinality(T) \in Nat
           /\ Cardinality(S) <= Cardinality(T)
           /\ \A r \in T \ S : Cardinality(S) + 1 <= Cardinality(T)
<1>1. IsFiniteSet(T)
  BY RequestAssumption, FS_Subset
<1>2. IsFiniteSet(S) /\ Cardinality(S) <= Cardinality(T)
  BY <1>1, FS_Subset
<1>3. ASSUME NEW r \in T \ S PROVE Cardinality(S) + 1 <= Cardinality(T)
  <2>1. Cardinality(S \cup {r}) = Cardinality(S) + 1
    BY <1>2, FS_AddElement
  <2>2. S \cup {r} \in SUBSET T
    OBVIOUS
  <2>3. Cardinality(S \cup {r}) <= Cardinality(T)
    BY <1>1, <2>2, FS_Subset
  <2> QED
    BY <2>1, <2>3
<1> QED
  BY <1>1, <1>2, <1>3, FS_CardinalityType

\* Who is past a chat stays past it.
LEMMA SpentStays ==
    ASSUME IInv, TriesCounted, [Next]_vars, NEW c \in Chat, conv'[c].owner = conv[c].owner
    PROVE  Sent(c) \subseteq Sent(c)'
<1> SUFFICES ASSUME NEW q \in Request, Spent(q, c) PROVE Spent(q, c)'
  BY DEF Sent
<1>1. Course(q)
  BY Courses
<1>2. req[q].pc = "new" => req[q].tried = {}
  BY DEF TriesCounted
<1> QED
  BY <1>1, <1>2 DEF Course, Spent, Using, Heading, Ended

LEMMA DoneStays ==
    ASSUME IInv, [Next]_vars
    PROVE  Done \subseteq Done'
<1> SUFFICES ASSUME NEW q \in Request, req[q].pc = "done" PROVE req'[q].pc = "done"
  BY DEF Done
<1> QED
  BY Courses DEF Course, Using, Ended

\* A round of chat c more, by a request that had not written to it.
LEMMA RoundCounted ==
    ASSUME IInv, TriesCounted, RoundsCounted, [Next]_vars, NEW c \in Chat, NEW r \in Request,
           conv'[c].owner = conv[c].owner, r \notin Sent(c), r \in Sent(c)',
           Len(rounds'[c]) = Len(rounds[c]) + 1, Len(rounds[c]) \in Nat
    PROVE  Len(rounds'[c]) <= Cardinality(Sent(c)')
<1>1. Sent(c) \subseteq Sent(c)' /\ Sent(c) \in SUBSET Request /\ Sent(c)' \in SUBSET Request
  BY SpentStays DEF Sent
<1>2. /\ Cardinality(Sent(c)) \in Nat /\ Cardinality(Sent(c)') \in Nat
      /\ Cardinality(Sent(c)) + 1 <= Cardinality(Sent(c)')
  BY <1>1, RequestsFinite
<1>3. Len(rounds[c]) <= Cardinality(Sent(c))
  BY DEF RoundsCounted
<1> QED
  BY <1>2, <1>3

LEMMA RoundsStay ==
    ASSUME IInv, TriesCounted, RoundsCounted, [Next]_vars, NEW c \in Chat,
           conv'[c].owner = conv[c].owner,
           Len(rounds'[c]) = Len(rounds[c]), Len(rounds[c]) \in Nat
    PROVE  Len(rounds'[c]) <= Cardinality(Sent(c)')
<1>1. Sent(c) \subseteq Sent(c)' /\ Sent(c) \in SUBSET Request /\ Sent(c)' \in SUBSET Request
  BY SpentStays DEF Sent
<1>2. /\ Cardinality(Sent(c)) \in Nat /\ Cardinality(Sent(c)') \in Nat
      /\ Cardinality(Sent(c)) <= Cardinality(Sent(c)')
  BY <1>1, RequestsFinite
<1>3. Len(rounds[c]) <= Cardinality(Sent(c))
  BY DEF RoundsCounted
<1> QED
  BY <1>2, <1>3

LEMMA NextRounds ==
    ASSUME IInv, TriesCounted, RoundsCounted, [Next]_vars
    PROVE  RoundsCounted'
<1>0. \A c \in Chat : rounds[c] \in Seq(Round) /\ Len(rounds[c]) \in Nat
  BY DEF IInv, Typed
<1>1. ASSUME \A c \in Chat : conv'[c].owner = conv[c].owner,
             \A c \in Chat : Len(rounds'[c]) = Len(rounds[c])
      PROVE  RoundsCounted'
  <2> SUFFICES ASSUME NEW c \in Chat PROVE Len(rounds'[c]) <= Cardinality(Sent(c)')
    BY DEF RoundsCounted, Sent, Spent
  <2> QED
    BY <1>0, <1>1, RoundsStay
<1>2. ASSUME NEW r \in Request, SendReuse(r) PROVE RoundsCounted'
  <2> SUFFICES ASSUME NEW c \in Chat PROVE Len(rounds'[c]) <= Cardinality(Sent(c)')
    BY DEF RoundsCounted, Sent, Spent
  <2>1. /\ req[r].conv \in Chat /\ req[r].prompt \in Seq(Said) /\ UNCHANGED conv
        /\ rounds' = WithRound(req[r].conv, req[r].prompt)
        /\ conv[req[r].conv].owner = req[r].acct
    BY <1>2 DEF SendReuse, IInv, Typed, Placed, ReqState, gateway
  <2>2. CASE c # req[r].conv
    BY <1>0, <2>1, <2>2, RoundsAdded, RoundsStay
  <2>3. CASE c = req[r].conv
    <3>1. /\ req[r].pc = "send" /\ req'[r].pc = "poll" /\ req'[r].acct = req[r].acct
          /\ req'[r].tried = req[r].tried /\ req[r].acct \in req[r].tried
      BY <1>2, SendMoves DEF Keeps, TriesCounted, Using
    <3>2. r \notin Sent(c) /\ r \in Sent(c)'
      BY <2>1, <2>3, <3>1 DEF Sent, Spent, Ended, Heading
    <3>3. Len(rounds'[c]) = Len(rounds[c]) + 1
      BY <2>1, <2>3, RoundsAdded
    <3> QED
      BY <1>0, <2>1, <3>2, <3>3, RoundCounted
  <2> QED
    BY <2>2, <2>3
<1>3. ASSUME NEW r \in Request, CreateChat(r) PROVE RoundsCounted'
  <2> SUFFICES ASSUME NEW c \in Chat PROVE Len(rounds'[c]) <= Cardinality(Sent(c)')
    BY DEF RoundsCounted, Sent, Spent
  <2> DEFINE k == req'[r].conv
  <2>1. /\ k \in Chat /\ rounds[k] = <<>> /\ req'[r].pc = "poll"
        /\ rounds' = WithRound(k, req[r].prompt)
        /\ req'[r].acct = req[r].acct /\ req'[r].tried = req[r].tried
        /\ req[r].acct \in req[r].tried
    BY <1>3, CreateMoves DEF Keeps, TriesCounted, Using
  <2>2. /\ conv'[k].owner = req[r].acct
        /\ \A d \in Chat \ {k} : conv'[d] = conv[d]
    BY <1>3, CreateConv
  <2> HIDE DEF k
  <2>3. req[r].prompt \in Seq(Said)
    BY DEF IInv, Typed, ReqState
  <2>4. /\ Len(rounds'[k]) = Len(rounds[k]) + 1
        /\ \A d \in Chat \ {k} : rounds'[d] = rounds[d]
    BY <2>1, <2>3, RoundsAdded
  <2>5. CASE c # k
    BY <1>0, <2>2, <2>4, <2>5, RoundsStay
  <2>6. CASE c = k
    <3>1. Len(rounds'[c]) = 1
      <4>1. Len(rounds[k]) = 0
        BY <2>1
      <4> QED
        BY <2>4, <2>6, <4>1
    <3>2. r \in Sent(c)'
      BY <2>1, <2>2, <2>6 DEF Sent, Spent, Ended, Heading
    <3>3. Sent(c)' \in SUBSET Request
      BY DEF Sent
    <3>4. Cardinality({}) + 1 <= Cardinality(Sent(c)')
      BY <3>2, <3>3, RequestsFinite
    <3> QED
      BY <3>1, <3>4, FS_EmptySet
  <2> QED
    BY <2>5, <2>6
<1>4. ASSUME NEW c \in Chat, NEW n \in DOMAIN rounds[c], RoundEnds(c, n)
      PROVE  RoundsCounted'
  <2>1. UNCHANGED conv /\ \A d \in Chat : Len(rounds'[d]) = Len(rounds[d])
    BY <1>4, SameLengths DEF RoundEnds, gateway
  <2> QED
    BY <1>1, <2>1
<1>5. ASSUME NEW r \in Request, NEW out \in SUBSET Chat, NEW delivered \in BOOLEAN,
             Finalize(r, out, delivered)
      PROVE  RoundsCounted'
  <2>1. UNCHANGED rounds /\ \A d \in Chat : conv'[d].owner = conv[d].owner
    BY <1>5, FinalizeConv DEF Finalize
  <2> QED
    BY <1>1, <2>1
<1>6. ASSUME UNCHANGED <<conv, rounds>> PROVE RoundsCounted'
  BY <1>1, <1>6
<1> QED
  BY <1>2, <1>3, <1>4, <1>5, <1>6
  DEF Next, Ask, Choose, GiveUp, Lock, Match, Cut, SendFails, CreateFails, PollReturns,
      PollFails, SecondPasses, Restart, Quiet, vars, gateway

LEMMA NextTurns ==
    ASSUME IInv, TurnsCounted, [Next]_vars
    PROVE  TurnsCounted'
<1>1. /\ Done \in SUBSET Request /\ Done' \in SUBSET Request /\ Done \subseteq Done'
  BY DoneStays DEF Done
<1>2. /\ Cardinality(Done) \in Nat /\ Cardinality(Done') \in Nat
      /\ Cardinality(Done) <= Cardinality(Done')
      /\ \A r \in Done' \ Done : Cardinality(Done) + 1 <= Cardinality(Done')
  BY <1>1, RequestsFinite
<1>3. \A c \in Chat : conv[c].turns \in Nat /\ conv[c].turns <= Cardinality(Done) + 1
  BY DEF IInv, Typed, ConvState, TurnsCounted
<1>4. ASSUME NEW r \in Request, CreateChat(r) PROVE TurnsCounted'
  <2>1. \A c \in Chat : conv'[c].turns \in {1, conv[c].turns}
    BY <1>4, CreateConv
  <2>2. \A c \in Chat : conv'[c].turns <= Cardinality(Done') + 1
    BY <1>2, <1>3, <2>1
  <2> QED
    BY <2>2 DEF TurnsCounted
<1>5. ASSUME NEW r \in Request, NEW out \in SUBSET Chat, NEW delivered \in BOOLEAN,
             Finalize(r, out, delivered)
      PROVE  TurnsCounted'
  <2>1. \A c \in Chat : conv'[c].turns \in {conv[c].turns + 1, conv[c].turns}
    BY <1>5, FinalizeConv
  <2>2. r \in Done' \ Done
    BY <1>5, ReturnMoves DEF Finalize, Done
  <2>3. \A c \in Chat : conv'[c].turns <= Cardinality(Done') + 1
    BY <1>2, <1>3, <2>1, <2>2
  <2> QED
    BY <2>3 DEF TurnsCounted
<1>6. ASSUME UNCHANGED conv PROVE TurnsCounted'
  <2>1. \A c \in Chat : conv'[c].turns <= Cardinality(Done') + 1
    BY <1>2, <1>3, <1>6
  <2> QED
    BY <2>1 DEF TurnsCounted
<1> QED
  BY <1>4, <1>5, <1>6
  DEF Next, Ask, Choose, GiveUp, Lock, Match, Cut, SendReuse, SendFails, CreateFails,
      PollReturns, PollFails, RoundEnds, SecondPasses, Restart, Quiet, vars, gateway

LEMMA NextClocked ==
    ASSUME IInv, Clocked, [Next]_vars
    PROVE  Clocked'
<1>0. now \in Nat /\ MaxSeconds \in Nat
  BY BoundsAssumption DEF IInv, Typed
<1>1. ASSUME NEW r \in Request, CreateChat(r) PROVE Clocked'
  <2>1. UNCHANGED now /\ \A c \in Chat : conv'[c].stamp \in {0, conv[c].stamp}
    <3>1. UNCHANGED now
      BY <1>1 DEF CreateChat
    <3> QED
      BY <1>1, <3>1, CreateConv
  <2> QED
    BY <1>0, <2>1 DEF Clocked
<1>2. ASSUME NEW r \in Request, NEW out \in SUBSET Chat, NEW delivered \in BOOLEAN,
             Finalize(r, out, delivered)
      PROVE  Clocked'
  <2>1. UNCHANGED now /\ \A c \in Chat : conv'[c].stamp \in {now, conv[c].stamp}
    BY <1>2, FinalizeConv DEF Finalize
  <2> QED
    BY <1>0, <2>1 DEF Clocked
<1>3. CASE SecondPasses
  BY <1>0, <1>3 DEF SecondPasses, Clocked
<1>4. ASSUME UNCHANGED <<conv, now>> PROVE Clocked'
  BY <1>4 DEF Clocked
<1> QED
  BY <1>1, <1>2, <1>3, <1>4
  DEF Next, Ask, Choose, GiveUp, Lock, Match, Cut, SendReuse, SendFails, CreateFails,
      PollReturns, PollFails, RoundEnds, Restart, Quiet, vars, gateway

----------------------------------------------------------------------------
(* The messages there are: what is asked, and what is answered in a round  *)
(* that a request has caused.                                              *)

Words(r) ==
    /\ req[r].msgs \in Seq(Message) /\ req[r].prompt \in Seq(Message)
    /\ req[r].got \in Message \cup {None}
    /\ req[r].pc = "finalize" => req[r].got \in Message

ChatWords(c) ==
    /\ conv[c].absorbed \in Seq(Message)
    /\ \A i \in 1..Len(rounds[c]) : rounds[c][i].prompt \in Seq(Message)

UserWords(u) == hist[u] \in Seq(Message) /\ last[u] \in Seq(Message)

Worded ==
    /\ \A r \in Request : Words(r)
    /\ \A c \in Chat : ChatWords(c)
    /\ \A u \in User : UserWords(u)

LEMMA NoWords == <<>> \in Seq(Message)
  BY EmptySeq

\* A step of request r that leaves the chats and the users alone.
LEMMA WordsStep ==
    ASSUME Worded, NEW r \in Request, Others(r), Words(r)',
           UNCHANGED <<conv, rounds, hist, last>>
    PROVE  Worded'
<1>1. \A q \in Request : Words(q)'
  BY DEF Worded, Words, Others
<1>2. (\A c \in Chat : ChatWords(c)') /\ \A u \in User : UserWords(u)'
  BY DEF Worded, ChatWords, UserWords
<1> QED
  BY <1>1, <1>2 DEF Worded

LEMMA AskWords ==
    ASSUME IInv, Worded, NEW r \in Request, NEW u \in User, NEW msgs \in Sendable(u, r),
           NEW id \in Nameable(u), Ask(u, r, msgs, id)
    PROVE  Worded'
<1>1. msgs \in Seq(Message)
  <2>1. Asked(r) \in Message
    BY DEF Message
  <2>2. hist[u] \in Seq(Message) /\ last[u] \in Seq(Message) /\ <<Asked(r)>> \in Seq(Message)
    BY <2>1 DEF Worded, UserWords
  <2>3. hist[u] \o <<Asked(r)>> \in Seq(Message)
    BY <2>2
  <2> QED
    BY <2>2, <2>3 DEF Sendable
<1>2. /\ Others(r) /\ req'[r].pc = "choose" /\ req'[r].msgs = msgs
      /\ req'[r].prompt = <<>> /\ req'[r].got = None
  BY AskMoves
<1>3. \A q \in Request : Words(q)'
  BY <1>1, <1>2, NoWords DEF Worded, Words, Others
<1>4. \A c \in Chat : ChatWords(c)'
  BY DEF Ask, gateway, Worded, ChatWords
<1>5. \A v \in User : UserWords(v)'
  <2>1. last \in [User -> Seq(Said)] /\ last' = [last EXCEPT ![u] = msgs] /\ hist' = hist
    BY DEF Ask, IInv, Typed
  <2> QED
    BY <1>1, <2>1 DEF Worded, UserWords
<1> QED
  BY <1>3, <1>4, <1>5 DEF Worded

\* The rounds of a chat after one more.
LEMMA RoundWords ==
    ASSUME IInv, Worded, NEW k \in Chat, NEW prompt \in Seq(Said), prompt \in Seq(Message),
           rounds' = WithRound(k, prompt)
    PROVE  \A c \in Chat, i \in Nat :
               i \in 1..Len(rounds'[c]) => rounds'[c][i].prompt \in Seq(Message)
<1>1. /\ rounds'[k] = Append(rounds[k], [prompt |-> prompt, state |-> "running"])
      /\ \A d \in Chat \ {k} : rounds'[d] = rounds[d]
  BY RoundsAdded
<1>2. rounds[k] \in Seq(Round) /\ [prompt |-> prompt, state |-> "running"] \in Round
  BY DEF IInv, Typed, Round
<1>3. \A i \in 1..Len(rounds[k]) : rounds[k][i].prompt \in Seq(Message)
  BY DEF Worded, ChatWords
<1>4. ASSUME NEW i \in Nat, i \in 1..Len(rounds'[k])
      PROVE  rounds'[k][i].prompt \in Seq(Message)
  <2>1. CASE i = Len(rounds[k]) + 1
    <3>1. rounds'[k][i] = [prompt |-> prompt, state |-> "running"]
      BY <1>1, <1>2, <2>1
    <3> QED
      BY <3>1
  <2>2. CASE i # Len(rounds[k]) + 1
    <3>1. i \in 1..Len(rounds[k]) /\ rounds'[k][i] = rounds[k][i]
      BY <1>1, <1>2, <1>4, <2>2
    <3> QED
      BY <1>3, <3>1
  <2> QED
    BY <2>1, <2>2
<1>5. \A d \in Chat \ {k}, i \in Nat :
        i \in 1..Len(rounds'[d]) => rounds'[d][i].prompt \in Seq(Message)
  BY <1>1 DEF Worded, ChatWords
<1> QED
  BY <1>4, <1>5

LEMMA SendWords ==
    ASSUME IInv, Worded, NEW r \in Request, SendReuse(r)
    PROVE  Worded'
<1>1. /\ req[r].conv \in Chat /\ req[r].prompt \in Seq(Said)
      /\ rounds' = WithRound(req[r].conv, req[r].prompt)
      /\ UNCHANGED <<conv, hist, last>>
  BY DEF SendReuse, IInv, Typed, Placed, ReqState, gateway, users
<1>2. \A q \in Request : Words(q)'
  BY SendMoves DEF Worded, Words, Others, Keeps, Speaks
<1>3. req[r].prompt \in Seq(Message)
  BY DEF Worded, Words
<1>4. \A c \in Chat : ChatWords(c)'
  BY <1>1, <1>3, RoundWords DEF Worded, ChatWords
<1> QED
  BY <1>1, <1>2, <1>4 DEF Worded, UserWords

LEMMA CreateWords ==
    ASSUME IInv, Worded, NEW r \in Request, CreateChat(r)
    PROVE  Worded'
<1> DEFINE k == req'[r].conv
<1>1. k \in Chat /\ rounds' = WithRound(k, req[r].prompt)
  BY CreateMoves
<1>2. \A c \in Chat : conv'[c].absorbed \in {<<>>, conv[c].absorbed}
  BY CreateConv
<1> HIDE DEF k
<1>3. req[r].prompt \in Seq(Said) /\ req[r].prompt \in Seq(Message)
  BY DEF IInv, Typed, ReqState, Worded, Words
<1>4. \A q \in Request : Words(q)'
  <2>1. Others(r) /\ Keeps(r) /\ Speaks(r) /\ req'[r].pc = "poll"
    BY CreateMoves
  <2> QED
    BY <2>1 DEF Worded, Words, Others, Keeps, Speaks
<1>5. \A c \in Chat : ChatWords(c)'
  <2>1. \A c \in Chat, i \in Nat :
          i \in 1..Len(rounds'[c]) => rounds'[c][i].prompt \in Seq(Message)
    BY <1>1, <1>3, RoundWords
  <2>2. \A c \in Chat : conv'[c].absorbed \in Seq(Message)
    BY <1>2, NoWords DEF Worded, ChatWords
  <2> QED
    BY <2>1, <2>2 DEF ChatWords
<1>6. UNCHANGED <<hist, last>>
  BY DEF CreateChat, users
<1> QED
  BY <1>4, <1>5, <1>6 DEF Worded, UserWords

LEMMA PollWords ==
    ASSUME IInv, RoundsCounted, Worded, NEW r \in Request, PollReturns(r)
    PROVE  Worded'
<1>1. PICK n \in Listed(req[r].conv) : req'[r].got = Reply(req[r].conv, n)
  BY PollMoves
<1>2. req[r].conv \in Chat
  BY PollMoves DEF IInv, Placed
<1>3. rounds[req[r].conv] \in Seq(Round) /\ n \in DOMAIN rounds[req[r].conv]
  BY <1>2 DEF IInv, Typed, Listed
<1>4. n \in 1..Cardinality(Request)
  <2>1. n \in 1..Len(rounds[req[r].conv])
    BY <1>3
  <2>2. /\ Sent(req[r].conv) \in SUBSET Request
        /\ Len(rounds[req[r].conv]) <= Cardinality(Sent(req[r].conv))
        /\ Len(rounds[req[r].conv]) \in Nat
    BY <1>2, <1>3 DEF RoundsCounted, Sent
  <2>3. /\ Cardinality(Sent(req[r].conv)) \in Nat /\ Cardinality(Request) \in Nat
        /\ Cardinality(Sent(req[r].conv)) <= Cardinality(Request)
    BY <2>2, RequestsFinite
  <2> QED
    BY <2>1, <2>2, <2>3
<1>5. req'[r].got \in Message
  BY <1>1, <1>2, <1>4 DEF Message
<1>6. Words(r)'
  BY <1>5, PollMoves DEF Worded, Words, Keeps
<1> QED
  BY <1>6, PollMoves, WordsStep DEF PollReturns, users

LEMMA FinalizeWords ==
    ASSUME IInv, Worded, NEW r \in Request, NEW out \in SUBSET Chat,
           NEW delivered \in BOOLEAN, Finalize(r, out, delivered)
    PROVE  Worded'
<1>1. Recorded(r) \in Seq(Message)
  <2>1. req[r].msgs \in Seq(Message) /\ req[r].got \in Message
    BY FinalizeConv DEF Worded, Words
  <2>2. <<req[r].got>> \in Seq(Message)
    BY <2>1
  <2> QED
    BY <2>1, <2>2 DEF Recorded
<1>2. /\ Others(r) /\ req'[r].pc = "done" /\ req'[r].msgs = <<>>
      /\ req'[r].prompt = <<>> /\ req'[r].got = None
  BY ReturnMoves DEF Finalize
<1>3. \A q \in Request : Words(q)'
  BY <1>2, NoWords DEF Worded, Words, Others
<1>4. \A c \in Chat : conv'[c].absorbed \in {Recorded(r), conv[c].absorbed}
  BY FinalizeConv
<1>5. \A c \in Chat : ChatWords(c)'
  BY <1>1, <1>4 DEF Finalize, Worded, ChatWords
<1>6. \A u \in User : hist'[u] \in {Recorded(r), hist[u]} /\ last'[u] = last[u]
  BY DEF Finalize, IInv, Typed
<1>7. \A u \in User : UserWords(u)'
  BY <1>1, <1>6 DEF Worded, UserWords
<1> QED
  BY <1>3, <1>5, <1>7 DEF Worded

LEMMA NextWorded ==
    ASSUME IInv, RoundsCounted, Worded, [Next]_vars
    PROVE  Worded'
<1>1. ASSUME NEW r \in Request, NEW a \in Account, Choose(r, a) PROVE Worded'
  <2>1. Words(r)'
    BY <1>1, ChooseMoves DEF Worded, Words, Speaks
  <2> QED
    BY <1>1, <2>1, ChooseMoves, WordsStep DEF Choose, gateway, users
<1>2. ASSUME NEW r \in Request, GiveUp(r) PROVE Worded'
  <2>1. Words(r)'
    BY <1>2, ReturnMoves, NoWords DEF GiveUp, Words
  <2> QED
    BY <1>2, <2>1, ReturnMoves, WordsStep DEF GiveUp, gateway, users
<1>3. ASSUME NEW r \in Request, Lock(r) \/ SendFails(r) \/ CreateFails(r) \/ PollFails(r)
      PROVE  Worded'
  <2>1. /\ Others(r) /\ Keeps(r) /\ Speaks(r) /\ req'[r].pc # "finalize"
        /\ UNCHANGED <<conv, rounds, hist, last>>
    BY <1>3, GotoMoves DEF Lock, SendFails, CreateFails, PollFails, gateway, users
  <2>2. Words(r)'
    BY <2>1 DEF Worded, Words, Keeps, Speaks
  <2> QED
    BY <2>1, <2>2, WordsStep
<1>4. ASSUME NEW r \in Request, Match(r) PROVE Worded'
  <2>1. /\ req'[r].msgs = req[r].msgs /\ req'[r].prompt \in {req[r].prompt, req[r].msgs}
        /\ req'[r].got = req[r].got /\ req'[r].pc # "finalize" /\ Others(r)
    BY <1>4, MatchMoves DEF Keeps
  <2>2. Words(r)'
    BY <2>1 DEF Worded, Words
  <2>3. UNCHANGED <<conv, rounds, hist, last>>
    BY <1>4 DEF Match, gateway, users
  <2> QED
    BY <2>1, <2>2, <2>3, WordsStep
<1>5. ASSUME NEW r \in Request, Cut(r) PROVE Worded'
  <2> DEFINE k == Len(conv[req[r].conv].absorbed)
  <2>1. UNCHANGED <<conv, rounds, hist, last>> /\ Others(r)
    BY <1>5, CutMoves DEF Cut, users
  <2>2. CASE Goto(r, "cut", "panic") \/ Return(r, "cut")
    <3>1. Words(r)'
      BY <2>2, GotoMoves, ReturnMoves, NoWords DEF Worded, Words, Keeps, Speaks
    <3> QED
      BY <2>1, <3>1, WordsStep
  <2>3. CASE /\ Keeps(r) /\ req'[r].pc = "send" /\ req'[r].got = req[r].got
             /\ req'[r].prompt = TailAfter(req[r].msgs, k)
    <3>1. k \in Nat
      <4>1. req[r].conv \in Chat
        BY <1>5, CutMoves DEF IInv, Placed
      <4>2. conv[req[r].conv].absorbed \in Seq(Said)
        BY <4>1 DEF IInv, Typed, ConvState
      <4> QED
        BY <4>2
    <3> HIDE DEF k
    <3>2. req[r].msgs \in Seq(Message)
      BY DEF Worded, Words
    <3>3. TailAfter(req[r].msgs, k) \in Seq(Message)
      BY <3>1, <3>2 DEF TailAfter
    <3>4. Words(r)'
      BY <2>3, <3>3 DEF Worded, Words, Keeps
    <3> QED
      BY <2>1, <3>4, WordsStep
  <2> QED
    BY <1>5, <2>2, <2>3, CutMoves
<1>6. ASSUME NEW c \in Chat, NEW n \in DOMAIN rounds[c], RoundEnds(c, n) PROVE Worded'
  <2>1. /\ \A d \in Chat : Len(rounds'[d]) = Len(rounds[d]) /\ Len(rounds[d]) \in Nat
        /\ \A d \in Chat, i \in Nat : i \in 1..Len(rounds[d]) =>
              rounds'[d][i].prompt = rounds[d][i].prompt
    BY <1>6, SameLengths
  <2>2. UNCHANGED <<conv, req, hist, last>>
    BY <1>6 DEF RoundEnds, gateway, users
  <2>3. \A d \in Chat : ChatWords(d)'
    BY <2>1, <2>2 DEF Worded, ChatWords
  <2> QED
    BY <2>2, <2>3 DEF Worded, Words, UserWords
<1>7. CASE Restart
  <2>1. UNCHANGED <<conv, rounds, hist, last>>
    BY <1>7 DEF Restart, users
  <2>2. ASSUME NEW q \in Request PROVE Words(q)'
    <3>1. CASE InFlight(q)
      BY <1>7, <3>1, NoWords DEF Restart, Words, Fresh
    <3>2. CASE ~InFlight(q)
      BY <1>7, <3>2 DEF Restart, Worded, Words
    <3> QED
      BY <3>1, <3>2
  <2> QED
    BY <2>1, <2>2 DEF Worded, ChatWords, UserWords
<1>8. ASSUME UNCHANGED <<conv, req, rounds, hist, last>> PROVE Worded'
  BY <1>8 DEF Worded, Words, ChatWords, UserWords
<1>9. CASE UNCHANGED vars \/ SecondPasses
  BY <1>8, <1>9 DEF SecondPasses, vars, gateway, users
<1> QED
  BY <1>1, <1>2, <1>3, <1>4, <1>5, <1>6, <1>7, <1>9,
     AskWords, SendWords, CreateWords, PollWords, FinalizeWords
  DEF Next, Quiet

LEMMA WordsInvariance == Spec => [](RoundsCounted /\ TurnsCounted /\ Clocked /\ Worded)
<1>1. Init => RoundsCounted /\ TurnsCounted /\ Clocked /\ Worded
  <2> SUFFICES ASSUME Init PROVE RoundsCounted /\ TurnsCounted /\ Clocked /\ Worded
    OBVIOUS
  <2>1. RoundsCounted
    <3>1. ASSUME NEW c \in Chat PROVE Len(rounds[c]) <= Cardinality(Sent(c))
      <4>1. Sent(c) \in SUBSET Request
        BY DEF Sent
      <4>2. Cardinality(Sent(c)) \in Nat
        BY <4>1, RequestsFinite
      <4>3. Len(rounds[c]) = 0
        BY DEF Init
      <4> QED
        BY <4>2, <4>3
    <3> QED
      BY <3>1 DEF RoundsCounted
  <2>2. TurnsCounted
    <3>1. Done \in SUBSET Request
      BY DEF Done
    <3>2. Cardinality(Done) \in Nat
      BY <3>1, RequestsFinite
    <3> QED
      BY <3>2 DEF Init, Unknown, TurnsCounted
  <2>3. Clocked
    BY BoundsAssumption DEF Init, Unknown, Clocked
  <2>4. Worded
    <3>1. \A r \in Request : Words(r)
      BY NoWords DEF Init, Fresh, Words
    <3>2. \A c \in Chat : ChatWords(c)
      <4>1. ASSUME NEW c \in Chat PROVE ChatWords(c)
        <5>1. conv[c].absorbed = <<>> /\ Len(rounds[c]) = 0 /\ 1..0 = {}
          BY DEF Init, Unknown
        <5> QED
          BY <5>1, NoWords DEF ChatWords
      <4> QED
        BY <4>1
    <3>3. \A u \in User : UserWords(u)
      BY NoWords DEF Init, UserWords
    <3> QED
      BY <3>1, <3>2, <3>3 DEF Worded
  <2> QED
    BY <2>1, <2>2, <2>3, <2>4
<1> QED
  BY <1>1, Invariance, TriesInvariance, NextRounds, NextTurns, NextClocked, NextWorded, PTL
  DEF Spec

\* The types of TypeOK from what the invariants know.
LEMMA WordsAreMessages ==
    ASSUME NEW s \in Seq(Message)
    PROVE  IsMessages(s)
<1>1. \A i \in DOMAIN s : s[i] \in Message
  OBVIOUS
<1> QED
  BY <1>1 DEF IsMessages, Range

\* Type correctness of the conversation table, its counters included: a chat is
\* continued once by each request at most, so that neither its rounds nor its
\* turns run ahead of the requests, and every message that is recorded, sent or
\* handed out is one that was asked or answered.
THEOREM TypeCorrect == Spec => []TypeOK
<1>1. ASSUME IInv, SendLocked, TurnsCounted, Clocked, Worded
      PROVE  TypeOK
  <2>1. ASSUME NEW c \in Chat
        PROVE  /\ conv[c].owner \in Account \cup {None}
               /\ IsMessages(conv[c].absorbed)
               /\ conv[c].turns \in 0..Cardinality(Request) + 1
               /\ conv[c].stamp \in 0..MaxSeconds
               /\ \A i \in DOMAIN rounds[c] :
                     /\ IsMessages(rounds[c][i].prompt)
                     /\ rounds[c][i].state \in {"running", "done"}
    <3>1. conv[c] \in ConvState /\ rounds[c] \in Seq(Round)
      BY <1>1 DEF IInv, Typed
    <3>2. conv[c].turns \in Nat /\ conv[c].stamp \in Nat /\ conv[c].owner \in Account \cup {None}
      BY <3>1 DEF ConvState
    <3>3. Done \in SUBSET Request
      BY DEF Done
    <3>4. /\ Cardinality(Done) \in Nat /\ Cardinality(Request) \in Nat
          /\ Cardinality(Done) <= Cardinality(Request)
      BY <3>3, RequestsFinite
    <3>5. conv[c].turns \in 0..Cardinality(Request) + 1
      BY <1>1, <3>2, <3>4 DEF TurnsCounted
    <3>6. conv[c].stamp \in 0..MaxSeconds
      BY <1>1, <3>2, BoundsAssumption DEF Clocked
    <3>7. IsMessages(conv[c].absorbed)
      BY <1>1, WordsAreMessages DEF Worded, ChatWords
    <3>8. ASSUME NEW i \in DOMAIN rounds[c]
          PROVE  /\ IsMessages(rounds[c][i].prompt)
                 /\ rounds[c][i].state \in {"running", "done"}
      <4>1. i \in 1..Len(rounds[c]) /\ rounds[c][i] \in Round
        BY <3>1
      <4>2. rounds[c][i].prompt \in Seq(Message)
        BY <1>1, <4>1 DEF Worded, ChatWords
      <4>3. rounds[c][i].state \in {"running", "done"}
        BY <4>1 DEF Round
      <4> QED
        BY <4>2, <4>3, WordsAreMessages
    <3> QED
      BY <3>2, <3>5, <3>6, <3>7, <3>8
  <2>2. /\ table \subseteq Chat
        /\ latest \in [Account -> Chat \cup {None}]
        /\ sendMu \in [Account -> Request \cup {None}]
        /\ lastConv \in [User -> Chat \cup {None}]
    BY <1>1 DEF IInv, Typed, SendLocked
  <2>3. now \in 0..MaxSeconds
    BY <1>1, BoundsAssumption DEF IInv, Typed, Clocked
  <2>4. ASSUME NEW r \in Request
        PROVE  /\ req[r].pc \in {"new", "choose", "lock", "match", "cut", "send", "create",
                                 "poll", "finalize", "done", "panic", "lost"}
               /\ req[r].user \in User \cup {None}
               /\ IsMessages(req[r].msgs) /\ IsMessages(req[r].prompt)
               /\ req[r].acct \in Account \cup {None} /\ req[r].tried \subseteq Account
               /\ {req[r].conv, req[r].forced} \subseteq Chat \cup {None}
               /\ req[r].got \in Message \cup {None}
    <3>1. req[r] \in ReqState
      BY <1>1 DEF IInv, Typed
    <3>2. /\ req[r].pc \in {"new", "choose", "lock", "match", "cut", "send", "create",
                            "poll", "finalize", "done", "panic", "lost"}
          /\ req[r].user \in User \cup {None}
          /\ req[r].acct \in Account \cup {None} /\ req[r].tried \subseteq Account
          /\ {req[r].conv, req[r].forced} \subseteq Chat \cup {None}
      BY <3>1 DEF ReqState, Using
    <3>3. /\ req[r].msgs \in Seq(Message) /\ req[r].prompt \in Seq(Message)
          /\ req[r].got \in Message \cup {None}
      BY <1>1 DEF Worded, Words
    <3> QED
      BY <3>2, <3>3, WordsAreMessages
  <2>5. ASSUME NEW u \in User PROVE IsMessages(hist[u]) /\ IsMessages(last[u])
    <3>1. hist[u] \in Seq(Message) /\ last[u] \in Seq(Message)
      BY <1>1 DEF Worded, UserWords
    <3> QED
      BY <3>1, WordsAreMessages
  <2> QED
    BY <2>1, <2>2, <2>3, <2>4, <2>5 DEF TypeOK
<1> QED
  BY <1>1, Invariance, LockInvariance, WordsInvariance, PTL

=============================================================================
