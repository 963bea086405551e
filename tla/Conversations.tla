----------------------------- MODULE Conversations -----------------------------
(***************************************************************************)
(* The conversation table of internal/server/handler.go: how a request is  *)
(* matched to an upstream chat (planConversation), what is sent there      *)
(* (driveConversation), which reply is taken (PollAssistant in             *)
(* internal/upstream/client.go) and what is recorded of it                 *)
(* (finalizeConversation, evictConvsLocked, saveConvsLocked, loadConvs).   *)
(*                                                                         *)
(* Abstractions.  A message is what its fingerprint tells apart, and a     *)
(* fingerprint is the sequence it is computed from.  Which account a       *)
(* request uses is left open here (ChatDispatch.tla has the choice): any   *)
(* account it has not tried.  The two tries of driveConversation at a new  *)
(* chat are one step that succeeds or fails.  Every change of the table is *)
(* made by finalizeConversation, which saves it before it releases convMu: *)
(* the file is the table, and a restart loses what is in flight.           *)
(*                                                                         *)
(* The upstream is external: a chat is a sequence of rounds, and the same  *)
(* chat answers under one conversationId (docs/reverse-engineering.md:90). *)
(***************************************************************************)
EXTENDS Integers, FiniteSets, SequencesExt

CONSTANTS
    Account,
    User,           \* clients, each with the history it has seen
    Request,        \* requests, each handled once
    MaxChats,       \* bound on the chats that are created
    MaxConvs,       \* maxConvs: size of the table
    MaxConvTurns,   \* maxConvTurns: turns of a chat that stateless clients share
    MaxSeconds,     \* bound on the clock that stamps the conversations
    ParallelAsks,   \* may a user ask again before its last request is answered?
    ReuseCanFail,   \* may SendMessage fail on an existing chat?
    HistoryShows,   \* the rounds the history endpoint lists: "latest" or "all"
    CanRestart,
    None

Chat == 1..MaxChats

ASSUME NoneAssumption == None \notin Account \cup Chat \cup Request
ASSUME RequestAssumption == IsFiniteSet(Request)
ASSUME BoundsAssumption ==
    /\ {MaxChats, MaxConvs, MaxConvTurns} \subseteq Nat \ {0}
    /\ MaxSeconds \in Nat
ASSUME UpstreamAssumption == HistoryShows \in {"latest", "all"}
ASSUME SwitchAssumption == {ParallelAsks, ReuseCanFail, CanRestart} \subseteq BOOLEAN

\* What a user types in request r, and what round n of chat c answers.
Asked(r) == [role |-> "user", by |-> r, n |-> 0]
Reply(c, n) == [role |-> "assistant", by |-> c, n |-> n]

VARIABLES
    \* the gateway
    conv,       \* what is known of each chat: convState
    table,      \* h.convs: the chats it lists
    latest,     \* h.latest: the last chat of each account
    sendMu,     \* the request that holds an account's send lock
    now,        \* the second UpdatedAt would be set to
    req,        \* the goroutine of each request
    \* outside
    rounds,     \* the upstream's rounds of each chat
    hist,       \* the history each user has seen
    last,       \* the messages it last sent
    lastConv    \* the conversation id it was last given

gateway == <<conv, table, latest, sendMu, now>>
users == <<hist, last, lastConv>>
vars == <<gateway, req, rounds, users>>

Unknown == [owner |-> None, absorbed |-> <<>>, turns |-> 0, stamp |-> 0]

Fresh == [pc |-> "new", user |-> None, msgs |-> <<>>, forced |-> None, acct |-> None,
          tried |-> {}, conv |-> None, matched |-> 0, prompt |-> <<>>, round |-> 0,
          got |-> None]

Message == {Asked(r) : r \in Request} \cup {Reply(c, n) : c \in Chat, n \in 1..Cardinality(Request)}

IsMessages(s) == Range(s) \subseteq Message

TypeOK ==
    /\ \A c \in Chat :
        /\ conv[c].owner \in Account \cup {None}
        /\ IsMessages(conv[c].absorbed)
        /\ conv[c].turns \in 0..Cardinality(Request) + 1
        /\ conv[c].stamp \in 0..MaxSeconds
        /\ \A i \in DOMAIN rounds[c] :
            /\ IsMessages(rounds[c][i].prompt)
            /\ rounds[c][i].state \in {"running", "done"}
    /\ table \subseteq Chat
    /\ latest \in [Account -> Chat \cup {None}]
    /\ sendMu \in [Account -> Request \cup {None}]
    /\ now \in 0..MaxSeconds
    /\ \A r \in Request :
        /\ req[r].pc \in {"new", "choose", "lock", "match", "cut", "send", "create",
                          "poll", "finalize", "done", "panic", "lost"}
        /\ req[r].user \in User \cup {None}
        /\ IsMessages(req[r].msgs) /\ IsMessages(req[r].prompt)
        /\ req[r].acct \in Account \cup {None} /\ req[r].tried \subseteq Account
        /\ {req[r].conv, req[r].forced} \subseteq Chat \cup {None}
        /\ req[r].got \in Message \cup {None}
    /\ \A u \in User : IsMessages(hist[u]) /\ IsMessages(last[u])
    /\ lastConv \in [User -> Chat \cup {None}]

Init ==
    /\ conv = [c \in Chat |-> Unknown]
    /\ table = {}
    /\ latest = [a \in Account |-> None]
    /\ sendMu = [a \in Account |-> None]
    /\ now = 0
    /\ req = [r \in Request |-> Fresh]
    /\ rounds = [c \in Chat |-> <<>>]
    /\ hist = [u \in User |-> <<>>]
    /\ last = [u \in User |-> <<>>]
    /\ lastConv = [u \in User |-> None]

----------------------------------------------------------------------------
InFlight(r) == req[r].pc \notin {"new", "done", "panic", "lost"}

Goto(r, from, to) == req[r].pc = from /\ req' = [req EXCEPT ![r].pc = to]

\* The goroutine ends and its variables with it.
Return(r, from) == req[r].pc = from /\ req' = [req EXCEPT ![r] = [Fresh EXCEPT !.pc = "done"]]

Unlock(r) == sendMu' = [sendMu EXCEPT ![req[r].acct] = None]

(* A user asks.  It may replay the history it has seen with a new message, *)
(* send the new message alone, repeat its last request, or replay the      *)
(* history with nothing new; and it may name the conversation.             *)

Sendable(u, r) ==
    {hist[u] \o <<Asked(r)>>, <<Asked(r)>>, last[u], hist[u]} \ {<<>>}

Nameable(u) == {None} \cup ({lastConv[u]} \cap table)

Ask(u, r, msgs, id) ==
    /\ req[r].pc = "new"
    /\ ParallelAsks \/ \A q \in Request : InFlight(q) => req[q].user # u
    /\ req' = [req EXCEPT ![r] = [Fresh EXCEPT !.pc = "choose", !.user = u,
                                               !.msgs = msgs, !.forced = id]]
    /\ last' = [last EXCEPT ![u] = msgs]
    /\ UNCHANGED <<gateway, rounds, hist, lastConv>>

\* Variant: a named conversation does not pin its owner.
EligibleAny(r) == Account \ req[r].tried

\* The owner of the named conversation, once; otherwise an account not tried.
Eligible(r) ==
    IF req[r].forced # None THEN {conv[req[r].forced].owner} \ req[r].tried
    ELSE Account \ req[r].tried

Choose(r, a) ==
    /\ req[r].pc = "choose"
    /\ a \in Eligible(r)
    /\ req' = [req EXCEPT ![r].pc = "lock", ![r].acct = a, ![r].tried = @ \cup {a}]
    /\ UNCHANGED <<gateway, rounds, users>>

GiveUp(r) ==
    /\ Return(r, "choose")
    /\ UNCHANGED <<gateway, rounds, users>>

\* Variant: nobody waits for the send lock.
LockAnyway(r) ==
    /\ Goto(r, "lock", "match")
    /\ sendMu' = [sendMu EXCEPT ![req[r].acct] = r]
    /\ UNCHANGED <<conv, table, latest, now, rounds, users>>

Lock(r) ==
    /\ Goto(r, "lock", "match")
    /\ sendMu[req[r].acct] = None
    /\ sendMu' = [sendMu EXCEPT ![req[r].acct] = r]
    /\ UNCHANGED <<conv, table, latest, now, rounds, users>>

----------------------------------------------------------------------------
(* planConversation. *)

\* The conversation a request starts from: the one it named, even if it has
\* been evicted since, or the latest of the account.
Current(r) ==
    IF req[r].forced # None THEN req[r].forced
    ELSE IF latest[req[r].acct] \in table THEN latest[req[r].acct]
    ELSE None

HasAssistant(msgs) == \E i \in DOMAIN msgs : msgs[i].role = "assistant"

\* Stateless clients share the latest chat for maxConvTurns turns.
Shareable(c, msgs) == conv[c].turns < MaxConvTurns /\ ~HasAssistant(msgs)

\* Variant: only the length of the absorbed prefix is compared.
ReplaysLength(c, msgs) == c # None /\ Len(conv[c].absorbed) <= Len(msgs)

\* The fingerprint of the absorbed prefix matches: only the tail is sent.
Replays(c, msgs) == c # None /\ IsPrefix(conv[c].absorbed, msgs)

\* It does not, but the chat is continued with all the messages.
Continues(r, c, msgs) ==
    /\ c # None /\ ~Replays(c, msgs)
    /\ req[r].forced # None \/ Shareable(c, msgs)

Match(r) ==
    /\ req[r].pc = "match"
    /\ LET c == Current(r)
           msgs == req[r].msgs
       IN  \/ /\ Replays(c, msgs)
              /\ req' = [req EXCEPT ![r].pc = "cut", ![r].conv = c,
                                    ![r].matched = Len(conv[c].absorbed)]
           \/ /\ Continues(r, c, msgs)
              /\ req' = [req EXCEPT ![r].pc = "send", ![r].conv = c, ![r].prompt = msgs]
           \/ /\ ~Replays(c, msgs) /\ ~Continues(r, c, msgs)
              /\ req' = [req EXCEPT ![r].pc = "create", ![r].conv = None,
                                    ![r].prompt = msgs]
    /\ UNCHANGED <<gateway, rounds, users>>

TailAfter(msgs, k) == SubSeq(msgs, k + 1, Len(msgs))

\* The tail is cut with conv.Absorbed read again, without convMu: it may have
\* grown since the fingerprint was compared.  Slicing past the end panics;
\* net/http recovers and nobody releases sendMu.
Cut(r) ==
    /\ req[r].pc = "cut"
    /\ LET k == Len(conv[req[r].conv].absorbed)
           msgs == req[r].msgs
       IN  \/ /\ k > Len(msgs)
              /\ Goto(r, "cut", "panic")
              /\ UNCHANGED sendMu
           \/ /\ k = Len(msgs)      \* errNoNewMessage: 400
              /\ Return(r, "cut")
              /\ Unlock(r)
           \/ /\ k < Len(msgs)
              /\ req' = [req EXCEPT ![r].pc = "send",
                                    ![r].prompt = TailAfter(msgs, k)]
              /\ UNCHANGED sendMu
    /\ UNCHANGED <<conv, table, latest, now, rounds, users>>

----------------------------------------------------------------------------
(* driveConversation: what the upstream receives. *)

WithRound(c, prompt) ==
    [rounds EXCEPT ![c] = Append(@, [prompt |-> prompt, state |-> "running"])]

SendReuse(r) ==
    /\ req[r].pc = "send"
    /\ rounds' = WithRound(req[r].conv, req[r].prompt)
    /\ req' = [req EXCEPT ![r].pc = "poll", ![r].round = Len(rounds'[req[r].conv])]
    /\ UNCHANGED <<gateway, users>>

\* The reused chat cannot be written to: the same prompt goes to a new chat.
SendFails(r) ==
    /\ ReuseCanFail
    /\ Goto(r, "send", "create")
    /\ UNCHANGED <<gateway, rounds, users>>

Unused == {c \in Chat : rounds[c] = <<>>}

CreateChat(r) ==
    /\ req[r].pc = "create"
    /\ Unused # {}
    /\ LET c == CHOOSE c \in Unused : \A d \in Unused : c <= d
       IN  /\ rounds' = WithRound(c, req[r].prompt)
           /\ conv' = [conv EXCEPT ![c] = [Unknown EXCEPT !.owner = req[r].acct, !.turns = 1]]
           /\ req' = [req EXCEPT ![r].pc = "poll", ![r].conv = c, ![r].round = 1]
    /\ UNCHANGED <<table, latest, sendMu, now, users>>

CreateFails(r) ==
    /\ Goto(r, "create", "choose")
    /\ Unlock(r)
    /\ UNCHANGED <<conv, table, latest, now, rounds, users>>

----------------------------------------------------------------------------
(* PollAssistant: the first assistant message of the history listing. *)

Listed(c) ==
    {n \in DOMAIN rounds[c] :
        /\ rounds[c][n].state = "done"
        /\ HistoryShows = "all" \/ n = Len(rounds[c])}

\* Variant: the poll returns an empty result when it finds no reply.
PollReturnsEmpty(r) ==
    /\ Goto(r, "poll", "finalize")
    /\ Unlock(r)
    /\ UNCHANGED <<conv, table, latest, now, rounds, users>>

PollReturns(r) ==
    /\ req[r].pc = "poll"
    /\ LET c == req[r].conv
       IN  \E n \in Listed(c) :
            /\ \A m \in Listed(c) : n <= m
            /\ req' = [req EXCEPT ![r].pc = "finalize", ![r].got = Reply(c, n)]
    /\ Unlock(r)
    /\ UNCHANGED <<conv, table, latest, now, rounds, users>>

\* Timeout, error answer or client gone: the round goes on without us.
PollFails(r) ==
    /\ Goto(r, "poll", "choose")
    /\ Unlock(r)
    /\ UNCHANGED <<conv, table, latest, now, rounds, users>>

RoundEnds(c, n) ==
    /\ rounds[c][n].state = "running"
    /\ rounds' = [rounds EXCEPT ![c][n].state = "done"]
    /\ UNCHANGED <<gateway, req, users>>

----------------------------------------------------------------------------
(* finalizeConversation, after sendMu is released; the table is evicted   *)
(* from and saved under convMu.  The reply may be lost on its way.         *)

Recorded(r) == req[r].msgs \o <<req[r].got>>

\* evictConvsLocked: one of the conversations with the oldest stamp.
Oldest(ids, c2) == {c \in ids : \A d \in ids : c2[c].stamp <= c2[d].stamp}

Evicted(ids, c2) ==
    IF Cardinality(ids) <= MaxConvs THEN {{}} ELSE {{c} : c \in Oldest(ids, c2)}

\* Variant: evicting a conversation leaves latest alone.
ForgetNothing(l, out) == l

\* latest without the accounts that point to an evicted conversation.
Forget(l, out) == [a \in Account |-> IF l[a] \in out THEN None ELSE l[a]]

Finalize(r, out, delivered) ==
    /\ Return(r, "finalize")
    /\ LET c == req[r].conv
       IN  /\ conv' = [conv EXCEPT ![c].absorbed = Recorded(r), ![c].turns = @ + 1,
                                   ![c].stamp = now]
           /\ out \in Evicted(table \cup {c}, conv')
           /\ table' = (table \cup {c}) \ out
           /\ latest' = Forget([latest EXCEPT ![req[r].acct] = c], out)
           /\ IF delivered
              THEN /\ hist' = [hist EXCEPT ![req[r].user] = Recorded(r)]
                   /\ lastConv' = [lastConv EXCEPT ![req[r].user] = c]
              ELSE UNCHANGED <<hist, lastConv>>
    /\ UNCHANGED <<sendMu, now, rounds, last>>

SecondPasses ==
    /\ now < MaxSeconds
    /\ now' = now + 1
    /\ UNCHANGED <<conv, table, latest, sendMu, req, rounds, users>>

\* The process is killed and started again; loadConvs reads the table back.
Restart ==
    /\ CanRestart
    /\ \E r \in Request : InFlight(r)
    /\ req' = [r \in Request |-> IF InFlight(r) THEN [Fresh EXCEPT !.pc = "lost"] ELSE req[r]]
    /\ sendMu' = [a \in Account |-> None]
    /\ UNCHANGED <<conv, table, latest, now, rounds, users>>

\* No request is left; the server goes on listening.
Quiet ==
    /\ \A r \in Request : req[r].pc # "new" /\ ~InFlight(r)
    /\ UNCHANGED vars

Next ==
    \/ \E r \in Request :
        \/ \E u \in User : \E msgs \in Sendable(u, r), id \in Nameable(u) : Ask(u, r, msgs, id)
        \/ \E a \in Account : Choose(r, a)
        \/ GiveUp(r) \/ Lock(r) \/ Match(r) \/ Cut(r)
        \/ SendReuse(r) \/ SendFails(r) \/ CreateChat(r) \/ CreateFails(r)
        \/ PollReturns(r) \/ PollFails(r)
        \/ \E out \in SUBSET Chat, delivered \in BOOLEAN : Finalize(r, out, delivered)
    \/ \E c \in Chat : \E n \in DOMAIN rounds[c] : RoundEnds(c, n)
    \/ SecondPasses \/ Restart \/ Quiet

Spec == Init /\ [][Next]_vars

----------------------------------------------------------------------------
(* Properties. *)

\* The table stays within maxConvs and the latest conversation of an account
\* is in the table and belongs to it, through evictions, evicted conversations
\* that a request in flight brings back, and restarts.
TableConsistent ==
    /\ Cardinality(table) <= MaxConvs
    /\ \A a \in Account : latest[a] # None =>
            latest[a] \in table /\ conv[latest[a]].owner = a

\* "chats are continued by chatId, the token must match" (handler.go:352): a
\* request only writes to and reads from a chat of the account it is using.
ChatOwned ==
    \A r \in Request :
        req[r].pc \in {"cut", "send", "poll", "finalize"} =>
            conv[req[r].conv].owner = req[r].acct

\* What the upstream has received and answered in a chat, in order.
Transcript(c) ==
    FlattenSeq([n \in DOMAIN rounds[c] |-> Append(rounds[c][n].prompt, Reply(c, n))])

\* How many messages of s are met, in turn, in the first j messages of t.
Met(s, t) ==
    LET met[j \in 0..Len(t)] ==
            IF j = 0 THEN 0
            ELSE LET k == met[j - 1] IN IF k < Len(s) /\ s[k + 1] = t[j] THEN k + 1 ELSE k
    IN  met

\* s is a subsequence of t: reading t, every message of s is met.
IsSubsequence(s, t) == Met(s, t)[Len(t)] = Len(s)

\* "Absorbed+Fingerprint record the prefix the server-side chat has absorbed"
\* (handler.go:65-67): every message of it was sent to that chat, or answered
\* by it, in that order.
AbsorbedDelivered ==
    \A c \in table : IsSubsequence(conv[c].absorbed, Transcript(c))

\* "the complete result of one round" (client.go:511): the reply a request
\* records and hands out answers its own message.
ReplyOfThisRound ==
    \A r \in Request :
        req[r].pc = "finalize" => req[r].got = Reply(req[r].conv, req[r].round)

----------------------------------------------------------------------------
(* What a text of the repository says and the code does not keep.  No run  *)
(* checks this; README.md says how to see it fail.                         *)

\* "fingerprint prefix matches -> send the tail" (handler.go:478): what is
\* sent is what follows the prefix that was compared.  Another request may
\* record between the comparison and the cut.
TailFollowsMatch ==
    \A r \in Request :
        /\ req[r].pc # "panic"
        /\ req[r].pc = "send" /\ req[r].matched > 0 =>
                req[r].prompt = SubSeq(req[r].msgs, req[r].matched + 1, Len(req[r].msgs))
=============================================================================
