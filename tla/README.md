# A verification of catpaw2api

catpaw2api is a Go server that offers the OpenAI chat API on top of the free
accounts of CatPaw. It rotates over a pool of accounts, keeps their tokens
fresh, watches their credit, and continues conversations in the chats the
upstream keeps. This directory holds TLA+ specifications of its core logic,
the TLC configurations that check them on small instances, and proofs that
TLAPS checks for every value of the constants. Paths below are relative to the
root of the repository.

Run a model with `tlc -workers 2 -config MCChatDispatch_live.cfg MCChatDispatch`,
a proof module with `tlapm ChatDispatchProofs.tla`.

## The system

| Part | State it keeps | Operations | What is hard about it |
|---|---|---|---|
| Account pool, `internal/pool/pool.go` | `p.accounts`: token, ban, cooldown, error count, balance; the state file | `New`, `PickExcluding`, `Validate`, `Cooldown`, `NoteError`, `NoteSuccess`, `Unfreeze`, `Disable`, `Enable`, `ClearCooldown`, `AddAccount`, `SyncToDir`, `SetBalance`, `saveState`, `loadState` | some saves run outside `p.mu` and share `state.json.tmp`; a write that fails is dropped without a word; some changes are not saved; a restart brings the file back |
| Chat dispatch, `internal/server/handler.go` `chatCompletions` | per request: attempt, tried accounts; per account: `sendMu` | pick, validate, lock, plan, drive, poll, charge the failure, try the next account | goroutines contend for accounts while the operator, the watchdog and logins change the pool; the lock is released by hand on each way out, and a panic in between leaves it taken |
| Conversation table, `handler.go`, `request.go` | `h.convs`, `h.latest`: chat, owner, absorbed prefix and its fingerprint, turns; the conversation file | `planConversation`, `driveConversation`, `finalizeConversation`, `evictConvsLocked`, `saveConvsLocked`, `loadConvs` | fields are read outside `convMu`; a chat can fail; what was sent and what is recorded can differ |
| Token renewal, `internal/scheduler/scheduler.go`, `internal/auth/auth.go` | tokens in the pool and in the auth files, `s.renewing` | `renewSweep`, `renewAccount`, `expirySweep`, `adminReload`, logins | check-then-act on tokens that a login replaces; save and install are two steps; restarts |
| Quota watchdog, `scheduler.go` `Tick` | balance, plan cooldown, time of the last apply | `refreshBalance`, `maybeApply`, cool, unfreeze | decides on and stores what it was told calls ago, next to requests that charge the same accounts; an error page can pass for balance 0 |
| Login panel, `internal/server/oauth.go` | `oauthStore`: sessions with a 15 minute life | `adminOAuthStart`, `adminOAuthPoll` | polls outlive their connection and overlap; save, add and answer are separate steps |
| Files, `auth.go` `saveLocked`, `handler.go` `saveConvsLocked`, `pool.go` `saveState` | `<path>` and `<path>.tmp` | write the temporary file, rename it | crashes, failed writes, savers without a common lock |
| Upstream client, `internal/upstream/client.go` | none of its own | one HTTP call each | an error page can pass for an answer; which assistant message is the reply, and how much of it is there |
| SSE relay, `internal/upstream/sse.go` | state of one stream | `Aggregate`, `Stream` | not reachable from a handler any more: only its tests call it |
| Model list, `handler.go` `fetchModels` | `dynamicModels`: list, time it was fetched, time of the last failure | refresh after an hour, back off for five minutes; `modelList`, `validateModel`, `mapModel` read it | many requests find it stale at once, call without the lock, and store their answers in another order |
| Replies and tools, `tools.go` `extractToolCalls`, `handler.go` `emitSyntheticStream`, `buildCompletion`, `request.go` `messageFingerprint` | one reply on its way | fetch, take the calls out, record, send | blocks that are cut off or quote one another; the client must send back what was hashed |
| Prompts, `prompt.go` | none | text in, text out | |
| Admin API and panel, `admin.go`, `panel.html` | none of their own | call the methods of the pool; `adminCredits`, `adminApply` ask the upstream first | they run next to everything above |
| Configuration, `cmd/*` | none after start | read once, or one-shot tools | |

They interact through shared memory. `chatCompletions` asks the pool for an
account and charges failures to it; the scheduler, the admin API and the login
panel call the same pool methods from their own goroutines; the auth files are
written by logins and renewals and read by `adminReload` and at start; the
state file of the pool and the conversation file survive restarts.

What makes each part correct, in the order of importance we gave them:

1. dispatch: one request at a time in the section of an account, the lock
   released on every return, no account tried twice, no request refused while it
   could be served, every request answered that does not panic;
2. conversations: what is recorded as absorbed was sent; the reply belongs to
   the question; nobody writes to a chat of another account; the table and
   `latest` agree;
3. pool: a ban or its lifting stays in force, and once it is in the file it is
   not lost to a save that fails or to a restart;
4. tokens: one renewal per account, the disk not behind the pool, expiry
   noticed, every renewal ends;
5. files: always one whole version;
6. quota: accounts without credit cool for their plan, those with credit come
   back, and the balance the pool picks by catches up with the upstream;
7. login panel: used and expired sessions stay closed, "done" means installed,
   a login that keeps being asked for completes;
8. model list: nobody is refused a model that has long been on offer, or shown
   one that has long been withdrawn, and a new model gets on the list;
9. replies: every call is made once and in order, no text is lost, and the
   message the client sends back has the fingerprint that was recorded.

## The modules

| Module | Models | State and actions |
|---|---|---|
| `AccountOps` | what each pool method does to one account, and `PickExcluding` | no state; an account is a record `[disabled, cooling, errs, bal]`, one operator per method |
| `PoolStore` | the pool, its state file and the saves on their way there | `pool`, `file`, `tmpFile` (`state.json.tmp`), `mu` (the goroutine with `p.mu`); a `Saver` calls a method, which changes the pool, and then walks through `saveState` by `pc`: `SaveOpens` (O_TRUNC), `SaveWrites`, `SaveRenames`, or `SaveFails`; `AddAccount` and `Unfreeze` do so without `p.mu` and read the pool in a step of its own (`SaveCollects`); `snap` is what was read, `handle` the file an open descriptor has become, `crossed` the saves that met another; `Restart` is `New` with `loadState` |
| `ChatDispatch` | `chatCompletions`, `Validate`, `handleUpstreamError`, and the client, operator, watchdog and login around them | `pc[r]` walks the rotation loop: pick, validate, ping, lock, plan, cut, drive, retry, poll, charge, finish; `sendMu[a]` is the holder of the lock; `agents` are the tasks the upstream runs, with or without a request that listens (`Stray`); `grown` are the requests between the two reads of `conv.Absorbed` while another one finalized: they may panic (`PlanPanics`) and leave the lock taken |
| `Conversations` | the conversation table | `table`, `conv`, `latest` as in `Handler`; requests plan, cut, lock, send, poll and finalize; `rounds[c]` is what the upstream has seen in a chat |
| `TokenRenewal` | both token sweeps, renewals, panel logins, reload, restart | tokens are numbered per account; `file` and `pool` hold a token each; `job[w]` is a goroutine of `renewAccount` or a panel request |
| `QuotaWatchdog` | the balance loop of `Tick`; `adminCredits`, `adminApply` | `pc`, `at` walk over the accounts; the upstream answers (`Answer`) before the balance is stored (`Ask`, `Recheck`), and `got` is the answer in between; `kind[a]` tells whether an account cools for its plan or for a fault; `panel` is the call of the panel in flight and what it was told |
| `AtomicStore` | the promise of an atomic file | `value`, `pending`; `Begin`, `Commit`, `Fail`, `Crash` |
| `AtomicFile` | tmp+rename on inodes | `Open` (O_TRUNC), `Write`, `Rename`, failures, `Crash`; `Store!Spec` with a refinement mapping |
| `OAuthSessions` | the session store and `adminOAuthPoll` | `store`, polls `p` with `pc` ask, user, save, add, reply; the owner in the browser and the panel around them |
| `ModelList` | `fetchModels` and its readers | `list`, `age` and `calm` are `dynamicModels`; `pc[r]` look, call, answer; the upstream changes its `offered` models and time passes in ticks |
| `Replies` | one reply from `PollAssistant` to the next request of the client | `reply` is what the upstream is going to write, `text` what was fetched of it; poll, take the calls, record, deliver; the scanner is the operator `ExtractToolCalls` |
| `StorageProofs`, `ChatDispatchProofs`, `ConversationsProofs`, `TokenRenewalProofs`, `QuotaWatchdogProofs`, `OAuthSessionsProofs`, `ModelListProofs`, `RepliesProofs` | theorems | see below; `StorageProofs` is about `PoolStore` and `AtomicFile`, which is why the definitions of `AtomicFile` have names of their own (`FileSpec`, `FileTypeOK`, `stage`) |
| `MC*` | instances for TLC | one for each module that is run, one `.cfg` for each run |

`PoolStore`, `ChatDispatch` and `QuotaWatchdog` compose with `AccountOps`: they
apply its operators to their own state, so a method is modelled once.
`ChatDispatch` leaves out what is sent, `Conversations` leaves out which account
is chosen and why; each says so in its header. `TokenRenewal` and
`OAuthSessions` share the steps of a login, once as seen by the tokens and once
as seen by the session. `Replies` follows the one message that `Conversations`
treats as a value, and shows what its assumption rests on: that the client's
copy of a reply has the fingerprint of the recorded one.

Abstractions that several modules share:

- a cooldown is a flag that ends at any moment (`CoolingEnds`), so every length
  of a cooldown is covered;
- `errCount` saturates at the threshold, which is all the code asks of it;
- a message is what its fingerprint distinguishes, and fingerprints do not collide;
- the upstream may answer in every way the client distinguishes, at any time;
- `PoolStore`'s `Restart` restores `cooling` from the file also when the time
  has passed since it was written; the code compares the times. This gives the
  model more behaviours than the code, and no property rests on it;
- the legacy format of the conversation file, read once at start, is left out;
- a text in `Replies` is a sequence of the pieces its scanner tells apart: a
  word, a fence, a whole JSON object with calls in it, the parts of one that
  contains a fence or was cut off.

In `AtomicFile` a version is named by its length: that is what makes a longer
version show under a shorter one that is written over it.

## The runs

| Run | Instance | Checks |
|---|---|---|
| `pool_two` | one account, two savers whose saves fail, meet and cross, restarts | `TypeOK`, `DecisionHolds` |
| `chat_churn` | one request, two accounts, three attempts; a client that leaves or names a conversation, the operator, the watchdog, logins, dying tokens | `TypeOK`, `RotationExact`, `RefusalJustified` |
| `chat_live` | three requests on one account, one attempt each; Ping and the upstream fail | `LockTracksSection`, `OneWatchedAgent`, `Answered` |
| `conv_serial` | one user with three requests in turn, two accounts, three chats, table of two, restarts | `TypeOK`, `AbsorbedDelivered` |
| `conv_overlap` | one user with three overlapping requests, chats fail, table of one | `TableConsistent`, `ChatOwned`, `ReplyOfThisRound` |
| `conv_fallback` | a reused chat fails | `AbsorbedDelivered` is violated |
| `token_live` | one account, two tokens after the first, two renewers, one panel login, reloads, restarts | `TypeOK`, `RenewalExclusive`, `DiskNotOlder`, `AlignedAtRest`, `SweepHadReason`, `RenewalStarts`, `RenewalEnds` |
| `quota_recover` | one account that spends, errs, is disabled and is granted credit, error pages, one call of the panel in flight | `TypeOK`, `ExhaustionNoticed`, `RecoveryNoticed`, `BalanceCatchesUp` |
| `file_locked` | three savers, versions of three lengths | `FileTypeOK`, `AlwaysWhole`, `Atomic` |
| `oauth_live` | two sessions of one account, two polls at a time, failing calls, restarts | `TypeOK`, `DoneIsInstalled`, `OnlyOpenSessions`, `LoginCompletes` |
| `models_two` | two requests that refresh at once, one model that comes and goes, one of the fallback list | `TypeOK`, `RefusalIsRecent`, `ListedIsRecent`, `OfferNoticed` |
| `replies_texts` | every reply of up to three segments, every part of it that may be fetched, streamed or not, with tools or without | `ToolCallsRead`, `NothingLost`, `EchoMatches`, `EarlyCallsStand` |

What the checked properties say is written above each of them. `SendSerialised`
of `ChatDispatch` is proved from `LockTracksSection` and not checked again, and
`TableConsistent` is checked by `conv_overlap` only: its theorem covers restarts
and tables of every size. The type invariant of `Replies` is proved and not
checked. Some have exceptions that are part of what they show, and without which
the code does not keep them:

- `DecisionHolds` speaks of the file only where the decision is `settled`: a
  save that no other save was in flight with has renamed its file since. A save
  that fails settles nothing (`pool.go:556`), and two saves that meet unsettle
  everything, as they may mix in `state.json.tmp`;
- `LockTracksSection` counts a request that panicked in the section as a holder
  of the lock, and `Answered` excepts it and those who wait for that lock
  (`Stuck`);
- `OneWatchedAgent` leaves out the tasks nobody listens to any more: those of a
  poll that gave up, and of a send whose answer was lost and that was repeated;
- `DiskNotOlder` and `AlignedAtRest` except the accounts for which two logins
  held a token at once (`crossed`), and `AlignedAtRest` those whose token was
  saved after the last `adminReload` had read the directory (`missed`);
- `SweepHadReason` asks for some expired token of the account, not for the one
  in use: between the look of `expirySweep` and its ban a login may bring a
  better one;
- `RefusalIsRecent` and `ListedIsRecent` allow a list to be behind by its life
  and one call: an answer that comes late is dated by when it is stored;
- `ToolCallsRead` and `EarlyCallsStand` are about replies in the form that
  `buildToolsPrompt` asks for (`Regular`), `NothingLost` and `EchoMatches` about
  all. The words they speak of stand outside the objects: what an object with
  calls has under other keys, as in `{"content": ..., "tool_calls": [...]}`, is
  dropped with it (`tools.go:118`, `128`, `157`).

Bounds, and why they are enough:

- two accounts are enough for a rotation to go wrong (the next account is the
  wrong one or the same one);
- two savers are the least that meet; with two accounts as well the run would
  not end in time, so that a save made for one account writes the entry of
  another one too is left to the theorem, which is for any number of both;
- three requests on one account are the least for one to panic because another
  finalizes, and for a third to find the lock taken for good; with the other
  actors as well the run would not end in time, they are in `chat_churn`, and
  the lock properties are proved for any number of requests and any environment;
- `MaxRotate = 3` with two accounts makes both ends of the rotation happen:
  attempts run out, or accounts do;
- `ErrThreshold = 1` makes every error cool the account, `2` (in
  `quota_recover`) separates counting from cooling;
- three requests are the least for a conversation that is created, continued,
  and continued after an interference; a table of one or two conversations is
  full after one or two;
- two tokens after the first let one renewal overlap a login; `MaxTokens` only
  stops the upstream from issuing more;
- one call of the panel in flight is the least that can store an old reading
  over a newer one of the loop; `adminCredits` has up to five, of different
  accounts;
- balances 0, 1 and 2 are no credit, less than `ApplyThreshold`, and enough;
- `Life = 2`, `Backoff = 1` and `CallTime = 1` tell a fresh list, a stale one
  and one that is stale although its answer was stored a moment ago apart; two
  requests are the least whose answers overtake each other, and the two safety
  properties are proved for any of these numbers;
- nine kinds of segments, three to a reply, put every kind before, between and
  after the others; `ChunkSize = 2` makes frames that are full and frames that
  are not; the state that follows from each reply and each part of it is
  checked, which is why `replies_texts` ends and says `CHECK_DEADLOCK FALSE`;
- versions of three lengths let one version be shorter and one longer than the
  one it overlays.

Deadlock is checked in every run that does not say `CHECK_DEADLOCK FALSE`.

Fairness, where a run checks liveness:

- `ChatDispatch`: every step of a request that is enabled is taken. The steps
  are goroutines on the Go scheduler, every upstream call has a timeout, and a
  waiter of `sync.Mutex` gets the lock when it is free (it has a starvation
  mode, and here the requests are finite in number). A lock left behind by a
  panic is never free again, and `Answered` says so. Nothing is assumed of
  clients or operator.
- `TokenRenewal`: the sweeps run (a ticker), renewals step (login-config has a
  timeout, `RenewWaitMax` ends the wait), and the server is not restarted for
  ever. No token has to arrive and no browser has to log in.
- `QuotaWatchdog`: the loop steps, and a balance query that is made again and
  again gets the true answer again and again (strong fairness). The upstream may
  fail, or answer with an error page, any finite number of times between, and
  the credit may change before the answer is stored; an account whose token it never accepts
  again is outside of this. The panel need not do anything.
- `OAuthSessions`: polls step, the panel asks for the session again and again
  and finds a goroutine to do so, a token that exists is handed out if it is
  asked for often enough, and calls do not fail for ever.
- `ModelList`: time passes, requests keep coming and make their steps, and a
  request that gets to call again and again has, now and then, an account to
  call with and an answer (strong fairness of `Call`, `UpstreamAnswers` and
  `CallSucceeds`). Any finite number of failures and late answers lie between.

## Proofs

TLAPS checks these for every value of the constants that satisfies the named
assumptions of the modules (`AccountAssumption`: UIDs are numbers, which gives
them an order; thresholds and bounds are naturals; requests are finite in
number; `None` and `Absent` are not values of anything else; the segments of a
reply are some of the nine that `Tokens` spells out). A theorem that
holds only of a part of the instances says so as a hypothesis: the lock of a
file, an upstream that lists the latest round, a client that waits.

- `ChatDispatchProofs!BestUnique`: if some account is a candidate, exactly one is
  best. `PickExcluding` therefore does not depend on the order of the map. It
  takes the largest balance and then the least UID, both by well-foundedness.
- `StorageProofs!TypeCorrect`, `DecisionsHold`, for any number of savers, with
  and without `p.mu`, and saves that fail at any step. `DecisionHolds` alone is
  not inductive: a save in flight could carry an old state, or rename what
  another one left. `IInv` splits it into `InForce` (memory) and `OnDisk` (a
  settled account), and adds `LoneSaves` (a save that has met no other has
  `state.json.tmp` to itself and carries every decision), `CrossedUnsettles`
  (while saves that met are in flight nothing is settled) and `LockedSaves`
  (whoever holds `p.mu` is saving, so a decision meets no older snapshot
  unnoticed).
- `ChatDispatchProofs!TypeCorrect`, `LockTracked`, `Serialised`, `OneWatched`.
  `IInv` adds `AttemptHasAccount` (a request between pick and finish, or one
  that panicked, has an account, and an attempt left) and `WatchedIsPolled` (a
  task somebody listens to is that of the request that polls for it). Every step
  of a request is one of four kinds for the lock: it stays outside the section,
  enters it with the free lock, stays inside (the panic is such a step: the lock
  stays with the request), or leaves it and unlocks; one lemma for each kind.
- `ChatDispatchProofs!RotationIsExact` adds `Rotation(r)`: the set of accounts
  a request has tried has one member for each attempt it has begun, so an
  account that was tried is not picked again, and a request for a named
  conversation has an empty set and one attempt.
- `ChatDispatchProofs!RefusalIsJustified` adds `SteadyIsHealthy`: `steady[r]`,
  the accounts that were healthy ever since request `r` arrived, are healthy
  now. `PickExcluding` returns nothing only if no account is a candidate, and
  whatever changes the pool takes accounts out of `steady`.
- `ConversationsProofs!TableStaysConsistent`, `ChatsStayOwned`. `IInv` adds
  `TableKnown` (a chat in the table has been created and has an owner, which
  never changes) and `Placed(r)` (the chats a request refers to belong to the
  account it is using). It rests on a weaker typing than `TypeOK` and not on the
  send lock, so it holds of requests that overlap in any way.
- `ConversationsProofs!RepliesAreOwn`, if the history endpoint lists the latest
  round, and for requests that overlap in any way. `SendLocked` says that a
  request between `planConversation` and the end of `PollAssistant` has the lock
  of its account, and `Awaits(r)` that its round is the last one of its chat:
  two requests that could send to one chat use the owner of that chat, and hold
  its one lock.
- `ConversationsProofs!AbsorbedIsDelivered`, for one client that waits for each
  answer (`OneWaitingUser`), the latest round and chats that can be written to
  (`~ReuseCanFail`; `conv_fallback` shows why). `Alone` says that one request is
  in flight, `TriesCounted` that an account in use counts as tried,
  `AbsorbedAnswered` that a recorded prefix holds an answer, and `Tracks(r)`
  puts them together: a request that has matched a prefix has an answer in its
  messages, so it does not pass for a stateless one on the next account, and one
  that names its conversation gets no next account.
  `AbsorbedTold` says that what a chat has absorbed is embedded in what was said
  in it, and `Delivers(r)` how a request gets there: before it sends, the
  messages ahead of its prompt are embedded in what was said; after it has sent,
  all its messages and the reply. The lemmas under it are about sequences:
  `Embeds` (an increasing map of positions) survives an end put to the longer
  sequence, or to both; `FlattenSeq` of one more sequence is a concatenation;
  and greedy reading (`IsSubsequence`) meets whatever can be embedded. The last
  two are about recursive functions and are proved on the least number at which
  they would fail.
- `ConversationsProofs!TypeCorrect`. The bounds of the counters are what needs
  an argument: `Course(q)` lists what a step may make of a request,
  `RoundsCounted` says that a chat has no more rounds than there are requests
  that can no longer write to it, and `TurnsCounted` the same of its turns and
  the requests that have ended. A request never goes back to an account it has
  tried, so it writes to a chat once. `Worded` then follows every message from
  `Ask` and `PollReturns` on.
- `TokenRenewalProofs!Typing`, `RenewalsExclude`, `DiskKeepsUp`, `PoolAligned`,
  `SweepsHaveReason`. `IInv` adds `JobsTyped` and `TokensIssued` (nobody knows a
  token that has not been issued), `HoldersApart` (where no two logins have met,
  the one login that holds a token holds the newest), `DiskAhead` (neither the
  pool nor what a reload has read is ahead of the disk) and `Aligned` (they
  agree, but for the login that is about to install what it saved).
- `QuotaWatchdogProofs!TypeCorrect`: what the module promises beyond its types
  is liveness.
- `OAuthSessionsProofs!TypeCorrect`, `DoneStays`, `OpenOnly`. `IInv` adds
  `InstalledInOrder` (a poll has saved before it adds, and added before it
  answers), `DoneIsClosed` (a session that was answered "done" has left the
  store and cannot come back) and `PolledIsStarted`. `OpenOnly` is an action
  property that follows from it.
- `ModelListProofs!Typing`, `RefusalsAreRecent`, `ListsAreRecent`. `IInv` adds
  `CacheRecent` (where the list differs from the offer about a model, the offer
  has changed within the age of the list and one call) and `AnswerRecent` (where
  an answer on its way differs, the offer has changed since its call began).
  That is why an answer may be stored late, and why the timeout is needed.
- `StorageProofs!FileTypeCorrect` holds with or without the lock.
  `LockedIsWhole`, `LockedIsAtomic`: if the savers of a file
  exclude each other, the file is whole at every moment and the module
  implements `AtomicStore`. `FileInv` adds that a save under way holds the lock,
  that `<path>.tmp` is another inode than `<path>`, and what the temporary file
  contains between open, write and rename. `Rename` maps to `Commit`, failures
  to `Fail`, opening and writing to stutters.
- `RepliesProofs!TypeCorrect`, `Echoes`, `LosesNothing`, `CallsRead`,
  `EarlyOnesStand`, for replies of any number of segments and frames of any
  size. The states are few, so `IInv` is about what each step hands to the next:
  the text is a cut of what the model writes, content and calls are what
  `ExtractToolCalls` makes of it (`Handed`), and what is recorded and received
  is made of these two. The rest are lemmas about the operators; where they need
  an induction over a sequence, it is one over its initial parts (`Parts`,
  `CountUp`), by the least number at which it would fail:
  - `Echoes`: the frames of a content join to that content, and those of the
    calls put each call back in its place, whatever the size of a frame;
  - `LosesNothing`: `Proper` says what is true of every cut of every reply: each
    object has a number of its own, and `head`, `ticks`, `tail` stand together.
    `Kept(t, f)` counts: what `f` has left of the text `t` and the calls it has
    made come to what was there. Each turn of the loop preserves it, and so does
    the search outside the blocks (`KeptStep`). It is false of a text in which
    two objects have one number, which is why `Proper` is needed;
  - `CallsRead`: before the loop comes to a segment, it has taken the calls of
    the segments before it and left their other text (`Plain`), in which it
    finds nothing that opens a block (`Quiet`);
  - `EarlyOnesStand`: a cut of a reply in this form is some of its segments,
    whole, and an ending (`Ending`) in which no block can be taken. An object
    that the ending may hold is found by the search outside the blocks only if
    there is no call before it, and then it is the first call, or the first half
    of the first pair.

Only model-checked:

- every liveness property: fairness and ENABLED are out of the prover's reach;
- `Conversations` where a hypothesis above fails: clients that overlap
  (`conv_overlap` checks what holds of them) and chats that cannot be written to.

## Where the code and its texts disagree

One run shows a disagreement and is listed as a finding: a reused chat that
fails loses the prefix of its conversation (`conv_fallback`).

The models show others. Each line names the property, the text it comes from,
and how to see it fail: take the configuration, make the changes, use
`SPECIFICATION Spec` (`FileSpec` for `AtomicFile`) and check this property alone, without `SYMMETRY`.
`LiveTokenStaysEnabled`, `PlanCoolJustified` and `FaultCooldownKept` are action
properties (`PROPERTY`), the others invariants.

| Property | Text | Configuration and changes | What happens |
|---|---|---|---|
| `DecisionDurable` | `pool_test.go:129`: both reach the disk | `MCPoolStore_two` | the write fails and nobody is told (`pool.go:556`); or `AddAccount` or `Unfreeze` has read the pool before a `Disable` and writes after it (`pool.go:191`, `pool.go:367`), or the two mix in `state.json.tmp` |
| `LiveTokenStaysEnabled` | `pool.go:261`: 401/403 disables | `MCChatDispatch_churn`, `Account = {1}`, `MaxRotate = 1`, `MaxLogins = 0`, `Environment = {}` | a transport error of `Ping` disables the account (`pool.go:273`) |
| `LiveTokenStaysEnabled` | the same | the same, but `PingCanFail = FALSE`, `MaxLogins = 1`, `Environment = {"login"}` | the 401 of an old token arrives after a login (`pool.go:281`, `handler.go:792`) |
| `OneAgent` | `handler.go:58`: one agent task at a time | `MCChatDispatch_churn`, `Account = {1}`, `Request = {r1, r2}`, `MaxRotate = 1`, `MaxLogins = 0`, `PingCanFail = FALSE`, `Environment = {}` | a poll that gives up releases `sendMu` while its task runs on; so does a send that is repeated after its answer was lost (`handler.go:555`) |
| `NobodyStuck` | `handler.go:418`, `426`, `437`: every return unlocks | `MCChatDispatch_live` | `req.Messages[conv.Absorbed:]` (`handler.go:492`) is out of range after another request finalized; `net/http` recovers the panic, and `sendMu`, which no `defer` unlocks, stays taken: later requests on the account wait for ever |
| `TailFollowsMatch` | `handler.go:66-67`: the absorbed prefix | `MCConversations_serial`, `Account = {a1}`, `MaxSeconds = 0`, `ParallelAsks = TRUE`, `CanRestart = FALSE` | another request records between match and cut (`handler.go:491`, `handler.go:492`): the wrong tail is sent, or the slice panics |
| `ReplyOfThisRound` | `client.go:511`: the result of one round | `MCConversations_serial`, `HistoryShows = "all"` | `PollAssistant` takes the first assistant message whatever its round. Whether the upstream lists earlier rounds is not known; `"latest"` is the assumption of the other runs |
| `AnswerIsWhole` | `client.go:520`: waits for `finished=true` | `MCReplies_texts` | the first assistant item is taken as it is, and an unfinished one returned as `"length"` (`client.go:593`); `client_test.go:123` says the same as the comment |
| `SweepJustified` | `scheduler.go:167`: expired, disable | `MCTokenRenewal_live`, `Panel = {}` | a renewal completes between the look and the ban |
| `ReloadAligns` | `pool.go:196`: align with the disk | `MCTokenRenewal_live`, `Panel = {}` | a renewal completes between `LoadDir` and `SyncToDir` |
| `PlanCoolJustified` | `scheduler.go:139`: if it is still zero, cool | `MCQuotaWatchdog_recover` | credit was granted and the second call fails, which counts as zero (`scheduler.go:141`); or an error page that is JSON reads as balance 0 (`client.go:140`), seen with `ApplyMethod = "none"` |
| `FaultCooldownKept` | `pool.go:347`: for when the quota is back | `MCQuotaWatchdog_recover` | a tick ends the cooldown of a 429 or 5xx |
| `AlwaysWhole` | `auth.go:96`: atomic | `MCAtomicFile_locked`, `Locked = FALSE`, four inodes | two savers share `<path>.tmp`: each `Auth` object has its own mutex |
| `LoadedAsSaved` | `oauth.go:120`: saved and hot loaded | `MCOAuthSessions_live`, `CallsFail = FALSE`, `CanRestart = FALSE` | two logins save in one order and install in the other |

Smaller things that no property states. A reply that was cut off and contains a
call is handed on with finish reason `"tool_calls"`, so the client is not told
that it was cut off (`handler.go:455`). After a renewal `Enable` is
given the milliseconds that the token will last, divided by the nanoseconds of
a minute (`scheduler.go:286`): the account has balance 0, and is picked last,
until the next tick.
`renewAccount` stores the token of whoever is logged in under the UID it renews
(`scheduler.go:275`). The 404 of an expired login session makes `api()` throw in
`panel.html`, the silent `pollOAuth` swallows it, and the timer goes on.

## Not modelled

- the SSE relay: no handler calls it any more, and its state is that of one
  stream read in order by one goroutine;
- the rendering of prompts and of the tool instructions: text in, text out;
- the envelopes, headers and hosts of the upstream's HTTP calls;
- configuration, `main` and the command line tools: no state after start, or
  sequential programs of one operator;
- identities of account objects: the modules name accounts, so what a request
  does to an object that `SyncToDir` has replaced is done to its successor;
- the streaming of an answer as a sequence of writes that may fail half way: it
  is made after everything has been recorded, and what a client does with half
  an answer is up to the client.

## What is left to do

The plan was to model first what everything else leans on (dispatch,
conversations, the pool), then tokens, quota, files and the login panel, then
the model list and the replies; and to prove each module's safety after TLC
had agreed. Open:

1. account identities in `ChatDispatch` and `SyncToDir`;
2. `Replies` composed with `Conversations`: a reply that was cut off becomes
   part of the absorbed prefix, while the chat has the whole of it.
