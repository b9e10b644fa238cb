# CLIRO: a verification development

CLIRO (`app.go`, `internal/`) is a desktop program (Go and Wails) that serves an OpenAI- and
Anthropic-compatible HTTP proxy on the local machine.  It answers each request with one of
the accounts its owner has connected, on two upstream providers (Codex and Kiro), and keeps
those accounts healthy: it renews their tokens, reads their quotas, rests an account that
fails and tries another.  This directory holds TLA+ models of that core, the TLC runs that
check them on small instances and the proofs TLAPS checks for every instance.

Everything is translated from the Go source; `PROJECT.json` ("map") gives, for every
definition, the lines it stands for.

## 1. Inventory

| part | source | state it keeps | operations | what is hard |
|---|---|---|---|---|
| account store | `internal/config` | accounts, settings, counters in memory under one mutex; three JSON files | `UpdateAccount` and the mark functions, settings' setters, load, save | every writer of an account holds the mutex for one write only; files are truncated and rewritten |
| pool | `internal/account` | none (reads the store) | available accounts in scheduling order, availability snapshot | the answer is stale as soon as it is given |
| failure policy | `internal/provider/health.go`, `codex/runtime_retry.go`, `auth/shared/errors.go` | none | classify a failure, decide on retry, exclude, refresh | boundary statuses, text that decides the class |
| Codex requests | `internal/provider/codex` | per request: account, excluded accounts, `recoveredAuth`; shared: the recovery coordinator | `Complete`, `Recover`, the marks, the SSE bridge | concurrent requests on one account, failure paths, retry loop |
| Kiro requests | `internal/provider/kiro` | per request: account, host | `ExecuteFromIR`, two hosts, event-stream decoding | failure classes, truncated streams |
| token refresh | `internal/auth`, `auth/codex/refresh_loop.go`, `auth/kiro` | tokens in the store, OAuth sessions, callback servers | login, cancel, submit code, refresh, background loop | a refresh token is spent by its first use; sessions end by several events |
| quota service | `internal/auth/quota`, `provider/*/quota.go` | batch running flag, tickers | refresh one, all, stale accounts | snapshots applied to accounts that changed meanwhile |
| proxy server | `internal/proxy/http` | current `http.Server`, running flag | start, stop, routes | the goroutine of an old server reports late |
| protocol translation | `internal/proxy/{codex,anthropic,models}` | the state of one answer's event stream | decode, validate, resolve the model, encode | order and pairing of events |
| tunnel | `internal/cloudflared` | process, wait channel, status | install, start, stop, output, exit | process exit races start and stop |
| application | `app.go`, `main.go`, `internal/tray` | shutdown and quit flags, the parts above | bound methods called by the window, the tray, the protocol handler | calls run concurrently; a change of port restarts two runtimes |
| logger | `internal/logger` | ring of entries, file, pending reset | append, clear, cap | a failed truncation is retried in the background |
| CLI configuration | `internal/sync` | files of other programs | patch, back up, write | partial failure between files |
| window | `frontend/` | view state | calls the bound methods | polling and events |

### How the parts interact

A request enters `proxy/http`, is resolved to a provider and handed to that provider's
service.  The service asks the pool for an account, has `auth` renew an expired token, calls
the provider, and writes the outcome to the store.  The same account records are written by
the quota service (periodically and from the window), the background token refresh, the
login sessions and the owner's actions in `app.go`.  No caller holds the store's mutex across
two operations, so every read of an account may be stale when the write that follows from it
is made.  `auth.Manager` calls the quota service after a forced refresh, and the quota
service calls `auth` back when it needs a token.  The application starts and stops the proxy
and the tunnel together.

### What makes each part correct

* store and failure policy: a record's label and its flags tell the same story after any
  interleaving of writers; a quota hold or a ban is not lifted by an unrelated event;
* requests: counted once, answered or refused after finitely many attempts, never back on an
  account that was given up, one token recovery per attempt;
* recovery: one refresh per account at a time, at most two in all, nobody waits for ever;
* login sessions: exactly one outcome per session, a code exchanged once;
* tokens: a renewed refresh token is never lost but with the answer that carried it; calls of
  renewal and quota that nest come to an end;
* server and tunnel: what runs can be stopped, and what is stopped gives back what it held;
* admission: nobody is served whom the settings would have kept out all the time;
* translation: nothing that was said is lost, repeated or reordered on the way to the provider,
  and the client is shown what the provider said, whatever the two protocols;
* event streams: blocks opened, continued and closed in order, one end;
* storage and logger: what a crash or a failed write may lose.

## 2. The modules and how they correspond to the code

`A <- B` reads "B extends A".

```
AccountHealth <- FailurePolicy <- AccountStore <- CodexExec <- MCCodexExec
                                               <- KiroExec  <- MCKiroExec, KiroPromises
                                KiroPromises   <- MCKiroPromises
                         AccountStore, Storage <- TokenRefresh <- MCTokenRefresh

ProxyServer, Tunnel <- AppRuntime <- MCAppRuntime
AuthSession <- MCAuthSession

Lists    <- Messages, Answers
Messages <- Decode, KiroPayload, CodexPayload
Answers  <- KiroStream, CodexStream, OpenAIAnswer;   OpenAIAnswer <- AnthropicAnswer
KiroStream, CodexStream, CodexPayload <- Upstream
Decode, KiroPayload, Models, AnthropicAnswer, Upstream <- Gateway <- MCGateway

abstract specifications:  AuthRecovery  (implemented by CodexExec)
                          Delivery      (implemented by Gateway)
proofs:  AccountStoreProofs <- CodexExecProofs, KiroExecProofs, TokenRefreshProofs
         AuthSessionProofs, AppRuntimeProofs, GatewayProofs (with instances of FoldFacts)
```

**AccountHealth** is what decides whether an account may serve: a record of the fields the
pool reads (`enabled`, `banned`, the health label, the cooldown, the consecutive failures,
the quota status and its reset time), the pool's test `Available`
(`account/pool.go`, `accountAvailabilityState`), and one operator for every function some
caller passes to `Manager.UpdateAccount`.  `UpdateAccount` runs the function under the
store's mutex, so each operator is one atomic write.  Moments are kept as the time that is
left until them (0: passed), which turns every comparison with the clock into a comparison
with 0 and keeps the state space finite without bounding the clock.  A quota snapshot is what
the provider answered or what the service made up when it did not: a used-up bucket holds the
account whatever the status says (`spent`), text that means a ban may come with any status
(`deactivated`, `blocked`), and the reset time is kept also of a quota that is not exhausted.

**FailurePolicy** is the classification of a failed attempt, the decision whether to renew the
token, retry and give up the account, and what the decision does to the account, for both
providers.  A message is known by what it is recognised as; recognising it is text matching
and left out.

**AccountStore** has the accounts of one provider and an action for each writer other than a
request: the owner (switch, clear a backoff, delete, log in again), quota snapshots and
quota readings that could not authenticate, token refreshes by other callers, the clock.  A
login reads the account it replaces in one step and writes in another; the action writes
values that may be stale by then.  `QuotaAuthFails` does the same with the cooldown that was
seen when the refresh began.

**CodexExec** is `Service.Complete` as a program counter per request.  A step ends where the
code may block (a network call, a wait for a slot or for another request's result) or where
it releases the store's mutex.  The recovery of a rejected token
(`AuthRecoveryCoordinator.Recover`) is part of it: `lead` is the coordinator's `active` map,
the requests at `SlotPCs` hold its semaphore, and `Publish` is the deferred function that
leaves the map and closes the channel.  A forced refresh also reads the account's quota
(`LeaderReadsQuota`), which is where a refresh can switch off the very account it renews.

**AuthRecovery** says what that recovery promises and nothing of how: whoever asks for one
account while its token is being refreshed forms a group, the refresh happens once, what came
of it is told to everybody still in the group (that the account is not ready all the same, to
one of them only, `Heard`), and no more than `MaxRecoveries` refreshes run
at once.  `CodexExec` implements it: the stage of an account is read off the program counter
of its leader, the group is the leader and those `following` it.  In the code nobody is told
anything: a follower waits for a channel to be closed and reads the result off the call it has
joined, while the map may already hold the next one.  That it is the result of *its* group is
what `SharesRecovery` says.

**KiroExec** is `ExecuteFromIR`: the pool is read once, the candidates are walked through
whatever becomes of them, and `host1`, `host2` are the two runtime URLs of
`executeWithAccount`; `last` is its `lastStatus` and `lastMessage`.  **KiroPromises** adds a
history variable of what each request met, so that sentences of the requirements document of
this path can be stated.

**ProxyServer** is `Server.Start` and `Server.Stop` with the goroutine of every listener ever
started.  `life` says where the goroutine is: about to open the port, holding it without
serving yet, serving, ended but still to clear the flag.  `Shutdown` may find it anywhere.
**Tunnel** is the cloudflared process, the section of `Start` that starts it, the one that
registers it, the `go` statement after that, `Stop`, and the goroutine that waits for the
process.  The text of the status
and the flag `stopping`, which only chooses the text, are left out; so is `waitDone`, since
`Stop` goes on after five seconds whether the channel was closed or not.
**AppRuntime** composes both with the calls of `app.go` that use them.  A call is the list of
steps it has still to take (`todo`), which lets `StartProxy`, `StopProxy`, `TunnelOn`,
`TunnelOff`, `Shutdown` and `UpdateProxySettings` be read next to the Go functions; the
goroutine of each caller interleaves with the others, since `app.go` locks no call as a whole.

**AuthSession** is the three logins of `internal/auth`.  `status` is the `Status` of the session
the services keep in their maps (`none` and `starting` before, `gone` after), `ctx` its
context, `watched` the sessions `expireAuthSession` waits for.  What completes a login is a
flow with a program counter: the goroutine of a Kiro login or the callback handler of Codex
(`main`), and a call of `SubmitAuthCode` (`submit`).  A flow exchanges its code, reads the
accounts, writes one and finishes, each in a section of its own, so that anything else may
come in between.  `MayFinish` is where the providers differ: Kiro finishes a session only
while it is pending, Codex writes over any outcome.  The provider answers a session's code
once, and only while the context of the call is live.  The quota that is fetched before a
flow finishes is a reading like any other (`SnapshotArrives` of `AccountStore`).

**Storage** is one JSON file: saved by truncating and writing it in place, read at the start,
copied aside and replaced when it cannot be parsed.  A save may fail half way and the program
may crash at any moment, in the middle of a save included; the copy may fail too, and the file
is then replaced all the same.  An empty file is no error to the code, and is modelled as its
own case.
**TokenRefresh** composes it with the accounts.  A call (of a request, of the owner, of a login
or of the quota loop) is a stack of frames: `RefreshAccount` of an auth service, forced or
not, `RefreshQuota`, and `EnsureFreshAccount`, which call each other just as
`auth.Manager` and the quota service do, so that a rejected token grows the stack.  What a
call has received from a provider and not stored yet is in its frame and is lost with the
process.  A provider may issue a new refresh token with every renewal and may stop accepting
the old one then (both do, and neither says when), it may reject an access token it has just
issued, and its answer may be lost on the way.  `loops` is the set of background loops the application has started.

**Lists** has the two operations on slices and maps the translations share.
**Messages**, **Decode**, **Models**, **KiroPayload**, **CodexPayload** are the way of a request:
the bodies of `/v1/chat/completions`, `/v1/responses`, `/v1/completions` and `/v1/messages`,
decoded into canonical messages, sanitised, validated, given a provider and a model, and
encoded for that provider.  A text is the sequence of its visible pieces, each with a tag of
its own; that makes loss, repetition and reordering visible and leaves out the characters.
`KiroPayload` has the backing arrays of the Go slices in which it gathers tool results, since
two turns of one conversation may share them.
**KiroStream**, **CodexStream** are how an answer is read, one operator per kind of event;
**Answers** has what they share: texts, tool uses, the renaming of the keys of a tool's input
(`RemapToolCallArgs`, by which `grep` gets a `pattern` and a `path` whatever the provider called
them), and `ChunkText`, which cuts between bytes: a character of two bytes is a lead and a
trail, and half of one leaves the JSON encoder as a replacement character.  **OpenAIAnswer**, **AnthropicAnswer** are the way back: a whole
answer is a function of the response; a streamed one is a script, the calls the code makes on
its stream in order, each of which sends frames and changes the encoder.
**Upstream** is the provider, which is not code of the repository: it says something, event by
event, may repeat an event and may break off anywhere, inside a frame or a JSON object too.
**Gateway** composes these with the handlers of `internal/proxy/http`: one request on any route,
from the read of the security settings (the key and the mode are read in two steps while
the owner changes both) to the last frame.  Attempts follow each other until the executor
gives up; which accounts they take is the business of `CodexExec` and `KiroExec`.
**Delivery** is what `Gateway` promises: while the provider speaks the client is shown nothing;
then it is shown what was said, from the beginning on and without a gap, and the answer ends
as complete only when all of it was shown.  Of an answer the provider broke off it promises
only that what was shown is not taken back.

Definitions whose comment begins with "Fault" are deliberately wrong variants of the
definition that follows them.  Nothing uses them; `PROJECT.json` ("mutants") pairs each with
the property that must fail when the variant takes the definition's place.

## 3. What is checked

| run | instance | properties |
|---|---|---|
| `codex_contended` | 2 requests, 1 account that everybody writes, backoff 1-2, cooldowns 2 and 3 | `TypeOK`, `HealthAgrees`, `EveryRequestCountedOnce`, `OneRecoveryPerPick`, `OnlyOwnerReturnsAccount`, `QuotaHoldSurvives`, `FailureRestsAccount` |
| `codex_pool` | 2 requests, 2 accounts, 1 recovery slot | `RecoveryHasLeader`, `ExcludedIsLeft`, `SharesRecovery` |
| `codex_live` | 2 requests, 1 account, 1 slot, fair | `AnsweredUnlessKept` |
| `kiro_contended` | 2 requests, 1 account that everybody writes, statuses 401, 429, 500 | `TypeOK`, `HealthAgrees`, `EveryRequestCountedOnce`, `OnlyOwnerReturnsAccount`, `FailureRestsAccount`, `EveryStepProgresses` |
| `kiro_deactivated` | 1 request, 1 account | violated: see findings |
| `app_runtime` | 1 caller, 3 calls, 2 servers, 2 processes, 2 ports of which another program holds one, kills may fail, fair servers | `TypeOK`, `NoOrphanTunnel`, `TunnelIsWatched`, `PortIsReleased` |
| `auth_sessions` | 1 login of any kind, 1 device login | `TypeOK`, `SuccessIsConnected`, `PendingIsWatched`, `OnlyPendingLogsIn`, `KiroOutcomeStands` |
| `exchange` | 1 request on any route, up to 4 items in its body, up to 4 events in the answer of Kiro and 3 in that of Codex, 2 changes of the settings | `TypeOK`, `ServedIsAllowed`, `PayloadKeepsOrder`, `KiroTurnsAlternate`, `OneRoundKeepsResults`, `CallsPrecedeOutputs`, `BlocksNest`, `Delivers` |
| `payload_results` | the same | violated: see findings |
| `kiro_truncated` | the same | violated: see findings |
| `tokens` | 2 calls, 1 account of either provider, 2 refresh tokens, 1 rejection, 1 fault | `TypeOK`, `RenewedTokenIsKept`, `NestingNeedsRejection`, `RefreshersAreDisturbers`, `ComesBackOrTorn` |
| `loop_started` | 1 call, 1 account, no faults | violated: see findings |

What they say:

* `HealthAgrees`: the writes of an account, from requests, quota service, refresh and owner, never
  leave a label that contradicts the flags.
* `OnlyOwnerReturnsAccount`: a success, a renewed token and a good quota reading each clear
  the banned flag or the label of whatever account they come late for.  None of them returns
  an account that was switched off, since `Enabled` stays off.
* `QuotaHoldSurvives`: the cooldown and the label of a held account are overwritten by many
  writers; the quota record is what keeps the account out.  The writes that are themselves a
  verdict of the provider (a success, a new snapshot, a rejected login) are exempt.
* `FailureRestsAccount`: no failing path of a request leaves an account it could pick again at
  once.  Requests that are themselves at fault are exempt: Codex leaves the account alone then, Kiro
  rests it against its requirements (see the observations).
* `EveryRequestCountedOnce`, `OneRecoveryPerPick`, `ExcludedIsLeft`: the bookkeeping of a
  request over all its return paths, retries and recoveries.
* `RecoveryHasLeader`: the active map holds exactly the recoveries under way; no follower
  waits for a leader that is gone.
* `SharesRecovery`: the recovery as the requests see it, as a refinement of `AuthRecovery`: a
  request that arrives while a refresh is under way, or after it has ended, never gets the
  result of another one, never starts a second refresh of the account, and a slot is held from
  before the refresh until after its result is known, whichever way the leader leaves.
* `AnsweredUnlessKept`: an admitted Codex request is answered, or fails for ever with failures
  that rest the account without excluding it.  The exception is real: a 403 with an unknown
  text after a recovery rests the account and keeps it eligible, and the loop has no other
  bound.
* `EveryStepProgresses`: a Kiro request has no such loop.  The number `Remaining` (candidates
  and hosts still to try, refresh included) falls with every step of the request, and no
  other writer changes it, so that a request whose calls return is answered.
* `NoOrphanTunnel`: with calls one after the other, a tunnel process is always known to the
  manager or to the call that is starting or killing it, although the goroutine that waited for
  an earlier process may still clear what it finds registered.  With two callers it does not
  hold: `Manager.Start` looks and registers in two sections, and the last section of
  `Manager.Stop` may clear what another caller has registered meanwhile.
* `TunnelIsWatched`: a process the manager holds is waited for, or the call that registered it
  is about to start waiting (`Manager.Start` registers it, unlocks, and starts the goroutine
  then), also when starts, stops, failing kills and ends of processes overlap; and a tunnel
  shown to run is held.
* `PortIsReleased`: a server that is shut down while opening, before serving or while serving
  gives its port back.
* `SuccessIsConnected`: a login that reports success names an account that was written.
* `OnlyPendingLogsIn`: `SubmitAuthCode` and the callbacks check the session once and use it
  later; a login that has been cancelled, has timed out or has an outcome cannot get tokens
  meanwhile, because everything that ends a session ends the context of its calls.  A flow
  that had its tokens before still writes the account.
* `KiroOutcomeStands`: of the goroutine, the submitted code and the timer, the first decides.
  For Codex it does not hold, and nothing in the repository asks for it: a callback page that
  is loaded twice turns a connected login into a failed one (`codex/oauth.go:331-344`).
* `PendingIsWatched`: a pending session always has the goroutine that will end it.
* `ServedIsAllowed`: whoever is served would have been let in by the settings at some moment
  since it arrived, although no moment is the one at which both were read.  The converse does
  not hold: a request may be refused that every setting since its arrival would have let in.
* `PayloadKeepsOrder`, `KiroTurnsAlternate`: merging adjacent turns, gathering tool messages and
  cutting what follows the last turn of the user neither lose, repeat nor reorder anything,
  and no filler turn is put where none is needed; pieces that are the filler itself are left
  out of the comparison of texts on both sides, since the builder may add it.
* `OneRoundKeepsResults`: within one round of tools every result reaches Kiro with the call it
  answers.  With two rounds it does not hold, which is the finding of `payload_results`.
* `CallsPrecedeOutputs`: whatever history a client sends, Codex is sent an output only after its
  call, and one output a call.
* `BlocksNest`: the events of an answer open, continue and close blocks one at a time and number
  them upwards, also where thinking, text and calls are emitted by different objects.
* `Delivers`: end to end, whole or streamed, from either provider, over attempts that failed:
  what the client is shown is what the provider said in its last attempt, in order, with the
  client's own names of its tools and of their arguments, and an answer that ends well is all
  of it.  It is `Delivery` under the mapping `Owed`, `ShownSoFar`, `Ending`; `Owed` is where what
  each format changes on purpose is named (a chat answer with calls carries no text, blank text
  is no text, the keys of an input are renamed once, however often the code renames them).  The
  halves of a character that a stream cuts in two are the one loss it accepts, and only in a
  stream.  Nothing is promised of an answer the provider broke off, nor of one that says
  nothing at all: `Ending` calls both `cut`, and that the gateway passes them off as good is the
  finding of `kiro_truncated` and the first of the observations.
* `RenewedTokenIsKept`: nothing keeps two calls from renewing one account at once, and the later
  answer may be written before the earlier one.  The account still ends with a token its
  provider accepts, or a call is about to store one, unless an answer was lost.
* `NestingNeedsRejection`: `refreshAccount` reads the quota, which ensures a fresh token, which
  may refresh: the stack of a call has at most four frames and three more for every time the
  provider rejects a token it has just issued.  Nothing in the code bounds that number.
* `RefreshersAreDisturbers`: whatever these calls write is one of the writes `AccountStore` has;
  so the runs of `CodexExec` and `KiroExec`, in which any of those may come at any time, have
  the renewals of this module in them.
* `ComesBackOrTorn`: after a crash the program has the accounts of the last whole save; if the
  file was torn it has none, and unless the file was empty it says so and has tried to copy it.

### Bounds

| bound | where | why it is enough |
|---|---|---|
| requests, accounts | 2 requests on 1 account, 2 on 2 | the conflicts are about one account: a request against a request, or against another writer; leader and follower take two; giving up an account and going on takes two accounts.  The theorems cover any number. |
| backoff and cooldowns | 1 to 3 units | only "0 or not", "which is longer" and "one failure more" are tested |
| `QuotaResets`, `HostStatuses` | one reset; one status per class the policy tells apart | other values take the same branches |
| `MaxRecoveries` | 1 (2 in the code) | with two requests one slot is what makes them compete |
| `Disturbed` | the accounts other actors write | every one where the property is about writers; none where it is not |
| `Callers`, `MaxCalls` | 1 and 3 | start, stop and start again reach every overlap of an old goroutine with a new server or process; `TunnelIsWatched` is proved for any number of callers, `NoOrphanTunnel` does not hold for two |
| `Sessions`, `Logins` | one session of any kind and one device login | sessions meet in the clean-up and in the accounts of one provider, which a second login of one kind reaches; the theorems cover any number |
| flows | one callback and one submitted code of a session at a time | each is over before the next of its kind; a flow of each kind reaches every overlap |
| `Places`, the menus of `MCGateway` | 3 items of 8 kinds a route (9 for `/v1/messages`), or 4 of the 5 or 6 kinds whose order and pairing depend on what comes before | two rounds of a call and its result, or two turns to be merged between two that are not; the parts of an item that the translation tells apart are one kind each |
| `MaxEvents`, `Pieces`, `Inputs` | 4 events of Kiro, 3 of Codex; a fragment with a blank and a character of two bytes and one with neither; an input without keys and one whose keys are renamed | thinking, text and a call in one answer, a call in two fragments, an event given twice |
| `ChunkSize` | 2 | texts of up to 4 characters are split into more than one event, also between the two bytes of one of them |
| `MaxChanges` | 2 | the settings change once before and once between the two reads |
| `OneAdmitted` (a constraint of `exchange`) | one admitted request for each body goes on | no action after admission reads the settings, the credential or the number of changes, so the rest of the behaviour is the same for all |
| `MaxTokens` | 2 | the token an account begins with and one that replaces it |
| `MaxRejections`, `OneTrouble` (a constraint of `tokens`) | 1 in all, and only while no other call is under way and nothing has failed | one rejection grows the stack of its own call, in which the other calls have no part; the theorems cover any number, at any time |
| `MaxFaults` | 1 | a failed save or a crash; a second fault meets the file the first one left |
| `WithoutLabels` (the view of `codex_pool`) | labels other than that of a ban, of an account switched off and of a quota hold, the number of failures and the counters are not told apart | with one step of backoff no write, no guard and none of the three properties depends on them |
| `WithoutHealth` (the view of `tokens`) | records of health are not told apart | no guard of `TokenRefresh` reads one, so states that differ there have the same steps.  `RefreshersAreDisturbers` does speak of the records: TLC evaluates it for one representative of each class, the proof covers all |
| `Servers`, `Procs` | two of each | one that is still ending and one that begins; a start waits only when both servers are still ending |

The runs of the application and of the logins switch deadlock checking off: the owner may stop
calling, and `MaxCalls` or the identifiers of sessions are used up.  So do those of `Gateway`,
where the one request is answered at last, and of `TokenRefresh`, where the accounts may all be
deleted and the faults used up.

### Fairness

`CodexExec` assumes weak fairness of the next step of every admitted request:
the HTTP clients have timeouts (`internal/provider/codex/service.go`,
`internal/auth/manager.go`), the store's mutex is held for one write, and Go schedules every
goroutine.  `TakeSlot` has strong fairness: a Go channel wakes its blocked senders in turn, so
that a leader waiting for a slot that keeps becoming free gets it.  Nothing is assumed of the
clients (they need not send, nor cancel), the owner, the background tasks or the clock.
`AppRuntime` assumes weak fairness of the goroutines of the servers only.

### Findings

| run | the documents say | the code does |
|---|---|---|
| `kiro_deactivated` | `.kiro/specs/kiro-runtime-parity/requirements.md:116`: a failure that implies disablement applies that transition | the second host's failure replaces the first one's |
| `payload_results` | `requirements.md:73`: tool results are encoded into tool result entries | the slice of results is emptied and used again while an earlier turn still shows it (`kiro/payload.go:335`): the second round overwrites the results of the first |
| `kiro_truncated` | `requirements.md:87`: truncated stream data is an explicit failure | `io.EOF` ends an answer wherever it comes (`kiro/stream.go:112`): a body that stops between two frames in the middle of an answer is answered with 200 |
| `loop_started` | the comment at `internal/auth/manager.go:297`: `StartCodexRefreshLoop` starts the background refresh | the wrapper it asks has no such method, the type assertion at line 307 fails silently, and nothing is started |

### Observations

What modelling showed besides, and no run states, because nothing in the repository promises
otherwise, because the fact is plain once seen, or because the models leave the detail out.

Against a sentence of a document:
* every Kiro stream that ends without error is a success, an empty one and one without its last
  events included (`requirements.md:42`, `design.md:321-330`); one that is cut after a prelude,
  the headers or the payload of a frame ends with `io.EOF` like one that is cut between two
  (`kiro/stream.go:30`);
* a request Kiro finds malformed, or whose payload cannot be built, is tried on every account and
  answered with 503, and each account rests, where `requirements.md:117` asks for a request error
  the client can see; `FailureRestsAccount` leaves such requests out;
* `Start` of the proxy raises the running flag and returns before the port is opened, also when
  another program holds it, where `CHANGELOG.md:197` promises a bind before the started state is
  reported; and a tunnel started on that flag outlives a proxy that could not listen
  (`CHANGELOG.md:209`);
* the background refresh, had it been started, would not renew ahead of time: the loop passes
  `force=false` (`auth/codex/service.go:43`, `refresh_loop.go:22-24`, `CHANGELOG.md:235`).

The proxy's flag:
* the goroutine of a stopped server clears the running flag also when the proxy has been started
  again meanwhile (`proxy/http/server.go:172-175`): the proxy serves while it is reported as
  stopped, and one more start replaces a server that nobody can stop any more.

Requests and payloads:
* the key and the mode are read apart, so a request may be refused with 401 or 403 that the
  settings of every moment would have let in;
* an alias whose name ends like an effort or a thinking suffix never matches, and
  `gpt-5.1-codex-max` loses its last part before it is looked up;
* an Anthropic message with text and an image becomes JSON text, images next to tool results
  are left out, and an image given by its address inside a tool result makes the request fail
  with 400 (`anthropic/codec.go:415-419`, `models/validate.go:121-127`); validation skips a result whose id was first seen in a turn of the user;
* the payload of Kiro never carries the calls of the assistant, and carries tool results twice.

Answers:
* a whole chat answer drops its text when there are calls (`proxy/codex/codec.go:610`), the
  streamed one shows it;
* `ChunkText` cuts texts by bytes (`response.go:14`), and each piece becomes JSON of its own: of a
  character that is cut in two the client reads two replacement characters;
* the keys of tool inputs are renamed for every answer of Codex and for Anthropic's clients only:
  a chat or Responses client gets those of Kiro as they are;
* reasoning deltas of a Responses stream belong to no item, so that indices differ from those of
  the list at the end;
* a fragment Kiro sends twice in a row is taken for a repetition, and blanks at the ends of a
  fragment of tool input are lost (`kiro/stream.go:208`);
* of several message items of Codex without deltas the first alone is kept, and
  `response.failed` and `response.incomplete` are ignored: what came before them is a success,
  and so is what came before a body that ends without `response.completed`.

Tokens and accounts:
* when the ID token of a renewal cannot be read the new refresh token is thrown away
  (`auth/codex/service.go:193`), and a save that fails makes a successful renewal look failed;
* Kiro's quota and renewal call each other as long as the provider rejects
  (`auth/manager.go:245`, `kiro/quota.go:62`, `kiro/quota.go:173`);
* `RefreshQuota` sets `Banned` without the label on its blocked path;
* a follower of a recovery is told of success also when the account did not become ready
  (`codex/runtime_retry.go:378`);
* an empty accounts file is a fresh start without a warning.

## 4. What is proved

TLAPS checks the following for every number of requests, accounts and logins and every value of the
other constants that the named assumptions allow (`BackoffAssumption`, `CooldownAssumption`,
`ResetsAssumption`, `SetsAssumption` and, for the logins, `SessionsAssumption` and
`LoginsAssumption`: positive cooldowns, a finite set of requests, `None`
outside the sets; `CallsAssumption`, `ServersAssumption`, `ProcsAssumption` for the
application, `TokensAssumption` and `FaultsAssumption` for the renewals; for the
gateway `KeysAssumption`, `SizesAssumption` (a chunk has at least one character),
`BodiesAssumption` (bodies have the shape the JSON decoders accept, of any length and with any
ids, repeated or missing) and `ProvidersAssumption` (fragments and inputs are texts, and an
input, being the JSON of an object, is not empty)).

* `AccountStoreProofs`: each write keeps a record typed and sound (label and flags agree),
  leaves a switched-off record off unless it is the owner's, rests the account when it is the
  outcome of a failure, keeps a quota hold when it is one of those that must.  The operator
  `Rewritten` collects the writes, so that the modules above reason about one relation
  between a record and the next instead of about each operator.
  Every action of the store is such a rewriting of each account.
* `CodexExecProofs`: the inductive invariant `IInv` is `TypeOK`, `HealthAgrees`, `InHand` (a
  request between its pick and its end has an account, and none outside),
  `OneRecoveryPerPick`, `RecoveryHasLeader`, `ExcludedIsLeft`.  `InHand` is what makes
  `lead[cur[r]]` meaningful; `RecoveryHasLeader` needs it and the fact that two leaders of
  one account would both be the value of the map at that account.  `StepShapes` states once
  what each group of actions does to a request's variables, and the preservation lemmas use
  that in place of the actions.  The action properties follow from `IInv` and the rewriting
  lemmas; `CountedOnce` has its own induction, over the cardinality of the sets of requests
  that have finished.
* `KiroExecProofs`: the same along `TypeOK`, `HealthAgrees`, `InHand`.  Termination comes from a
  variant function: `StepGoesOn` says how each step changes what is left to do.
* `AuthSessionProofs`: `IInv` is `TypeOK`, `PendingIsWatched`, `SuccessIsConnected` and `InHand`
  (a flow about to finish holds an account that is stored).  `ContextShapes` says what a step
  may do to a session's status, context and watcher; `PendingIsWatched` follows from it alone,
  and `OnlyPendingLogsIn` from `PendingIsWatched`.  `TypeCorrect`, `SuccessIsConnectedAlways`,
  `PendingIsWatchedAlways`, `OnlyPendingLogsInAlways`, `KiroOutcomeStandsAlways`.

* The last part of `CodexExecProofs` is the refinement `RecoveriesAreShared`: every step of a
  leader, of a follower or of nobody is a step of `AuthRecovery` or a stutter.  It rests on
  `RecoveryHasLeader`: an account's stage is defined by its leader, so a step of another
  request cannot change it.  That at most `MaxRecoveries` refreshes run needs an injection from
  the accounts being refreshed to the requests that hold a slot.
* `TokenRefreshProofs`: the invariant counts for each frame of a call those below it and those it
  may yet put on top of itself without a rejection (`Need`, `Nested`); `NestingBounded` is
  that for the frame on top.  `TokenKept` follows from `Kept`:
  every token anyone knows has been issued (`Bounded`, `Begun`), one that has just been granted
  is honoured and known to one call only, so that no other renewal can use it up before it is
  stored (`Owned`), the record holds an honoured token or a call is about to store one
  (`Current`), and while the program is down the file does (`Stored`).  `ComesBack` needs that
  what is being recovered is unreadable and that a copy has been tried (`Recovering`).
  `RefreshersDisturb` assumes that the program's own cooldowns are among `QuotaResets`, from
  which a disturbance takes its moments; then so is every cooldown ever stored (`InTime`).
* `AppRuntimeProofs`: for `TunnelIsWatched` the invariant says that a step of a call only follows
  the one before it in its list (`Left`, `CallsInOrder`), so that a process a call holds is one
  it is about to register or to kill.  `NoOrphanTunnel` is proved for one caller
  (`SerialCallsLoseNone`), which is when it holds.
* `FoldFacts`: what a fold keeps of its argument, and that a fold is a chain of values, each made
  of the one before.  The operator that is folded is a constant of the module, and each loop
  of the gateway takes an instance with its own step: induction over a list becomes induction
  over the set of the numbers up to which the loop is right, since no theorem with a
  predicate for its parameter can be used here.
* `GatewayProofs`: the invariant `Whole` follows the request through the gateway, and every part
  says of what passes from one stage to the next what the next relies on.  `Judged`: until a
  request reads the mode, any settings that would let it in have been noted, and a key that
  fits was the key when it was read; from it `AdmittedIsAllowed`.  `Routed`: the route and the
  provider do not change under way, so that the encoder that is called belongs to the state it
  is given.  `Translated`: a conversation that waits is `Paired` (a result answers a named call
  before it, and no other result answers that call), because every decoder ends with
  `sanitizeToolHistory`, whose loop keeps `Kept`; the payload was built from it.  From that
  alone the input of Codex is in order, item by item (`InputGrows`), which is
  `OutputsFollowCalls`.  `HeardOK`: what the provider said, is in the middle of and what was
  read of it are typed through every event, split, repeated or broken off.  `Streamed`: what is
  still to be called on a stream comes in the order of its ranks, the frames already sent have
  the shape the encoder's state says (which block is open, which number is free), and every
  call leads from one such state to the next; `BlocksAreNested` is what remains when the last
  call has been made.  `GatewayTypes` needs all of it.
* Three more theorems of `GatewayProofs` say what the payload for Kiro is, loop by loop.  Turns
  share arrays, as slices of Go do, so each loop is described by what lies in the arrays its
  result reads and by the arrays it may have written to (`Within`, `Wider`).
  `convertToUnified` gathers turns each of which follows from the one before
  (`Gathering`, `Absorb`, `Follows`); `mergeAdjacentKiroMessages` leaves neighbours of different
  roles and the same pieces in the same order (`Merges`, `Apart`, `Adjoin`);
  `ensureFirstMessageIsUser` puts at most one filler in front (`Shifted`), after which the turns
  alternate, and `ensureAlternatingRoles` has nothing left to do.  `BuildPayload` then cuts what
  follows the last turn of the user (`SentAs`).  `KiroAlternation` is the parity of that list,
  `KiroKeepsOrder` the equality of the pieces sent with the pieces brought.

  `RoundReachesKiro` is about the arrays themselves.  A result is lost in two ways: the turn it
  is with is cut off, or another turn appends to the array it lies in (`flush` keeps the array
  and sets the length to 0, so that what is gathered next overwrites what the turn before still
  reads; the run `payload_results` shows it).  While the tools are used in one round neither can happen:
  `InRound` says that the results gathered so far either wait in arrays no turn reads
  (`Waiting`) or are with a turn of the user and no other will come (`RoundOver`); no two turns
  share an array (`Distinct`), so that `mergeAdjacentKiroMessages`, which appends to the arrays
  of the last turn only, leaves those of all others as they were (`Carries`, from
  `BothExtended`); and every turn of the user is sent (`SentBrings`).  That no result is dropped
  for want of a name comes from `Paired`: a blank name of a call is replaced when it is decoded.

| property | Codex | Kiro |
|---|---|---|
| `TypeOK` | `TypeCorrect` | `TypeCorrect` |
| `HealthAgrees` | `HealthAgreesAlways` | `HealthAgreesAlways` |
| `OnlyOwnerReturnsAccount` | `OnlyOwnerReturns` | `OnlyOwnerReturns` |
| `FailureRestsAccount` | `FailureRestsAlways` | `FailureRestsAlways` |
| `EveryRequestCountedOnce` | `CountedOnce` | `CountedOnce` |
| `OneRecoveryPerPick` | `OneRecoveryAlways` | |
| `RecoveryHasLeader` | `RecoveryHasLeaderAlways` | |
| `ExcludedIsLeft` | `ExcludedIsLeftAlways` | |
| `QuotaHoldSurvives` | `QuotaHoldAlways` | |
| `SharesRecovery` | `RecoveriesAreShared` | |
| `EveryStepProgresses` | | `EveryStepProgressesAlways` |

| module | property | theorem |
|---|---|---|
| `AppRuntime` | `TypeOK`, `TunnelIsWatched` | `AppTyped`, `HeldIsWatched` |
| | `NoOrphanTunnel` | `SerialCallsLoseNone` (one caller) |
| `TokenRefresh` | `TypeOK`, `RenewedTokenIsKept`, `NestingNeedsRejection` | `RefreshTyped`, `TokenKept`, `NestingBounded` |
| | `ComesBackOrTorn`, `RefreshersAreDisturbers` | `ComesBack`, `RefreshersDisturb` |
| `Gateway` | `TypeOK`, `ServedIsAllowed` | `GatewayTypes`, `AdmittedIsAllowed` |
| | `CallsPrecedeOutputs`, `BlocksNest` | `OutputsFollowCalls`, `BlocksAreNested` |
| | `KiroTurnsAlternate`, `PayloadKeepsOrder` | `KiroAlternation`, `KiroKeepsOrder` |
| | `OneRoundKeepsResults` | `RoundReachesKiro` |

Only model-checked: the liveness properties (`AnsweredUnlessKept`, `PortIsReleased`), which need
reasoning about fairness the installed provers do not support; and of `Gateway` the refinement
`Delivers`, which says what the folds over events compute and not only what they keep.

## 5. What is not modelled, and what could follow

Left out of the modules above: the text of requests, answers, messages and logs; counters and
times nothing reads; usage figures and identifiers; definitions of tools; the order in which the
pool lists accounts (`Pick` and `TakeNext` take any available one, which covers every order); the
loop that looks for another name when two long names of tools are shortened alike, which takes
the same beginning and the same ten digits of hash (`runtime_types.go:253-259`); of the renaming of keys, TLC reaches the cases of the search
tools and of an unknown tool, while the proofs of types cover all.

What the models do not reach, by part:

* **pool**: the order of scheduling, a comparison function; the property would be that it is an
  order.  The requests are checked for every order.
* **quota service**: batches and tickers (which accounts a batch skips, one batch at a time), and
  the parsing of what the providers answer.  A single read is in `TokenRefresh`.
* **background refresh**: `refresh_loop.go` never runs (see `loop_started`); only that is modelled.
* **storage**: errors other than a file that cannot be parsed end the program at its start; the
  settings other than those of the proxy and the tunnel, and the statistics, are values nothing
  else depends on.
* **application**: imports and exports of accounts, the prompt on quitting, the tray.
* **tunnel**: the installation of cloudflared and the text of its status.
* **logger**: its ring, its file and the retried reset concern the log alone.
* **CLI configuration** (`internal/sync`): text patching and copying of other programs' files,
  with the tokens that are copied there.
* **tray, platform bindings, window**: bindings to the system and view state.

A next step, in this order: `QuotaBatch` (batches, tickers and their skips over `TokenRefresh`),
`Scheduling` (the pool's order against a reference definition over bounded inputs), `LogFile`
(a clear that reports success leaves nothing, a retry ends).
