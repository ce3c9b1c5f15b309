# Budge gateway: TLA+ model, checks and proofs

Budge stands between devices (agents) and upstream HTTP services. An owner hands
out permissions; a device either calls a service directly (standing permissions) or
submits a durable request that may need the owner's approval and is sent later by a
worker. Devices hold certificates that they obtain with an invitation and renew by
themselves. This directory models the server and the device's side from their source, checks
them with TLC on small instances and proves with TLAPS, for every size, every safety
property that a run checks, and that the gateway implements the lifecycle it promises.

## Inventory

| Part | State | Operations | Correct when |
|---|---|---|---|
| Rules (`internal/access`) | none | `Path`, `Match`, `Overlap`, `Methods` | subtrees end at segments; `Overlap` finds every common route |
| Authority (`owner.go`, `access.go`, `tls.go`) | tables devices, services, permissions; the clock | invite, create/revise/disable service, add/revoke permission, revoke device, `Authorize` | one rule per route; an enabled service's credential opens |
| Requests (`requests.go`) | tables requests, approvals | `Submit`, `Decide`, `cancelRequests`, `maintenance`, `finishTx`, `recoverDispatches`, `RecoverRestored` | waiting requests rest on live authority; keys are never freed; at most the allowed number waits |
| Worker (`RunWorker`, `dispatch`, `upstream.Send`) | candidate list, goroutines | tick, scan, spawn, claim, send, finish | one holder per claim, one transmission per key, truthful outcome, authority checked at the claim |
| Slots (`server.go`) | `global`, `active` under `mu` | `acquire`, `release` | the counters are the holders and stay within the limits |
| HTTP path (`DeviceHandler`) | one goroutine per call | accept, authorise, send, stream | never sends what needs an approval |
| Process (`main.go`, `New`) | all memory | start, recovery, restored start, interrupt, close, crash | no lost outcome on a clean stop; the stop ends |
| Status, long poll, review page (`requests.go`, `review.go`) | calls in progress; an open page | `submit`'s answer, `RequestStatus`, `status`, `review` | what was told stays true; the poll ends; the page shows one whole request |
| Agents behind connector and MCP (`mcp.go`, `socket.go`) | what an agent wants and knows | submit, resubmit, poll | the agent ends up with its own request |
| Enrollment, certificates, renewal (`client/`, `server/renewal.go`, `tls.go`) | invitations, issued certificates, server leaf; identity file; processes and their connections | `Invitation`, `enroll`, `Save`, `Load`, `Refresh`, `renew`, `currentCertificate` | one key per device; the file stays an identity; it lapses only when every attempt of the renewal window was lost; none for a revoked one |
| Sessions, login, throttling (`owner.go`, `server.go`) | sessions table, `throttles` | login, logout, lookup, sliding window | the window holds; logging out is final |
| Start of a server (`store.go`, `initTLS`, `New`) | file lock, `user_version`, check row, authority row | `Open`, `migrate`, `initTLS`, `New`, `Close` | migrations run once; one server, which fits its file; the trust root stays |
| Backup and restore | a copy of the file | copy, put back, `--recover-restored` | no key takes effect twice over all lives of the file |
| Ciphers, header and address filters, pages | | | (data, I/O) |

**Interaction.** Everything durable goes through one SQLite connection
(`SetMaxOpenConns(1)`), so a transaction is one step, and the owner's pages, the device
handlers, the worker and its goroutines interleave between transactions. Slots are
shared by dispatches and HTTP handlers. The upstream is outside: once a connection is
obtained (`GotConn`) the request may have had its effect. On the device, several `budge`
processes share an identity file, and talk to the server over connections that outlive
the certificate they were made with.

**What is hard.** The worker spawns a goroutine per tick for a request not yet claimed;
authority changes between submission, approval, scan and claim; a crash or a storage
error after the claim leaves a request whose effect is unknown; `finishTx` updates
without looking at the status; expiry is compared in three places; the first matching
permission row decides whether an approval is needed; shutdown must wait, but not for
good. A certificate is signed before the device has stored it, the two sides compute the
renewal window separately, a file may go back in time, and answers are lost between a
commit and whoever asked for it. `PROJECT.json` lists these hazards by line, with the property for each.

## Modules

- **Access** — rules and routes. Paths are sequences of characters because `Match` is a
  prefix test on text. **AccessCheck** compares `Match` and `Overlap` with reference
  definitions: `InTree`, which cuts both paths into segments at every slash, and the routes
  two rules have in common. Its state is the pair `addPermission` compares.
- **Authority** — the tables an owner fills, the clock, `Authorize`. A permission row
  without expiry has `Never`; `sealed` is the revision in the label a service's
  credential is encrypted under (`service:<id>:<revision>`).
- **Requests** — one operator per transaction on requests and approvals. A refused or
  failed transaction changes nothing, so refusals are guards. Payloads are abstracted
  to whether the encrypted columns still hold something, and the digest to the columns
  it covers.
- **Slots** — the two counters.
- **Dispatch** — `RunWorker` as a loop (`wait`, `scan`, `spawn`, `returned`) and each
  dispatch goroutine as `start`, `claimed`, `sent`, `finish`, `exit`. Each transaction
  has a variant in which storage fails, because the callers ignore the error; `sends`
  counts, as history, how often a request may have reached its upstream.
- **HttpProxy** — the `/s/<service>/<path>` handler.
- **Gateway** — the composition: owner and device transactions, worker, goroutines,
  handlers, and the process (`closed`, `crashed`, `restoring`, `up`, `stopping`).
  A crash keeps the database and the history and loses the rest. All properties of
  the whole are here.
- **Lifecycle** — the abstract specification: per request, the states of the
  documented lifecycle, at most one transmission, and an outcome that agrees with it.
  `Gateway!ImplementsLifecycle` is the refinement (row status or `"absent"`, and
  `sends`).
- **Agents** (extends Gateway) — who looks at requests from outside. An agent submits,
  loses the answer, submits the same again, learns an id and polls; the owner opens a
  page, whose status and snapshot are two transactions. Every step is a step of Gateway
  or leaves Gateway's state alone; the end of a process ends the calls it was serving.
- **Restore** (extends Gateway) — the tables in a backup, put back while the server is
  down. `ledger` counts, outside the file, what reached the upstream per device and key
  in all lives; identifiers are random, so no new row takes an earlier life's (`FreshIds`).
- **Identity** — the devices and invitations tables, issued certificates and the server's
  leaf; the identity files as processes see them (`files`) and as the disk has them
  (`disk`); and the `enroll` and `connect` processes. A renewal is `asked`,
  `authenticated`, `answered`, `renamed`, with the connection it travels on (`via`), so
  that a revocation, an expiry or a death falls between any two. Time is in periods of
  the hourly ticker; `TimedSpec` restricts when it passes (see Timing in Identity).
- **Owner** — sessions, the throttle, and the requests between lookup and action.
- **Startup** — from `Open` to `New`, for processes with different numbers of migrations
  and different unlock secrets.
- **MCAccess, MCGateway, MCIdentity, MCRestore, MCAgents** — instances. Startup and Owner
  are instantiated by their configurations alone.
- **AccessProofs**, **GatewayProofs**, **AuthorityProofs**, **RestoreProofs**,
  **AgentProofs**, **IdentityProofs**, **StartupProofs**, **OwnerProofs** — the theorems
  and their proofs.

Operators such as `SubmitForgetful` or `CloseWithoutWait` are faulty variants of the
operation that follows them. No action uses them; they record the mistake each property
is there to catch, and replacing the operation by its variant makes TLC report that
property violated.

## Runs

| Run | Instance | Checks |
|---|---|---|
| access | all pairs of 108 rules over paths of up to four characters, dots among them | `SubtreeIsSegmentBounded`, `OverlapIsComplete` |
| dispatch | 1 request, 2 goroutines, 2 revisions, clock to 4, one storage error | `TypeOK`, `HonestOutcome`, `LiveAuthority`, `CleanShutdown`, `ClaimBoundary`, `RecordsKept`, `ImplementsLifecycle` |
| pairs | 2 requests, keys and bodies of 1 device, 2 goroutines, clock past a deadline | `ClaimsExclusive`, `OneEffectPerKey`, `ApprovedAsReviewed`, `PendingWithinLimit` |
| slots | 2 devices with 2 slots each and 3 in all, 1 request, 3 goroutines, 2 handlers, one storage error | `SlotsAccounted` |
| rules | 2 permissions on nested rules, 3 revisions, expiring, 1 handler | `NoRuleConflict`, `CredentialsOpen`, `ApprovalNotBypassed` |
| liveness | 1 request, 2 goroutines, 1 handler, `FairSpec`, no symmetry | `Settles`, `StopCompletes` |
| identity | 2 devices, 1 file, 2 processes, 2 keys, certificates of 2 hours renewed in the last | `TypeOK`, `OneKeyPerDevice`, `IdentitySurvives`, `NoneForRevoked` |
| renewal | 1 device, 1 file, 2 processes, certificates of 4 hours renewed in the last 2, clock to 6, `TimedSpec` | `NoLapse`, `FileOutlives` |
| startup | 2 processes, 2 secrets, 4 migrations | `TypeOK`, `MigratedOnce`, `ServesItsFile`, `RootStays` |
| owner | 2 tokens, 2 requests at once, 2 logins per window of 2, sessions of 3, clock to 5 | `TypeOK`, `LoginsWithinLimit`, `LoggedOutStaysOut` |
| restore | 2 devices, 2 requests, 1 key, 1 goroutine, any number of restores | `OneEffectAcrossRestores`, `EarlierLifeIsOver` |
| agents | 1 request, 2 bodies, 1 agent, 1 page, `FairViewSpec` | `ViewTypeOK`, `ToldTheTruth`, `OwnRequest`, `PageIsWhole`, `PollEnds` |

All pass, with deadlock checked. Why the bounds are enough for the cases to happen: two
goroutines give the duplicate wakeup; two revisions a service that changes under a
waiting request; a clock past deadline plus retention gives expiry and purge; a
permission may expire before, at or after a request's deadline; one storage error may
hit any transaction; the number of crashes and restarts is not bounded. `MaxTime`,
`MaxRevision` and `MaxFaults` bound the state space, and `InsertRequest` only submits
while the deadline falls within the clock. Limits (20 pending, 4 and 32 slots, a batch
of 32) are constants made small so that they are reached. In pairs the two requests may
differ in body, in deadline or in nothing, so that a decision may carry the digest of
another page, and the pending limit is met by rows that have expired and are not yet
marked. In slots two devices may want four slots and get three, so the global limit refuses
what the device limit would allow, and one request may have two goroutines. In rules three
revisions fit a service that is created, disabled and revised, in any order after its
creation. In identity the single file
makes two processes meet on it, with either device's certificate; two devices and keys
let a mix-up show. In renewal the window has two periods, so one attempt may fail and the
next succeed, and the clock passes a renewal, the end of the certificate it replaced, whose
connection may still be open, and the window of the new one; the server's leaf runs out on
the way. In owner three logins through a limit of two need the window to
move on. In restore two devices allow one that the backup knows and one that it does not,
and two request ids the same key before and after. In agents the second body gives
another user of the same key; other users of the device are Gateway's own `DeviceSubmit`.

**Fairness.** Weak fairness of the clock, the worker's loop, each dispatch goroutine and
`Close`: the ticker fires, goroutines are scheduled, and `Send` ends by its two minute
timeout or the cancelled context. Strong fairness of `WorkerReturn`: with both channels
ready `select` picks at random, so a branch offered again and again is taken. Nothing is
assumed of owners, devices, HTTP calls, or of a restart (`compose.yaml` sets none), so
`Settles` is about a server that stays up and whose storage works: a request whose
finish was refused by storage stays in `dispatching` until the next start.
`PollEnds` needs only the clock and the polling handler to run (`ViewFairness`).

**Timing in Identity.** `NoLapse` and `FileOutlives` are about a connector that keeps
running, under `TimedSpec`: an hour does not pass while a refresh is under way (its
request has a timeout of thirty seconds), before the ticker's receiver has taken the last
firing, or before the kernel has written a renamed file back. Nothing is assumed of
connections: the server closes only idle ones (`IdleTimeout`, `main.go:261`) and the client's
`CloseIdleConnections` (`client/renewal.go:130`) spares busy ones, so a connection made with
an old certificate may outlast any number of renewals, and the transport may choose it for
the next. The server judges the certificate of the connection (`server.go:120-122`,
`server/renewal.go:25`), so such a renewal may be refused although the certificate in use is
valid, and again at every tick. `failures` therefore counts three kinds of lost attempt: a
request or answer that did not get through, a file that could not be written, and a refusal
over a connection older than the certificate in use (`Refused`). The two properties say that
a certificate of an active device lapses only when every attempt of its window was of these
kinds; a refusal over the certificate in use itself, an expired server leaf or a window that
the two sides compute differently never costs a device its identity. If refusals over old
connections were not counted, TLC would show the lapse that one busy connection causes.
`Spec` has no timing, and the properties of run identity hold without it.

## Proofs

All theorems hold for all sets of devices, services, permissions, requests, goroutines,
handlers, agents, processes and files and all limits, lives and windows, from the named
assumptions on constants (`BoundAssumption`, `RequestAssumption`, `DispatchAssumption`,
`ViewAssumption`, `IdentityAssumption`, `StartupAssumption`, `OwnerAssumption`, ...), which
TLC evaluates on the runs. Every inductive invariant was model-checked before it was proved.

**AccessProofs** — `OverlapDecides`: for paths of every length `Overlap` holds of exactly the
pairs of rules that some route falls under both of, given `RulesAreRoutes` (a submission's
path and a permission's go through the same `Path`, so a device may ask for what a rule
names). `SubtreesAreSegmentBounded`: the prefix test on text is the segment-wise one. Its
argument follows the cutting of a path character by character: the segments so far only grow
(`CutsGrow`), equal beginnings are cut alike (`CutsAgree`), different ones differently
(`CutsDiffer`), and so a rule's path with its slash begins a route's text exactly when its
segments begin the route's (`TreeIsPrefix`).

**GatewayProofs** — `DispatchInvariant`, and from it `TypeCorrect`, `ClaimsStayExclusive`,
`AtMostOneEffect`, `OutcomesAreHonest`. None of the last three is inductive. `HoldInv` has
what holds in one life of the file: candidates and goroutines are on rows and goroutines die
with the process (`BatchOnRows`, `JobsOnRows`, `QuietWhenDown`), claims are exclusive and
keys unique per device (`KeysUnique`). `DispatchInv` adds the history of transmissions: a
holder's position agrees with it (`HolderKnows`). Most steps move only waiting rows and take
nothing up (`TableStep`, `NoNewHolder`, lemma `QuietStepKeeps`); `Claim` takes a queued row,
which by `HonestOutcome` was never sent and by `ClaimsExclusive` has no holder; sending and
finishing are the holder's; `Start` meets no goroutine, so recovery may settle every
dispatching row.

Its second half proves `SentAsApproved`, `ClaimsAreAuthorized`, `RecordsAreKept`, and
`KeepsItsPromise`: the refinement `Spec => ImplementsLifecycle`. Lemma `StepOfRows` says
that every step of the whole server does to each row one of seven things (inserted,
withdrawn, purged, decided, refused, claimed, finished) or nothing. `RecordInv` adds to
`DispatchInv` that a row's permission exists, that nothing live is purged, and that what
is past the approval gate has its approval; with it each of the seven is a step of
`Lifecycle` and keeps the row's identity.

**AuthorityProofs** — `WaitingIsAuthorized`, `CredentialsStayOpen`, `RulesNeverConflict`,
`ApprovalIsNotBypassed`. The last two rest on `RuleInv` (rules in force share no route, and
no permission is ahead of its service, so that no revision brings one back), and that on
`OverlapMissesNone` of AccessProofs. Then the limits: `SlotsAreAccounted` needs that a
holder's device never changes (lemma `DeviceStays`) and that the handlers' calls are finitely
many (`SlotInv`); `PendingIsLimited` that only `Submit` adds a waiting row; `ShutdownIsClean`
that, without faults, a dispatching request has its goroutine (`DispatchingHeld`). All of
it rests on `HoldInv` alone, so it also holds in a restored file.

**RestoreProofs** — `OneEffectInAllLives` and `EarlierLivesAreOver` from `RestoreInv`: a key
in the ledger belongs to a device that has a row or is retired (`SpentIsKnown`), no holder is
about to use it again (`HolderUnspent`), and, unless the file is one that still awaits its
recovery, retired devices are not active (`ShutOut`), nothing waits with a spent key
(`WaitingUnspent`) and an active device has a row for it (`SpentIsTaken`).

**AgentProofs** — `ViewersOnlyLook`: with agents and pages, what runs is the gateway, so its
theorems carry over. `AgentsToldTheTruth`, `AgentsHoldTheirOwn`, `PagesAreWhole`, `ViewTypes`
from `ViewInv`, which adds to `RecordInv` that what an agent knows is a row of its own content
whose final status is still the one it was told. Each gateway step keeps it because rows keep
their content and final statuses are final, which `StepOfRows` supplies.

**IdentityProofs** — `OneKeyEach`, `RevokedGetNone`, `IdentitiesSurvive`, `IdentityTypes`
from `IdentityInv`: what a process holds was issued and is all of one device, a
connector's file is an identity of that device, a file being saved has one writer, the
disk is superseded only by its like, and only used invitations have certificates. Under
`TimedSpec`, `NoConnectorLapses` and `FilesOutlive` from `RenewalInv`: open connections, and
with them the one a renewal goes out on, are of the certificate in use or of earlier ones
that run out no later (`RenewsInLine`), the failures in a row make up for the part of the
window that is gone (`Tried`), and file and disk are not behind (`Fresh`, `LagsBriefly`). A
refusal over the certificate in use means, by `RenewsInLine`, that the device is revoked or
the window gone; a refusal over an older one is a failure that `Tried` counts.

**StartupProofs** — `MigrationsRunOnce`, `ServersFitTheirFile`, `RootIsKept`,
`StartupTypes` from `StartInv`: only the lock's holder is past the beginning, and each point of
the start has established its part.

**OwnerProofs** — `LogoutIsFinal` from `SessionInv`: outside a restored file a logged-out
token has no row, and tokens are not handed out twice. `LoginsAreLimited` and `OwnerTypes`
from `WindowInv`: attempts are let through in the order of the clock (`Ordered`), the
throttle's list is the end of them, and what has left the list is a minute old
(`ListIsRecent`). `ThrottleDropsOld` says what the loop of `throttle` computes on such a
list.

**Loops.** `throttle` and `Segments` are recursive functions over the positions of a
sequence. What they compute is proved by least counterexample: lemma `NatMin` (from
`WFMin` of the library) gives the first position at which a claim about the loop fails, and
the step before it is a contradiction.

**Only model-checked.** Liveness under fairness (`Settles`, `StopCompletes`, `PollEnds`),
which is out of the prover's reach.

## Not modelled

- Ciphers, key derivation and the certificates' signatures: a sealed value opens for the
  one who has the right secret and label, a certificate is for the key and device in it.
- Header and address filtering, `Normalize`, URLs, HTML: functions of one value without
  state, which unit tests enumerate.
- The characters `Path` allows: only slashes and dot segments matter to what follows.
- The `/device/services` listing and the audit tables, which nothing reads back.
- The connector's four slots and the permissions of its socket.
- The throttles for enrolling, renewing and submitting: a throttled renewal is one of the
  failures of `RefreshFails`, a throttled call is one that does not happen.
- A clock that steps backwards: `time.Now()` is taken as monotonic. A transaction reads the
  clock once.
- A restored file that is started without `--recover-restored`, against the documentation.
- During a graceful stop the model lets handlers accept further calls, which the code stops
  sooner. In Gateway a device counts as enrolled from its invitation and an owner call as
  authenticated; Identity and Owner have what comes before.

## Plan

What is left, in order of worth: a bound on how many attempts one busy connection can cost a
connector, which needs the transport's choice of connection; the connector's slots beside the
server's; that Owner's sessions and Gateway's restarts are of one process.
