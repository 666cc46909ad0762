# A verification development for Hydroline (HydCraft services)

TLA+ modules, TLC configurations and TLAPS proofs about the backend under
`src/backend/src`. Paths below are relative to that directory unless they start
with `src/`.

## 1. Inventory

The backend is one NestJS process over PostgreSQL (Prisma) and Redis. Requests
are handled by `async` methods; Node runs one of them at a time, but at every
`await` (every database call) another one may go on. A `$transaction` commits as
one step. There are no row locks and almost no conditional writes, so the order
of reads, checks and writes of overlapping handlers is what makes this system
hard.

| Component | State | Operations | What is hard | What makes it correct |
|---|---|---|---|---|
| Consent tally and ballots (`company/services/company-consent.service.ts`) | `CompanyApplicationConsent` rows, share register | `init...Consents`, `compute...ConsentProgress` | thresholds, holders without a row, rows and register read separately | the summary is final only when no further answer can change it |
| Change applications (`company-application.service.ts`, `company-workflow.service.ts`, `company-change-persistence.service.ts`) | application, workflow instance, company row, register | submit, answer, withdraw, administrator's actions, automatic approval | check-then-act over several awaits, failure half-way, votes that race approval and withdrawal | nothing is endorsed or applied without its ballot |
| Workflow engine (`workflow/`) | definitions, instances, transitions | `createInstance`, `performAction` | state read before the transaction that writes it | an action is taken only from a state that offers it |
| LLC registration (same services) | application, company, register, officers | `createApplication`, request changes, resubmit, approve with compensation | the rollback by hand, resetting consents, a form that changes under its ballot | a company is founded on a form everybody it names agreed to, and a founding that was cut off can be repeated |
| Share register | shareholders, capital | equity transfer, capital change | read, compute and write absolute ratios | capital and votes add up to the whole |
| Officers and managers | director, supervisor and manager rows | officer change, management change | delete-then-create without transaction, seats as they were at submission | legal boards, one holder per role, nobody in office who did not agree |
| Registry and read side | – | queries, single-row edits | – | – |
| Sessions, codes, invites (`auth/`) | sessions, verification codes, invites, cached users | register, log in, verify, touch, cache | consume-once, cache staleness | a code or an invite serves once |
| AuthMe binding (`authme/`) | bindings, primary binding | bind, unbind, set primary | two users for one game account | one owner per account |
| OAuth flow (`oauth/`) | state and result tokens in Redis and database | create, consume | two copies, fetch then delete | a token serves once |
| Scheduled fetch (`lib/sync`) | tasks, `running`, `lastSuccessAt` | register, trigger, tick | start-up, manual and periodic runs overlap | one run of a task at a time |
| Beacon pool (`lib/hydroline-beacon`) | clients, retry timers | get or create, retry, health check, drop | flags, timers and sockets that change in any order | a client is connected, or somebody will try again |
| Ping scheduler (`minecraft/`) | interval, settings | set interval, ping all | overlapping rounds | one interval |
| Railway sync (`transportation/railway`) | jobs, entity rows with a marker | start, sync, delete stale | guards in memory, overlapping markers, upserts that outlive their synchronisation, job rows that cannot be written, restarts | the copy comes to be what the beacon has, and loses nothing just seen |
| MTR route finder (`lib/mtr`) | heap, distances, predecessors, density, published path | find a route, join legs, preserve or fall back | settled nodes, costs below nothing, densities that change from leg to leg, failures half-way | the cheapest way on the rails, through the stops in order, and an end to the search |
| Players, ranks, LuckPerms, attachments, portal, configuration, mail, frontend | mostly queries, I/O and display | – | – | – |

**Interaction.** A change application is one row in each of four tables. Submission
reads the company and register, then creates the workflow instance, the
application and the consent rows, in that order. Each voter's request updates
rows, tallies them against the *current* register and writes the summary
(`consentStatus`) on the application. The administrator's request reads the
summary, moves the instance, then updates company and application, reads the
summary again and writes the change. A share transfer is itself such a change, and
replaces the register other open ballots are tallied with. A deregistration also
links the company to its own instance; withdrawing one links it back.

Outside the company, `minecraft-server.service.ts` configures the beacon of a
server, the pool of `lib/hydroline-beacon` keeps a client connected to it, and
the railway synchronisation takes clients from that pool for each of its
requests. The route finder works on what was copied.

The hazards found while reading, each with its line, are listed in `PROJECT.json`
under `hazards`, with the properties that cover them or the reason none does yet.

## 2. Modules

| Module | Models |
|---|---|
| `ConsentTally` | the tallies as operators, one per `compute...` method, and the rows `init...Consents` creates |
| `ConsentBallot`, `MCConsentBallot` | one ballot of any kind from creation to last answer |
| `CompanyApplications`, `MCCompanyApplications` | the handlers of all requests on the change applications of one company |
| `BallotedChange` | what the change applications promise, without requests, workflow states, withdrawals; the slots, the answers and the tally are its parameters |
| `CompanyRegistration` | one registration application, from the first form to a founded, suspended or archived company |
| `CompanyRecords`, `MCCompanyRecords` | extends it by the changes a company applies for and what they do to its shareholder and officer rows |
| `BeaconPool` | the pool's entry for one server, its client, and the handlers of an administrator |
| `RailwaySync`, `MCRailwaySync` | the three synchronisation processes on top of `BeaconPool` |
| `MtrRouteFinder`, `MCMtrRouteFinder` | the geometry of one route: graph, search, joining, fallback |
| `ConsentTally_proofs`, `ConsentBallot_proofs`, `CompanyApplications_proofs`, `CompanyRegistration_proofs`, `CompanyRecords_proofs`, `BeaconPool_proofs`, `RailwaySync_proofs`, `MtrRouteFinder_proofs` | theorems |

### State and actions of `CompanyApplications`

* `application`, `consents`, `instance`, `company`, `register`: the tables. A number
  stands for the ids of an application and of its instance; `created` gives the order of
  `createdAt`, which `withdrawMyApplication` sorts by. An instance may exist
  without application row (`status = "none"`): that is what a submission that failed after
  `createInstance` leaves. Number 0 is the registration, already approved.
  `adminExecuteAction` acts on whatever instance its payload names, so `StartAction`
  may be about any instance that exists, one without application included.
* `effects`, `seen`: history variables, used by properties only: how often the
  change of an application was written, and which values the register has had.
* `request[r]`: the local variables of a handler, with `pc` the await it is at.

| Handler | Actions, in the order of the code |
|---|---|
| `create...Application` | `LoadCompany`, `CheckExisting`, `CreateInstance`, `CreateApplication`, `CreateConsents`, `CountPending`, `WriteInitialConsent`, `LinkCompany` (deregistration), `ConsiderAutoApprove`, then the administrator's actions twice |
| `decideApplicationConsents` | `CheckUndecided`, `AnswerConsents`, then the two parallel reads in either order (`ReadRegister`, `TallyLastRows` or `ReadRows`, `TallyLastRegister`), `PublishProgress` |
| `executeWorkflowAction` | `StartAction`, `CheckConsent`, `FindTransition`, `WriteTransition`, `UpdateCompany`, `UpdateApplication`, `RecheckConsent`, `Persist` |
| `withdrawMyApplication` | `CheckWithdrawable`, `Withdraw` (one transaction) |
| any, when a call fails | `Abort` (in `FaultySpec` only): the handler ends and what it wrote stays |

One module models all of them, because the properties are about the handlers'
interleaving on the same rows. The workflow definitions of `company.constants.ts`
are data (`ChangeFlow`, `RegistrationFlow`), since all change kinds share states
and actions.

### Abstractions

* `votingRatio` is a Float compared with an epsilon of 1e-9; here a weight is
  a natural number and comparisons are exact. Rounding is not modelled: ratios that are
  within the epsilon of a threshold but not on it are out of reach.
* Who may act (permissions), the text of comments, notifications, audit rows
  and payload validation are left out: they guard a request before its first
  write or do not feed back.
* A Prisma call is a step. The counts of the default tally are one step: a transfer
  has a single row, which the tallying handler itself has answered, so they agree.
* `Persist` says that the change of a kind is written, not how; a transfer may lead to
  any register of `Registers`.
* `Signatory` is constant: a row keeps the user it was created for (`requiredUserId`), and that a
  company's legal representative changes between two ballots is left out.
* One company: rules about other companies (free names, existing holders) are payload validation, and an
  administrator names no instance that belongs to another company.
* No register is without votes, since ratios must add up to 100 when a company registers; the branch
  of the tallies for a total of zero is modelled but not reached in the runs.
* Management changes are in `CompanyRecords`: their voters are directors, who are
  part of its state and not of this one's.

### State and actions of `CompanyRegistration` and `CompanyRecords`

`CompanyApplications` says how handlers overlap and leaves open what an approval
writes. These two say what it writes, and let handlers follow one another: a
request is one step, whose disjuncts are the places where it may end. `ballot`,
`application`, `instance`, `company`, `shares` and `posts` are the rows of one
company; `changes` is the sequence of its later applications, each a record of
its form, ballot, status and workflow state. `wanted` and `torn` are history variables:
the applicant's last word was to submit; the last renewal of the ballot was cut off
half-way. A form (`Payloads`) is the type of the company, the holdings and the
posts it fills, as slots `<<role, person>>`, which are the consent rows' keys.

| Handler | Action | Where it may end early |
|---|---|---|
| `createApplication` | `CreateApplication` | application and instance written, the ballot not (a holding company cannot be asked) |
| `updateMyApplication` | `UpdateApplication` | – |
| `resubmitMyApplication` | `Resubmit` | after `performAction`; old ballot deleted, the new one refused; new ballot out, the application still `NEEDS_CHANGES` |
| `decideApplicationConsents` on the form | `Decide` | answers written, the summary not |
| `withdraw...`, and answers to changes | `Withdraw`, `DecideChange`, `WithdrawChange` | – |
| `executeRegistrationApplicationWorkflowAction` | `Review` | after `performAction`; for `request_changes` also after the status and after the rows are deleted |
| the same, approve | `Approve`, `CreateMissingCompany` | after `performAction`, after the next update, after the compensation |
| `executeWorkflowAction` | `Administer` | after `performAction`, after the company's status |
| `executeWorkflowAction` on a change | `RouteToReview`, `RejectChange`, `ApproveChange` | approval: after `performAction`, before the effect, between the two writes of a management change |
| `create...ChangeApplication` | `SubmitTransfer`, `SubmitOfficerChange`, `SubmitManagementChange` | – |

Where a handler of the change kinds may be cut off besides is the subject of `CompanyApplications`.

**Type and form.** The code asks two different questions of a registration. Whether the form is
validated (`validateLlcApplication`), who is asked and how `consentStatus` begins goes by the company type;
what `persistLlcRegistration` writes goes by whether the form has an `llc` part.
Nothing ties the two together: a form of another type, or of none, founds a company with a
register and officers that nobody validated and nobody was asked about. The model has
such forms (`Loose` in the run). `FoundedOnAgreement`, `RegisterBalances` and `BoardIsLegal` are
therefore about companies *of the LLC type*; of the others they are false.

**Torn ballots.** `resubmitMyApplication` creates the new ballot and closes the form afterwards;
`request_changes` opens the form and deletes the old ballot afterwards. A server that stops in
between leaves a form that may be rewritten beside a ballot that may be answered: the applicant
rewrites the form, the people named in the *old* one agree, and approve founds the company on the
*new* one. `company-workflow.service.ts:204` says “等待申请表涉及到的所有用户同意后才能提交登记机关” (everybody the form
concerns has to agree first) and `company-application.service.ts:946` “按最新表单内容重新生成需同意人员” (who is
asked follows the latest form). The model takes these steps and marks them with `torn`, until the
ballot is next renewed as a whole; the four properties with `~torn` promise nothing in between.

Holdings are naturals that make up `Whole`; the code's Floats and their epsilon
are left out, as in `ConsentTally`. Names, categories, authorities, addresses and permissions
are left out. That the registration's form names a person twice as a
shareholder is excluded by holdings being a function. Changes of a company that has officers and
no shareholder, which only an unvalidated form founds, are not followed.

### State and actions of `BeaconPool` and `RailwaySync`

`entry` is the pool's entry: its endpoint, the state of its socket, the client's
`connecting` flag, whether a timer is armed; `byHand` is a history variable that
marks an attempt which only `connectBeacon` has made. `config` is the server's
row, `up` the network. The socket's callbacks are actions (`OnConnect`,
`OnConnectError`, `OnDisconnect`), as are timers (`RetryTimer`, `HealthCheck`), every
handler that asks for the client (`UseClient`) and the four of an administrator.
Time is left to chance: a timer that is armed may fire, which is what the delays of
`computeDelay` come to when nothing bounds how long a connection takes.

In `RailwaySync` `run[p]` holds the local variables of the cron job, a
synchronisation job and a log job, with `pc` the await each is at. One of the six
categories stands for all: the code goes through them one after the other in the
same way. `syncedAt` is compared for equality only, by the synchronisation that
took the marker: a row keeps the set `stale` of those under way that would delete it.
`Restart` clears what is in memory (`syncing`, `queued`, `run`, `entry`) and keeps
the tables.

A failure is more than an end. `upsertRowsInBatches` rejects at the first upsert that
fails, and the other upserts of the batch go on: `Fails` leaves any part of what was still to be written
in `strays` (`logStrays` for the log), and each of them lands later (`StrayLands`), with the marker of the
synchronisation that is over. A job first has to write that it failed (`pc = "failed"`), and
that write (`RecordFailure`), the one that it runs (`StartJob`), the refusal, and reading the row
(`LoseJob`) may fail as well. `orphans` remembers the jobs
whose row could not be read or written, and those a restart cut off.

`handleScheduledSync` copies all servers in turn in one `try`. The module follows one of them;
`ahead` says that one of those before it cannot be copied, which ends the round
(`ServerAheadFails`). `active` is the column `isActive`, by which the servers are selected. The
snapshot computed after the rows is a database call that may fail; what it computes is
`MtrRouteFinder`'s.

### State and actions of `MtrRouteFinder`

One candidate taken off the heap is a step (`SkipCandidate`, `ExceedCap`, `ReachTarget`, `Expand`),
one link followed by `reconstructPath` is a step (`TraceBack`). The heap is a set of which any
cheapest element may be given. A connection's weight stands for its distance and penalties, and
differs by direction, as preferred curves do; `Discount` is the boost of a density, which `EndLeg`
raises along the way taken, so that every leg is searched at other costs. A cost may be **less than
nothing**: the distance ignores height and the boost grows with density, so a rail straight up, or a
short one ridden often, is gainful (`lib/mtr/mtr-route-finder.ts:288`). Then the links may come to
form a circle, and `reconstructPath` adds nodes to its list until the process is out of memory
(`Exhaust`, where `MaxTrail` stands for the memory). The module takes costs of either sign, and each
property says what it needs: `NoGain`, no connection costs less than nothing; or the weaker
`Levelled`, no round trip does (heights of the nodes make up for every gain).

`Publish` is what `computeRouteGeometrySnapshots` does with the result. A path that was not found,
or has fewer nodes than the route has platforms, gives way to the path of the row published before
(`Snapshots`), which is published as `preserved` whatever stops the route has now; without one it is
the `fallback`, which is not drawn over the rails. `transportation/railway/route-detail/impl` holds
a copy of the snapping and joining code, which behaves the same.

## 3. Runs

| Run | Question | Result |
|---|---|---|
| `consent_ballot` | Do the four tallies decide exactly when they may? | pass |
| `concurrent` | Two overlapping handlers on one application, each of which may die anywhere | pass |
| `serial` | One handler at a time, two applications of three kinds, with suspension, archiving and automatic approval | pass |
| `live` | Is a won ballot endorsed? | pass |
| `duplicate_open` | Two overlapping submissions | violated |
| `stale_endorsement` | Two voters at once | violated |
| `lost_ballot_endorsed` | Votes that arrive while the ballot is being created | violated |
| `orphan_deregistration` | A submission that dies after creating its instance, which an administrator then names | violated |
| `lifecycle` | A company from its first form through two changes of its records | pass |
| `railway_sync` | Cron and jobs (synchronisation or log) on one client, with failures, an administrator and restarts | pass |
| `beacon_stuck` | An attempt of `connectBeacon` that is refused | violated |
| `route_finder` | Four routes over every network of up to five rails, one of them possibly gainful | pass |

**What they check.** `TallyIsConclusive` compares each tally with the voting rule stated on complete
ballots: `APPROVED` iff every completion carries, `REJECTED` iff none does. `FullBallotIsDecided`
and `DecisionIsStable` say that no ballot hangs at a threshold and that no summary turns round.
`EndorsementIsJustified` and `EffectIsJustified` relate the summary and the written change to the
rows, over any interleaving; `BallotedChanges` is the refinement of `BallotedChange`.
`OneOpenPerKind`, `AppliedAtMostOnce`, `ApprovedIsApplied`, `EndorsementIsFresh`,
`WithdrawnIsNotEndorsed`, `ClosedStaysClosed` and `ArchivedWithConsent`, which ties the end of the
company to a ballot, are what the code achieves when requests do not overlap or fail; the violation
runs and the notes of the hazards say which of them overlapping and failing requests break.

`lifecycle`: `FoundedOnAgreement` says that everybody the form of a limited liability company names
has agreed to it, however often it was sent back, rewritten and reopened; `ApprovalIsRepairable`
that a founding cut off half-way can be repeated, once the authority has undone what it did to the
instance since; both but for torn ballots. `FoundedIfWanted` says that no withdrawn form founds a
company, though its cancelled instance may be reopened. `RegisterBalances`, `BoardIsLegal` and
`OneManagerPerRole` are invariants of the records under every order of changes and every cut-off
approval, and `NobodyIsDrafted` relates each new post and each larger share to a ballot on which its
holder said yes, although the ballot is drawn up at submission and the posts are replaced at
approval. `railway_sync`: `PoolWatches` says that the pool does not lose sight of a client by its
own doing; `StaysConnected` that after the last disturbance the client is connected; `Converges`
that the table then comes to agree with the beacon, except for a server that is out of use or has no
beacon, is behind another that keeps failing, or has the client that `connectBeacon` leaves behind;
`JobsAreAccountedFor` and `JobsEnd` that jobs end, except for orphans; `KeepsWhatItSaw` that a
synchronisation does not delete what the beacon has just reported. The last one has a wide
exception, and needs it: a synchronisation that began while another was copying, or had left writes
behind, does delete rows which these write again with their older marker. What begins, fails or
lands later does it no harm. `route_finder`: `LegIsCheapest` and `FailureIsTrue` compare the search
with the set of all ways; `ServesStops` and `RouteIsRail` are about the legs joined and what is
published; `TrailIsSimple` and `SettledIsFinal` are what the search relies on. That a way is a way,
that no path means that there is none, and that what is published as drawn serves the stops holds
with costs of either sign; the comparisons of costs hold where `NoGain` does. `ServesStops` is about
the platforms that have a rail near: the code drops the others without a word.

**Bounds.** Ballots: three parties, one user signing for two of them, at most two newly
named parties, five registers chosen for their weights (one holder exactly 2/3 or 1/2, three equal
ones, a holder without votes, a single holder). The register of the ballot's
creation and that of the tally are chosen independently, so a transfer in between is included.
Applications: two registers, a majority holder with exactly two thirds, and a split
one in which a former holder without shares and a new holder without a row
occur. `concurrent` has two handlers and one application: every race the code has
is between two handlers on the same rows, and two of them already give each step of
one between any two of the other. `serial` has two applications, enough for a second one of the same
kind, a transfer under an open ballot, and a withdrawal that links back over
another application. A deregistration, a rename (for the other two-thirds kinds),
a capital change and a transfer are the kinds whose handlers differ.
`MaxApplications` is a bound on submissions; a handler that could not get a number is not
started (`MayCreate`), so the bound never blocks one half-way. `CHECK_DEADLOCK` is off
because a system in which everything is decided really stops.

`lifecycle`: two users and a holding company one of them signs for; five forms (two that differ in
holders, seats and a supervisor, one that is refused, one of another type, and one that names no
type and leaves half of the company to nobody); shares in halves, with a holder who has capital and
no votes, which is the least with which a transfer can split, empty and create a holding; four
boards and three teams, some of them refused; two changes, the least with which one is submitted
before another takes effect. There is no limit on how often a form is sent back. Once a change is
applied for, states in which the registration was torn or its administration cut off are followed no
further (`InStep`): a change looks at nothing of the registration but the status of the company. The
theorems have no such bound. `railway_sync`: one entity, which may be demolished and built again,
one recent log row, two addresses, two jobs; `Budget` bounds failures, restarts and interventions by
two *altogether*, so that all of the system's own steps are unbounded. Two synchronisations overlap
(cron and job), or one begins after the other has failed and left writes behind. The second job is enqueued
while the first runs and is of its kind, so its guard refuses it, or lets it run when the first ends
before it is looked at; with it there is one disturbance instead of two (`FewJobs`). That only keeps
steps from being taken that nobody owes: of each action with fairness a step is left whenever the
action can be taken. `beacon_stuck` has one disturbance more. `route_finder`: all subsets of five
rails that form a circle with a branch, two weights in either direction, one of them nothing at all
for the rail of *a* and *b*, which is then gainful and may close a circle; a cap one below the
number of nodes; routes with a loop, a platform away from the rails, a platform too far from them, a
single platform; no snapshot, one long enough for every route, one for the short ones only. `Levels`
holds the heights that make up for such a rail at the densities of a first leg; where a denser one
would need more, the run does not look (the theorem does). A list of six nodes (`MaxTrail`) is
longer than any without a repetition, so `Exhaust` is reached only on a circle.

**Fairness.** The specification of `railway_sync` assumes that timers fire, the cron job comes
round, awaited calls return, writes under way land (`StrayLands`) and the beacon comes back (all
weak). That the servers before this one in the list answer again is not assumed, which is why
`Converges` excepts them. A connection attempt succeeds in the end although the timer may cut
attempts off (strong): from the third attempt on the timer leaves it 30 s and more, and an attempt
times out after 10 s unless the server is configured with more (`computeDelay`, `beacon.client.ts`).
What an administrator does, edits and failures have no fairness. For the change applications,
`FairSpec` gives weak fairness to the steps of a handler that has started, and to nothing else: Node
resumes a handler when its database call has returned, while nobody owes the server another request.
`live` runs without `Abort`, and with one handler: with two, the stale write of `stale_endorsement`
would hide the endorsement for good.

## 4. Findings

1. **Two open applications of a kind.** `company-application.service.ts:2512`
   promises one per kind; the check and the creation are separate awaits
   (`duplicate_open`).
2. **Stale summary.** `decideApplicationConsents` tallies, then writes; the older tally may be
   written last, and a won ballot then stays `PENDING` with no one left to answer
   (`stale_endorsement`).
3. **Refused ballot recorded as approved.** `init...Consents` counts `PENDING` rows after creating
   them, and takes none for agreement (`lost_ballot_endorsed`).
4. **Deregistration without ballot.** The consent gate is skipped for an instance without
   application. A submission that fails after `createInstance` leaves one; an administrator may name
   it in the payload (`company-workflow.service.ts:84-88`, unchecked), and a later withdrawal may
   link the company to it (`orphan_deregistration`).

5. **A client that connects for ever.** `connectBeacon` reconnects without arming the pool's timer
   (`minecraft/minecraft-server.service.ts:750`); when the beacon refuses, the client keeps
   `connecting`, the status page shows “连接中”, and the health check passes it over
   (`beacon_stuck`). `PoolWatches` and `StaysConnected` show that this is the only way to get there.

The first four need overlapping or failing requests; run serially, the corresponding
property holds. The fifth needs an administrator and a beacon that is away.

## 5. Proofs

`ConsentTally_proofs` and `ConsentBallot_proofs` are about single ballots, with any parties, slots and
registers (`BallotAssumption`, `RegistersAssumption`: finitely many parties, natural holdings of
parties, and somebody who may vote).

| Theorem | States |
|---|---|
| `WonBallotStaysWon`, `DecidedBallotStaysDecided` | answers that come later leave a decided tally as it is |
| `AnsweredBallotIsDecided` | a ballot without rows that wait is not `PENDING` |
| `TallyDecidesByTheRule` | `[]TallyIsConclusive` |
| `FullBallotsAreDecided`, `DecisionsAreStable` | `[]FullBallotIsDecided`, `DecisionIsStable` |
| `BallotTypes` | `[]TypeOK` |

Answers turn `PENDING` rows into something else, so the set of agreeing parties grows, and so
does its weight (`WeightGrows`). `TallyIsConclusive` quantifies over every way the
missing answers may turn out. The rule only gains by another yes (`CarriesGrows`), so two of them
are enough: that everybody who is left says yes, and that nobody does; these are the two
numbers the tallies compare with the threshold. The invariant `BInv` says that the rows are
those `init...Consents` creates. The tally counts votes as a cardinality and the rule adds up
holdings with the community modules' fold; that both are equal (`WeightIsSum`) is proved by a
smallest counterexample, since induction is out of reach.

`CompanyApplications_proofs` proves, for any finite number of requests, any number of
applications, any parties and registers, and with handlers that may die at every step
(`FaultySpec`; `Spec` allows fewer behaviours):

| Theorem | States |
|---|---|
| `TypeCorrectness` | `[]TypeOK` |
| `EndorsementsAreJustified` | `[]EndorsementIsJustified` |
| `EffectsAreJustified` | `[]EffectIsJustified` |

None of the two properties is inductive: a handler may write a summary it computed many steps
ago, and a `Persist` relies on a check made before. The inductive invariant `IInv` adds

* `Local(r)`: what each suspended handler remembers: the register it read is one the company has had,
  a tally of `APPROVED` it is about to write is justified, a handler past `RecheckConsent` works on a
  justified application, and so on for each `pc`;
* `OwnNumbers`: no two handlers are creating the same application;
* `NoEarlyBallot`: no rows before the application's own handler creates them.

`Frame` says what one step may change for all other handlers (rows are only answered,
kinds stay, the registers that were seen stay). `JustifiedStays` derives from `WonBallotStaysWon` that
what is justified stays so; `OthersKeepLocal` combines them, and one lemma per
handler covers the handler's own steps. The assumptions are those `CompanyApplications`
names: finitely many requests, natural bounds, registers that are non-empty, finite and
of natural weights.

**The refinement.** `BallotIsImplemented` (`FaultySpec => BallotedChanges`) maps the tables onto
`BallotedChange`: `endorsed` are the applications shown as `APPROVED`, and a step of a
handler is either one of its steps or leaves its variables alone. It needs `Numbering` besides
`IInv`: a number has no kind before `CreateInstance` uses it and keeps the one it then gets, and no
registration reaches `Persist`.

**Requests one after the other.** The properties of the run `serial` are about
requests that do not overlap. They are theorems under the
hypothesis `OneAtATime` (there is one request at a time) and with calls that do not fail (`Spec`), for any
number of applications, parties and registers:

| Theorem | States |
|---|---|
| `OneIsOpen` | `[]OneOpenPerKind` |
| `ArchivingIsAgreed` | `[]ArchivedWithConsent` |
| `EffectsComeOnce`, `ApprovedIsWritten` | `[]AppliedAtMostOnce`, `[]ApprovedIsApplied` |
| `SummaryIsFresh`, `WithdrawalUnendorses` | `[]EndorsementIsFresh`, `[]WithdrawnIsNotEndorsed` |
| `ClosingIsFinal` | `ClosedStaysClosed` |

Their invariant `SInv` says when the row, the instance, the ballot and the effect of an application agree
(`Rests`), that only an application a handler is at work on may be out of step (`Busy`), and how far
out it is at each `pc` (`Stage`). The hypotheses
are needed: two overlapping requests break `OneOpenPerKind` (`duplicate_open`) and `EndorsementIsFresh`
(`stale_endorsement`), a submission that fails half-way breaks `ArchivedWithConsent` (`orphan_deregistration`).

`CompanyRegistration_proofs` and `CompanyRecords_proofs`, for all forms, parties, signatories, boards, teams
and any number of changes, prove every property of the run `lifecycle`:

| Theorem | States |
|---|---|
| `CompaniesAreAgreedTo` | `[]FoundedOnAgreement` |
| `ApprovalsCanBeRepeated` | `[]ApprovalIsRepairable` |
| `NoCompanyAfterWithdrawal` | `FoundedIfWanted` |
| `ManagersAreUnique`, `BoardsAreLegal` | `[]OneManagerPerRole`, `[]BoardIsLegal` |
| `NobodyIsEverDrafted` | `NobodyIsDrafted` |
| `RegisterAlwaysBalances`, `RecordsTypeCorrect` | `[]RegisterBalances`, `[]TypeOK` |

The first three follow from `RegistrationInv`: the rows are those of the form or there are none
(`BallotIsOfForm`), a summary of `APPROVED` means that every row is (`ConsentIsAgreed`), the form of
a ballot has been validated, though it may have been saved under no type (`AskedIsValid`), a form
can be rewritten only when its ballot is gone (`RewrittenIsUnasked`), and an instance that has been
approved has its consent, also when the authority has suspended or archived it since
(`ApprovedIsAgreed`). These hold `~torn`, and again from the next complete renewal on, which is why
`torn` can be taken back. A withdrawn form has no row that waits, so its summary can no longer
become `APPROVED` (`WithdrawnIsOver`), torn or not; the state of the instance alone would not do,
since the authority may go on acting on it. What premises the theorems have is said in section 2:
`BoardsAreLegal`, `RegisterAlwaysBalances` and `CompaniesAreAgreedTo` are about companies of the LLC
type with a ballot that is not torn, `ApprovalsCanBeRepeated` about the latter; `FoundedIfWanted`,
`NobodyIsDrafted`, `OneManagerPerRole` and the types hold for all. The next three rest on
`RecordsInv`: a change that may still take effect has a row for everybody it brings in (`Sound`).
That stays so when posts change because only a change of the same kind could change them in its
roles, and no two of a kind are open (`OneIsOpen`). `BalanceInv` adds the arithmetic:
`PassingOnKeepsTotal`, from lemmas on the cardinality of `VotesOf`. The assumptions are
`PayloadsAssumption` (a form names parties, once each in a management role), `RecordsAssumption` and
`WholeAssumption`.

`BeaconPool_proofs`: `PoolWatches` is not inductive, because `connectBeacon` may come
between a timer and its attempt. `PoolInv` adds that an attempt under way has a
timer behind it or is `connectBeacon`'s, and that a client which is connected or was told to
disconnect does not claim to be connecting.

`RailwaySync_proofs`, for any entities, endpoints, log rows, jobs and failures: `SyncTypeSafe`
(`TypeOK`), `NoJobIsForgotten` (`JobsAreAccountedFor`, with the invariants that an idle process has
no job and that only jobs write that they failed, each in its own row, `RunsItsJob`),
`SyncKeepsPoolWatching` (`PoolWatches`; the pool's lemmas are used for the steps that fetch a
client) and `NothingSeenIsDeleted` (`KeepsWhatItSaw`). The last rests on four facts: log jobs do not
copy the category, so at most two processes do; of two that overlap the one that began first is not
the `newest`; no write that a failed synchronisation left behind makes a row stale to one that found
none such when it began (`StraysAreFresh`); so no row written by one that began alone becomes stale
to it again (`SeenIsFresh`), even when another writes it once more.

`MtrRouteFinder_proofs`, for any network, routes, snapshots, weights and densities, costs below
nothing included, proves every property of the run `route_finder`. `RouteAssumption` gives the
constants their types; that `MaxDensity` is no smaller than the nodes and platforms there are makes
it the domain of `Discount` and no bound: `Dense` proves that no density outgrows it.

| Theorem | States | Premise | Rests on |
|---|---|---|---|
| `RouteTypeSafe` | `[]TypeOK` | – | `Links`, `Dense` |
| `RouteStaysOnRails` | `[]RouteIsRail` | – | `Links`, `Tracing`, `Joins` |
| `DrawnRoutesServeStops` | `[]ServesStops` | – | `Serves` |
| `TrailsAreSimple` | `[]TrailIsSimple` | `Levelled` | `Climbing` |
| `SettledStaysFinal` | `SettledIsFinal` | `NoGain` | `Frontier` |
| `LegsAreCheapest`, `FailuresAreTrue` | `[]LegIsCheapest`, `[]FailureIsTrue` | `NoGain`, for what they say of costs and of the cap | `Cheapest` |

The premises stand in the properties, where the code may fail to meet them. `Frontier` is Dijkstra's
argument: what is visited is no farther than what is not (under `NoGain`), and the heap has a
candidate for every node reached and not visited. `Links` says that a predecessor was visited and is
joined to its node by a connection, or the node is a start, and `Joins` at which stop the legs so
far have ended. `Climbing` says that, seen from any heights that make up for the gains, a link leads
to a lower node, or to one as low that is fewer steps from a start; distances alone would not do,
since a rail may cost nothing. `Serves` says that the points collected serve the stops up to the
next leg's first.

`LegIsCheapest` and `FailureIsTrue` compare with all ways there are. `Explored` says that
whatever is visited has been expanded, so no neighbour of it is farther than through it, and that
every node reached has a way of that cost over visited nodes. A way to the
next stop ends at a node that is not visited, so it passes a first such node, which costs no more
than the way and no less than what comes off the heap (`UnvisitedOnTheWay`). So the stop that comes off the heap
is as near as any; `Linked` and `Measured` carry its distance through reconstructPath. The cost of a
way is a fold over its connections: it is proved to be the number of the units they are made
of (`TollIsSum`), which the theorems on finite sets can count. `Stops` is written
with the position of each platform that is kept, not with `SelectSeq`, which the provers
cannot look into.

**Only model-checked**: liveness (`WonBallotIsEndorsed`, `Converges`, `StaysConnected` and
`JobsEnd`), which is out of the prover's reach. All other properties that passing runs check are
theorems, those of `serial` under `OneAtATime`. `ArchivedWithConsent` is false as soon as a
submission may fail, with one application already (`orphan_deregistration`), so only `serial` checks
it and no theorem states it without the hypothesis. The runs with a violation show where the code
breaks the promise, and there is nothing to prove.

## 6. Plan

1. Proofs: which of the serial promises survive two requests on *different* applications; that
   the change applications implement the ballots of `ConsentBallot`; that a synchronisation
   without failures leaves the table equal to what the beacon reported (a safety form of `Converges`).
   The registration's handlers overlapping, as those of the changes do, with torn ballots as a run of their own.
2. The other stateful services, a module each, with overlapping handlers: `AuthTokens`
   (codes, invites, sessions and their cache), `OAuthState`, `AuthmeBinding`,
   `ScheduledFetch`, `PingScheduler`.
3. Overlapping transfers on the share register, once the isolation level is made explicit.

## 7. Not modelled

Queries, serialisation, file storage, mail, portal documents and the frontend keep no state whose
steps interact; together they are most of the repository's lines. Player, rank and LuckPerms data
belong to game databases that are only read. Sessions, codes, invites, AuthMe bindings, OAuth
tokens, the scheduled fetch and the ping scheduler have state and races; they are in the plan, and
their hazards are listed without a property. A capital change, a rename, a domicile and a business
scope change write a single column of the registration that nothing modelled reads. Code outside the
repository (PostgreSQL, Redis, socket.io, game servers) appears only as the calls the handlers make,
and as the network of `BeaconPool`.
