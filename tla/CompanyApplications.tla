------------------------- MODULE CompanyApplications -------------------------
(***************************************************************************)
(* The change applications of one registered company, from submission to   *)
(* effect: company-application.service.ts (create..., decide..., withdraw),*)
(* company-workflow.service.ts (the administrator's actions),              *)
(* company-consent.service.ts (the ballot), workflow.service.ts (the state *)
(* machine of an application) and company-change-persistence.service.ts.   *)
(*                                                                         *)
(* Every request runs in a handler that awaits one database call after the *)
(* other, so a handler is a sequence of steps between which the handlers   *)
(* of other requests run. A step is one call or one $transaction.          *)
(*                                                                         *)
(* An application and its workflow instance share a number; numbers follow *)
(* the instances' createdAt. Number 0 is the application the company was   *)
(* registered by, already approved when the model starts.                  *)
(***************************************************************************)
EXTENDS ConsentTally

CONSTANTS
  Requests,        \* the requests the server works on at the same time
  MaxApplications, \* bound: how many change applications are submitted
  Kinds,           \* the kinds of application that are submitted
  MaxNamed,        \* bound: how many parties an application newly names
  Signatory,       \* Signatory[p]: the user who answers for party p
  Registers,       \* the shareholder registers the company may have
  FirstRegister,   \* the register it is registered with
  AdminActions,    \* the workflow actions administrators take
  AutoApprove      \* the autoApprove settings an administrator may choose

ASSUME RequestsAssumption == IsFiniteSet(Requests)
ASSUME BoundAssumption == MaxApplications \in Nat /\ MaxNamed \in Nat
ASSUME KindsAssumption ==
  Kinds \subseteq TwoThirdsKinds \cup {"officer_change", "equity_transfer"}
ASSUME RegisterAssumption ==
  /\ FirstRegister \in Registers
  /\ \A R \in Registers :
       /\ DOMAIN R \subseteq Parties /\ DOMAIN R # {}
       /\ IsFiniteSet(DOMAIN R) /\ R \in [DOMAIN R -> Nat]
ASSUME SettingsAssumption ==
  /\ AutoApprove \subseteq BOOLEAN
  /\ AdminActions \subseteq
       {"route_to_review", "approve", "reject", "suspend", "reactivate", "archive"}

VARIABLES
  application, \* status and consentStatus of every application row
  consents,    \* the consent rows of every application
  instance,    \* kind, currentState and status of every workflow instance
  created,     \* the number of the instance created last
  company,     \* status, linked instance and workflowState of the company
  register,    \* the shareholder register
  effects,     \* history: how often the change of an application took effect
  seen,        \* history: the values the register has had
  request      \* the local variables of the handler of every request

data == <<application, consents, instance, created, company, register,
          effects, seen>>
vars == <<data, request>>

-----------------------------------------------------------------------------
(***************************************************************************)
(* The tables.                                                             *)
(***************************************************************************)

Applications == 1 .. MaxApplications
Numbers      == 0 .. MaxApplications
Users        == {Signatory[p] : p \in Parties}
NoKind       == "none"
NoRows       == [slot \in {} |-> "PENDING"]

OpenStatus   == {"SUBMITTED", "UNDER_REVIEW", "NEEDS_CHANGES"}
ClosedStatus == {"APPROVED", "REJECTED", "ARCHIVED"}

\* The workflow definitions of company.constants.ts: <<action, from, to>>. Those
\* of the change applications have the same states, actions and roles.
ChangeFlow == { <<"route_to_review", "submitted", "under_review">>,
                <<"reject", "submitted", "rejected">>,
                <<"approve", "under_review", "approved">>,
                <<"reject", "under_review", "rejected">> }

\* The registration workflow, from the state that ends the registration.
RegistrationFlow == { <<"suspend", "approved", "suspended">>,
                      <<"reactivate", "suspended", "approved">>,
                      <<"archive", "suspended", "archived">> }

Flow(kind) == IF kind = "registration" THEN RegistrationFlow ELSE ChangeFlow
Actions    == {step[1] : step \in ChangeFlow \cup RegistrationFlow}
States     == {step[3] : step \in ChangeFlow \cup RegistrationFlow}
                \cup {"submitted"}
FinalStates == {"approved", "rejected", "archived"}

\* business.applicationStatus and business.companyStatus of a state.
ApplicationStatus(state) ==
  CASE state = "submitted"                -> "SUBMITTED"
    [] state = "under_review"             -> "UNDER_REVIEW"
    [] state = "approved"                 -> "APPROVED"
    [] state = "rejected"                 -> "REJECTED"
    [] state \in {"suspended", "archived"} -> "ARCHIVED"

CompanyStatus(kind, state, current) ==
  CASE kind = "registration" /\ state = "approved"    -> "ACTIVE"
    [] kind = "registration" /\ state = "suspended"   -> "SUSPENDED"
    [] kind = "registration" /\ state = "archived"    -> "ARCHIVED"
    [] kind = "deregistration" /\ state = "approved"  -> "ARCHIVED"
    [] OTHER -> current

\* The row of application a exists.
Exists(a) == application[a].status # "none"
IsOpen(a) == application[a].status \in OpenStatus
Kind(a)   == instance[a].kind

\* Changes that a persist...IfNeeded method writes; a deregistration takes
\* effect through the company status alone.
PersistedKinds == (TwoThirdsKinds \ {"deregistration"})
                    \cup {"officer_change", "equity_transfer"}

(***************************************************************************)
(* The local variables of a handler. Those it does not use keep the value  *)
(* they have in Idle.                                                      *)
(***************************************************************************)
Idle == [ pc      |-> "idle",
          kind    |-> NoKind,        \* create: the kind applied for
          app     |-> 0,             \* the application worked on
          user    |-> "nobody",      \* decide: who answers
          vote    |-> "PENDING",     \* decide: the answer
          holders |-> FirstRegister, \* create, decide: the register as read
          rows    |-> NoRows,        \* decide: the ballot as read
          tally   |-> "PENDING",     \* the consentStatus to be written
          act     |-> "none",        \* admin: the workflow action
          auto    |-> FALSE,         \* admin: approve follows route_to_review
          to      |-> "submitted" ]  \* admin: the state performAction found

Goto(r, label) == request' = [request EXCEPT ![r].pc = label]
Done(r)        == request' = [request EXCEPT ![r] = Idle]

Init ==
  /\ application = [a \in Numbers |->
       IF a = 0 THEN [status |-> "APPROVED", consent |-> "APPROVED"]
                ELSE [status |-> "none", consent |-> "PENDING"]]
  /\ consents = [a \in Numbers |-> NoRows]
  /\ instance = [a \in Numbers |->
       IF a = 0
       THEN [kind |-> "registration", state |-> "approved", status |-> "COMPLETED"]
       ELSE [kind |-> NoKind, state |-> "submitted", status |-> "ACTIVE"]]
  /\ created = 0
  /\ company = [status |-> "ACTIVE", link |-> 0, workflowState |-> "approved"]
  /\ register = FirstRegister
  /\ effects = [a \in Numbers |-> 0]
  /\ seen = {FirstRegister}
  /\ request = [r \in Requests |-> Idle]

-----------------------------------------------------------------------------
(***************************************************************************)
(* create...Application: load the company, refuse a second open one, create*)
(* the instance, the application and the consent rows, sum them up.        *)
(***************************************************************************)

\* Bound: no request is started that would need a number past the last one, so
\* that the bound of CreateInstance never leaves a handler waiting.
MayCreate ==
  created + Cardinality({r \in Requests :
              request[r].pc \in {"check", "instance"}}) < MaxApplications

LoadCompany(r, kind) ==
  /\ request[r].pc = "idle"
  /\ MayCreate
  /\ company.status \in {"ACTIVE", "SUSPENDED"}
  /\ request' = [request EXCEPT ![r] =
       [Idle EXCEPT !.pc = "check", !.kind = kind, !.holders = register]]
  /\ UNCHANGED data

CheckExisting_IgnoreReviewed(r) ==
  /\ request[r].pc = "check"
  /\ IF \E a \in Applications :
          Kind(a) = request[r].kind /\ application[a].status = "SUBMITTED"
     THEN Done(r)
     ELSE Goto(r, "instance")
  /\ UNCHANGED data

CheckExisting(r) ==
  /\ request[r].pc = "check"
  /\ IF \E a \in Applications : Kind(a) = request[r].kind /\ IsOpen(a)
     THEN Done(r)
     ELSE Goto(r, "instance")
  /\ UNCHANGED data

CreateInstance(r) ==
  /\ request[r].pc = "instance"
  /\ created < MaxApplications
  /\ created' = created + 1
  /\ instance' = [instance EXCEPT ![created + 1] =
       [kind |-> request[r].kind, state |-> "submitted", status |-> "ACTIVE"]]
  /\ request' = [request EXCEPT ![r].pc = "application", ![r].app = created + 1]
  /\ UNCHANGED <<application, consents, company, register, effects, seen>>

CreateApplication(r) ==
  /\ request[r].pc = "application"
  /\ application' = [application EXCEPT ![request[r].app] =
       [status |-> "SUBMITTED", consent |-> "PENDING"]]
  /\ Goto(r, "init")
  /\ UNCHANGED <<consents, instance, created, company, register, effects, seen>>

\* The parties an application of a kind may newly name, as slots.
NamedSlots(kind, holders) ==
  CASE kind = "equity_transfer" -> {{slot} : slot \in {"TRANSFEREE"} \X Parties}
    [] kind = "capital_change"  ->
         {new \in SUBSET ({"SHAREHOLDER"} \X (Parties \ DOMAIN holders)) :
            Cardinality(new) <= MaxNamed}
    [] kind = "officer_change"  ->
         {new \in SUBSET (OfficerRoles \X Parties) : Cardinality(new) <= MaxNamed}
    [] OTHER -> {{}}

\* createMany of the init...Consents methods; all of them but the one for a
\* transfer then count the rows that are still PENDING.
CreateConsents(r, named) ==
  LET asked == RequiredSlots(request[r].kind, DOMAIN request[r].holders, {}, named)
  IN  /\ request[r].pc = "init"
      /\ consents' = [consents EXCEPT ![request[r].app] =
           [slot \in asked |-> "PENDING"]]
      /\ Goto(r, IF request[r].kind = "equity_transfer" THEN "endorse" ELSE "count")
      /\ UNCHANGED <<application, instance, created, company, register, effects,
                     seen>>

CountPending(r) ==
  LET ballot == consents[request[r].app]
  IN  /\ request[r].pc = "count"
      /\ request' = [request EXCEPT
           ![r].pc = "endorse",
           ![r].tally = IF Some(ballot, DOMAIN ballot, "PENDING")
                        THEN "PENDING" ELSE "APPROVED"]
      /\ UNCHANGED data

WriteInitialConsent(r) ==
  /\ request[r].pc = "endorse"
  /\ application' = [application EXCEPT
       ![request[r].app].consent = request[r].tally]
  /\ Goto(r, IF request[r].kind = "deregistration" THEN "link" ELSE "auto")
  /\ UNCHANGED <<consents, instance, created, company, register, effects, seen>>

LinkCompany(r) ==
  /\ request[r].pc = "link"
  /\ company' = [company EXCEPT !.link = request[r].app,
                                !.workflowState = "submitted"]
  /\ Goto(r, "auto")
  /\ UNCHANGED <<application, consents, instance, created, register, effects,
                 seen>>

\* With autoApprove the handler goes on as the system user's route_to_review
\* and approve, provided the ballot has been won by then.
ConsiderAutoApprove(r, auto) ==
  /\ request[r].pc = "auto"
  /\ IF auto /\ application[request[r].app].consent = "APPROVED"
     THEN request' = [request EXCEPT ![r] =
            [Idle EXCEPT !.pc = "gate", !.app = request[r].app,
                         !.act = "route_to_review", !.auto = TRUE]]
     ELSE Done(r)
  /\ UNCHANGED data

CreateNext(r) ==
  \/ \E kind \in Kinds : LoadCompany(r, kind)
  \/ CheckExisting(r)
  \/ CreateInstance(r)
  \/ CreateApplication(r)
  \/ \E named \in NamedSlots(request[r].kind, request[r].holders) :
       CreateConsents(r, named)
  \/ CountPending(r)
  \/ WriteInitialConsent(r)
  \/ LinkCompany(r)
  \/ \E auto \in AutoApprove : ConsiderAutoApprove(r, auto)

-----------------------------------------------------------------------------
(***************************************************************************)
(* decideApplicationConsents: a user answers their rows of a ballot.       *)
(***************************************************************************)

CheckUndecided(r, a, user, vote) ==
  /\ request[r].pc = "idle"
  /\ IsOpen(a)
  /\ request' = [request EXCEPT ![r] =
       [Idle EXCEPT !.pc = "vote", !.app = a, !.user = user, !.vote = vote]]
  /\ UNCHANGED data

\* The rows an updateMany on the user's PENDING rows touches.
Mine_Revisable(ballot, user) ==
  {slot \in DOMAIN ballot : Signatory[slot[2]] = user}

Mine(ballot, user) ==
  {slot \in DOMAIN ballot :
     ballot[slot] = "PENDING" /\ Signatory[slot[2]] = user}

Answered(ballot, user, vote) ==
  [slot \in DOMAIN ballot |->
     IF slot \in Mine(ballot, user) THEN vote ELSE ballot[slot]]

AnswerConsents_NoRefresh(r) ==
  LET a      == request[r].app
      ballot == consents[a]
  IN  /\ request[r].pc = "vote"
      /\ consents' = [consents EXCEPT ![a] =
           Answered(ballot, request[r].user, request[r].vote)]
      /\ Done(r)
      /\ UNCHANGED <<application, instance, created, company, register, effects,
                     seen>>

AnswerConsents(r) ==
  LET a      == request[r].app
      ballot == consents[a]
  IN  /\ request[r].pc = "vote"
      /\ IF Mine(ballot, request[r].user) = {}
         THEN Done(r) /\ UNCHANGED consents
         ELSE /\ consents' = [consents EXCEPT ![a] =
                   Answered(ballot, request[r].user, request[r].vote)]
              /\ Goto(r, "tally")
      /\ UNCHANGED <<application, instance, created, company, register, effects,
                     seen>>

\* compute...ConsentProgress reads the rows and the register in parallel, so
\* one of the two reads is the later one. A transfer's tally reads rows only.
ReadRegister(r) ==
  /\ request[r].pc = "tally" /\ Kind(request[r].app) # "equity_transfer"
  /\ request' = [request EXCEPT ![r].pc = "tally_rows", ![r].holders = register]
  /\ UNCHANGED data

ReadRows(r) ==
  /\ request[r].pc = "tally"
  /\ request' = [request EXCEPT ![r].pc = "tally_register",
                                ![r].rows = consents[request[r].app]]
  /\ UNCHANGED data

TallyLastRows(r) ==
  LET a == request[r].app
  IN  /\ request[r].pc = "tally_rows"
      /\ request' = [request EXCEPT
           ![r].pc = "publish",
           ![r].tally = ConsentProgress(Kind(a), consents[a], request[r].holders)]
      /\ UNCHANGED data

TallyLastRegister(r) ==
  /\ request[r].pc = "tally_register"
  /\ request' = [request EXCEPT
       ![r].pc = "publish",
       ![r].tally = ConsentProgress(Kind(request[r].app), request[r].rows, register)]
  /\ UNCHANGED data

\* The ballot of a voting kind that is lost closes the application.
PublishProgress_Vote(r) ==
  /\ request[r].pc = "publish"
  /\ application' = [application EXCEPT
       ![request[r].app].consent = request[r].vote]
  /\ Done(r)
  /\ UNCHANGED <<consents, instance, created, company, register, effects, seen>>

PublishProgress(r) ==
  LET a == request[r].app
      closes == Kind(a) \in VotingKinds /\ request[r].tally = "REJECTED"
  IN  /\ request[r].pc = "publish"
      /\ application' = [application EXCEPT ![a] =
           [status  |-> IF closes THEN "REJECTED" ELSE @.status,
            consent |-> request[r].tally]]
      /\ Done(r)
      /\ UNCHANGED <<consents, instance, created, company, register, effects,
                     seen>>

DecideNext(r) ==
  \/ \E a \in Applications, user \in Users, vote \in Votes \ {"PENDING"} :
       CheckUndecided(r, a, user, vote)
  \/ AnswerConsents(r)
  \/ ReadRegister(r)
  \/ ReadRows(r)
  \/ TallyLastRows(r)
  \/ TallyLastRegister(r)
  \/ PublishProgress(r)

-----------------------------------------------------------------------------
(***************************************************************************)
(* executeWorkflowAction with performAction: an administrator acts on an   *)
(* application, on the instance the company is linked to, or on any other  *)
(* instance: adminExecuteAction takes the one its payload names, unread.   *)
(***************************************************************************)

StartAction(r, a, act) ==
  /\ request[r].pc = "idle"
  /\ a <= created
  /\ \E step \in Flow(Kind(a)) : step[1] = act
  /\ request' = [request EXCEPT ![r] =
       [Idle EXCEPT !.pc = "gate", !.app = a, !.act = act]]
  /\ UNCHANGED data

CheckConsent_Never(r) ==
  /\ request[r].pc = "gate"
  /\ Goto(r, "perform")
  /\ UNCHANGED data

CheckConsent_RouteOnly(r) ==
  LET a == request[r].app
  IN  /\ request[r].pc = "gate"
      /\ IF /\ request[r].act = "route_to_review"
            /\ Exists(a) /\ application[a].consent # "APPROVED"
         THEN Done(r)
         ELSE Goto(r, "perform")
      /\ UNCHANGED data

CheckConsent(r) ==
  LET a == request[r].app
  IN  /\ request[r].pc = "gate"
      /\ IF /\ request[r].act \in {"route_to_review", "approve"}
            /\ Exists(a) /\ application[a].consent # "APPROVED"
         THEN Done(r)
         ELSE Goto(r, "perform")
      /\ UNCHANGED data

\* performAction reads the current state and looks the action up; the status
\* of the instance is not consulted.
FindTransition_AnyState(r) ==
  LET found == {step \in Flow(Kind(request[r].app)) : step[1] = request[r].act}
  IN  /\ request[r].pc = "perform"
      /\ \/ found = {} /\ Done(r)
         \/ \E step \in found : request' = [request EXCEPT
              ![r].pc = "transition", ![r].to = step[3]]
      /\ UNCHANGED data

FindTransition(r) ==
  LET a == request[r].app
      found == {step \in Flow(Kind(a)) :
                  step[1] = request[r].act /\ step[2] = instance[a].state}
  IN  /\ request[r].pc = "perform"
      /\ \/ found = {} /\ Done(r)
         \/ \E step \in found : request' = [request EXCEPT
              ![r].pc = "transition", ![r].to = step[3]]
      /\ UNCHANGED data

WriteTransition(r) ==
  LET to == request[r].to
  IN  /\ request[r].pc = "transition"
      /\ instance' = [instance EXCEPT ![request[r].app] =
           [@ EXCEPT !.state  = to,
                     !.status = IF to \in FinalStates THEN "COMPLETED" ELSE "ACTIVE"]]
      /\ Goto(r, "company")
      /\ UNCHANGED <<application, consents, created, company, register, effects,
                     seen>>

\* applyWorkflowEffects, first the company row, then the application row.
UpdateCompany(r) ==
  LET to == request[r].to
  IN  /\ request[r].pc = "company"
      /\ company' = [company EXCEPT
           !.status = CompanyStatus(Kind(request[r].app), to, @),
           !.workflowState = to]
      /\ Goto(r, "resolve")
      /\ UNCHANGED <<application, consents, instance, created, register, effects,
                     seen>>

\* The end of one workflow action: autoApprove continues with approve.
NextAction(r) ==
  IF request[r].auto /\ request[r].act = "route_to_review"
  THEN request' = [request EXCEPT ![r].pc = "gate", ![r].act = "approve"]
  ELSE Done(r)

UpdateApplication(r) ==
  LET a == request[r].app
  IN  /\ request[r].pc = "resolve"
      /\ application' = [application EXCEPT ![a].status =
           IF Exists(a) THEN ApplicationStatus(request[r].to) ELSE @]
      /\ IF request[r].act = "approve" /\ Kind(a) \in PersistedKinds
         THEN Goto(r, "recheck")
         ELSE NextAction(r)
      /\ UNCHANGED <<consents, instance, created, company, register, effects,
                     seen>>

\* persist...IfNeeded reads the consentStatus again before it writes.
RecheckConsent(r) ==
  LET a == request[r].app
  IN  /\ request[r].pc = "recheck"
      /\ IF Exists(a) /\ application[a].consent = "APPROVED"
         THEN Goto(r, "persist")
         ELSE Done(r)
      /\ UNCHANGED data

\* The change takes effect. A transfer replaces the register by any other one
\* the company may have: how it computes the new shares is not told here.
Persist(r) ==
  LET a == request[r].app
  IN  /\ request[r].pc = "persist"
      /\ effects' = [effects EXCEPT ![a] = @ + 1]
      /\ register' \in IF Kind(a) = "equity_transfer" THEN Registers ELSE {register}
      /\ seen' = seen \cup {register'}
      /\ Done(r)
      /\ UNCHANGED <<application, consents, instance, created, company>>

AdminNext(r) ==
  \/ \E a \in Numbers, act \in AdminActions : StartAction(r, a, act)
  \/ CheckConsent(r)
  \/ FindTransition(r)
  \/ WriteTransition(r)
  \/ UpdateCompany(r)
  \/ UpdateApplication(r)
  \/ RecheckConsent(r)
  \/ Persist(r)

-----------------------------------------------------------------------------
(***************************************************************************)
(* withdrawMyApplication: a check, then one transaction.                   *)
(***************************************************************************)

CheckWithdrawable(r, a) ==
  /\ request[r].pc = "idle"
  /\ IsOpen(a)
  /\ request' = [request EXCEPT ![r] = [Idle EXCEPT !.pc = "withdraw", !.app = a]]
  /\ UNCHANGED data

\* The instance created last, this one left out.
Previous(a) == IF created = a THEN a - 1 ELSE created

Withdraw_KeepConsent(r) ==
  LET a == request[r].app
  IN  /\ request[r].pc = "withdraw"
      /\ consents' = [consents EXCEPT ![a] =
           [slot \in DOMAIN @ |-> IF @[slot] = "PENDING" THEN "REJECTED" ELSE @[slot]]]
      /\ application' = [application EXCEPT ![a] =
           [status |-> "ARCHIVED", consent |-> @.consent]]
      /\ instance' = [instance EXCEPT ![a].status = "CANCELLED"]
      /\ company' = IF Kind(a) = "deregistration"
                    THEN [company EXCEPT
                            !.link = Previous(a),
                            !.workflowState = instance[Previous(a)].state]
                    ELSE company
      /\ Done(r)
      /\ UNCHANGED <<created, register, effects, seen>>

Withdraw_StageAsStatus(r) ==
  LET a == request[r].app
  IN  /\ request[r].pc = "withdraw"
      /\ consents' = [consents EXCEPT ![a] =
           [slot \in DOMAIN @ |-> IF @[slot] = "PENDING" THEN "REJECTED" ELSE @[slot]]]
      /\ application' = [application EXCEPT ![a] =
           [status |-> "WITHDRAWN", consent |-> "REJECTED"]]
      /\ instance' = [instance EXCEPT ![a].status = "CANCELLED"]
      /\ company' = IF Kind(a) = "deregistration"
                    THEN [company EXCEPT
                            !.link = Previous(a),
                            !.workflowState = instance[Previous(a)].state]
                    ELSE company
      /\ Done(r)
      /\ UNCHANGED <<created, register, effects, seen>>

Withdraw(r) ==
  LET a == request[r].app
  IN  /\ request[r].pc = "withdraw"
      /\ consents' = [consents EXCEPT ![a] =
           [slot \in DOMAIN @ |-> IF @[slot] = "PENDING" THEN "REJECTED" ELSE @[slot]]]
      /\ application' = [application EXCEPT ![a] =
           [status |-> "ARCHIVED", consent |-> "REJECTED"]]
      /\ instance' = [instance EXCEPT ![a].status = "CANCELLED"]
      /\ company' = IF Kind(a) = "deregistration"
                    THEN [company EXCEPT
                            !.link = Previous(a),
                            !.workflowState = instance[Previous(a)].state]
                    ELSE company
      /\ Done(r)
      /\ UNCHANGED <<created, register, effects, seen>>

WithdrawNext(r) ==
  \/ \E a \in Applications : CheckWithdrawable(r, a)
  \/ Withdraw(r)

-----------------------------------------------------------------------------
(***************************************************************************)
(* A handler ends early when a call fails (the database is down, a holding *)
(* company has no legal representative, the server stops): what it wrote   *)
(* so far stays.                                                           *)
(***************************************************************************)
Abort(r) ==
  /\ request[r].pc # "idle"
  /\ Done(r)
  /\ UNCHANGED data

Handle(r) == CreateNext(r) \/ DecideNext(r) \/ AdminNext(r) \/ WithdrawNext(r)

Next       == \E r \in Requests : Handle(r)
NextFaulty == \E r \in Requests : Handle(r) \/ Abort(r)

Spec       == Init /\ [][Next]_vars
FaultySpec == Init /\ [][NextFaulty]_vars

-----------------------------------------------------------------------------
(***************************************************************************)
(* Properties.                                                             *)
(***************************************************************************)

Labels == {"idle", "check", "instance", "application", "init", "count",
           "endorse", "link", "auto", "vote", "tally", "tally_rows",
           "tally_register", "publish", "gate", "perform", "transition",
           "company", "resolve", "recheck", "persist", "withdraw"}

IsBallot(rows) == DOMAIN rows \subseteq Slots /\ rows \in [DOMAIN rows -> Votes]

IsLocals(l) ==
  /\ DOMAIN l = DOMAIN Idle
  /\ l.pc \in Labels /\ l.kind \in Kinds \cup {NoKind} /\ l.app \in Numbers
  /\ l.user \in Users \cup {"nobody"} /\ l.vote \in Votes
  /\ l.holders \in Registers /\ IsBallot(l.rows) /\ l.tally \in Votes
  /\ l.act \in Actions \cup {"none"} /\ l.auto \in BOOLEAN /\ l.to \in States

ApplicationRows == [status  : OpenStatus \cup ClosedStatus \cup {"none"},
                    consent : Votes]
InstanceRows    == [kind   : Kinds \cup {NoKind, "registration"},
                    state  : States,
                    status : {"ACTIVE", "COMPLETED", "CANCELLED"}]
CompanyRows     == [status : {"ACTIVE", "SUSPENDED", "ARCHIVED"}, link : Numbers,
                    workflowState : States]

TablesOK ==
  /\ application \in [Numbers -> ApplicationRows]
  /\ DOMAIN consents = Numbers /\ \A a \in Numbers : IsBallot(consents[a])
  /\ instance \in [Numbers -> InstanceRows]
  /\ created \in Numbers
  /\ company \in CompanyRows
  /\ register \in Registers
  /\ effects \in [Numbers -> Nat]
  /\ seen \subseteq Registers

RequestsOK == DOMAIN request = Requests /\ \A r \in Requests : IsLocals(request[r])

TypeOK == TablesOK /\ RequestsOK

\* The ballot of a was won under a register the company has had.
Backed(a) ==
  \E R \in seen : ConsentProgress(Kind(a), consents[a], R) = "APPROVED"

\* A ballot was held, and it was won or, a share transfer apart, everybody who
\* was asked has answered: CountPending takes a ballot without open rows for
\* a won one, even when the rows were answered with no before it counts.
Justified(a) ==
  /\ DOMAIN consents[a] # {}
  /\ \/ Backed(a)
     \/ /\ Kind(a) # "equity_transfer"
        /\ ~Some(consents[a], DOMAIN consents[a], "PENDING")

\* Whatever order the handlers of voters, applicants and administrators run in
\* and wherever one of them dies, an application is shown as agreed to only if
\* its ballot justifies it (decideApplicationConsents tallies before it writes,
\* and rows, register and summary are three separate reads and writes).
EndorsementIsJustified ==
  \A a \in Applications : application[a].consent = "APPROVED" => Justified(a)

\* The same of the change itself: neither a stale check before performAction
\* nor the second check of persist...IfNeeded lets an unjustified change in.
EffectIsJustified ==
  \A a \in Applications : effects[a] > 0 => Justified(a)

\* Every behaviour is one of the abstract ballot: answers are final, changes
\* are applied only with the ballot's leave, transfers alone move shares.
Balloted ==
  INSTANCE BallotedChange WITH
    kind     <- [a \in Numbers |-> instance[a].kind],
    ballot   <- consents,
    endorsed <- {a \in Applications : application[a].consent = "APPROVED"},
    applied  <- effects

BallotedChanges == Balloted!Spec

-----------------------------------------------------------------------------
(***************************************************************************)
(* Properties of requests that are handled one after the other, and what   *)
(* they rest on when requests overlap or fail.                             *)
(***************************************************************************)

Quiet == \A r \in Requests : request[r].pc = "idle"

\* At most one application of a kind is under way, as the existing-check of
\* every create...Application method intends.
OneOpenPerKind ==
  \A a, b \in Applications :
    IsOpen(a) /\ IsOpen(b) /\ Kind(a) = Kind(b) => a = b

\* No application takes effect twice: the approved state is final.
AppliedAtMostOnce == \A a \in Applications : effects[a] <= 1

\* When no request is under way, an approved change has taken effect.
ApprovedIsApplied ==
  Quiet => \A a \in Applications :
    instance[a].state = "approved" /\ Kind(a) \in PersistedKinds => effects[a] = 1

\* When no request is under way, the summary of an open application is what its
\* rows add up to under a register the company has had.
EndorsementIsFresh ==
  Quiet => \A a \in Applications : IsOpen(a) =>
    \E R \in seen : application[a].consent = ConsentProgress(Kind(a), consents[a], R)

\* When no request is under way, a withdrawn application is not one the
\* authority is asked to act on: withdrawing withdraws the endorsement too.
WithdrawnIsNotEndorsed ==
  Quiet => \A a \in Applications :
    application[a].status = "ARCHIVED" => application[a].consent # "APPROVED"

\* An approved application stays approved; one that was closed otherwise is
\* never reopened and never approved.
ClosedStaysClosed ==
  [][\A a \in Applications :
       /\ application[a].status = "APPROVED" => application'[a].status = "APPROVED"
       /\ application[a].status \in {"REJECTED", "ARCHIVED"}
            => application'[a].status \in {"REJECTED", "ARCHIVED"}]_vars

\* The company ceases to exist only by an administrator's archiving or by a
\* deregistration its shareholders voted for.
ArchivedWithConsent ==
  company.status = "ARCHIVED" =>
    \/ instance[0].state = "archived"
    \/ \E a \in Applications : Kind(a) = "deregistration" /\ Justified(a)

\* A ballot that is lost is not taken for won.
EndorsementIsBacked ==
  \A a \in Applications : application[a].consent = "APPROVED" => Backed(a)

-----------------------------------------------------------------------------
(***************************************************************************)
(* Liveness: a handler that has started runs to its end.                   *)
(***************************************************************************)
Progress(r) == request[r].pc # "idle" /\ Handle(r)

FairSpec == Spec /\ \A r \in Requests : WF_vars(Progress(r))

\* A ballot that is won makes its application ready for the authority, unless
\* it is closed first.
WonBallotIsEndorsed ==
  \A a \in Applications :
    (IsOpen(a) /\ DOMAIN consents[a] # {} /\ Backed(a))
      ~> (application[a].consent = "APPROVED" \/ ~IsOpen(a))
=============================================================================
