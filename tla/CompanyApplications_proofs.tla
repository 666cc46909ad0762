--------------------- MODULE CompanyApplications_proofs ---------------------
(***************************************************************************)
(* Type correctness of CompanyApplications, and that an application is     *)
(* endorsed and takes effect only if its ballot justifies it, for every    *)
(* number of overlapping requests that may end at any step.                *)
(*                                                                         *)
(* The argument: what justifies a change is never lost again, because      *)
(* answers are final and a won ballot stays won (WonBallotStaysWon). So a  *)
(* handler may carry a tally, or the outcome of a check, past any number   *)
(* of steps of other handlers. Local says what each handler carries, Frame *)
(* what a step of one handler may change for the others.                   *)
(* Then the handlers implement BallotedChange, and the promises that hold  *)
(* when requests come one after the other (OneAtATime) are proved for them. *)
(***************************************************************************)
EXTENDS CompanyApplications, ConsentTally_proofs

\* The states of the workflow definitions, spelt out.
LEMMA StatesAre ==
  States = {"submitted", "under_review", "approved", "rejected", "suspended",
            "archived"}
BY DEF States, ChangeFlow, RegistrationFlow

\* The actions of the workflow definitions.
LEMMA ActionsAre ==
  Actions = {"route_to_review", "approve", "reject", "suspend", "reactivate",
             "archive"}
BY DEF Actions, ChangeFlow, RegistrationFlow

\* Putting well-typed local variables into one handler.
LEMMA RequestType ==
  ASSUME NEW r \in Requests, RequestsOK,
         NEW l, IsLocals(l), request' = [request EXCEPT ![r] = l]
  PROVE  RequestsOK'
BY DEF RequestsOK

\* The local variables of a handler at rest are well typed.
LEMMA IdleType == IsLocals(Idle)
<1>1. NoRows \in [DOMAIN NoRows -> Votes] /\ DOMAIN NoRows = {}
  BY DEF NoRows
<1>2. FirstRegister \in Registers
  BY RegisterAssumption
<1> QED
  BY <1>1, <1>2, StatesAre, BoundAssumption DEF Idle, IsLocals, IsBallot, Labels, Votes, Numbers

\* A handler that moves on stays well typed.
LEMMA GotoType ==
  ASSUME NEW r \in Requests, RequestsOK, NEW label \in Labels, Goto(r, label)
  PROVE  RequestsOK'
<1>1. IsLocals([request[r] EXCEPT !.pc = label])
  BY DEF IsLocals, Idle, RequestsOK
<1> QED
  BY <1>1, RequestType DEF Goto

\* A handler that ends stays well typed.
LEMMA DoneType ==
  ASSUME NEW r \in Requests, RequestsOK, Done(r)
  PROVE  RequestsOK'
BY IdleType, RequestType DEF Done

\* Steps that leave the tables alone.
LEMMA TablesKept == ASSUME TablesOK, UNCHANGED data PROVE TablesOK'
BY DEF TablesOK, data, IsBallot

\* The slots of a new ballot are slots of parties.
LEMMA NamedAreSlots ==
  ASSUME NEW kind, NEW holders, NEW named \in NamedSlots(kind, holders)
  PROVE  named \subseteq Slots
BY DEF NamedSlots, Slots, KeyedRoles, OfficerRoles

\* The rows a ballot is opened with are slots.
LEMMA AskedAreSlots ==
  ASSUME NEW kind, NEW R \in Registers, NEW named \in SUBSET Slots
  PROVE  RequiredSlots(kind, DOMAIN R, {}, named) \subseteq Slots
<1>1. {"SHAREHOLDER"} \X DOMAIN R \subseteq Slots
  BY RegisterAssumption DEF Slots, KeyedRoles
<1> QED
  BY <1>1 DEF RequiredSlots

\* Whoever applies for a change other than a transfer has somebody to ask.
LEMMA AskedIsNotEmpty ==
  ASSUME NEW kind \in Kinds \ {"equity_transfer"}, NEW R \in Registers, NEW named
  PROVE  RequiredSlots(kind, DOMAIN R, {}, named) # {}
<1>1. PICK p : p \in DOMAIN R
  BY RegisterAssumption
<1>2. <<"SHAREHOLDER", p>> \in {"SHAREHOLDER"} \X DOMAIN R
  BY <1>1
<1>3. kind # "management_change" /\ kind # "equity_transfer"
  BY KindsAssumption DEF TwoThirdsKinds
<1> QED
  BY <1>2, <1>3 DEF RequiredSlots

\* Every tally is one of the three summaries.
LEMMA ProgressType ==
  ASSUME NEW kind, NEW rows, NEW R
  PROVE  ConsentProgress(kind, rows, R) \in Votes
<1>1. DefaultTally(rows) \in Votes
  BY DEF DefaultTally, Votes
<1>2. \A lost, won \in BOOLEAN : Outcome(lost, won) \in Votes
  BY DEF Outcome, Votes
<1>3. ShareholderTally(rows, R) \in Votes
  BY <1>1 DEF ShareholderTally, Outcome, Votes
<1>4. OfficerTally(rows, R) \in Votes
  BY <1>1 DEF OfficerTally, Outcome, Votes
<1>5. ManagementTally(rows) \in Votes
  BY DEF ManagementTally, Outcome, Votes
<1> QED
  BY <1>1, <1>3, <1>4, <1>5 DEF ConsentProgress

\* An applicant's handler keeps the types.
LEMMA CreateTypes ==
  ASSUME TypeOK, NEW r \in Requests, CreateNext(r)
  PROVE  TypeOK'
<1> USE DEF TypeOK
<1>1. ASSUME NEW kind \in Kinds, LoadCompany(r, kind) PROVE TypeOK'
  <2>1. IsLocals([Idle EXCEPT !.pc = "check", !.kind = kind, !.holders = register])
    BY IdleType DEF IsLocals, Labels, TablesOK, Idle
  <2> QED
    BY <1>1, <2>1, RequestType, TablesKept DEF LoadCompany
<1>2. ASSUME CheckExisting(r) PROVE TypeOK'
  BY <1>2, DoneType, GotoType, TablesKept DEF CheckExisting, Labels
<1>3. ASSUME CreateInstance(r) PROVE TypeOK'
  <2>1. created + 1 \in Numbers
    BY <1>3, BoundAssumption DEF CreateInstance, TablesOK, InstanceRows, Numbers
  <2>2. IsLocals([request[r] EXCEPT !.pc = "application", !.app = created + 1])
    BY <2>1 DEF IsLocals, Labels, RequestsOK, Idle
  <2>3. RequestsOK'
    BY <1>3, <2>2, RequestType DEF CreateInstance
  <2>4. TablesOK'
    BY <1>3, <2>1, StatesAre DEF CreateInstance, TablesOK, InstanceRows, RequestsOK, IsLocals
  <2> QED
    BY <2>3, <2>4
<1>4. ASSUME CreateApplication(r) PROVE TypeOK'
  <2>1. RequestsOK'
    BY <1>4, GotoType DEF CreateApplication, Labels
  <2>2. TablesOK'
    BY <1>4 DEF CreateApplication, TablesOK, ApplicationRows, OpenStatus, Votes
  <2> QED
    BY <2>1, <2>2
<1>5. ASSUME NEW named \in NamedSlots(request[r].kind, request[r].holders),
             CreateConsents(r, named)
      PROVE  TypeOK'
  <2> DEFINE asked == RequiredSlots(request[r].kind, DOMAIN request[r].holders,
                                    {}, named)
  <2>1. RequestsOK'
    BY <1>5, GotoType DEF CreateConsents, Labels
  <2>2. asked \subseteq Slots
    BY NamedAreSlots, AskedAreSlots DEF RequestsOK, IsLocals
  <2>3. IsBallot([slot \in asked |-> "PENDING"])
    BY <2>2 DEF IsBallot, Votes
  <2>4. TablesOK'
    BY <1>5, <2>3 DEF CreateConsents, TablesOK
  <2> QED
    BY <2>1, <2>4
<1>6. ASSUME CountPending(r) PROVE TypeOK'
  <2>1. IsLocals(request'[r]) /\ request' = [request EXCEPT ![r] = request'[r]]
    BY <1>6 DEF CountPending, IsLocals, Labels, RequestsOK, Idle, Votes
  <2> QED
    BY <1>6, <2>1, RequestType, TablesKept DEF CountPending
<1>7. ASSUME WriteInitialConsent(r) PROVE TypeOK'
  <2>1. RequestsOK'
    BY <1>7, GotoType DEF WriteInitialConsent, Labels
  <2>2. TablesOK'
    BY <1>7 DEF WriteInitialConsent, TablesOK, ApplicationRows, RequestsOK, IsLocals
  <2> QED
    BY <2>1, <2>2
<1>8. ASSUME LinkCompany(r) PROVE TypeOK'
  <2>1. RequestsOK'
    BY <1>8, GotoType DEF LinkCompany, Labels
  <2>2. TablesOK'
    BY <1>8, StatesAre DEF LinkCompany, TablesOK, CompanyRows, RequestsOK, IsLocals
  <2> QED
    BY <2>1, <2>2
<1>9. ASSUME NEW auto \in AutoApprove, ConsiderAutoApprove(r, auto) PROVE TypeOK'
  <2>1. IsLocals([Idle EXCEPT !.pc = "gate", !.app = request[r].app,
                              !.act = "route_to_review", !.auto = TRUE])
    BY IdleType, ActionsAre DEF IsLocals, Labels, RequestsOK, Idle
  <2>2. RequestsOK'
    BY <1>9, <2>1, RequestType, DoneType DEF ConsiderAutoApprove
  <2> QED
    BY <1>9, <2>2, TablesKept DEF ConsiderAutoApprove
<1> QED
  BY <1>1, <1>2, <1>3, <1>4, <1>5, <1>6, <1>7, <1>8, <1>9 DEF CreateNext

\* A voter's handler keeps the types.
LEMMA DecideTypes ==
  ASSUME TypeOK, NEW r \in Requests, DecideNext(r)
  PROVE  TypeOK'
<1> USE DEF TypeOK
<1>1. ASSUME NEW a \in Applications, NEW user \in Users,
             NEW vote \in Votes \ {"PENDING"}, CheckUndecided(r, a, user, vote)
      PROVE  TypeOK'
  <2>1. IsLocals([Idle EXCEPT !.pc = "vote", !.app = a, !.user = user, !.vote = vote])
    BY IdleType DEF IsLocals, Labels, Idle, Applications, Numbers
  <2> QED
    BY <1>1, <2>1, RequestType, TablesKept DEF CheckUndecided
<1>2. ASSUME AnswerConsents(r) PROVE TypeOK'
  <2>1. RequestsOK'
    BY <1>2, GotoType, DoneType DEF AnswerConsents, Labels
  <2>2. IsBallot(Answered(consents[request[r].app], request[r].user, request[r].vote))
    BY DEF Answered, IsBallot, TablesOK, RequestsOK, IsLocals
  <2>3. TablesOK'
    BY <1>2, <2>2 DEF AnswerConsents, TablesOK
  <2> QED
    BY <2>1, <2>3
<1>3. ASSUME ReadRegister(r) PROVE TypeOK'
  <2>1. IsLocals([request[r] EXCEPT !.pc = "tally_rows", !.holders = register])
    BY DEF IsLocals, Labels, Idle, RequestsOK, TablesOK
  <2> QED
    BY <1>3, <2>1, RequestType, TablesKept DEF ReadRegister
<1>4. ASSUME ReadRows(r) PROVE TypeOK'
  <2>1. IsLocals([request[r] EXCEPT !.pc = "tally_register",
                                    !.rows = consents[request[r].app]])
    BY DEF IsLocals, Labels, Idle, RequestsOK, TablesOK
  <2> QED
    BY <1>4, <2>1, RequestType, TablesKept DEF ReadRows
<1>5. ASSUME TallyLastRows(r) PROVE TypeOK'
  <2> DEFINE tally == ConsentProgress(Kind(request[r].app), consents[request[r].app],
                                      request[r].holders)
  <2>1. tally \in Votes
    BY ProgressType
  <2> HIDE DEF tally
  <2>2. IsLocals([request[r] EXCEPT !.pc = "publish", !.tally = tally])
    BY <2>1 DEF IsLocals, Labels, Idle, RequestsOK
  <2> QED
    BY <1>5, <2>2, RequestType, TablesKept DEF TallyLastRows, tally
<1>6. ASSUME TallyLastRegister(r) PROVE TypeOK'
  <2> DEFINE tally == ConsentProgress(Kind(request[r].app), request[r].rows, register)
  <2>1. tally \in Votes
    BY ProgressType
  <2> HIDE DEF tally
  <2>2. IsLocals([request[r] EXCEPT !.pc = "publish", !.tally = tally])
    BY <2>1 DEF IsLocals, Labels, Idle, RequestsOK
  <2> QED
    BY <1>6, <2>2, RequestType, TablesKept DEF TallyLastRegister, tally
<1>7. ASSUME PublishProgress(r) PROVE TypeOK'
  <2>1. RequestsOK'
    BY <1>7, DoneType DEF PublishProgress
  <2>2. TablesOK'
    BY <1>7 DEF PublishProgress, TablesOK, ApplicationRows, RequestsOK, IsLocals, ClosedStatus
  <2> QED
    BY <2>1, <2>2
<1> QED
  BY <1>1, <1>2, <1>3, <1>4, <1>5, <1>6, <1>7 DEF DecideNext

\* An administrator's handler keeps the types.
LEMMA AdminTypes ==
  ASSUME TypeOK, NEW r \in Requests, AdminNext(r)
  PROVE  TypeOK'
<1> USE DEF TypeOK
<1>1. ASSUME NEW a \in Numbers, NEW act \in AdminActions, StartAction(r, a, act)
      PROVE  TypeOK'
  <2>1. IsLocals([Idle EXCEPT !.pc = "gate", !.app = a, !.act = act])
    BY IdleType, ActionsAre, SettingsAssumption DEF IsLocals, Labels, Idle
  <2> QED
    BY <1>1, <2>1, RequestType, TablesKept DEF StartAction
<1>2. ASSUME CheckConsent(r) PROVE TypeOK'
  BY <1>2, DoneType, GotoType, TablesKept DEF CheckConsent, Labels
<1>3. ASSUME FindTransition(r) PROVE TypeOK'
  <2>1. ASSUME NEW step \in Flow(Kind(request[r].app))
        PROVE  IsLocals([request[r] EXCEPT !.pc = "transition", !.to = step[3]])
    <3>1. step[3] \in States
      BY DEF States, Flow
    <3> QED
      BY <3>1 DEF IsLocals, Labels, Idle, RequestsOK
  <2>2. CASE Done(r)
    BY <1>3, <2>2, DoneType, TablesKept DEF FindTransition
  <2>3. CASE ~Done(r)
    <3>1. PICK step \in Flow(Kind(request[r].app)) :
            request' = [request EXCEPT ![r].pc = "transition", ![r].to = step[3]]
      BY <1>3, <2>3 DEF FindTransition
    <3>2. request' = [request EXCEPT ![r] =
                        [request[r] EXCEPT !.pc = "transition", !.to = step[3]]]
      BY <3>1 DEF RequestsOK
    <3> QED
      BY <1>3, <2>1, <3>2, RequestType, TablesKept DEF FindTransition
  <2> QED
    BY <2>2, <2>3
<1>4. ASSUME WriteTransition(r) PROVE TypeOK'
  <2>1. RequestsOK'
    BY <1>4, GotoType DEF WriteTransition, Labels
  <2>2. request[r].app \in Numbers /\ request[r].to \in States
    BY DEF RequestsOK, IsLocals
  <2> DEFINE to == request[r].to
             row == [instance[request[r].app] EXCEPT !.state = to,
                       !.status = IF to \in FinalStates THEN "COMPLETED" ELSE "ACTIVE"]
  <2>3. row \in InstanceRows
    <3>1. instance[request[r].app] \in InstanceRows
      BY <2>2 DEF TablesOK
    <3> QED
      BY <2>2, <3>1 DEF InstanceRows
  <2>4. instance' = [instance EXCEPT ![request[r].app] = row]
    BY <1>4 DEF WriteTransition
  <2> HIDE DEF row
  <2>5. instance' \in [Numbers -> InstanceRows]
    BY <2>2, <2>3, <2>4 DEF TablesOK
  <2>6. TablesOK'
    BY <1>4, <2>5 DEF WriteTransition, TablesOK
  <2> QED
    BY <2>1, <2>6
<1>5. ASSUME UpdateCompany(r) PROVE TypeOK'
  <2>1. RequestsOK'
    BY <1>5, GotoType DEF UpdateCompany, Labels
  <2>2. TablesOK'
    BY <1>5 DEF UpdateCompany, CompanyStatus, TablesOK, CompanyRows, InstanceRows, RequestsOK, IsLocals
  <2> QED
    BY <2>1, <2>2
<1>6. ASSUME UpdateApplication(r) PROVE TypeOK'
  <2>1. IsLocals([request[r] EXCEPT !.pc = "gate", !.act = "approve"])
    BY ActionsAre DEF IsLocals, Labels, Idle, RequestsOK
  <2>2. [request EXCEPT ![r].pc = "gate", ![r].act = "approve"]
          = [request EXCEPT ![r] = [request[r] EXCEPT !.pc = "gate", !.act = "approve"]]
    BY DEF RequestsOK
  <2>6. NextAction(r) => RequestsOK'
    BY <2>1, <2>2, DoneType, RequestType DEF NextAction
  <2>3. RequestsOK'
    BY <1>6, <2>6, GotoType DEF UpdateApplication, Labels
  <2>4. ApplicationStatus(request[r].to) \in OpenStatus \cup ClosedStatus
    BY StatesAre DEF ApplicationStatus, OpenStatus, ClosedStatus, RequestsOK, IsLocals
  <2>5. TablesOK'
    BY <1>6, <2>4 DEF UpdateApplication, TablesOK, ApplicationRows, RequestsOK, IsLocals
  <2> QED
    BY <2>3, <2>5
<1>7. ASSUME RecheckConsent(r) PROVE TypeOK'
  BY <1>7, DoneType, GotoType, TablesKept DEF RecheckConsent, Labels
<1>8. ASSUME Persist(r) PROVE TypeOK'
  <2>1. RequestsOK'
    BY <1>8, DoneType DEF Persist
  <2>2. register' \in Registers
    BY <1>8 DEF Persist, TablesOK
  <2>3. TablesOK'
    BY <1>8, <2>2 DEF Persist, TablesOK, RequestsOK, IsLocals
  <2> QED
    BY <2>1, <2>3
<1> QED
  BY <1>1, <1>2, <1>3, <1>4, <1>5, <1>6, <1>7, <1>8 DEF AdminNext

\* A withdrawal keeps the types; it needs to know that it is of an application.
LEMMA WithdrawTypes ==
  ASSUME TypeOK, NEW r \in Requests, WithdrawNext(r),
         request[r].pc = "withdraw" => request[r].app \in Applications
  PROVE  TypeOK'
<1> USE DEF TypeOK
<1>1. ASSUME NEW a \in Applications, CheckWithdrawable(r, a) PROVE TypeOK'
  <2>1. IsLocals([Idle EXCEPT !.pc = "withdraw", !.app = a])
    BY IdleType DEF IsLocals, Labels, Idle, Applications, Numbers
  <2> QED
    BY <1>1, <2>1, RequestType, TablesKept DEF CheckWithdrawable
<1>2. ASSUME Withdraw(r) PROVE TypeOK'
  <2> DEFINE a == request[r].app
  <2>1. RequestsOK'
    BY <1>2, DoneType DEF Withdraw
  <2>2. a \in Applications /\ a \in Numbers
    BY <1>2 DEF Withdraw, RequestsOK, IsLocals
  <2>3. Previous(a) \in Numbers
    BY <2>2, BoundAssumption DEF Previous, Applications, Numbers, TablesOK
  <2>4. IsBallot([slot \in DOMAIN consents[a] |->
          IF consents[a][slot] = "PENDING" THEN "REJECTED" ELSE consents[a][slot]])
    BY <2>2 DEF IsBallot, TablesOK, Votes
  <2>5. DOMAIN consents' = Numbers /\ \A b \in Numbers : IsBallot(consents'[b])
    BY <1>2, <2>4 DEF Withdraw, TablesOK
  <2>6. application' \in [Numbers -> ApplicationRows]
    BY <1>2 DEF Withdraw, TablesOK, ApplicationRows, ClosedStatus, Votes
  <2>7. instance' \in [Numbers -> InstanceRows]
    <3>1. [instance[a] EXCEPT !.status = "CANCELLED"] \in InstanceRows
      BY <2>2 DEF TablesOK, InstanceRows
    <3>2. instance' = [instance EXCEPT ![a] = [instance[a] EXCEPT !.status = "CANCELLED"]]
      BY <1>2, <2>2 DEF Withdraw, TablesOK
    <3> QED
      BY <2>2, <3>1, <3>2 DEF TablesOK
  <2>8. company' \in CompanyRows
    BY <1>2, <2>3 DEF Withdraw, TablesOK, CompanyRows, InstanceRows
  <2>9. TablesOK'
    BY <1>2, <2>5, <2>6, <2>7, <2>8 DEF Withdraw, TablesOK
  <2> QED
    BY <2>1, <2>9
<1> QED
  BY <1>1, <1>2 DEF WithdrawNext

(***************************************************************************)
(* The inductive invariant: what the local variables of a handler say      *)
(* about the tables, wherever the other handlers have got to meanwhile.    *)
(***************************************************************************)
Local(r) ==
  LET l == request[r]
  IN  \A a \in Numbers : l.app = a =>
      /\ l.pc \in {"check", "instance", "application", "init"} =>
           l.kind \in Kinds /\ l.tally = "PENDING"
      /\ l.pc \in {"application", "init"} =>
           a \in 1 .. created /\ DOMAIN consents[a] = {} /\ Kind(a) = l.kind
      /\ l.pc = "count" =>
           a \in 1 .. created /\ DOMAIN consents[a] # {} /\ Kind(a) # "equity_transfer"
      /\ l.pc \in {"endorse", "publish"} /\ l.tally = "APPROVED" => Justified(a)
      /\ l.pc \in {"tally", "tally_rows", "tally_register"} => DOMAIN consents[a] # {}
      /\ l.pc = "tally_rows" => l.holders \in seen
      /\ l.pc = "tally_register" => Answers(l.rows, consents[a])
      /\ l.pc = "persist" /\ a # 0 => Justified(a)
      /\ l.pc = "withdraw" => a \in Applications

\* Two handlers never work on the same new application.
OwnNumbers ==
  \A r, q \in Requests :
    /\ request[r].pc \in {"application", "init"}
    /\ request[q].pc \in {"application", "init"}
    /\ request[r].app = request[q].app
    => r = q

\* An application that has not been created has no ballot.
NoEarlyBallot == \A a \in Numbers : DOMAIN consents[a] # {} => a \in 1 .. created

IInv ==
  /\ TypeOK
  /\ register \in seen
  /\ NoEarlyBallot
  /\ OwnNumbers
  /\ \A r \in Requests : Local(r)
  /\ EndorsementIsJustified
  /\ EffectIsJustified


(***************************************************************************)
(* What one step of one handler may do to the tables and to the others.    *)
(***************************************************************************)
Frame(r) ==
  /\ seen \subseteq seen' /\ register' \in seen'
  /\ created' \in Nat /\ created <= created'
  /\ \A a \in 1 .. created : Kind(a)' = Kind(a)
  /\ \A a \in Numbers : DOMAIN consents[a] # {} => Answers(consents[a], consents'[a])
  /\ \A a \in Numbers :
       DOMAIN consents[a] = {} =>
         \/ DOMAIN consents'[a] = {}
         \/ request[r].pc = "init" /\ request[r].app = a
  /\ \A q \in Requests \ {r} : request'[q] = request[q]

\* Answering and withdrawing touch rows that wait only.
LEMMA AnsweredAnswers ==
  ASSUME NEW ballot, NEW user, NEW vote
  PROVE  Answers(ballot, Answered(ballot, user, vote))
BY DEF Answers, Answered, Mine

\* A ballot is its own continuation.
LEMMA SameAnswers == ASSUME NEW ballot PROVE Answers(ballot, ballot)
BY DEF Answers

\* Every step of a handler, and its end, stays within its frame.
LEMMA FrameHolds ==
  ASSUME IInv, NEW r \in Requests, Handle(r) \/ Abort(r)
  PROVE  Frame(r)
<1> USE DEF IInv, TypeOK
<1>1. created \in Nat
  BY BoundAssumption DEF TablesOK, Numbers
<1>2. \A q \in Requests \ {r} : request'[q] = request[q]
  BY DEF RequestsOK, Handle, CreateNext, DecideNext, AdminNext, WithdrawNext, Abort,
     LoadCompany, CheckExisting, CreateInstance, CreateApplication, CreateConsents,
     CountPending, WriteInitialConsent, LinkCompany, ConsiderAutoApprove,
     CheckUndecided, AnswerConsents, ReadRegister, ReadRows, TallyLastRows,
     TallyLastRegister, PublishProgress, StartAction, CheckConsent, FindTransition,
     WriteTransition, UpdateCompany, UpdateApplication, RecheckConsent, Persist,
     NextAction, CheckWithdrawable, Withdraw, Goto, Done
<1>3. seen \subseteq seen' /\ register' \in seen'
  BY DEF Handle, CreateNext, DecideNext, AdminNext, WithdrawNext, Abort, data,
     LoadCompany, CheckExisting, CreateInstance, CreateApplication, CreateConsents,
     CountPending, WriteInitialConsent, LinkCompany, ConsiderAutoApprove,
     CheckUndecided, AnswerConsents, ReadRegister, ReadRows, TallyLastRows,
     TallyLastRegister, PublishProgress, StartAction, CheckConsent, FindTransition,
     WriteTransition, UpdateCompany, UpdateApplication, RecheckConsent, Persist,
     CheckWithdrawable, Withdraw
<1>4. UNCHANGED created \/ CreateInstance(r)
  BY DEF Handle, CreateNext, DecideNext, AdminNext, WithdrawNext, Abort, data,
     LoadCompany, CheckExisting, CreateInstance, CreateApplication, CreateConsents,
     CountPending, WriteInitialConsent, LinkCompany, ConsiderAutoApprove,
     CheckUndecided, AnswerConsents, ReadRegister, ReadRows, TallyLastRows,
     TallyLastRegister, PublishProgress, StartAction, CheckConsent, FindTransition,
     WriteTransition, UpdateCompany, UpdateApplication, RecheckConsent, Persist,
     CheckWithdrawable, Withdraw
<1>5. created' \in Nat /\ created <= created'
  BY <1>1, <1>4 DEF CreateInstance
<1>6. UNCHANGED instance \/ CreateInstance(r) \/ WriteTransition(r) \/ Withdraw(r)
  BY DEF Handle, CreateNext, DecideNext, AdminNext, WithdrawNext, Abort, data,
     LoadCompany, CheckExisting, CreateInstance, CreateApplication, CreateConsents,
     CountPending, WriteInitialConsent, LinkCompany, ConsiderAutoApprove,
     CheckUndecided, AnswerConsents, ReadRegister, ReadRows, TallyLastRows,
     TallyLastRegister, PublishProgress, StartAction, CheckConsent, FindTransition,
     WriteTransition, UpdateCompany, UpdateApplication, RecheckConsent, Persist,
     CheckWithdrawable, Withdraw
<1>7. \A a \in 1 .. created : Kind(a)' = Kind(a)
  <2>1. \A a \in 1 .. created : a \in Numbers
    BY <1>1, BoundAssumption DEF TablesOK, Numbers
  <2>2. CASE CreateInstance(r)
    BY <1>1, <2>1, <2>2 DEF CreateInstance, Kind, TablesOK
  <2>3. CASE WriteTransition(r)
    BY <2>1, <2>3 DEF WriteTransition, Kind, TablesOK, InstanceRows
  <2>4. CASE Withdraw(r)
    BY <2>1, <2>4 DEF Withdraw, Kind, TablesOK, InstanceRows
  <2>5. CASE UNCHANGED instance
    BY <2>5 DEF Kind
  <2> QED
    BY <1>6, <2>2, <2>3, <2>4, <2>5
<1>8. \/ UNCHANGED consents
      \/ \E named \in NamedSlots(request[r].kind, request[r].holders) :
            CreateConsents(r, named)
      \/ AnswerConsents(r)
      \/ Withdraw(r)
  BY DEF Handle, CreateNext, DecideNext, AdminNext, WithdrawNext, Abort, data,
     LoadCompany, CheckExisting, CreateInstance, CreateApplication, CreateConsents,
     CountPending, WriteInitialConsent, LinkCompany, ConsiderAutoApprove,
     CheckUndecided, AnswerConsents, ReadRegister, ReadRows, TallyLastRows,
     TallyLastRegister, PublishProgress, StartAction, CheckConsent, FindTransition,
     WriteTransition, UpdateCompany, UpdateApplication, RecheckConsent, Persist,
     CheckWithdrawable, Withdraw
<1>9. ASSUME NEW a \in Numbers
      PROVE  /\ DOMAIN consents[a] # {} => Answers(consents[a], consents'[a])
             /\ DOMAIN consents[a] = {} =>
                  DOMAIN consents'[a] = {} \/ (request[r].pc = "init" /\ request[r].app = a)
  <2>1. CASE UNCHANGED consents
    BY <2>1, SameAnswers
  <2>2. ASSUME NEW named \in NamedSlots(request[r].kind, request[r].holders),
               CreateConsents(r, named)
        PROVE  /\ DOMAIN consents[a] # {} => Answers(consents[a], consents'[a])
               /\ DOMAIN consents[a] = {} =>
                  DOMAIN consents'[a] = {} \/ (request[r].pc = "init" /\ request[r].app = a)
    <3>1. request[r].pc = "init" /\ DOMAIN consents[request[r].app] = {}
      BY <2>2 DEF CreateConsents, Local, RequestsOK, IsLocals
    <3>2. a # request[r].app => consents'[a] = consents[a]
      BY <2>2 DEF CreateConsents, TablesOK
    <3> QED
      BY <3>1, <3>2, SameAnswers
  <2>3. CASE AnswerConsents(r)
    <3>1. \/ consents'[a] = consents[a]
          \/ consents'[a] = Answered(consents[a], request[r].user, request[r].vote)
      BY <2>3 DEF AnswerConsents, TablesOK
    <3>2. Answers(consents[a], consents'[a])
      BY <3>1, SameAnswers, AnsweredAnswers
    <3> QED
      BY <3>2 DEF Answers
  <2>4. CASE Withdraw(r)
    <3>1. \/ consents'[a] = consents[a]
          \/ consents'[a] = [slot \in DOMAIN consents[a] |->
               IF consents[a][slot] = "PENDING" THEN "REJECTED" ELSE consents[a][slot]]
      BY <2>4 DEF Withdraw, TablesOK
    <3>2. Answers(consents[a], consents'[a])
      BY <3>1, SameAnswers DEF Answers
    <3> QED
      BY <3>2 DEF Answers
  <2> QED
    BY <1>8, <2>1, <2>2, <2>3, <2>4
<1> QED
  BY <1>2, <1>3, <1>5, <1>7, <1>9 DEF Frame

\* What justifies an endorsement or an effect is never lost again.
LEMMA JustifiedStays ==
  ASSUME TypeOK, NoEarlyBallot, NEW r, Frame(r), NEW a \in Numbers, Justified(a)
  PROVE  Justified(a)'
<1>1. DOMAIN consents[a] # {} /\ a \in 1 .. created
  BY DEF Justified, NoEarlyBallot
<1>2. Answers(consents[a], consents'[a]) /\ Kind(a)' = Kind(a)
  BY <1>1 DEF Frame
<1>3. DOMAIN consents'[a] # {}
  BY <1>1, <1>2 DEF Answers
<1>4. CASE Backed(a)
  <2>1. PICK R \in seen : ConsentProgress(Kind(a), consents[a], R) = "APPROVED"
    BY <1>4 DEF Backed
  <2>2. IsRegister(R)
    BY RegisterAssumption DEF IsRegister, TypeOK, TablesOK
  <2>3. Kind(a) # "management_change"
    BY KindsAssumption DEF Kind, NoKind, TwoThirdsKinds, InstanceRows, TypeOK, TablesOK
  <2>4. ConsentProgress(Kind(a), consents'[a], R) = "APPROVED"
    BY <1>2, <2>1, <2>2, <2>3, WonBallotStaysWon
  <2>5. R \in seen'
    BY DEF Frame
  <2> QED
    BY <1>2, <1>3, <2>4, <2>5 DEF Justified, Backed
<1>5. CASE Kind(a) # "equity_transfer"
            /\ ~Some(consents[a], DOMAIN consents[a], "PENDING")
  <2>1. ~Some(consents'[a], DOMAIN consents'[a], "PENDING")
    BY <1>2, <1>5 DEF Answers, Some
  <2> QED
    BY <1>2, <1>3, <1>5, <2>1 DEF Justified
<1> QED
  BY <1>4, <1>5 DEF Justified

\* Further answers to further answers are further answers.
LEMMA AnswersTransitive ==
  ASSUME NEW old, NEW mid, NEW new, Answers(old, mid), Answers(mid, new)
  PROVE  Answers(old, new)
BY DEF Answers

\* The handlers that do not move keep their part of the invariant.
LEMMA OthersKeepLocal ==
  ASSUME IInv, NEW r \in Requests, Frame(r), NEW q \in Requests \ {r}
  PROVE  Local(q)'
<1>1. request'[q] = request[q] /\ Local(q)
  BY DEF Frame, IInv
<1>2. ASSUME NEW a \in Numbers, request[q].app = a
      PROVE  /\ Justified(a) => Justified(a)'
             /\ DOMAIN consents[a] # {} => DOMAIN consents'[a] # {}
             /\ a \in 1 .. created => a \in 1 .. created' /\ Kind(a)' = Kind(a)
             /\ request[q].pc \in {"application", "init"} => DOMAIN consents'[a] = {}
             /\ request[q].pc = "tally_rows" => request[q].holders \in seen'
             /\ request[q].pc = "tally_register" => Answers(request[q].rows, consents'[a])
  <2>1. Justified(a) => Justified(a)'
    BY JustifiedStays DEF IInv
  <2>2. DOMAIN consents[a] # {} => DOMAIN consents'[a] # {}
    BY DEF Frame, Answers
  <2>3. created \in Nat
    BY BoundAssumption DEF IInv, TypeOK, TablesOK, Numbers
  <2>4. a \in 1 .. created => a \in 1 .. created' /\ Kind(a)' = Kind(a)
    BY <2>3 DEF Frame
  <2>5. request[q].pc \in {"application", "init"} => DOMAIN consents'[a] = {}
    BY <1>1, <1>2 DEF Frame, Local, IInv, OwnNumbers
  <2>6. request[q].pc = "tally_rows" => request[q].holders \in seen'
    BY <1>1, <1>2 DEF Frame, Local
  <2>7. request[q].pc = "tally_register" => Answers(request[q].rows, consents'[a])
    BY <1>1, <1>2, AnswersTransitive DEF Frame, Local
  <2> QED
    BY <2>1, <2>2, <2>4, <2>5, <2>6, <2>7
<1> QED
  BY <1>1, <1>2 DEF Local

\* A handler that has ended carries nothing.
LEMMA IdleIsLocal == ASSUME NEW r, request'[r] = Idle PROVE Local(r)'
BY DEF Local, Idle

\* The handler that moves keeps its part of the invariant: an applicant's.
LEMMA CreateKeepsLocal ==
  ASSUME IInv, NEW r \in Requests, Frame(r), CreateNext(r)
  PROVE  Local(r)'
<1> USE DEF IInv
<1>1. RequestsOK /\ TablesOK /\ Local(r) /\ IsLocals(request[r])
  BY DEF TypeOK, RequestsOK
<1>2. created \in Nat /\ request[r].app \in Numbers
  BY <1>1, BoundAssumption DEF IsLocals, TablesOK, Numbers
<1>3. ASSUME NEW a \in Numbers PROVE Justified(a) => Justified(a)'
  BY JustifiedStays
<1>4. CASE Done(r)
  BY <1>1, <1>4, IdleIsLocal DEF Done, RequestsOK
<1>5. ASSUME NEW kind \in Kinds, LoadCompany(r, kind) PROVE Local(r)'
  <2>1. request'[r] = [Idle EXCEPT !.pc = "check", !.kind = kind, !.holders = register]
    BY <1>1, <1>5 DEF LoadCompany, RequestsOK
  <2> QED
    BY <2>1 DEF Local, Idle
<1>6. ASSUME CheckExisting(r), ~Done(r) PROVE Local(r)'
  <2>1. request'[r] = [request[r] EXCEPT !.pc = "instance"] /\ request[r].pc = "check"
    BY <1>1, <1>6 DEF CheckExisting, Goto, RequestsOK
  <2> QED
    BY <1>1, <1>2, <2>1 DEF Local, IsLocals, Idle
<1>7. ASSUME CreateInstance(r) PROVE Local(r)'
  <2>1. /\ request'[r] = [request[r] EXCEPT !.pc = "application", !.app = created + 1]
        /\ request[r].pc = "instance"
    BY <1>1, <1>7 DEF CreateInstance, RequestsOK
  <2>2. /\ request'[r].pc = "application" /\ request'[r].app = created + 1
        /\ request'[r].kind = request[r].kind /\ request'[r].tally = request[r].tally
    BY <1>1, <2>1 DEF IsLocals, Idle
  <2>3. created + 1 \in Numbers /\ created' = created + 1 /\ consents' = consents
    BY <1>1, <1>2, <1>7, BoundAssumption DEF CreateInstance, Numbers, TablesOK
  <2>4. DOMAIN consents[created + 1] = {}
    BY <1>2, <2>3 DEF NoEarlyBallot
  <2>5. instance'[created + 1].kind = request[r].kind
    BY <1>1, <1>7, <2>3 DEF CreateInstance, TablesOK
  <2>6. request[r].kind \in Kinds /\ request[r].tally = "PENDING"
    BY <1>1, <1>2, <2>1 DEF Local
  <2> QED
    BY <1>2, <2>2, <2>3, <2>4, <2>5, <2>6 DEF Local, Kind
<1>8. ASSUME CreateApplication(r) PROVE Local(r)'
  <2>1. request'[r] = [request[r] EXCEPT !.pc = "init"] /\ request[r].pc = "application"
    BY <1>1, <1>8 DEF CreateApplication, Goto, RequestsOK
  <2> QED
    BY <1>1, <1>2, <1>8, <2>1 DEF Local, IsLocals, Idle, CreateApplication, Kind
<1>9. ASSUME NEW named \in NamedSlots(request[r].kind, request[r].holders),
             CreateConsents(r, named)
      PROVE  Local(r)'
  <2> DEFINE asked == RequiredSlots(request[r].kind, DOMAIN request[r].holders,
                                    {}, named)
  <2>1. PICK a \in Numbers : a = request[r].app
    BY <1>2
  <2>2. /\ a \in 1 .. created /\ Kind(a) = request[r].kind
        /\ request[r].kind \in Kinds /\ request[r].tally = "PENDING"
    BY <1>1, <1>9, <2>1 DEF Local, CreateConsents
  <2>3. Kind(a)' = Kind(a) /\ created' = created
    BY <1>9, <2>2 DEF Frame, CreateConsents
  <2>4. DOMAIN consents'[a] = asked
    BY <1>1, <1>9, <2>1 DEF CreateConsents, TablesOK
  <2>5. request[r].kind # "equity_transfer" => asked # {}
    BY <1>1, <2>2, AskedIsNotEmpty DEF IsLocals
  <2>6. /\ request'[r].app = a /\ request'[r].tally = "PENDING"
        /\ request'[r].pc = IF request[r].kind = "equity_transfer" THEN "endorse"
                            ELSE "count"
    BY <1>1, <1>9, <2>1, <2>2 DEF CreateConsents, Goto, RequestsOK, IsLocals, Idle
  <2> HIDE DEF asked
  <2> QED
    BY <2>2, <2>3, <2>4, <2>5, <2>6 DEF Local
<1>10. ASSUME CountPending(r) PROVE Local(r)'
  <2>1. PICK a \in Numbers : a = request[r].app
    BY <1>2
  <2>2. DOMAIN consents[a] # {} /\ Kind(a) # "equity_transfer"
    BY <1>1, <1>10, <2>1 DEF Local, CountPending
  <2>3. /\ request'[r].app = a /\ request'[r].pc = "endorse"
        /\ request'[r].tally = IF Some(consents[a], DOMAIN consents[a], "PENDING")
                               THEN "PENDING" ELSE "APPROVED"
    BY <1>1, <1>10, <2>1 DEF CountPending, RequestsOK, IsLocals, Idle
  <2>4. request'[r].tally = "APPROVED" => Justified(a)
    BY <2>2, <2>3 DEF Justified
  <2>5. request'[r].tally = "APPROVED" => Justified(a)'
    BY <1>3, <2>4
  <2> QED
    BY <2>3, <2>5 DEF Local
<1>11. ASSUME WriteInitialConsent(r) PROVE Local(r)'
  <2>1. request'[r].pc \in {"link", "auto"}
    BY <1>1, <1>11 DEF IsLocals, Idle, WriteInitialConsent, Goto, RequestsOK
  <2> QED
    BY <2>1 DEF Local
<1>12. ASSUME LinkCompany(r) PROVE Local(r)'
  <2>1. request'[r].pc = "auto"
    BY <1>1, <1>12 DEF IsLocals, Idle, LinkCompany, Goto, RequestsOK
  <2> QED
    BY <2>1 DEF Local
<1>13. ASSUME NEW auto \in AutoApprove, ConsiderAutoApprove(r, auto), ~Done(r)
       PROVE  Local(r)'
  <2>1. request'[r].pc = "gate"
    BY <1>1, <1>13 DEF Idle, ConsiderAutoApprove, RequestsOK
  <2> QED
    BY <2>1 DEF Local
<1> QED
  BY <1>4, <1>5, <1>6, <1>7, <1>8, <1>9, <1>10, <1>11, <1>12, <1>13 DEF CreateNext

\* A voter's handler: what it read was answered further at most.
LEMMA DecideKeepsLocal ==
  ASSUME IInv, NEW r \in Requests, Frame(r), DecideNext(r)
  PROVE  Local(r)'
<1> USE DEF IInv
<1>1. RequestsOK /\ TablesOK /\ Local(r) /\ IsLocals(request[r])
  BY DEF TypeOK, RequestsOK
<1>2. PICK b \in Numbers : b = request[r].app
  BY <1>1 DEF IsLocals
<1>3. Justified(b) => Justified(b)'
  BY JustifiedStays
<1>4. DOMAIN consents[b] # {} => DOMAIN consents'[b] # {}
  BY DEF Frame, Answers
<1>5. CASE Done(r)
  BY <1>1, <1>5, IdleIsLocal DEF Done, RequestsOK
<1>6. ASSUME NEW a \in Applications, NEW user \in Users,
             NEW vote \in Votes \ {"PENDING"}, CheckUndecided(r, a, user, vote)
      PROVE  Local(r)'
  <2>1. request'[r].pc = "vote"
    BY <1>1, <1>6 DEF CheckUndecided, RequestsOK, Idle
  <2> QED
    BY <2>1 DEF Local
<1>7. ASSUME AnswerConsents(r), ~Done(r) PROVE Local(r)'
  <2>1. request'[r].pc = "tally" /\ request'[r].app = b
    BY <1>1, <1>2, <1>7 DEF AnswerConsents, Goto, RequestsOK, IsLocals, Idle
  <2>2. DOMAIN consents[b] # {}
    BY <1>2, <1>7 DEF AnswerConsents, Mine
  <2> QED
    BY <1>4, <2>1, <2>2 DEF Local
<1>8. ASSUME ReadRegister(r) PROVE Local(r)'
  <2>1. /\ request'[r].pc = "tally_rows" /\ request'[r].app = b
        /\ request'[r].holders = register
    BY <1>1, <1>2, <1>8 DEF ReadRegister, RequestsOK, IsLocals, Idle
  <2>2. DOMAIN consents[b] # {} /\ register \in seen'
    BY <1>1, <1>2, <1>8 DEF ReadRegister, Local, Frame
  <2> QED
    BY <1>4, <2>1, <2>2 DEF Local
<1>9. ASSUME ReadRows(r) PROVE Local(r)'
  <2>1. /\ request'[r].pc = "tally_register" /\ request'[r].app = b
        /\ request'[r].rows = consents[b]
    BY <1>1, <1>2, <1>9 DEF ReadRows, RequestsOK, IsLocals, Idle
  <2>2. DOMAIN consents[b] # {} /\ consents' = consents
    BY <1>1, <1>2, <1>9 DEF ReadRows, Local, data
  <2> QED
    BY <2>1, <2>2, SameAnswers DEF Local
<1>10. ASSUME TallyLastRows(r) PROVE Local(r)'
  <2>1. /\ request'[r].pc = "publish" /\ request'[r].app = b
        /\ request'[r].tally = ConsentProgress(Kind(b), consents[b], request[r].holders)
    BY <1>1, <1>2, <1>10 DEF TallyLastRows, RequestsOK, IsLocals, Idle
  <2>2. DOMAIN consents[b] # {} /\ request[r].holders \in seen
    BY <1>1, <1>2, <1>10 DEF TallyLastRows, Local
  <2>3. request'[r].tally = "APPROVED" => Justified(b)
    BY <2>1, <2>2 DEF Justified, Backed
  <2> QED
    BY <1>3, <2>1, <2>3 DEF Local
<1>11. ASSUME TallyLastRegister(r) PROVE Local(r)'
  <2>1. /\ request'[r].pc = "publish" /\ request'[r].app = b
        /\ request'[r].tally = ConsentProgress(Kind(b), request[r].rows, register)
    BY <1>1, <1>2, <1>11 DEF TallyLastRegister, RequestsOK, IsLocals, Idle
  <2>2. DOMAIN consents[b] # {} /\ Answers(request[r].rows, consents[b])
    BY <1>1, <1>2, <1>11 DEF TallyLastRegister, Local
  <2>3. IsRegister(register) /\ register \in seen
    BY <1>1, RegisterAssumption DEF IsRegister, TablesOK
  <2>4. Kind(b) # "management_change"
    BY <1>1, KindsAssumption DEF Kind, NoKind, TwoThirdsKinds, InstanceRows, TablesOK
  <2>5. ConsentProgress(Kind(b), request[r].rows, register) = "APPROVED"
          => ConsentProgress(Kind(b), consents[b], register) = "APPROVED"
    BY <2>2, <2>3, <2>4, WonBallotStaysWon
  <2>6. request'[r].tally = "APPROVED" => Justified(b)
    BY <2>1, <2>2, <2>3, <2>5 DEF Justified, Backed
  <2> QED
    BY <1>3, <2>1, <2>6 DEF Local
<1>12. PublishProgress(r) => Done(r)
  BY DEF PublishProgress
<1> QED
  BY <1>5, <1>6, <1>7, <1>8, <1>9, <1>10, <1>11, <1>12 DEF DecideNext

\* Where an administrator's handler can be after a step.
LEMMA AdminLabels ==
  ASSUME RequestsOK, NEW r \in Requests, AdminNext(r), ~Done(r)
  PROVE  /\ request'[r].pc \in {"gate", "perform", "transition", "company", "resolve",
                                "recheck", "persist"}
         /\ request'[r].pc = "persist" => RecheckConsent(r)
<1>1. IsLocals(request[r])
  BY DEF RequestsOK
<1>2. ASSUME NEW a \in Numbers, NEW act \in AdminActions, StartAction(r, a, act)
      PROVE  request'[r].pc = "gate"
  BY <1>2 DEF StartAction, RequestsOK, Idle
<1>3. CheckConsent(r) => request'[r].pc = "perform"
  BY <1>1 DEF CheckConsent, Goto, RequestsOK, IsLocals, Idle
<1>4. ASSUME FindTransition(r) PROVE request'[r].pc = "transition"
  <2>1. PICK step : request' = [request EXCEPT
            ![r].pc = "transition", ![r].to = step[3]]
    BY <1>4 DEF FindTransition
  <2> QED
    BY <1>1, <2>1 DEF RequestsOK, IsLocals, Idle
<1>5. WriteTransition(r) => request'[r].pc = "company"
  BY <1>1 DEF WriteTransition, Goto, RequestsOK, IsLocals, Idle
<1>6. UpdateCompany(r) => request'[r].pc = "resolve"
  BY <1>1 DEF UpdateCompany, Goto, RequestsOK, IsLocals, Idle
<1>7. UpdateApplication(r) => request'[r].pc \in {"recheck", "gate"}
  BY <1>1 DEF UpdateApplication, NextAction, Goto, RequestsOK, IsLocals, Idle
<1>8. RecheckConsent(r) => request'[r].pc = "persist"
  BY <1>1 DEF RecheckConsent, Goto, RequestsOK, IsLocals, Idle
<1>9. ~Persist(r)
  BY DEF Persist
<1> QED
  BY <1>2, <1>3, <1>4, <1>5, <1>6, <1>7, <1>8, <1>9 DEF AdminNext

\* An administrator's handler: the second check is what carries the change.
LEMMA AdminKeepsLocal ==
  ASSUME IInv, NEW r \in Requests, Frame(r), AdminNext(r)
  PROVE  Local(r)'
<1> USE DEF IInv
<1>1. RequestsOK /\ TablesOK /\ Local(r) /\ IsLocals(request[r])
  BY DEF TypeOK, RequestsOK
<1>2. PICK b \in Numbers : b = request[r].app
  BY <1>1 DEF IsLocals
<1>3. CASE Done(r)
  BY <1>1, <1>3, IdleIsLocal DEF Done, RequestsOK
<1>4. CASE RecheckConsent(r) /\ ~Done(r)
  <2>1. request'[r].pc = "persist" /\ request'[r].app = b
    BY <1>1, <1>2, <1>4 DEF RecheckConsent, Goto, RequestsOK, IsLocals, Idle
  <2>2. application[b].consent = "APPROVED"
    BY <1>2, <1>4 DEF RecheckConsent
  <2>3. b # 0 => Justified(b)
    BY <2>2, BoundAssumption DEF EndorsementIsJustified, Applications, Numbers
  <2>4. b # 0 => Justified(b)'
    BY <2>3, JustifiedStays
  <2> QED
    BY <2>1, <2>4 DEF Local
<1>5. \/ Done(r)
      \/ RecheckConsent(r)
      \/ request'[r].pc \in {"gate", "perform", "transition", "company", "resolve",
                             "recheck"}
  BY <1>1, AdminLabels
<1> QED
  BY <1>3, <1>4, <1>5 DEF Local

\* A withdrawal carries the number of its application only.
LEMMA WithdrawKeepsLocal ==
  ASSUME IInv, NEW r \in Requests, WithdrawNext(r)
  PROVE  Local(r)'
<1>1. RequestsOK
  BY DEF IInv, TypeOK
<1>2. ASSUME NEW a \in Applications, CheckWithdrawable(r, a) PROVE Local(r)'
  <2>1. request'[r].pc = "withdraw" /\ request'[r].app = a
    BY <1>1, <1>2 DEF CheckWithdrawable, RequestsOK, Idle
  <2> QED
    BY <2>1 DEF Local
<1>3. CASE Withdraw(r)
  BY <1>1, <1>3, IdleIsLocal DEF Withdraw, Done, RequestsOK
<1> QED
  BY <1>2, <1>3 DEF WithdrawNext

\* No step of a handler, nor its end, breaks what is known of any handler.
LEMMA LocalHolds ==
  ASSUME IInv, NEW r \in Requests, Handle(r) \/ Abort(r), NEW q \in Requests
  PROVE  Local(q)'
<1>1. Frame(r)
  BY FrameHolds
<1>2. Abort(r) => Local(r)'
  BY IdleIsLocal DEF Abort, Done, IInv, TypeOK, RequestsOK
<1>3. Local(r)'
  BY <1>1, <1>2, CreateKeepsLocal, DecideKeepsLocal, AdminKeepsLocal,
     WithdrawKeepsLocal DEF Handle
<1>4. q # r => Local(q)'
  BY <1>1, OthersKeepLocal
<1> QED
  BY <1>3, <1>4

\* Ballots are opened for created applications only.
LEMMA EarlyBallotsStay ==
  ASSUME IInv, NEW r \in Requests, Frame(r)
  PROVE  NoEarlyBallot'
<1>1. created \in Nat /\ Local(r)
  BY BoundAssumption DEF IInv, TypeOK, TablesOK, Numbers
<1>2. ASSUME NEW a \in Numbers, DOMAIN consents'[a] # {} PROVE a \in 1 .. created'
  <2>1. CASE DOMAIN consents[a] # {}
    BY <1>1, <2>1 DEF IInv, NoEarlyBallot, Frame
  <2>2. CASE DOMAIN consents[a] = {}
    BY <1>1, <1>2, <2>2 DEF Frame, Local
  <2> QED
    BY <2>1, <2>2
<1> QED
  BY <1>2 DEF NoEarlyBallot

\* Where an applicant's and a voter's handler can be after a step: only the two
\* steps that number an application and file it lead to their labels.
LEMMA CreateLabels ==
  ASSUME RequestsOK, NEW r \in Requests, CreateNext(r), ~Done(r),
         ~CreateInstance(r), ~CreateApplication(r)
  PROVE  request'[r].pc \notin {"application", "init", "recheck", "persist"}
<1>1. IsLocals(request[r])
  BY DEF RequestsOK
<1>2. ASSUME NEW kind \in Kinds, LoadCompany(r, kind) PROVE request'[r].pc = "check"
  BY <1>2 DEF LoadCompany, RequestsOK, Idle
<1>3. CheckExisting(r) => request'[r].pc = "instance"
  BY <1>1 DEF CheckExisting, Goto, RequestsOK, IsLocals, Idle
<1>4. ASSUME NEW named \in NamedSlots(request[r].kind, request[r].holders),
             CreateConsents(r, named)
      PROVE  request'[r].pc \in {"endorse", "count"}
  BY <1>1, <1>4 DEF CreateConsents, Goto, RequestsOK, IsLocals, Idle
<1>5. CountPending(r) => request'[r].pc = "endorse"
  BY <1>1 DEF CountPending, RequestsOK, IsLocals, Idle
<1>6. WriteInitialConsent(r) => request'[r].pc \in {"link", "auto"}
  BY <1>1 DEF WriteInitialConsent, Goto, RequestsOK, IsLocals, Idle
<1>7. LinkCompany(r) => request'[r].pc = "auto"
  BY <1>1 DEF LinkCompany, Goto, RequestsOK, IsLocals, Idle
<1>8. ASSUME NEW auto \in AutoApprove, ConsiderAutoApprove(r, auto)
      PROVE  request'[r].pc = "gate"
  BY <1>8 DEF ConsiderAutoApprove, RequestsOK, Idle
<1> QED
  BY <1>2, <1>3, <1>4, <1>5, <1>6, <1>7, <1>8 DEF CreateNext

\* A voter's handler never files an application, and applies no change.
LEMMA DecideLabels ==
  ASSUME RequestsOK, NEW r \in Requests, DecideNext(r), ~Done(r)
  PROVE  request'[r].pc \notin {"application", "init", "recheck", "persist"}
<1>1. IsLocals(request[r])
  BY DEF RequestsOK
<1>2. ASSUME NEW a \in Applications, NEW user \in Users,
             NEW vote \in Votes \ {"PENDING"}, CheckUndecided(r, a, user, vote)
      PROVE  request'[r].pc = "vote"
  BY <1>2 DEF CheckUndecided, RequestsOK, Idle
<1>3. AnswerConsents(r) => request'[r].pc = "tally"
  BY <1>1 DEF AnswerConsents, Goto, RequestsOK, IsLocals, Idle
<1>4. ReadRegister(r) => request'[r].pc = "tally_rows"
  BY <1>1 DEF ReadRegister, RequestsOK, IsLocals, Idle
<1>5. ReadRows(r) => request'[r].pc = "tally_register"
  BY <1>1 DEF ReadRows, RequestsOK, IsLocals, Idle
<1>6. TallyLastRows(r) => request'[r].pc = "publish"
  BY <1>1 DEF TallyLastRows, RequestsOK, IsLocals, Idle
<1>7. TallyLastRegister(r) => request'[r].pc = "publish"
  BY <1>1 DEF TallyLastRegister, RequestsOK, IsLocals, Idle
<1>8. ~PublishProgress(r)
  BY DEF PublishProgress
<1> QED
  BY <1>2, <1>3, <1>4, <1>5, <1>6, <1>7, <1>8 DEF DecideNext

\* Two handlers that are filing an application never share its number.
LEMMA NumbersStayOwn ==
  ASSUME IInv, NEW r \in Requests, Handle(r) \/ Abort(r)
  PROVE  OwnNumbers'
<1> DEFINE new(l) == l.pc \in {"application", "init"}
<1>1. RequestsOK /\ OwnNumbers /\ \A q \in Requests : Local(q) /\ IsLocals(request[q])
  BY DEF IInv, TypeOK, RequestsOK
<1>2. created \in Nat
  BY BoundAssumption DEF IInv, TypeOK, TablesOK, Numbers
<1>3. \A q \in Requests \ {r} : request'[q] = request[q]
  BY FrameHolds DEF Frame
<1>4. ASSUME new(request'[r])
      PROVE  \/ request'[r].app = created + 1
             \/ new(request[r]) /\ request'[r].app = request[r].app
  <2>1. CASE Done(r)
    BY <1>1, <1>4, <2>1 DEF Done, Idle, RequestsOK
  <2>2. CASE CreateInstance(r)
    BY <1>1, <2>2 DEF CreateInstance, RequestsOK, IsLocals, Idle
  <2>3. CASE CreateApplication(r)
    BY <1>1, <2>3 DEF CreateApplication, Goto, RequestsOK, IsLocals, Idle
  <2>4. CASE CreateNext(r) /\ ~Done(r) /\ ~CreateInstance(r) /\ ~CreateApplication(r)
    <3>1. request'[r].pc \notin {"application", "init", "recheck", "persist"}
      BY <1>1, <2>4, CreateLabels
    <3> QED
      BY <1>4, <3>1
  <2>5. CASE DecideNext(r) /\ ~Done(r)
    <3>1. request'[r].pc \notin {"application", "init", "recheck", "persist"}
      BY <1>1, <2>5, DecideLabels
    <3> QED
      BY <1>4, <3>1
  <2>6. CASE AdminNext(r) /\ ~Done(r)
    <3>1. request'[r].pc \in {"gate", "perform", "transition", "company", "resolve",
                              "recheck", "persist"}
      BY <1>1, <2>6, AdminLabels
    <3> QED
      BY <1>4, <3>1
  <2>7. CASE WithdrawNext(r) /\ ~Done(r)
    BY <1>1, <1>4, <2>7 DEF WithdrawNext, CheckWithdrawable, Withdraw, RequestsOK, Idle
  <2> QED
    BY <2>1, <2>2, <2>3, <2>4, <2>5, <2>6, <2>7 DEF Handle, Abort
<1>5. ASSUME NEW q \in Requests \ {r}, new(request[q]), new(request'[r]),
             request'[r].app = request[q].app
      PROVE  FALSE
  <2>1. request[q].app \in 1 .. created
    BY <1>1, <1>5 DEF Local, IsLocals
  <2> QED
    BY <1>1, <1>2, <1>4, <1>5, <2>1 DEF OwnNumbers
<1>6. ASSUME NEW p \in Requests, NEW q \in Requests, new(request'[p]), new(request'[q]),
             request'[p].app = request'[q].app, p # q
      PROVE  FALSE
  <2>1. CASE p = r
    BY <1>3, <1>5, <1>6, <2>1
  <2>2. CASE q = r
    BY <1>3, <1>5, <1>6, <2>2
  <2>3. CASE p # r /\ q # r
    BY <1>1, <1>3, <1>6, <2>3 DEF OwnNumbers
  <2> QED
    BY <2>1, <2>2, <2>3
<1> HIDE DEF new
<1> QED
  BY <1>6 DEF OwnNumbers, new

\* Each of the five writes to an application row keeps endorsements justified.
LEMMA EndorsementsStayJustified ==
  ASSUME IInv, NEW r \in Requests, Handle(r) \/ Abort(r)
  PROVE  EndorsementIsJustified'
<1> USE DEF IInv, TypeOK
<1>1. RequestsOK /\ TablesOK /\ Local(r) /\ IsLocals(request[r])
  BY DEF RequestsOK
<1>2. SUFFICES ASSUME NEW a \in Applications, application'[a].consent = "APPROVED"
               PROVE  Justified(a)'
  BY DEF EndorsementIsJustified
<1>3. a \in Numbers
  BY DEF Applications, Numbers
<1>4. SUFFICES Justified(a)
  BY <1>3, FrameHolds, JustifiedStays
<1>5. \/ UNCHANGED application \/ CreateApplication(r) \/ WriteInitialConsent(r)
      \/ PublishProgress(r) \/ UpdateApplication(r) \/ Withdraw(r)
  BY DEF Handle, CreateNext, DecideNext, AdminNext, WithdrawNext, Abort, data,
     LoadCompany, CheckExisting, CreateInstance, CreateApplication, CreateConsents,
     CountPending, WriteInitialConsent, LinkCompany, ConsiderAutoApprove,
     CheckUndecided, AnswerConsents, ReadRegister, ReadRows, TallyLastRows,
     TallyLastRegister, PublishProgress, StartAction, CheckConsent, FindTransition,
     WriteTransition, UpdateCompany, UpdateApplication, RecheckConsent, Persist,
     CheckWithdrawable, Withdraw
<1>6. CASE application'[a].consent = application[a].consent
  BY <1>2, <1>6 DEF EndorsementIsJustified
<1>7. CASE CreateApplication(r)
  BY <1>1, <1>2, <1>3, <1>6, <1>7 DEF CreateApplication, TablesOK
<1>8. CASE WriteInitialConsent(r)
  <2>1. CASE a = request[r].app
    BY <1>1, <1>2, <1>3, <1>8, <2>1 DEF WriteInitialConsent, TablesOK, ApplicationRows,
       Local
  <2>2. CASE a # request[r].app
    BY <1>1, <1>3, <1>6, <1>8, <2>2 DEF WriteInitialConsent, TablesOK
  <2> QED
    BY <2>1, <2>2
<1>9. CASE PublishProgress(r)
  <2>1. CASE a = request[r].app
    BY <1>1, <1>2, <1>3, <1>9, <2>1 DEF PublishProgress, TablesOK, ApplicationRows,
       Local
  <2>2. CASE a # request[r].app
    BY <1>1, <1>3, <1>6, <1>9, <2>2 DEF PublishProgress, TablesOK
  <2> QED
    BY <2>1, <2>2
<1>10. CASE UpdateApplication(r)
  BY <1>1, <1>3, <1>6, <1>10 DEF UpdateApplication, TablesOK, ApplicationRows
<1>11. CASE Withdraw(r)
  BY <1>1, <1>2, <1>3, <1>6, <1>11 DEF Withdraw, TablesOK
<1> QED
  BY <1>5, <1>6, <1>7, <1>8, <1>9, <1>10, <1>11

\* The only step that applies a change has had its consent checked again.
LEMMA EffectsStayJustified ==
  ASSUME IInv, NEW r \in Requests, Handle(r) \/ Abort(r)
  PROVE  EffectIsJustified'
<1> USE DEF IInv, TypeOK
<1>1. RequestsOK /\ TablesOK /\ Local(r) /\ IsLocals(request[r])
  BY DEF RequestsOK
<1>2. SUFFICES ASSUME NEW a \in Applications, effects'[a] > 0
               PROVE  Justified(a)'
  BY DEF EffectIsJustified
<1>3. a \in Numbers /\ a # 0
  BY DEF Applications, Numbers
<1>4. SUFFICES Justified(a)
  BY <1>3, FrameHolds, JustifiedStays
<1>5. UNCHANGED effects \/ Persist(r)
  BY DEF Handle, CreateNext, DecideNext, AdminNext, WithdrawNext, Abort, data,
     LoadCompany, CheckExisting, CreateInstance, CreateApplication, CreateConsents,
     CountPending, WriteInitialConsent, LinkCompany, ConsiderAutoApprove,
     CheckUndecided, AnswerConsents, ReadRegister, ReadRows, TallyLastRows,
     TallyLastRegister, PublishProgress, StartAction, CheckConsent, FindTransition,
     WriteTransition, UpdateCompany, UpdateApplication, RecheckConsent, Persist,
     CheckWithdrawable, Withdraw
<1>6. CASE effects'[a] = effects[a]
  BY <1>2, <1>6 DEF EffectIsJustified
<1>7. CASE Persist(r)
  <2>1. CASE a = request[r].app
    BY <1>1, <1>3, <1>7, <2>1 DEF Persist, Local
  <2>2. CASE a # request[r].app
    BY <1>1, <1>3, <1>6, <1>7, <2>2 DEF Persist, TablesOK
  <2> QED
    BY <2>1, <2>2
<1> QED
  BY <1>5, <1>6, <1>7

\* The invariant holds at first.
LEMMA InitHolds == Init => IInv
<1> SUFFICES ASSUME Init PROVE IInv
  OBVIOUS
<1>1. IsBallot(NoRows) /\ DOMAIN NoRows = {}
  BY DEF IsBallot, NoRows
<1>2. RequestsOK
  BY IdleType DEF Init, RequestsOK
<1>3. FirstRegister \in Registers /\ 0 \in Numbers
  BY RegisterAssumption, BoundAssumption DEF Numbers
<1>4. TablesOK
  BY <1>1, <1>3, StatesAre DEF Init, TablesOK, ApplicationRows, InstanceRows, CompanyRows,
     OpenStatus, ClosedStatus, Votes
<1>5. NoEarlyBallot
  BY <1>1 DEF Init, NoEarlyBallot
<1>6. OwnNumbers /\ \A r \in Requests : Local(r)
  BY DEF Init, OwnNumbers, Local, Idle
<1>7. EndorsementIsJustified
  BY DEF Init, EndorsementIsJustified, Applications, Numbers
<1>8. EffectIsJustified
  BY DEF Init, EffectIsJustified, Applications, Numbers
<1> QED
  BY <1>2, <1>4, <1>5, <1>6, <1>7, <1>8 DEF IInv, TypeOK, Init

\* A step of any handler, and a stuttering step, keeps the invariant.
LEMMA StepHolds == IInv /\ [NextFaulty]_vars => IInv'
<1> SUFFICES ASSUME IInv, [NextFaulty]_vars PROVE IInv'
  OBVIOUS
<1>1. ASSUME NEW r \in Requests, Handle(r) \/ Abort(r) PROVE IInv'
  <2>1. Frame(r)
    BY <1>1, FrameHolds
  <2>2. TypeOK'
    <3>1. request[r].pc = "withdraw" => request[r].app \in Applications
      BY DEF IInv, TypeOK, RequestsOK, IsLocals, Local
    <3>2. Abort(r) => TypeOK'
      BY DoneType, TablesKept DEF Abort, IInv, TypeOK
    <3> QED
      BY <1>1, <3>1, <3>2, CreateTypes, DecideTypes, AdminTypes, WithdrawTypes
      DEF Handle, IInv
  <2>3. (register \in seen)'
    BY <2>1 DEF Frame
  <2>4. NoEarlyBallot'
    BY <2>1, EarlyBallotsStay
  <2>5. OwnNumbers'
    BY <1>1, NumbersStayOwn
  <2>6. \A q \in Requests : Local(q)'
    BY <1>1, LocalHolds
  <2>7. EndorsementIsJustified' /\ EffectIsJustified'
    BY <1>1, EndorsementsStayJustified, EffectsStayJustified
  <2> QED
    BY <2>2, <2>3, <2>4, <2>5, <2>6, <2>7 DEF IInv
<1>2. CASE UNCHANGED vars
  <2>1. TypeOK'
    BY <1>2, TablesKept DEF vars, data, IInv, TypeOK, RequestsOK, IsLocals, IsBallot
  <2>2. (register \in seen)' /\ NoEarlyBallot' /\ OwnNumbers'
    BY <1>2 DEF vars, data, IInv, NoEarlyBallot, OwnNumbers
  <2>3. \A a \in Numbers : Justified(a) => Justified(a)'
    BY <1>2 DEF vars, data, Justified, Backed, Kind
  <2>4. \A q \in Requests : Local(q)'
    BY <1>2, <2>3 DEF vars, data, IInv, Local, Kind
  <2>5. EndorsementIsJustified' /\ EffectIsJustified'
    BY <1>2, <2>3 DEF vars, data, IInv, EndorsementIsJustified, EffectIsJustified,
       Applications, Numbers
  <2> QED
    BY <2>1, <2>2, <2>4, <2>5 DEF IInv
<1> QED
  BY <1>1, <1>2 DEF NextFaulty

\* The inductive invariant holds throughout, failures included.
THEOREM Invariance == FaultySpec => []IInv
BY InitHolds, StepHolds, PTL DEF FaultySpec

\* The tables and the local variables of the handlers keep their types, for any
\* number of requests, applications, parties and registers.
THEOREM TypeCorrectness == FaultySpec => []TypeOK
<1>1. IInv => TypeOK
  BY DEF IInv
<1> QED
  BY <1>1, Invariance, PTL

\* An application is shown as agreed to only if its ballot justifies it,
\* however requests overlap and wherever they fail.
THEOREM EndorsementsAreJustified == FaultySpec => []EndorsementIsJustified
<1>1. IInv => EndorsementIsJustified
  BY DEF IInv
<1> QED
  BY <1>1, Invariance, PTL

\* A change takes effect only if its ballot justifies it.
THEOREM EffectsAreJustified == FaultySpec => []EffectIsJustified
<1>1. IInv => EffectIsJustified
  BY DEF IInv
<1> QED
  BY <1>1, Invariance, PTL

-----------------------------------------------------------------------------
(***************************************************************************)
(* The refinement: every behaviour, failures included, is one of the       *)
(* abstract ballot. Besides the invariant it takes the numbering of the    *)
(* instances: a number has no kind before CreateInstance uses it, and the  *)
(* registration is never handed to a persist...IfNeeded method.            *)
(***************************************************************************)
Numbering ==
  /\ Kind(0) = "registration"
  /\ consents = [a \in Numbers |-> consents[a]]
  /\ \A a \in Applications : Kind(a) # "registration"
  /\ \A a \in Applications : a > created => Kind(a) = NoKind
  /\ \A r \in Requests :
       request[r].pc \in {"recheck", "persist"} => request[r].app # 0

\* The kind of an instance is written when it is created, and never again.
LEMMA KindsStay ==
  ASSUME IInv, NEW r \in Requests, Handle(r) \/ Abort(r), ~CreateInstance(r)
  PROVE  UNCHANGED created /\ \A a \in Numbers : Kind(a)' = Kind(a)
<1> USE DEF IInv, TypeOK
<1>1. /\ UNCHANGED created
      /\ UNCHANGED instance \/ WriteTransition(r) \/ Withdraw(r)
  BY DEF Handle, CreateNext, DecideNext, AdminNext, WithdrawNext, Abort, data,
     LoadCompany, CheckExisting, CreateApplication, CreateConsents,
     CountPending, WriteInitialConsent, LinkCompany, ConsiderAutoApprove,
     CheckUndecided, AnswerConsents, ReadRegister, ReadRows, TallyLastRows,
     TallyLastRegister, PublishProgress, StartAction, CheckConsent, FindTransition,
     WriteTransition, UpdateCompany, UpdateApplication, RecheckConsent, Persist,
     CheckWithdrawable, Withdraw
<1>2. CASE WriteTransition(r)
  BY <1>1, <1>2 DEF WriteTransition, Kind, TablesOK, InstanceRows
<1>3. CASE Withdraw(r)
  BY <1>1, <1>3 DEF Withdraw, Kind, TablesOK, InstanceRows
<1> QED
  BY <1>1, <1>2, <1>3 DEF Kind

\* The registration is not a kind whose change is persisted.
LEMMA PersistedIsNotRegistration == "registration" \notin PersistedKinds
BY DEF PersistedKinds, TwoThirdsKinds

\* The only way to the second check of the consent is by a persisted kind.
LEMMA PersistedOnly ==
  ASSUME IInv, Numbering, NEW r \in Requests, Handle(r) \/ Abort(r),
         request'[r].pc \in {"recheck", "persist"}
  PROVE  request'[r].app # 0
<1> USE DEF IInv, TypeOK
<1>1. RequestsOK /\ IsLocals(request[r]) /\ Local(r)
  BY DEF RequestsOK
<1>2. ~Done(r)
  BY <1>1 DEF Done, RequestsOK, Idle
<1>3. AdminNext(r)
  <2>1. ~CreateInstance(r) /\ ~CreateApplication(r)
    BY <1>1 DEF CreateInstance, CreateApplication, Goto, RequestsOK, IsLocals, Idle
  <2>2. ~CreateNext(r) /\ ~DecideNext(r)
    BY <1>2, <2>1, CreateLabels, DecideLabels
  <2>3. ~WithdrawNext(r)
    <3>1. ASSUME NEW a \in Applications PROVE ~CheckWithdrawable(r, a)
      BY <1>1 DEF CheckWithdrawable, RequestsOK, Idle
    <3> QED
      BY <1>2, <3>1 DEF WithdrawNext, Withdraw
  <2> QED
    BY <1>2, <2>2, <2>3 DEF Handle, Abort
<1>4. CASE UpdateApplication(r)
  <2>1. Kind(request[r].app) \in PersistedKinds => request[r].app # 0
    BY PersistedIsNotRegistration DEF Numbering
  <2>2. CASE NextAction(r)
    BY <1>1, <1>2, <2>2 DEF NextAction, RequestsOK, IsLocals, Idle
  <2>3. \/ Kind(request[r].app) \in PersistedKinds /\ Goto(r, "recheck")
        \/ NextAction(r)
    BY <1>4 DEF UpdateApplication
  <2> QED
    BY <1>1, <2>1, <2>2, <2>3 DEF Goto, RequestsOK, IsLocals, Idle
<1>5. CASE RecheckConsent(r)
  <2>1. request[r].pc = "recheck" /\ Goto(r, "persist")
    BY <1>2, <1>5 DEF RecheckConsent
  <2> QED
    BY <1>1, <2>1 DEF Goto, RequestsOK, IsLocals, Idle, Numbering
<1>6. CASE \E a \in Numbers, act \in AdminActions : StartAction(r, a, act)
  BY <1>1, <1>6 DEF StartAction, RequestsOK, Idle
<1>7. CASE FindTransition(r)
  <2>1. PICK step : request' = [request EXCEPT ![r].pc = "transition", ![r].to = step[3]]
    BY <1>2, <1>7 DEF FindTransition
  <2> QED
    BY <1>1, <2>1 DEF RequestsOK, IsLocals, Idle
<1>8. CASE CheckConsent(r) \/ WriteTransition(r) \/ UpdateCompany(r) \/ Persist(r)
  BY <1>1, <1>2, <1>8 DEF CheckConsent, WriteTransition, UpdateCompany, Persist, Goto,
     RequestsOK, IsLocals, Idle
<1> QED
  BY <1>3, <1>4, <1>5, <1>6, <1>7, <1>8 DEF AdminNext

\* The consent rows stay a table.
LEMMA ConsentsStayTable ==
  ASSUME IInv, Numbering, NEW r \in Requests, Handle(r) \/ Abort(r)
  PROVE  consents' = [a \in Numbers |-> consents'[a]]
<1>1. \/ UNCHANGED consents
      \/ \E named \in NamedSlots(request[r].kind, request[r].holders) :
            CreateConsents(r, named)
      \/ AnswerConsents(r)
      \/ Withdraw(r)
  BY DEF Handle, CreateNext, DecideNext, AdminNext, WithdrawNext, Abort, data,
     LoadCompany, CheckExisting, CreateInstance, CreateApplication, CreateConsents,
     CountPending, WriteInitialConsent, LinkCompany, ConsiderAutoApprove,
     CheckUndecided, AnswerConsents, ReadRegister, ReadRows, TallyLastRows,
     TallyLastRegister, PublishProgress, StartAction, CheckConsent, FindTransition,
     WriteTransition, UpdateCompany, UpdateApplication, RecheckConsent, Persist,
     CheckWithdrawable, Withdraw
<1>2. UNCHANGED consents \/ \E b, ballot : consents' = [consents EXCEPT ![b] = ballot]
  BY <1>1 DEF CreateConsents, AnswerConsents, Withdraw
<1> QED
  BY <1>2 DEF Numbering

\* The numbering holds at first.
LEMMA NumberingInit == Init => Numbering
<1> SUFFICES ASSUME Init PROVE Numbering
  OBVIOUS
<1>1. 0 \in Numbers /\ \A a \in Applications : a \in Numbers /\ a # 0
  BY BoundAssumption DEF Numbers, Applications
<1> QED
  BY <1>1 DEF Init, Numbering, Kind, Idle, NoKind

\* Every step keeps the numbering.
LEMMA NumberingStep == IInv /\ Numbering /\ [NextFaulty]_vars => Numbering'
<1> SUFFICES ASSUME IInv, Numbering, [NextFaulty]_vars PROVE Numbering'
  OBVIOUS
<1>1. /\ created \in Nat /\ 0 \in Numbers
      /\ \A a \in Applications : a \in Numbers /\ a \in Nat /\ a # 0
  BY BoundAssumption DEF IInv, TypeOK, TablesOK, Numbers, Applications
<1>2. CASE UNCHANGED vars
  BY <1>2 DEF vars, data, Numbering, Kind
<1>3. ASSUME NEW r \in Requests, Handle(r) \/ Abort(r) PROVE Numbering'
  <2>1. \A q \in Requests : request'[q].pc \in {"recheck", "persist"} => request'[q].app # 0
    BY <1>3, PersistedOnly, FrameHolds DEF Frame, Numbering
  <2>2. /\ Kind(0)' = "registration"
        /\ \A a \in Applications : Kind(a)' # "registration"
        /\ \A a \in Applications : a > created' => Kind(a)' = NoKind
    <3>1. CASE CreateInstance(r)
      <4>1. created' = created + 1 /\ \A a \in Numbers \ {created + 1} : Kind(a)' = Kind(a)
        BY <3>1 DEF CreateInstance, Kind, IInv, TypeOK, TablesOK
      <4>2. request[r].kind # "registration"
        BY <3>1, KindsAssumption DEF CreateInstance, IInv, Local, TypeOK, RequestsOK,
           IsLocals, TwoThirdsKinds
      <4>3. PICK n \in Applications : n = created + 1
        BY <1>1, <3>1, BoundAssumption DEF CreateInstance, Applications
      <4>4. n \in Numbers /\ instance' = [instance EXCEPT ![n] =
                [kind |-> request[r].kind, state |-> "submitted", status |-> "ACTIVE"]]
        BY <1>1, <3>1, <4>3 DEF CreateInstance
      <4>5. DOMAIN instance = Numbers
        BY DEF IInv, TypeOK, TablesOK
      <4>6. Kind(n)' = request[r].kind
        BY <4>4, <4>5 DEF Kind
      <4>7. \A a \in Applications : a # n => Kind(a)' = Kind(a)
        BY <1>1, <4>1, <4>3
      <4>8. Kind(0)' = Kind(0)
        BY <1>1, <4>1, <4>3
      <4>9. \A a \in Applications : a > created' => a # n /\ a > created
        BY <1>1, <4>1, <4>3
      <4> QED
        BY <4>2, <4>3, <4>6, <4>7, <4>8, <4>9 DEF Numbering
    <3>2. CASE ~CreateInstance(r)
      BY <1>1, <1>3, <3>2, KindsStay DEF Numbering
    <3> QED
      BY <3>1, <3>2
  <2> QED
    BY <1>3, <2>1, <2>2, ConsentsStayTable DEF Numbering
<1> QED
  BY <1>2, <1>3 DEF NextFaulty

\* The ballot's leave to apply a change is what justifies it.
LEMMA AllowedIsJustified ==
  ASSUME NEW a \in Numbers PROVE Balloted!Allowed(a) <=> Justified(a)
BY DEF Balloted!Allowed, Justified, Backed, Some, Kind

\* The applications that are shown as agreed to.
Endorsed == {a \in Applications : application[a].consent = "APPROVED"}

\* What the abstract ballot does not see: steps that leave kinds, ballots,
\* summaries, effects and the register alone.
Unseen ==
  /\ \A a \in Numbers : Kind(a)' = Kind(a)
  /\ \A a \in Applications : application'[a].consent = application[a].consent
  /\ UNCHANGED <<consents, effects, register, seen>>

\* A step that is not seen is a stutter of the abstract ballot.
LEMMA UnseenStutters == ASSUME Unseen PROVE UNCHANGED Balloted!vars
<1>1. [a \in Numbers |-> instance[a].kind]' = [a \in Numbers |-> instance[a].kind]
  BY DEF Unseen, Kind
<1>2. Endorsed' = Endorsed
  BY DEF Unseen, Endorsed
<1> QED
  BY <1>1, <1>2 DEF Unseen, Balloted!vars, Endorsed

\* Writing a summary endorses the application, takes its endorsement back or
\* changes nothing, as far as the abstract ballot can see.
LEMMA SummaryIsSeen ==
  ASSUME IInv, Numbering, NEW a \in Numbers, NEW tally,
         application'[a].consent = tally,
         \A b \in Numbers \ {a} : application'[b].consent = application[b].consent,
         \A b \in Numbers : Kind(b)' = Kind(b),
         UNCHANGED <<consents, effects, register, seen>>,
         tally = "APPROVED" => Justified(a)
  PROVE  [Balloted!Next]_(Balloted!vars)
<1>1. \A b \in Applications : b \in Numbers /\ b # 0
  BY BoundAssumption DEF Numbers, Applications
<1>2. CASE a = 0
  BY <1>1, <1>2, UnseenStutters DEF Unseen
<1>3. CASE a # 0
  <2>1. a \in Numbers \ {0} /\ a \in Applications
    BY <1>3, BoundAssumption DEF Numbers, Applications
  <2>2. [b \in Numbers |-> instance[b].kind]' = [b \in Numbers |-> instance[b].kind]
    BY DEF Kind
  <2>3. CASE tally = "APPROVED"
    <3>1. Endorsed' = Endorsed \cup {a}
      BY <1>1, <2>1, <2>3 DEF Endorsed
    <3>2. Balloted!Endorse(a)
      BY <2>2, <2>3, <3>1, AllowedIsJustified DEF Balloted!Endorse, Endorsed
    <3> QED
      BY <2>1, <3>2 DEF Balloted!Next
  <2>4. CASE tally # "APPROVED"
    <3>1. Endorsed' = Endorsed \ {a}
      BY <1>1, <2>1, <2>4 DEF Endorsed
    <3>2. IsBallot(consents[a]) /\ consents' = [consents EXCEPT ![a] = consents'[a]]
      BY DEF IInv, TypeOK, TablesOK, Numbering
    <3>3. Balloted!Answer(a)
      BY <2>2, <3>1, <3>2 DEF Balloted!Answer, Endorsed, IsBallot
    <3> QED
      BY <2>1, <3>3 DEF Balloted!Next
  <2> QED
    BY <2>3, <2>4
<1> QED
  BY <1>2, <1>3

\* An applicant's step is one of the abstract ballot's or is not seen.
LEMMA CreateRefines ==
  ASSUME IInv, Numbering, NEW r \in Requests, CreateNext(r)
  PROVE  [Balloted!Next]_(Balloted!vars)
<1> USE DEF IInv, TypeOK
<1>1. RequestsOK /\ TablesOK /\ Local(r) /\ IsLocals(request[r])
  BY DEF RequestsOK
<1>2. request[r].app \in Numbers /\ created \in Nat /\ 0 \in Numbers
  BY <1>1, BoundAssumption DEF IsLocals, TablesOK, Numbers
<1>3. \A b \in Applications : b \in Numbers /\ b # 0
  BY BoundAssumption DEF Numbers, Applications
<1>4. CASE UNCHANGED data
  BY <1>4, UnseenStutters DEF Unseen, data, Kind
<1>5. CASE CreateInstance(r)
  <2>1. created + 1 \in Applications /\ request[r].kind \in Kinds
    BY <1>1, <1>2, <1>5, BoundAssumption DEF CreateInstance, Applications, Local
  <2>2. PICK n \in Applications : n = created + 1
    BY <2>1
  <2>3. PICK k \in Kinds : k = request[r].kind
    BY <2>1
  <2>4. n \in Numbers \ {0} /\ Kind(n) = "none"
    BY <1>2, <1>3, <2>2 DEF Numbering, NoKind
  <2>5. [a \in Numbers |-> instance[a].kind]'
          = [[a \in Numbers |-> instance[a].kind] EXCEPT ![n] = k]
    BY <1>1, <1>5, <2>2, <2>3, <2>4 DEF CreateInstance, TablesOK
  <2>6. Balloted!Ask(n, k)
    BY <1>5, <2>4, <2>5 DEF CreateInstance, Balloted!Ask, Kind
  <2> QED
    BY <2>4, <2>6 DEF Balloted!Next
<1>6. CASE CreateApplication(r)
  <2>1. /\ application'[request[r].app].consent = "PENDING"
        /\ \A b \in Numbers \ {request[r].app} :
             application'[b].consent = application[b].consent
    BY <1>1, <1>2, <1>6 DEF CreateApplication, TablesOK
  <2> QED
    BY <1>2, <1>6, <2>1, SummaryIsSeen DEF CreateApplication, Kind
<1>7. ASSUME NEW named \in NamedSlots(request[r].kind, request[r].holders),
             CreateConsents(r, named)
      PROVE  [Balloted!Next]_(Balloted!vars)
  <2> DEFINE asked == RequiredSlots(request[r].kind, DOMAIN request[r].holders,
                                    {}, named)
  <2>1. PICK a \in Numbers : a = request[r].app
    BY <1>2
  <2>2. a \in 1 .. created /\ DOMAIN consents[a] = {}
    BY <1>1, <1>7, <2>1 DEF CreateConsents, Local
  <2>3. a \in Applications /\ a # 0
    BY <1>2, <2>1, <2>2 DEF Applications, Numbers
  <2>4. consents[a] = Balloted!NoRows
    BY <1>1, <2>1, <2>2 DEF TablesOK, IsBallot, Balloted!NoRows
  <2>5. asked \subseteq Slots
    BY <1>1, NamedAreSlots, AskedAreSlots DEF IsLocals
  <2>6. consents' = [consents EXCEPT ![a] = [slot \in asked |-> "PENDING"]]
    BY <1>7, <2>1 DEF CreateConsents
  <2>7. consents'[a] = [slot \in asked |-> "PENDING"] /\ DOMAIN consents'[a] = asked
    BY <1>1, <2>6 DEF TablesOK
  <2>8. a \notin Endorsed
    BY <2>2, <2>3 DEF Endorsed, EndorsementIsJustified, Justified
  <2>9. UNCHANGED <<[b \in Numbers |-> instance[b].kind], Endorsed, effects,
                    register, seen>>
    BY <1>7 DEF CreateConsents, Endorsed
  <2> HIDE DEF asked
  <2>10. Balloted!Open(a)
    BY <2>4, <2>5, <2>6, <2>7, <2>8, <2>9 DEF Balloted!Open, Endorsed
  <2> QED
    BY <2>3, <2>10 DEF Balloted!Next
<1>8. CASE WriteInitialConsent(r)
  <2>1. /\ application'[request[r].app].consent = request[r].tally
        /\ \A b \in Numbers \ {request[r].app} :
             application'[b].consent = application[b].consent
    BY <1>1, <1>2, <1>8 DEF WriteInitialConsent, TablesOK, ApplicationRows
  <2>2. request[r].tally = "APPROVED" => Justified(request[r].app)
    BY <1>1, <1>2, <1>8 DEF WriteInitialConsent, Local
  <2> QED
    BY <1>2, <1>8, <2>1, <2>2, SummaryIsSeen DEF WriteInitialConsent, Kind
<1>9. CASE LinkCompany(r)
  BY <1>9, UnseenStutters DEF LinkCompany, Unseen, Kind
<1>10. \/ UNCHANGED data \/ CreateInstance(r) \/ CreateApplication(r)
       \/ \E named \in NamedSlots(request[r].kind, request[r].holders) :
             CreateConsents(r, named)
       \/ WriteInitialConsent(r) \/ LinkCompany(r)
  BY DEF CreateNext, LoadCompany, CheckExisting, CountPending, ConsiderAutoApprove
<1> QED
  BY <1>4, <1>5, <1>6, <1>7, <1>8, <1>9, <1>10

\* A change of one ballot's open rows, with the endorsement kept or taken back.
LEMMA AnswerIsSeen ==
  ASSUME IInv, NEW a \in Applications, NEW ballot, IsBallot(ballot),
         Answers(consents[a], ballot), consents' = [consents EXCEPT ![a] = ballot],
         \A b \in Applications : Kind(b)' = Kind(b), Kind(0)' = Kind(0),
         Endorsed' \in {Endorsed, Endorsed \ {a}},
         UNCHANGED <<effects, register, seen>>
  PROVE  Balloted!Next
<1>1. a \in Numbers \ {0} /\ \A b \in Numbers : b = 0 \/ b \in Applications
  BY BoundAssumption DEF Numbers, Applications
<1>2. consents'[a] = ballot
  BY <1>1 DEF IInv, TypeOK, TablesOK
<1>3. [b \in Numbers |-> instance[b].kind]' = [b \in Numbers |-> instance[b].kind]
  BY <1>1 DEF Kind
<1>4. /\ DOMAIN ballot = DOMAIN consents[a]
      /\ \A slot \in DOMAIN consents[a] :
           consents[a][slot] # "PENDING" => ballot[slot] = consents[a][slot]
  BY DEF Answers
<1>5. Balloted!Answer(a)
  BY <1>2, <1>3, <1>4 DEF Balloted!Answer, IsBallot, Endorsed
<1> QED
  BY <1>1, <1>5 DEF Balloted!Next

\* A voter's step.
LEMMA DecideRefines ==
  ASSUME IInv, Numbering, NEW r \in Requests, DecideNext(r)
  PROVE  [Balloted!Next]_(Balloted!vars)
<1> USE DEF IInv, TypeOK
<1>1. RequestsOK /\ TablesOK /\ Local(r) /\ IsLocals(request[r])
  BY DEF RequestsOK
<1>2. PICK a \in Numbers : a = request[r].app
  BY <1>1 DEF IsLocals
<1>3. CASE UNCHANGED data
  BY <1>3, UnseenStutters DEF Unseen, data, Kind
<1>4. CASE AnswerConsents(r) /\ consents' # consents
  <2> DEFINE ballot == Answered(consents[a], request[r].user, request[r].vote)
  <2>1. consents' = [consents EXCEPT ![a] = ballot] /\ Mine(consents[a], request[r].user) # {}
    BY <1>2, <1>4 DEF AnswerConsents
  <2>2. a \in Applications
    BY <1>1, <1>2, <2>1, BoundAssumption DEF Mine, NoEarlyBallot, TablesOK, Numbers,
       Applications
  <2>3. Answers(consents[a], ballot)
    BY AnsweredAnswers
  <2>4. IsBallot(ballot)
    BY <1>1 DEF Answered, IsBallot, TablesOK, IsLocals
  <2>5. UNCHANGED <<application, instance, effects, register, seen>>
    BY <1>4 DEF AnswerConsents
  <2> HIDE DEF ballot
  <2> QED
    BY <2>1, <2>2, <2>3, <2>4, <2>5, AnswerIsSeen DEF Kind, Endorsed
<1>5. CASE AnswerConsents(r) /\ consents' = consents
  BY <1>5, UnseenStutters DEF Unseen, AnswerConsents, Kind
<1>6. CASE PublishProgress(r)
  <2>1. /\ application'[a].consent = request[r].tally
        /\ \A b \in Numbers \ {a} : application'[b].consent = application[b].consent
    BY <1>1, <1>2, <1>6 DEF PublishProgress, TablesOK
  <2>2. request[r].tally = "APPROVED" => Justified(a)
    BY <1>1, <1>2, <1>6 DEF PublishProgress, Local
  <2> QED
    BY <1>2, <1>6, <2>1, <2>2, SummaryIsSeen DEF PublishProgress, Kind
<1>7. UNCHANGED data \/ AnswerConsents(r) \/ PublishProgress(r)
  BY DEF DecideNext, CheckUndecided, ReadRegister, ReadRows, TallyLastRows,
     TallyLastRegister
<1> QED
  BY <1>3, <1>4, <1>5, <1>6, <1>7

\* An administrator's step.
LEMMA AdminRefines ==
  ASSUME IInv, Numbering, NEW r \in Requests, AdminNext(r)
  PROVE  [Balloted!Next]_(Balloted!vars)
<1> USE DEF IInv, TypeOK
<1>1. RequestsOK /\ TablesOK /\ Local(r) /\ IsLocals(request[r])
  BY DEF RequestsOK
<1>2. PICK a \in Numbers : a = request[r].app
  BY <1>1 DEF IsLocals
<1>3. CASE UNCHANGED data
  BY <1>3, UnseenStutters DEF Unseen, data, Kind
<1>4. CASE WriteTransition(r)
  <2>1. \A b \in Numbers : Kind(b)' = Kind(b)
    BY <1>1, <1>4 DEF WriteTransition, Kind, TablesOK, InstanceRows
  <2> QED
    BY <1>4, <2>1, UnseenStutters DEF Unseen, WriteTransition
<1>5. CASE UpdateCompany(r)
  BY <1>5, UnseenStutters DEF Unseen, UpdateCompany, Kind
<1>6. CASE UpdateApplication(r)
  <2>1. \A b \in Applications : application'[b].consent = application[b].consent
    BY <1>1, <1>6 DEF UpdateApplication, TablesOK, ApplicationRows, Applications, Numbers
  <2> QED
    BY <1>6, <2>1, UnseenStutters DEF Unseen, UpdateApplication, Kind
<1>7. CASE Persist(r)
  <2>1. a \in Numbers \ {0} /\ Justified(a)
    BY <1>1, <1>2, <1>7 DEF Persist, Local, Numbering
  <2>2. UNCHANGED <<[b \in Numbers |-> instance[b].kind], Endorsed, consents>>
    BY <1>7 DEF Persist, Endorsed
  <2>3. /\ effects' = [effects EXCEPT ![a] = @ + 1]
        /\ register' \in IF Kind(a) = "equity_transfer" THEN Registers ELSE {register}
        /\ seen' = seen \cup {register'}
    BY <1>2, <1>7 DEF Persist
  <2>4. Balloted!Apply(a)
    BY <2>1, <2>2, <2>3, AllowedIsJustified DEF Balloted!Apply, Kind, Endorsed
  <2> QED
    BY <2>1, <2>4 DEF Balloted!Next
<1>8. \/ UNCHANGED data \/ WriteTransition(r) \/ UpdateCompany(r)
      \/ UpdateApplication(r) \/ Persist(r)
  BY DEF AdminNext, StartAction, CheckConsent, FindTransition, RecheckConsent
<1> QED
  BY <1>3, <1>4, <1>5, <1>6, <1>7, <1>8

\* A withdrawal answers every open row with no and takes the endorsement back.
LEMMA WithdrawRefines ==
  ASSUME IInv, NEW r \in Requests, WithdrawNext(r)
  PROVE  [Balloted!Next]_(Balloted!vars)
<1> USE DEF IInv, TypeOK
<1>1. RequestsOK /\ TablesOK /\ Local(r) /\ IsLocals(request[r])
  BY DEF RequestsOK
<1>2. CASE UNCHANGED data
  BY <1>2, UnseenStutters DEF Unseen, data, Kind
<1>3. CASE Withdraw(r)
  <2>1. PICK a \in Numbers : a = request[r].app
    BY <1>1 DEF IsLocals
  <2> DEFINE ballot == [slot \in DOMAIN consents[a] |->
               IF consents[a][slot] = "PENDING" THEN "REJECTED" ELSE consents[a][slot]]
  <2>2. a \in Applications
    BY <1>1, <1>3, <2>1 DEF Withdraw, Local
  <2>3. IsBallot(ballot) /\ Answers(consents[a], ballot)
    BY <1>1 DEF IsBallot, TablesOK, Votes, Answers
  <2>4. consents' = [consents EXCEPT ![a] = ballot]
    BY <1>1, <1>3, <2>1 DEF Withdraw, TablesOK
  <2>5. \A b \in Numbers : Kind(b)' = Kind(b)
    BY <1>1, <1>3 DEF Withdraw, Kind, TablesOK, InstanceRows
  <2>6. Endorsed' = Endorsed \ {a}
    BY <1>1, <1>3, <2>1 DEF Withdraw, TablesOK, Endorsed, Applications, Numbers
  <2>7. UNCHANGED <<effects, register, seen>>
    BY <1>3 DEF Withdraw
  <2>8. 0 \in Numbers /\ \A b \in Applications : b \in Numbers
    BY BoundAssumption DEF Applications, Numbers
  <2> HIDE DEF ballot
  <2> QED
    BY <2>2, <2>3, <2>4, <2>5, <2>6, <2>7, <2>8, AnswerIsSeen
<1>4. UNCHANGED data \/ Withdraw(r)
  BY DEF WithdrawNext, CheckWithdrawable
<1> QED
  BY <1>2, <1>3, <1>4

\* The initial tables are initial tables of the abstract ballot.
LEMMA InitRefines == Init => Balloted!Init
<1> SUFFICES ASSUME Init PROVE Balloted!Init
  OBVIOUS
<1>1. \A a \in Applications : a \in Numbers /\ a # 0
  BY BoundAssumption DEF Numbers, Applications
<1>2. Endorsed = {}
  BY <1>1 DEF Init, Endorsed
<1>3. [a \in Numbers |-> instance[a].kind]
        = [a \in Numbers |-> IF a = 0 THEN "registration" ELSE "none"]
  BY DEF Init, NoKind
<1>4. FirstRegister \in Registers
  BY RegisterAssumption
<1> QED
  BY <1>2, <1>3, <1>4 DEF Init, Balloted!Init, Balloted!NoRows, NoRows, Endorsed

\* Every step, the end of a handler included, is one of the abstract ballot's
\* or a stutter.
LEMMA StepRefines ==
  IInv /\ Numbering /\ [NextFaulty]_vars => [Balloted!Next]_(Balloted!vars)
<1> SUFFICES ASSUME IInv, Numbering, [NextFaulty]_vars
             PROVE  [Balloted!Next]_(Balloted!vars)
  OBVIOUS
<1>1. ASSUME NEW r \in Requests, Handle(r) PROVE [Balloted!Next]_(Balloted!vars)
  BY <1>1, CreateRefines, DecideRefines, AdminRefines, WithdrawRefines DEF Handle
<1>2. ASSUME NEW r \in Requests, Abort(r) PROVE [Balloted!Next]_(Balloted!vars)
  BY <1>2, UnseenStutters DEF Abort, Unseen, data, Kind
<1>3. CASE UNCHANGED vars
  BY <1>3, UnseenStutters DEF vars, Unseen, data, Kind
<1> QED
  BY <1>1, <1>2, <1>3 DEF NextFaulty

\* The server's handlers, however they interleave and wherever they fail,
\* implement the abstract ballot: answers are final, a change is endorsed and
\* applied only with its ballot's leave, the register moves by transfers alone.
THEOREM BallotIsImplemented == FaultySpec => BallotedChanges
<1>1. FaultySpec => []Numbering
  BY NumberingInit, NumberingStep, Invariance, PTL DEF FaultySpec
<1> QED
  BY <1>1, Invariance, InitRefines, StepRefines, PTL DEF FaultySpec, BallotedChanges, Balloted!Spec

-----------------------------------------------------------------------------
(***************************************************************************)
(* Requests handled one after the other. When no second request interferes *)
(* and no call fails, the three pictures of an application (its row, its   *)
(* instance, its ballot) agree whenever the handler rests, and each stretch*)
(* of a handler says how far they are apart in between.                    *)
(***************************************************************************)
OneAtATime == \A r, q \in Requests : r = q

\* The row of application a shows the workflow state, unless a lost ballot or a
\* withdrawal has closed it.
Agrees(a, state) ==
  LET row == application[a]
  IN  /\ state \in {"submitted", "under_review", "approved", "rejected"}
      /\ \/ row.status = ApplicationStatus(state)
         \/ /\ row.status \in {"REJECTED", "ARCHIVED"} /\ row.consent # "APPROVED"
            /\ state \in {"submitted", "under_review"}

\* How often the change of a should have been written.
Due(a) == IF instance[a].state = "approved" /\ Kind(a) \in PersistedKinds THEN 1 ELSE 0

\* The summary of a is the tally of its rows under a register of the company.
Fresh(a) ==
  \E R \in seen : application[a].consent = ConsentProgress(Kind(a), consents[a], R)

\* No handler has anything left to do for application a.
Rests(a) ==
  Agrees(a, instance[a].state) /\ effects[a] = Due(a) /\ (IsOpen(a) => Fresh(a))

\* Nothing has been written under the number a but perhaps the instance.
Unborn(a) == ~Exists(a) /\ instance[a].state = "submitted" /\ effects[a] = 0

\* Where a handler may keep its application from resting.
Busy == {"application", "init", "count", "endorse", "tally", "tally_rows",
         "tally_register", "publish", "company", "resolve", "recheck", "persist"}

\* The gate in front of performAction has let the action of l pass.
Gated(l) == l.act \in {"route_to_review", "approve"} => application[l.app].consent = "APPROVED"

\* What the handler of r knows, by the step it is about to take.
Stage(r) ==
  LET l == request[r]
  IN  \A a \in Numbers : l.app = a =>
      /\ l.pc \in {"instance", "application"} =>
           \A b \in Applications : IsOpen(b) => Kind(b) # l.kind
      /\ l.pc = "application" => Unborn(a)
      /\ l.pc \in {"init", "count", "endorse"} =>
           /\ a \in 1 .. created
           /\ application[a].status = "SUBMITTED" /\ instance[a].state = "submitted"
           /\ effects[a] = 0
      /\ l.pc = "count" => \A slot \in DOMAIN consents[a] : consents[a][slot] = "PENDING"
      /\ l.pc \in {"endorse", "publish"} =>
           \E R \in seen : l.tally = ConsentProgress(Kind(a), consents[a], R)
      /\ l.pc \in {"link", "auto", "gate"} => Exists(a)
      /\ l.pc \in {"vote", "tally", "tally_rows", "tally_register", "publish", "withdraw"} =>
           /\ a \in Applications /\ IsOpen(a) /\ Agrees(a, instance[a].state)
           /\ effects[a] = Due(a)
      /\ l.pc = "tally_register" => l.rows = consents[a]
      /\ l.pc \in {"perform", "transition", "company", "resolve"} => Exists(a) /\ Gated(l)
      /\ l.pc = "transition" => <<l.act, instance[a].state, l.to>> \in Flow(Kind(a))
      /\ l.pc \in {"company", "resolve"} =>
           /\ instance[a].state = l.to
           /\ \E step \in Flow(Kind(a)) :
                /\ step[1] = l.act /\ step[3] = l.to
                /\ a # 0 => Agrees(a, step[2])
           /\ a # 0 => effects[a] = 0 /\ (IsOpen(a) => Fresh(a))
      /\ l.pc \in {"recheck", "persist"} =>
           /\ application[a].status = "APPROVED" /\ application[a].consent = "APPROVED"
           /\ instance[a].state = "approved" /\ Kind(a) \in PersistedKinds
           /\ effects[a] = 0

\* The invariant of requests handled one after the other, with IInv and Numbering.
SInv ==
  /\ \A a \in Applications : a > created => Unborn(a)
  /\ \A a \in 1 .. created :
       Rests(a) \/ \E r \in Requests : request[r].app = a /\ request[r].pc \in Busy
  /\ OneOpenPerKind
  /\ Exists(company.link) /\ Exists(0)
  /\ ArchivedWithConsent
  /\ \A r \in Requests : Stage(r)

\* Bounds of the numbers, used throughout.
LEMMA NumberFacts ==
  ASSUME TablesOK
  PROVE  /\ created \in Nat /\ created <= MaxApplications /\ 0 \in Numbers
         /\ \A a \in Applications : a \in Numbers /\ a # 0 /\ a \in Nat
         /\ \A a \in 1 .. created : a \in Applications
         /\ \A a \in Numbers : a # 0 => a \in Applications
         /\ \A a \in Applications : a <= created => a \in 1 .. created
BY BoundAssumption DEF TablesOK, Numbers, Applications

\* A row that exists is not one of an unborn application.
LEMMA ExistingIsBorn ==
  ASSUME TablesOK, SInv, NEW a \in Applications, Exists(a)
  PROVE  a \in 1 .. created
<1>1. ~(a > created)
  BY DEF SInv, Unborn
<1> QED
  BY <1>1, NumberFacts

\* A step leaves the rows of the applications it does not work on alone.
LEMMA OtherRowsStay ==
  ASSUME IInv, NEW r \in Requests, Handle(r), NEW b \in Numbers, b # request[r].app
  PROVE  /\ application'[b] = application[b] /\ consents'[b] = consents[b]
         /\ effects'[b] = effects[b]
         /\ ~CreateInstance(r) => instance'[b] = instance[b]
<1> USE DEF IInv, TypeOK, TablesOK
<1>1. CASE CreateNext(r)
  BY <1>1 DEF CreateNext, data, LoadCompany, CheckExisting, CreateInstance,
     CreateApplication, CreateConsents, CountPending, WriteInitialConsent, LinkCompany,
     ConsiderAutoApprove
<1>2. CASE DecideNext(r)
  BY <1>2 DEF DecideNext, data, CheckUndecided, AnswerConsents, ReadRegister, ReadRows,
     TallyLastRows, TallyLastRegister, PublishProgress
<1>3. CASE AdminNext(r)
  BY <1>3 DEF AdminNext, data, StartAction, CheckConsent, FindTransition,
     WriteTransition, UpdateCompany, UpdateApplication, RecheckConsent, Persist
<1>4. CASE WithdrawNext(r)
  BY <1>4 DEF WithdrawNext, data, CheckWithdrawable, Withdraw
<1> QED
  BY <1>1, <1>2, <1>3, <1>4 DEF Handle

\* An application whose rows are left alone stays at rest.
LEMMA RestStays ==
  ASSUME NEW a, Rests(a), application'[a] = application[a],
         instance'[a] = instance[a], consents'[a] = consents[a],
         effects'[a] = effects[a], seen \subseteq seen'
  PROVE  Rests(a)'
BY DEF Rests, Agrees, Due, Fresh, IsOpen, Kind

\* What has to be shown of a step that creates no instance: of the application
\* it works on, of the company, and of where the handler is afterwards.
LEMMA StepKeeps ==
  ASSUME OneAtATime, IInv, Numbering, SInv, NEW r \in Requests, Handle(r),
         ~CreateInstance(r), NEW a \in Numbers, a = request[r].app,
         a \in 1 .. created =>
           Rests(a)' \/ (request'[r].app = a /\ request'[r].pc \in Busy),
         a \in Applications /\ a > created => Unborn(a)',
         Exists(a) => Exists(a)',
         a \in Applications /\ IsOpen(a)' =>
           IsOpen(a) \/ \A b \in Applications : IsOpen(b) => Kind(b) # Kind(a),
         Exists(company.link)',
         company'.status = "ARCHIVED" =>
           \/ company.status = "ARCHIVED"
           \/ instance'[0].state = "archived"
           \/ a \in Applications /\ Kind(a) = "deregistration" /\ Justified(a),
         instance[0].state = "archived" => instance'[0].state = "archived",
         Stage(r)'
  PROVE  SInv'
<1>1. TablesOK /\ TypeOK /\ NoEarlyBallot
  BY DEF IInv, TypeOK
<1>2. Frame(r) /\ UNCHANGED created /\ \A b \in Numbers : Kind(b)' = Kind(b)
  BY FrameHolds, KindsStay
<1>3. \A b \in Numbers \ {a} :
        /\ application'[b] = application[b] /\ instance'[b] = instance[b]
        /\ consents'[b] = consents[b] /\ effects'[b] = effects[b]
  BY OtherRowsStay
<1>4. \A b \in Applications : b > created' => Unborn(b)'
  <2>1. ASSUME NEW b \in Applications, b > created PROVE Unborn(b)'
    <3>1. CASE b = a
      BY <2>1, <3>1
    <3>2. CASE b # a
      <4>1. Unborn(b) /\ b \in Numbers
        BY <1>1, <2>1, NumberFacts DEF SInv
      <4> QED
        BY <1>3, <3>2, <4>1 DEF Unborn, Exists
    <3> QED
      BY <3>1, <3>2
  <2> QED
    BY <1>2, <2>1
<1>5. \A b \in 1 .. created' :
        Rests(b)' \/ \E q \in Requests : request'[q].app = b /\ request'[q].pc \in Busy
  <2>1. ASSUME NEW b \in 1 .. created, b # a PROVE Rests(b)'
    <3>1. Rests(b)
      BY <2>1 DEF SInv, OneAtATime
    <3>2. b \in Numbers
      BY <1>1, NumberFacts
    <3> QED
      BY <1>2, <1>3, <2>1, <3>1, <3>2, RestStays DEF Frame
  <2> QED
    BY <1>2, <2>1
<1>6. OneOpenPerKind'
  <2>1. \A b \in Applications : b \in Numbers
    BY <1>1, NumberFacts
  <2>2. \A b \in Applications \ {a} : IsOpen(b)' <=> IsOpen(b)
    BY <1>3, <2>1 DEF IsOpen
  <2>3. ASSUME NEW b \in Applications, NEW c \in Applications,
               IsOpen(b)', IsOpen(c)', Kind(b)' = Kind(c)', b # c
        PROVE  FALSE
    <3>1. Kind(b) = Kind(c)
      BY <1>2, <2>1, <2>3
    <3>2. CASE b = a
      BY <2>2, <2>3, <3>1, <3>2 DEF SInv, OneOpenPerKind
    <3>3. CASE c = a
      BY <2>2, <2>3, <3>1, <3>3 DEF SInv, OneOpenPerKind
    <3>4. CASE b # a /\ c # a
      BY <2>2, <2>3, <3>1, <3>4 DEF SInv, OneOpenPerKind
    <3> QED
      BY <3>2, <3>3, <3>4
  <2> QED
    BY <2>3 DEF OneOpenPerKind
<1>7. Exists(0)'
  BY <1>1, <1>3, NumberFacts DEF SInv, Exists
<1>8. ArchivedWithConsent'
  <2>1. \A b \in Applications : Justified(b) => Justified(b)' /\ Kind(b)' = Kind(b)
    BY <1>1, <1>2, NumberFacts, JustifiedStays
  <2> QED
    BY <2>1 DEF SInv, ArchivedWithConsent
<1>9. \A q \in Requests : Stage(q)'
  BY DEF OneAtATime
<1> QED
  BY <1>4, <1>5, <1>6, <1>7, <1>8, <1>9 DEF SInv

\* The same for a step that writes nothing.
LEMMA ReadKeeps ==
  ASSUME OneAtATime, IInv, Numbering, SInv, NEW r \in Requests, Handle(r),
         UNCHANGED data, Stage(r)',
         request[r].pc \in Busy =>
           request'[r].pc \in Busy /\ request'[r].app = request[r].app
  PROVE  SInv'
<1>1. PICK a \in Numbers : a = request[r].app
  BY DEF IInv, TypeOK, RequestsOK, IsLocals
<1>2. TablesOK /\ ~CreateInstance(r)
  BY NumberFacts DEF IInv, TypeOK, data, CreateInstance
<1>3. a \in 1 .. created => Rests(a) \/ request[r].pc \in Busy
  BY <1>1 DEF SInv, OneAtATime
<1>4. Rests(a) => Rests(a)'
  BY RestStays DEF data
<1>5. a \in 1 .. created => Rests(a)' \/ (request'[r].app = a /\ request'[r].pc \in Busy)
  BY <1>1, <1>3, <1>4
<1>6. a \in Applications /\ a > created => Unborn(a)'
  BY DEF SInv, Unborn, Exists, data
<1>7. Exists(company.link)' /\ (Exists(a) => Exists(a)')
  BY DEF SInv, Exists, data
<1>8. IsOpen(a)' <=> IsOpen(a)
  BY DEF IsOpen, data
<1> QED
  BY <1>1, <1>2, <1>5, <1>6, <1>7, <1>8, StepKeeps DEF data

\* The applicant's handler, from the check of the existing applications on.
LEMMA CreateKeepsSerial ==
  ASSUME OneAtATime, IInv, Numbering, SInv, NEW r \in Requests, CreateNext(r)
  PROVE  SInv'
<1>1. RequestsOK /\ TablesOK /\ Local(r) /\ IsLocals(request[r]) /\ Stage(r) /\ Handle(r)
  BY DEF IInv, TypeOK, RequestsOK, SInv, Handle
<1>2. PICK a \in Numbers : a = request[r].app
  BY <1>1 DEF IsLocals
<1>3. /\ created \in Nat /\ created <= MaxApplications /\ 0 \in Numbers
      /\ \A b \in Applications : b \in Numbers /\ b # 0 /\ b \in Nat
      /\ \A b \in 1 .. created : b \in Applications
  BY <1>1, NumberFacts
<1>4. CASE UNCHANGED data /\ Done(r) /\ request[r].pc \in {"check", "auto"}
  <2>1. Stage(r)'
    BY <1>1, <1>4 DEF Done, Idle, RequestsOK, Stage
  <2> QED
    BY <1>1, <1>4, <2>1, ReadKeeps DEF Busy
<1>5. ASSUME NEW kind \in Kinds, LoadCompany(r, kind) PROVE SInv'
  <2>1. request'[r].pc = "check" /\ request[r].pc = "idle" /\ UNCHANGED data
    BY <1>1, <1>5 DEF LoadCompany, RequestsOK, Idle
  <2>2. Stage(r)'
    BY <2>1 DEF Stage
  <2> QED
    BY <1>1, <2>1, <2>2, ReadKeeps DEF Busy
<1>6. ASSUME CheckExisting(r), ~Done(r) PROVE SInv'
  <2>1. /\ request'[r].pc = "instance" /\ request'[r].kind = request[r].kind
        /\ request[r].pc = "check" /\ UNCHANGED data
        /\ \A b \in Applications : IsOpen(b) => Kind(b) # request[r].kind
    BY <1>1, <1>6 DEF CheckExisting, Goto, RequestsOK, IsLocals, Idle
  <2>2. Stage(r)'
    BY <2>1 DEF Stage, IsOpen, Kind, data
  <2> QED
    BY <1>1, <2>1, <2>2, ReadKeeps DEF Busy
<1>7. CASE CreateInstance(r)
  <2>1. PICK n \in Applications : n = created + 1 /\ n \in Numbers /\ n # 0
    BY <1>3, <1>7, BoundAssumption DEF CreateInstance, Applications, Numbers
  <2>2. /\ created' = n /\ request[r].pc = "instance"
        /\ request'[r].pc = "application" /\ request'[r].app = n
        /\ request'[r].kind = request[r].kind
        /\ UNCHANGED <<application, consents, company, effects, seen>>
    BY <1>1, <1>7, <2>1 DEF CreateInstance, RequestsOK, IsLocals, Idle
  <2>3. /\ instance'[n] = [kind |-> request[r].kind, state |-> "submitted",
                           status |-> "ACTIVE"]
        /\ \A b \in Numbers \ {n} : instance'[b] = instance[b]
    BY <1>1, <1>7, <2>1 DEF CreateInstance, TablesOK
  <2>4. Unborn(n)
    BY <1>3, <2>1 DEF SInv
  <2>5. Unborn(n)'
    BY <2>2, <2>3, <2>4 DEF Unborn, Exists
  <2>6. \A b \in Applications : b > created' => Unborn(b)'
    BY <1>3, <2>1, <2>2, <2>3 DEF SInv, Unborn, Exists
  <2>7. ASSUME NEW b \in 1 .. created PROVE Rests(b)'
    <3>1. Rests(b) /\ b # n /\ b \in Numbers
      BY <1>3, <2>1, <2>2 DEF SInv, OneAtATime, Busy
    <3> QED
      BY <2>2, <2>3, <3>1, RestStays
  <2>8. \A b \in 1 .. created' :
          Rests(b)' \/ \E q \in Requests : request'[q].app = b /\ request'[q].pc \in Busy
    <3>1. \A b \in 1 .. created' : b = n \/ b \in 1 .. created
      BY <1>3, <2>1, <2>2
    <3> QED
      BY <2>2, <2>7, <3>1 DEF Busy
  <2>9. \A b \in Applications : IsOpen(b)' => IsOpen(b) /\ b # n /\ Kind(b)' = Kind(b)
    BY <1>3, <2>2, <2>3, <2>4 DEF IsOpen, Unborn, Exists, OpenStatus, Kind
  <2>10. OneOpenPerKind'
    BY <2>9 DEF SInv, OneOpenPerKind
  <2>11. Exists(company.link)' /\ Exists(0)'
    BY <2>2 DEF SInv, Exists
  <2>12. ArchivedWithConsent'
    <3>1. \A b \in Applications : Justified(b) => Justified(b)'
      BY <1>1, <1>3, FrameHolds, JustifiedStays DEF IInv
    <3>2. \A b \in Applications : Kind(b) = "deregistration" => Kind(b)' = Kind(b)
      BY <1>3, <2>1, <2>3 DEF Numbering, NoKind, Kind
    <3> QED
      BY <1>3, <2>1, <2>2, <2>3, <3>1, <3>2 DEF SInv, ArchivedWithConsent
  <2>13. Stage(r)'
    <3>1. \A b \in Applications : IsOpen(b) => Kind(b) # request[r].kind
      BY <1>1, <1>2, <2>2 DEF Stage
    <3> QED
      BY <2>2, <2>5, <2>9, <3>1 DEF Stage
  <2> QED
    BY <2>6, <2>8, <2>10, <2>11, <2>12, <2>13 DEF SInv, OneAtATime
<1>8. CASE CreateApplication(r)
  <2>1. /\ request'[r].pc = "init" /\ request'[r].app = a
        /\ request[r].pc = "application" /\ Kind(a) = request[r].kind
        /\ a \in 1 .. created /\ Unborn(a)
        /\ \A b \in Applications : IsOpen(b) => Kind(b) # Kind(a)
    BY <1>1, <1>2, <1>8 DEF CreateApplication, Goto, RequestsOK, IsLocals, Idle, Local,
       Stage
  <2>2. /\ application'[a] = [status |-> "SUBMITTED", consent |-> "PENDING"]
        /\ UNCHANGED <<consents, instance, created, company, effects>>
    BY <1>1, <1>2, <1>8 DEF CreateApplication, TablesOK
  <2>3. Stage(r)'
    BY <2>1, <2>2 DEF Stage, Unborn
  <2>4. Exists(company.link)' /\ (Exists(a) => Exists(a)')
    BY <1>1, <1>2, <1>8, <2>2 DEF SInv, Exists, CreateApplication, TablesOK, CompanyRows
  <2>5. ~CreateInstance(r) /\ (a \in Applications => ~(a > created))
    BY <1>3, <2>1 DEF CreateInstance, Busy
  <2> QED
    BY <1>1, <1>2, <2>1, <2>2, <2>3, <2>4, <2>5, StepKeeps DEF Busy
<1>9. ASSUME NEW named \in NamedSlots(request[r].kind, request[r].holders),
             CreateConsents(r, named)
      PROVE  SInv'
  <2> DEFINE asked == RequiredSlots(request[r].kind, DOMAIN request[r].holders,
                                    {}, named)
  <2>1. /\ request[r].pc = "init" /\ a \in 1 .. created /\ Kind(a) = request[r].kind
        /\ request[r].kind \in Kinds /\ request[r].tally = "PENDING"
        /\ application[a].status = "SUBMITTED" /\ instance[a].state = "submitted"
        /\ effects[a] = 0
    BY <1>1, <1>2, <1>9 DEF CreateConsents, Local, Stage
  <2>2. /\ request'[r].app = a /\ request'[r].tally = "PENDING"
        /\ request'[r].pc = IF request[r].kind = "equity_transfer" THEN "endorse"
                            ELSE "count"
    BY <1>1, <1>2, <1>9, <2>1 DEF CreateConsents, Goto, RequestsOK, IsLocals, Idle
  <2>3. /\ UNCHANGED <<application, instance, created, company, register, effects, seen>>
        /\ consents'[a] = [slot \in asked |-> "PENDING"]
    BY <1>1, <1>2, <1>9 DEF CreateConsents, TablesOK
  <2>4. request[r].kind = "equity_transfer" => asked # {}
    BY <1>9 DEF NamedSlots, RequiredSlots
  <2> HIDE DEF asked
  <2>5. DOMAIN consents'[a] = asked
        /\ \A slot \in DOMAIN consents'[a] : consents'[a][slot] = "PENDING"
    BY <2>3
  <2>6. ASSUME request'[r].pc = "endorse"
        PROVE  ConsentProgress(Kind(a), consents'[a], register) = "PENDING"
    <3>1. Kind(a) = "equity_transfer" /\ asked # {}
      BY <2>1, <2>2, <2>4, <2>6
    <3>2. IsRegister(register)
      BY <1>1, RegisterAssumption DEF IsRegister, TablesOK
    <3> QED
      BY <2>5, <3>1, <3>2, NewBallotIsOpen
  <2>7. register \in seen
    BY DEF IInv
  <2>8. Stage(r)'
    BY <2>1, <2>2, <2>3, <2>5, <2>6, <2>7 DEF Stage, Kind
  <2>9. ~CreateInstance(r) /\ (a \in Applications => ~(a > created))
    BY <1>3, <2>1 DEF CreateInstance
  <2> QED
    BY <1>1, <1>2, <2>2, <2>3, <2>8, <2>9, StepKeeps DEF Busy, SInv, Exists, IsOpen
<1>10. CASE CountPending(r)
  <2>1. /\ request[r].pc = "count" /\ UNCHANGED data
        /\ DOMAIN consents[a] # {} /\ Kind(a) # "equity_transfer"
        /\ \A slot \in DOMAIN consents[a] : consents[a][slot] = "PENDING"
        /\ a \in 1 .. created /\ effects[a] = 0
        /\ application[a].status = "SUBMITTED" /\ instance[a].state = "submitted"
    BY <1>1, <1>2, <1>10 DEF CountPending, Local, Stage
  <2>2. /\ request'[r].pc = "endorse" /\ request'[r].app = a
        /\ request'[r].tally = "PENDING"
    BY <1>1, <1>2, <1>10, <2>1 DEF CountPending, RequestsOK, IsLocals, Idle, Some
  <2>3. ConsentProgress(Kind(a), consents[a], register) = "PENDING" /\ register \in seen
    <3>1. IsRegister(register)
      BY <1>1, RegisterAssumption DEF IsRegister, TablesOK
    <3>2. Kind(a) # "management_change"
      BY <1>1, KindsAssumption DEF Kind, NoKind, TwoThirdsKinds, InstanceRows, TablesOK
    <3> QED
      BY <2>1, <3>1, <3>2, NewBallotIsOpen DEF IInv
  <2>4. Stage(r)'
    BY <2>1, <2>2, <2>3 DEF Stage, Kind, data
  <2> QED
    BY <1>1, <1>2, <2>1, <2>2, <2>4, ReadKeeps DEF Busy
<1>11. CASE WriteInitialConsent(r)
  <2>1. /\ request'[r].pc \in {"link", "auto"} /\ request'[r].app = a
        /\ request[r].pc = "endorse"
    BY <1>1, <1>2, <1>11 DEF IsLocals, Idle, WriteInitialConsent, Goto, RequestsOK
  <2>2. /\ a \in 1 .. created /\ effects[a] = 0
        /\ application[a].status = "SUBMITTED" /\ instance[a].state = "submitted"
        /\ \E R \in seen : request[r].tally = ConsentProgress(Kind(a), consents[a], R)
    BY <1>1, <1>2, <2>1 DEF Stage
  <2>3. /\ application'[a].status = "SUBMITTED"
        /\ application'[a].consent = request[r].tally
        /\ UNCHANGED <<consents, instance, created, company, register, effects, seen>>
    BY <1>1, <1>2, <1>11, <2>2 DEF WriteInitialConsent, TablesOK, ApplicationRows
  <2>4. Rests(a)'
    BY <2>2, <2>3 DEF Rests, Agrees, Due, Fresh, Kind, ApplicationStatus
  <2>5. Exists(a) /\ Exists(a)' /\ Exists(company.link)'
    BY <1>1, <1>2, <1>11, <2>2, <2>3 DEF SInv, Exists, WriteInitialConsent, TablesOK,
       CompanyRows
  <2>6. Stage(r)' /\ IsOpen(a)
    BY <2>1, <2>2, <2>5 DEF Stage, IsOpen, OpenStatus
  <2>7. ~CreateInstance(r) /\ (a \in Applications => ~(a > created))
    BY <1>3, <2>1, <2>2 DEF CreateInstance
  <2> QED
    BY <1>1, <1>2, <2>3, <2>4, <2>5, <2>6, <2>7, StepKeeps
<1>12. CASE LinkCompany(r)
  <2>1. /\ request'[r].pc = "auto" /\ request'[r].app = a /\ request[r].pc = "link"
        /\ UNCHANGED <<application, consents, instance, created, register, effects, seen>>
        /\ company'.link = a /\ company'.status = company.status
    BY <1>1, <1>2, <1>12 DEF IsLocals, Idle, LinkCompany, Goto, RequestsOK, TablesOK,
       CompanyRows
  <2>2. Exists(a) /\ Exists(a)' /\ Exists(company.link)'
    BY <1>1, <1>2, <2>1 DEF Stage, Exists
  <2>3. Stage(r)'
    BY <2>1, <2>2 DEF Stage
  <2>4. a \in 1 .. created => Rests(a)'
    BY <1>2, <2>1, RestStays DEF SInv, OneAtATime, Busy
  <2>5. a \in Applications => ~(a > created)
    BY <2>2 DEF SInv, Unborn
  <2>6. ~CreateInstance(r)
    BY <2>1 DEF CreateInstance
  <2> QED
    BY <1>1, <1>2, <2>1, <2>2, <2>3, <2>4, <2>5, <2>6, StepKeeps DEF IsOpen
<1>13. ASSUME NEW auto \in AutoApprove, ConsiderAutoApprove(r, auto), ~Done(r)
       PROVE  SInv'
  <2>1. /\ request'[r].pc = "gate" /\ request'[r].app = a /\ request[r].pc = "auto"
        /\ UNCHANGED data
    BY <1>1, <1>2, <1>13 DEF Idle, ConsiderAutoApprove, RequestsOK
  <2>2. Stage(r)'
    BY <1>1, <1>2, <2>1 DEF Stage, Exists, data
  <2> QED
    BY <1>1, <2>1, <2>2, ReadKeeps DEF Busy
<1>14. /\ CheckExisting(r) => UNCHANGED data /\ request[r].pc = "check"
       /\ \A auto : ConsiderAutoApprove(r, auto) => UNCHANGED data /\ request[r].pc = "auto"
  BY DEF CheckExisting, ConsiderAutoApprove
<1> QED
  BY <1>4, <1>5, <1>6, <1>7, <1>8, <1>9, <1>10, <1>11, <1>12, <1>13, <1>14 DEF CreateNext

\* An open application is submitted or under review.
LEMMA OpenStates ==
  ASSUME NEW a, IsOpen(a), NEW state, Agrees(a, state)
  PROVE  state \in {"submitted", "under_review"}
BY DEF IsOpen, OpenStatus, Agrees, ApplicationStatus

\* Choosing an open application to answer or to withdraw.
LEMMA ChosenIsAtRest ==
  ASSUME OneAtATime, IInv, SInv, NEW r \in Requests, request[r].pc = "idle",
         NEW a \in Applications, IsOpen(a)
  PROVE  Agrees(a, instance[a].state) /\ effects[a] = Due(a)
<1>1. a \in 1 .. created
  BY ExistingIsBorn DEF IInv, TypeOK, IsOpen, OpenStatus, Exists
<1>2. Rests(a)
  BY <1>1 DEF SInv, OneAtATime, Busy
<1> QED
  BY <1>2 DEF Rests

\* The voter's handler: the summary it writes is the one of the rows.
LEMMA DecideKeepsSerial ==
  ASSUME OneAtATime, IInv, Numbering, SInv, NEW r \in Requests, DecideNext(r)
  PROVE  SInv'
<1>1. RequestsOK /\ TablesOK /\ Local(r) /\ IsLocals(request[r]) /\ Stage(r) /\ Handle(r)
  BY DEF IInv, TypeOK, RequestsOK, SInv, Handle
<1>2. PICK a \in Numbers : a = request[r].app
  BY <1>1 DEF IsLocals
<1>3. /\ created \in Nat /\ \A b \in Applications : b \in Numbers /\ b # 0 /\ b \in Nat
      /\ \A b \in 1 .. created : b \in Applications
  BY <1>1, NumberFacts
<1> DEFINE open == /\ a \in Applications /\ IsOpen(a) /\ Agrees(a, instance[a].state)
                   /\ effects[a] = Due(a)
<1>4. ASSUME NEW b \in Applications, NEW user \in Users,
             NEW vote \in Votes \ {"PENDING"}, CheckUndecided(r, b, user, vote)
      PROVE  SInv'
  <2>1. /\ request[r].pc = "idle" /\ request'[r].pc = "vote" /\ request'[r].app = b
        /\ IsOpen(b) /\ UNCHANGED data
    BY <1>1, <1>4 DEF CheckUndecided, RequestsOK, Idle
  <2>2. Agrees(b, instance[b].state) /\ effects[b] = Due(b)
    BY <2>1, ChosenIsAtRest
  <2>3. Stage(r)'
    BY <2>1, <2>2 DEF Stage, IsOpen, Agrees, Due, Kind, data
  <2> QED
    BY <1>1, <2>1, <2>3, ReadKeeps DEF Busy
<1>5. CASE AnswerConsents(r)
  <2>1. /\ request[r].pc = "vote" /\ open
        /\ UNCHANGED <<application, instance, created, company, effects>>
    BY <1>1, <1>2, <1>5 DEF AnswerConsents, Stage
  <2>2. \/ Done(r) /\ UNCHANGED consents
        \/ request'[r].pc = "tally" /\ request'[r].app = a
    BY <1>1, <1>2, <1>5 DEF AnswerConsents, Goto, RequestsOK, IsLocals, Idle
  <2>3. Stage(r)'
    BY <1>1, <2>1, <2>2 DEF Done, Idle, RequestsOK, Stage, IsOpen, Agrees, Due, Kind
  <2>4. Done(r) /\ UNCHANGED consents /\ a \in 1 .. created => Rests(a)'
    BY <1>2, <1>5, <2>1, RestStays DEF AnswerConsents, SInv, OneAtATime, Busy
  <2>5. a \in 1 .. created =>
          Rests(a)' \/ (request'[r].app = a /\ request'[r].pc \in Busy)
    BY <2>2, <2>4 DEF Busy
  <2>6. ~CreateInstance(r) /\ ~(a > created)
    BY <1>1, <1>3, <2>1, ExistingIsBorn DEF CreateInstance, IsOpen, OpenStatus, Exists
  <2> QED
    BY <1>1, <1>2, <2>1, <2>3, <2>5, <2>6, StepKeeps DEF SInv, IsOpen, Exists
<1>6. CASE ReadRegister(r) \/ ReadRows(r)
  <2>1. /\ request[r].pc = "tally" /\ open /\ UNCHANGED data
    BY <1>1, <1>2, <1>6 DEF ReadRegister, ReadRows, Stage
  <2>2. /\ request'[r].app = a
        /\ \/ request'[r].pc = "tally_rows"
           \/ request'[r].pc = "tally_register" /\ request'[r].rows = consents[a]
    BY <1>1, <1>2, <1>6 DEF ReadRegister, ReadRows, RequestsOK, IsLocals, Idle
  <2>3. Stage(r)'
    BY <2>1, <2>2 DEF Stage, IsOpen, Agrees, Due, Kind, data
  <2> QED
    BY <1>1, <1>2, <2>1, <2>2, <2>3, ReadKeeps DEF Busy
<1>7. CASE TallyLastRows(r) \/ TallyLastRegister(r)
  <2>1. /\ request[r].pc \in {"tally_rows", "tally_register"} /\ open /\ UNCHANGED data
    BY <1>1, <1>2, <1>7 DEF TallyLastRows, TallyLastRegister, Stage
  <2>2. request'[r].app = a /\ request'[r].pc = "publish"
    BY <1>1, <1>2, <1>7 DEF TallyLastRows, TallyLastRegister, RequestsOK, IsLocals, Idle
  <2>3. \E R \in seen : request'[r].tally = ConsentProgress(Kind(a), consents[a], R)
    <3>1. CASE TallyLastRows(r)
      BY <1>1, <1>2, <3>1 DEF TallyLastRows, RequestsOK, IsLocals, Idle, Local
    <3>2. CASE TallyLastRegister(r)
      BY <1>1, <1>2, <3>2 DEF TallyLastRegister, RequestsOK, IsLocals, Idle, Stage, IInv
    <3> QED
      BY <1>7, <3>1, <3>2
  <2>4. Stage(r)'
    BY <2>1, <2>2, <2>3 DEF Stage, IsOpen, Agrees, Due, Kind, data
  <2> QED
    BY <1>1, <1>2, <2>1, <2>2, <2>4, ReadKeeps DEF Busy
<1>8. CASE PublishProgress(r)
  <2>1. /\ request[r].pc = "publish" /\ open /\ Done(r)
        /\ UNCHANGED <<consents, instance, created, company, effects, seen>>
        /\ \E R \in seen : request[r].tally = ConsentProgress(Kind(a), consents[a], R)
    BY <1>1, <1>2, <1>8 DEF PublishProgress, Stage
  <2>2. /\ application'[a].consent = request[r].tally
        /\ \/ application'[a].status = application[a].status
           \/ application'[a].status = "REJECTED" /\ request[r].tally = "REJECTED"
    BY <1>1, <1>2, <1>8 DEF PublishProgress, TablesOK
  <2>3. instance[a].state \in {"submitted", "under_review"}
    BY <2>1, OpenStates
  <2>4. Agrees(a, instance[a].state)'
    BY <2>1, <2>2, <2>3 DEF Agrees, IsOpen, OpenStatus
  <2>5. Rests(a)'
    BY <2>1, <2>2, <2>4 DEF Rests, Due, Fresh, Kind
  <2>6. Stage(r)'
    BY <1>1, <2>1 DEF Done, Idle, RequestsOK, Stage
  <2>7. Exists(company.link)' /\ Exists(a)'
    BY <1>1, <1>2, <1>8, <2>1, <2>2 DEF SInv, Exists, PublishProgress, TablesOK,
       CompanyRows, IsOpen, OpenStatus
  <2>8. ~CreateInstance(r) /\ ~(a > created)
    BY <1>1, <1>3, <2>1, ExistingIsBorn DEF CreateInstance, IsOpen, OpenStatus, Exists
  <2> QED
    BY <1>1, <1>2, <2>1, <2>5, <2>6, <2>7, <2>8, StepKeeps
<1> QED
  BY <1>4, <1>5, <1>6, <1>7, <1>8 DEF DecideNext

\* A withdrawal leaves an instance whose status is not open behind.
LEMMA WithdrawKeepsSerial ==
  ASSUME OneAtATime, IInv, Numbering, SInv, NEW r \in Requests, WithdrawNext(r)
  PROVE  SInv'
<1>1. RequestsOK /\ TablesOK /\ Local(r) /\ IsLocals(request[r]) /\ Stage(r) /\ Handle(r)
  BY DEF IInv, TypeOK, RequestsOK, SInv, Handle
<1>2. PICK a \in Numbers : a = request[r].app
  BY <1>1 DEF IsLocals
<1>3. /\ created \in Nat /\ \A b \in Applications : b \in Numbers /\ b # 0 /\ b \in Nat
      /\ \A b \in 1 .. created : b \in Applications
  BY <1>1, NumberFacts
<1>4. ASSUME NEW b \in Applications, CheckWithdrawable(r, b) PROVE SInv'
  <2>1. /\ request[r].pc = "idle" /\ request'[r].pc = "withdraw" /\ request'[r].app = b
        /\ IsOpen(b) /\ UNCHANGED data
    BY <1>1, <1>4 DEF CheckWithdrawable, RequestsOK, Idle
  <2>2. Agrees(b, instance[b].state) /\ effects[b] = Due(b)
    BY <2>1, ChosenIsAtRest
  <2>3. Stage(r)'
    BY <2>1, <2>2 DEF Stage, IsOpen, Agrees, Due, Kind, data
  <2> QED
    BY <1>1, <2>1, <2>3, ReadKeeps DEF Busy
<1>5. CASE Withdraw(r)
  <2>1. /\ request[r].pc = "withdraw" /\ a \in Applications /\ IsOpen(a)
        /\ Agrees(a, instance[a].state) /\ effects[a] = Due(a)
        /\ Done(r) /\ UNCHANGED <<created, register, effects, seen>>
    BY <1>1, <1>2, <1>5 DEF Withdraw, Stage
  <2>2. /\ application'[a] = [status |-> "ARCHIVED", consent |-> "REJECTED"]
        /\ \A b \in Numbers \ {a} : application'[b] = application[b]
        /\ instance'[a].state = instance[a].state /\ instance'[a].kind = instance[a].kind
    BY <1>1, <1>2, <1>5, <2>1 DEF Withdraw, TablesOK, InstanceRows
  <2>3. instance[a].state \in {"submitted", "under_review"}
    BY <2>1, OpenStates
  <2>4. Rests(a)'
    BY <2>1, <2>2, <2>3 DEF Rests, Agrees, Due, IsOpen, OpenStatus, Kind
  <2>5. Stage(r)'
    BY <1>1, <2>1 DEF Done, Idle, RequestsOK, Stage
  <2>6. Exists(a)' /\ a \in 1 .. created
    BY <1>1, <2>1, <2>2, ExistingIsBorn DEF IsOpen, OpenStatus, Exists
  <2>7. Previous(a) \in 0 .. created /\ 0 \in Numbers
    BY <1>1, <1>3, <2>6, NumberFacts DEF Previous
  <2>8. ASSUME NEW b \in 0 .. created PROVE Exists(b)' /\ b \in Numbers
    <3>1. b = 0 \/ b \in 1 .. created
      BY <1>3
    <3>2. b \in 1 .. created => Rests(b)
      BY <2>1 DEF SInv, OneAtATime, Busy
    <3>3. Exists(b)
      BY <3>1, <3>2 DEF SInv, Rests, Agrees, Exists, ApplicationStatus
    <3> QED
      BY <1>3, <2>2, <2>6, <2>7, <3>1, <3>3 DEF Exists
  <2>9. Exists(company.link)'
    <3>1. company'.link = Previous(a) \/ company'.link = company.link
      BY <1>1, <1>2, <1>5 DEF Withdraw, TablesOK, CompanyRows
    <3>2. company.link \in Numbers /\ Exists(company.link)
      BY <1>1 DEF TablesOK, CompanyRows, SInv
    <3>3. \A b \in Numbers : Exists(b) => Exists(b)'
      BY <2>2, <2>6 DEF Exists
    <3>4. PICK p \in 0 .. created : p = Previous(a)
      BY <2>7
    <3>5. p \in Numbers /\ Exists(p)'
      BY <2>8
    <3> QED
      BY <3>1, <3>2, <3>3, <3>4, <3>5 DEF Exists
  <2>10. company'.status = company.status
    BY <1>1, <1>5 DEF Withdraw, TablesOK, CompanyRows
  <2>11. instance'[0] = instance[0]
    BY <1>2, <1>3, <1>5, <2>1, <2>7 DEF Withdraw, TablesOK, IInv, TypeOK
  <2>12. ~CreateInstance(r) /\ ~(a > created)
    BY <1>3, <2>1, <2>6 DEF CreateInstance
  <2> QED
    BY <1>1, <1>2, <2>1, <2>4, <2>5, <2>6, <2>9, <2>10, <2>11, <2>12, StepKeeps
<1> QED
  BY <1>4, <1>5 DEF WithdrawNext

\* The steps of a change application's workflow and of the registration's.
LEMMA ChangeSteps ==
  ASSUME Numbering, NEW a \in Numbers, NEW step \in Flow(Kind(a))
  PROVE  /\ step = <<step[1], step[2], step[3]>>
         /\ a = 0 => step[2] # "archived"
         /\ a # 0 /\ a \in Applications =>
              /\ step[2] \in {"submitted", "under_review"}
              /\ step[3] \in {"under_review", "rejected", "approved"}
              /\ step[3] = "approved" <=> step[1] = "approve"
              /\ step[3] = "under_review" =>
                   step[1] = "route_to_review" /\ step[2] = "submitted"
<1>1. step \in ChangeFlow \/ step \in RegistrationFlow
  BY DEF Flow
<1>2. step = <<step[1], step[2], step[3]>>
  BY <1>1 DEF ChangeFlow, RegistrationFlow
<1>3. a = 0 => step[2] # "archived"
  BY DEF Numbering, Flow, RegistrationFlow
<1>4. a # 0 /\ a \in Applications => step \in ChangeFlow
  BY DEF Numbering, Flow
<1> QED
  BY <1>2, <1>3, <1>4 DEF ChangeFlow

\* The administrator's handler: the gate's answer is still true at the last write.
LEMMA AdminKeepsSerial ==
  ASSUME OneAtATime, IInv, Numbering, SInv, NEW r \in Requests, AdminNext(r)
  PROVE  SInv'
<1>1. RequestsOK /\ TablesOK /\ Local(r) /\ IsLocals(request[r]) /\ Stage(r) /\ Handle(r)
  BY DEF IInv, TypeOK, RequestsOK, SInv, Handle
<1>2. PICK a \in Numbers : a = request[r].app
  BY <1>1 DEF IsLocals
<1>3. /\ created \in Nat /\ 0 \in Numbers
      /\ \A b \in Applications : b \in Numbers /\ b # 0 /\ b \in Nat
      /\ \A b \in Numbers : b # 0 => b \in Applications
      /\ \A b \in 1 .. created : b \in Applications
  BY <1>1, NumberFacts
<1>4. CASE UNCHANGED data /\ Done(r) /\ request[r].pc \in {"gate", "perform"}
  <2>1. Stage(r)'
    BY <1>1, <1>4 DEF Done, Idle, RequestsOK, Stage
  <2> QED
    BY <1>1, <1>4, <2>1, ReadKeeps DEF Busy
<1>5. ASSUME NEW b \in Numbers, NEW act \in AdminActions, StartAction(r, b, act)
      PROVE  SInv'
  <2>1. /\ request[r].pc = "idle" /\ request'[r].pc = "gate" /\ request'[r].app = b
        /\ b <= created /\ UNCHANGED data
    BY <1>1, <1>5 DEF StartAction, RequestsOK, Idle
  <2>3. Exists(b)
    <3>1. b = 0 \/ b \in 1 .. created
      BY <2>1, <1>3, <1>5 DEF TablesOK
    <3>2. b \in 1 .. created => Rests(b)
      BY <1>1, <2>1 DEF SInv, OneAtATime, Busy
    <3> QED
      BY <3>1, <3>2 DEF SInv, Rests, Agrees, Exists, ApplicationStatus
  <2>2. Stage(r)'
    BY <2>1, <2>3 DEF Stage, Exists, data
  <2> QED
    BY <1>1, <2>1, <2>2, ReadKeeps DEF Busy
<1>6. CASE CheckConsent(r) /\ ~Done(r)
  <2>1. /\ request[r].pc = "gate" /\ UNCHANGED data /\ Exists(a)
        /\ request[r].act \in {"route_to_review", "approve"}
             => application[a].consent = "APPROVED"
    BY <1>1, <1>2, <1>6 DEF CheckConsent, Stage
  <2>2. /\ request'[r].pc = "perform" /\ request'[r].app = a
        /\ request'[r].act = request[r].act
    BY <1>1, <1>2, <1>6 DEF CheckConsent, Goto, RequestsOK, IsLocals, Idle
  <2>3. Stage(r)'
    BY <2>1, <2>2 DEF Stage, Exists, Gated, data
  <2> QED
    BY <1>1, <2>1, <2>3, ReadKeeps DEF Busy
<1>7. CASE FindTransition(r) /\ ~Done(r)
  <2>1. PICK step \in Flow(Kind(a)) :
          /\ step[1] = request[r].act /\ step[2] = instance[a].state
          /\ request' = [request EXCEPT ![r].pc = "transition", ![r].to = step[3]]
    BY <1>2, <1>7 DEF FindTransition
  <2>2. /\ request[r].pc = "perform" /\ UNCHANGED data /\ Exists(a) /\ Gated(request[r])
    BY <1>1, <1>2, <1>7 DEF FindTransition, Stage
  <2>3. /\ request'[r].pc = "transition" /\ request'[r].app = a
        /\ request'[r].act = request[r].act /\ request'[r].to = step[3]
    BY <1>1, <1>2, <2>1 DEF RequestsOK, IsLocals, Idle
  <2>4. step = <<step[1], step[2], step[3]>>
    BY ChangeSteps
  <2>5. Stage(r)'
    BY <1>2, <2>1, <2>2, <2>3, <2>4 DEF Stage, Exists, Gated, Kind, data
  <2> QED
    BY <1>1, <2>2, <2>5, ReadKeeps DEF Busy
<1>8. CASE WriteTransition(r)
  <2>1. /\ request[r].pc = "transition" /\ Exists(a) /\ Gated(request[r])
        /\ <<request[r].act, instance[a].state, request[r].to>> \in Flow(Kind(a))
        /\ UNCHANGED <<application, consents, created, company, register, effects, seen>>
    BY <1>1, <1>2, <1>8 DEF WriteTransition, Stage
  <2>2. PICK step \in Flow(Kind(a)) :
          /\ step[1] = request[r].act /\ step[2] = instance[a].state
          /\ step[3] = request[r].to
    BY <2>1
  <2>3. /\ request'[r].pc = "company" /\ request'[r].app = a
        /\ request'[r].act = request[r].act /\ request'[r].to = request[r].to
    BY <1>1, <1>2, <1>8 DEF WriteTransition, Goto, RequestsOK, IsLocals, Idle
  <2>4. instance'[a].state = request[r].to /\ instance'[a].kind = instance[a].kind
    BY <1>1, <1>2, <1>8 DEF WriteTransition, TablesOK, InstanceRows
  <2>5. ASSUME a # 0
        PROVE  /\ Agrees(a, step[2]) /\ effects[a] = 0 /\ (IsOpen(a) => Fresh(a))
    <3>1. a \in 1 .. created
      BY <1>1, <1>3, <2>1, <2>5, ExistingIsBorn
    <3>2. Rests(a)
      BY <1>2, <2>1, <3>1 DEF SInv, OneAtATime, Busy
    <3>3. instance[a].state # "approved"
      BY <1>3, <2>2, <2>5, ChangeSteps
    <3> QED
      BY <2>2, <3>2, <3>3 DEF Rests, Due
  <2>6. Stage(r)'
    <3>1. Exists(a)' /\ Gated(request[r])'
      BY <1>2, <2>1, <2>3 DEF Exists, Gated
    <3>2. a # 0 => Agrees(a, step[2])' /\ effects'[a] = 0 /\ (IsOpen(a) => Fresh(a))'
      BY <2>1, <2>4, <2>5 DEF Agrees, IsOpen, Fresh, Kind
    <3>3. Kind(a)' = Kind(a)
      BY <2>4 DEF Kind
    <3> QED
      BY <2>2, <2>3, <2>4, <3>1, <3>2, <3>3 DEF Stage
  <2>7. instance[0].state = "archived" => instance'[0].state = "archived"
    <3>1. a = 0 => instance[0].state # "archived"
      BY <2>2, ChangeSteps
    <3>2. a # 0 => instance'[0] = instance[0]
      BY <1>2, <1>3, <1>8 DEF WriteTransition, IInv, TypeOK, TablesOK
    <3> QED
      BY <3>1, <3>2
  <2>8. ~CreateInstance(r) /\ (a \in Applications => ~(a > created))
    BY <1>3, <2>1 DEF CreateInstance, SInv, Unborn
  <2> QED
    BY <1>1, <1>2, <2>1, <2>3, <2>6, <2>7, <2>8, StepKeeps
    DEF Busy, SInv, Exists, IsOpen
<1>9. CASE UpdateCompany(r)
  <2>1. /\ request[r].pc = "company" /\ Exists(a) /\ Gated(request[r])
        /\ instance[a].state = request[r].to
        /\ a # 0 => effects[a] = 0 /\ (IsOpen(a) => Fresh(a))
        /\ UNCHANGED <<application, consents, instance, created, register, effects, seen>>
    BY <1>1, <1>2, <1>9 DEF UpdateCompany, Stage
  <2>2. PICK step \in Flow(Kind(a)) :
          /\ step[1] = request[r].act /\ step[3] = request[r].to
          /\ a # 0 => Agrees(a, step[2])
    BY <1>1, <1>2, <2>1 DEF Stage
  <2>3. /\ request'[r].pc = "resolve" /\ request'[r].app = a
        /\ request'[r].act = request[r].act /\ request'[r].to = request[r].to
    BY <1>1, <1>2, <1>9 DEF UpdateCompany, Goto, RequestsOK, IsLocals, Idle
  <2>4. /\ company'.link = company.link
        /\ company'.status = CompanyStatus(Kind(a), request[r].to, company.status)
    BY <1>1, <1>2, <1>9 DEF UpdateCompany, TablesOK, CompanyRows
  <2>5. Stage(r)'
    <3>1. Exists(a)' /\ Gated(request[r])'
      BY <1>2, <2>1, <2>3 DEF Exists, Gated
    <3>2. a # 0 => Agrees(a, step[2])' /\ effects'[a] = 0 /\ (IsOpen(a) => Fresh(a))'
      BY <2>1, <2>2 DEF Agrees, IsOpen, Fresh, Kind
    <3>3. Kind(a)' = Kind(a) /\ instance'[a].state = request'[r].to
      BY <2>1, <2>3 DEF Kind
    <3> QED
      BY <2>2, <2>3, <3>1, <3>2, <3>3 DEF Stage
  <2>6. company'.status = "ARCHIVED" =>
           \/ company.status = "ARCHIVED"
           \/ instance'[0].state = "archived"
           \/ a \in Applications /\ Kind(a) = "deregistration" /\ Justified(a)
    <3>1. CASE Kind(a) = "registration" /\ request[r].to = "archived"
      BY <1>3, <2>1, <3>1 DEF Numbering
    <3>2. CASE Kind(a) = "deregistration" /\ request[r].to = "approved"
      <4>1. a # 0 /\ a \in Applications
        BY <1>3, <3>2 DEF Numbering
      <4>2. application[a].consent = "APPROVED"
        BY <1>2, <2>1, <2>2, <3>2, <4>1, ChangeSteps DEF Gated
      <4> QED
        BY <3>2, <4>1, <4>2 DEF IInv, EndorsementIsJustified
    <3> QED
      BY <2>4, <3>1, <3>2 DEF CompanyStatus
  <2>7. ~CreateInstance(r) /\ (a \in Applications => ~(a > created))
    BY <1>3, <2>1 DEF CreateInstance, SInv, Unborn
  <2> QED
    BY <1>1, <1>2, <2>1, <2>3, <2>4, <2>5, <2>6, <2>7, StepKeeps
    DEF Busy, SInv, Exists, IsOpen
<1>10. CASE UpdateApplication(r)
  <2>1. /\ request[r].pc = "resolve" /\ Exists(a) /\ Gated(request[r])
        /\ instance[a].state = request[r].to
        /\ a # 0 => effects[a] = 0 /\ (IsOpen(a) => Fresh(a))
        /\ UNCHANGED <<consents, instance, created, company, register, effects, seen>>
    BY <1>1, <1>2, <1>10 DEF UpdateApplication, Stage
  <2>2. PICK step \in Flow(Kind(a)) :
          /\ step[1] = request[r].act /\ step[3] = request[r].to
          /\ a # 0 => Agrees(a, step[2])
    BY <1>1, <1>2, <2>1 DEF Stage
  <2>3. /\ application'[a].status = ApplicationStatus(request[r].to)
        /\ application'[a].consent = application[a].consent
    BY <1>1, <1>2, <1>10, <2>1 DEF UpdateApplication, TablesOK, ApplicationRows
  <2>4. request[r].to \in States
    BY <1>1 DEF IsLocals
  <2>5. Exists(a)' /\ Exists(company.link)'
    <3>1. ApplicationStatus(request[r].to) # "none"
      BY <2>4, StatesAre DEF ApplicationStatus
    <3> QED
      BY <1>1, <1>2, <1>10, <2>1, <2>3, <3>1 DEF SInv, Exists, UpdateApplication, TablesOK,
         CompanyRows
  <2>6. ASSUME a # 0
        PROVE  /\ Agrees(a, instance[a].state)' /\ (IsOpen(a)' => IsOpen(a))
    <3>1. /\ request[r].to \in {"under_review", "rejected", "approved"}
          /\ request[r].to = "under_review" =>
               request[r].act = "route_to_review" /\ step[2] = "submitted"
      BY <1>3, <2>2, <2>6, ChangeSteps
    <3>2. Agrees(a, instance[a].state)'
      BY <2>1, <2>3, <3>1 DEF Agrees
    <3>3. IsOpen(a)' => request[r].to = "under_review"
      BY <2>3, <3>1 DEF IsOpen, OpenStatus, ApplicationStatus
    <3>4. request[r].to = "under_review" => IsOpen(a)
      BY <1>2, <2>1, <2>2, <2>6, <3>1 DEF Agrees, Gated, IsOpen, OpenStatus,
         ApplicationStatus
    <3> QED
      BY <3>2, <3>3, <3>4
  <2>7. a # 0 /\ IsOpen(a)' => Fresh(a)'
    BY <2>1, <2>3, <2>6 DEF Fresh, Kind
  <2>8. CASE request[r].act = "approve" /\ Kind(a) \in PersistedKinds
    <3>1. request'[r].pc = "recheck" /\ request'[r].app = a
      BY <1>1, <1>2, <1>10, <2>8 DEF UpdateApplication, Goto, RequestsOK, IsLocals, Idle
    <3>2. a # 0
      BY <2>8, PersistedIsNotRegistration DEF Numbering
    <3>3. request[r].to = "approved" /\ application[a].consent = "APPROVED"
      BY <1>2, <1>3, <2>1, <2>2, <2>8, <3>2, ChangeSteps DEF Gated
    <3>4. Stage(r)'
      BY <2>1, <2>3, <2>8, <3>1, <3>2, <3>3 DEF Stage, Kind, ApplicationStatus
    <3>5. ~CreateInstance(r) /\ (a \in Applications => ~(a > created))
      BY <1>3, <2>1 DEF CreateInstance, SInv, Unborn
    <3> QED
      BY <1>1, <1>2, <1>3, <2>1, <2>5, <2>6, <3>1, <3>2, <3>4, <3>5, StepKeeps DEF Busy
  <2>9. CASE ~(request[r].act = "approve" /\ Kind(a) \in PersistedKinds)
    <3>1. NextAction(r)
      BY <1>2, <1>10, <2>9 DEF UpdateApplication
    <3>2. \/ Done(r)
          \/ request'[r].pc = "gate" /\ request'[r].app = a
      BY <1>1, <1>2, <3>1 DEF NextAction, RequestsOK, IsLocals, Idle
    <3>3. Stage(r)'
      BY <1>1, <2>5, <3>2 DEF Done, Idle, RequestsOK, Stage
    <3>4. ASSUME a # 0 PROVE Rests(a)'
      <4>1. instance[a].state = "approved" => request[r].act = "approve"
        BY <1>3, <2>1, <2>2, <3>4, ChangeSteps
      <4>2. effects'[a] = Due(a)'
        BY <2>1, <2>9, <3>4, <4>1 DEF Due, Kind
      <4> QED
        BY <2>6, <2>7, <3>4, <4>2 DEF Rests
    <3>5. ~CreateInstance(r) /\ (a \in Applications => ~(a > created))
      BY <1>3, <2>1 DEF CreateInstance, SInv, Unborn
    <3> QED
      BY <1>1, <1>2, <1>3, <2>1, <2>5, <2>6, <3>3, <3>4, <3>5, StepKeeps
  <2> QED
    BY <2>8, <2>9
<1>11. CASE RecheckConsent(r)
  <2>1. /\ request[r].pc = "recheck" /\ UNCHANGED data
        /\ application[a].status = "APPROVED" /\ application[a].consent = "APPROVED"
        /\ instance[a].state = "approved" /\ Kind(a) \in PersistedKinds
        /\ effects[a] = 0
    BY <1>1, <1>2, <1>11 DEF RecheckConsent, Stage
  <2>2. request'[r].pc = "persist" /\ request'[r].app = a
    BY <1>1, <1>2, <1>11, <2>1 DEF RecheckConsent, Exists, Goto, RequestsOK, IsLocals, Idle
  <2>3. Stage(r)'
    BY <2>1, <2>2 DEF Stage, Kind, data
  <2> QED
    BY <1>1, <1>2, <2>1, <2>2, <2>3, ReadKeeps DEF Busy
<1>12. CASE Persist(r)
  <2>1. /\ request[r].pc = "persist" /\ Done(r)
        /\ application[a].status = "APPROVED" /\ application[a].consent = "APPROVED"
        /\ instance[a].state = "approved" /\ Kind(a) \in PersistedKinds
        /\ effects[a] = 0
        /\ UNCHANGED <<application, consents, instance, created, company>>
    BY <1>1, <1>2, <1>12 DEF Persist, Stage
  <2>2. effects'[a] = 1
    BY <1>1, <1>2, <1>12, <2>1 DEF Persist, TablesOK
  <2>3. Rests(a)'
    BY <2>1, <2>2 DEF Rests, Agrees, Due, IsOpen, OpenStatus, Kind, ApplicationStatus
  <2>4. Stage(r)'
    BY <1>1, <2>1 DEF Done, Idle, RequestsOK, Stage
  <2>5. ~CreateInstance(r) /\ (a \in Applications => ~(a > created))
    BY <1>3, <2>1 DEF CreateInstance, SInv, Unborn, Exists
  <2> QED
    BY <1>1, <1>2, <2>1, <2>3, <2>4, <2>5, StepKeeps DEF SInv, Exists, IsOpen
<1>13. /\ CheckConsent(r) => UNCHANGED data /\ request[r].pc = "gate"
       /\ FindTransition(r) => UNCHANGED data /\ request[r].pc = "perform"
  BY DEF CheckConsent, FindTransition
<1> QED
  BY <1>4, <1>5, <1>6, <1>7, <1>8, <1>9, <1>10, <1>11, <1>12, <1>13 DEF AdminNext

\* A company that has just been registered has no application yet.
LEMMA SerialInit == Init => SInv
<1> SUFFICES ASSUME Init PROVE SInv
  OBVIOUS
<1>1. /\ 0 \in Numbers /\ \A a \in Applications : a \in Numbers /\ a # 0
      /\ 1 .. created = {}
  BY BoundAssumption DEF Init, Numbers, Applications
<1>2. \A a \in Applications : Unborn(a) /\ ~IsOpen(a)
  BY <1>1 DEF Init, Unborn, Exists, IsOpen, OpenStatus
<1>3. OneOpenPerKind
  BY <1>2 DEF OneOpenPerKind
<1>4. Exists(company.link) /\ Exists(0) /\ company.status = "ACTIVE"
  BY <1>1 DEF Init, Exists
<1>5. ArchivedWithConsent
  BY <1>4 DEF ArchivedWithConsent
<1>6. \A r \in Requests : request[r].pc = "idle"
  BY DEF Init, Idle
<1>7. \A r \in Requests : Stage(r)
  BY <1>6 DEF Stage
<1> QED
  BY <1>1, <1>2, <1>3, <1>4, <1>5, <1>7 DEF SInv

\* With one request at a time, every step keeps the invariant.
LEMMA SerialStep ==
  ASSUME OneAtATime, IInv, Numbering, SInv, [Next]_vars
  PROVE  SInv'
<1>1. CASE UNCHANGED vars
  <2>1. /\ \A a : Kind(a)' = Kind(a) /\ (Exists(a)' <=> Exists(a))
                  /\ (IsOpen(a)' <=> IsOpen(a)) /\ (Unborn(a)' <=> Unborn(a))
                  /\ (Justified(a)' <=> Justified(a))
                  /\ (Rests(a) => Rests(a)')
        /\ UNCHANGED <<created, company, request>>
    BY <1>1 DEF vars, data, Kind, Exists, IsOpen, Unborn, Justified, Backed, Rests,
       Agrees, Due, Fresh
  <2>2. \A r \in Requests : Stage(r)'
    <3>1. ASSUME NEW r \in Requests PROVE Stage(r)'
      <4>1. Stage(r)
        BY DEF SInv
      <4> QED
        BY <1>1, <4>1 DEF Stage, vars, data, Kind, Exists, IsOpen, Unborn,
           Agrees, Due, Fresh, Gated
    <3> QED
      BY <3>1
  <2>3. OneOpenPerKind' /\ ArchivedWithConsent'
    BY <1>1, <2>1 DEF SInv, OneOpenPerKind, ArchivedWithConsent, vars, data
  <2> QED
    BY <1>1, <2>1, <2>2, <2>3 DEF SInv, vars, data
<1>2. ASSUME NEW r \in Requests, Handle(r) PROVE SInv'
  BY <1>2, CreateKeepsSerial, DecideKeepsSerial, AdminKeepsSerial, WithdrawKeepsSerial
  DEF Handle
<1> QED
  BY <1>1, <1>2 DEF Next

\* What holds of requests handled one after the other.
THEOREM SerialInvariance ==
  ASSUME OneAtATime
  PROVE  Spec => [](IInv /\ Numbering /\ SInv)
<1>1. [Next]_vars => [NextFaulty]_vars
  BY DEF Next, NextFaulty
<1>2. Init => IInv /\ Numbering /\ SInv
  BY InitHolds, NumberingInit, SerialInit
<1>3. IInv /\ Numbering /\ SInv /\ [Next]_vars => (IInv /\ Numbering /\ SInv)'
  BY <1>1, StepHolds, NumberingStep, SerialStep
<1> QED
  BY <1>2, <1>3, PTL DEF Spec

\* create...Application refuses a second open application of a kind.
THEOREM OneIsOpen ==
  ASSUME OneAtATime
  PROVE  Spec => []OneOpenPerKind
<1>1. SInv => OneOpenPerKind
  BY DEF SInv
<1> QED
  BY <1>1, SerialInvariance, PTL

\* The company is archived by an administrator or by its shareholders.
THEOREM ArchivingIsAgreed ==
  ASSUME OneAtATime
  PROVE  Spec => []ArchivedWithConsent
<1>1. SInv => ArchivedWithConsent
  BY DEF SInv
<1> QED
  BY <1>1, SerialInvariance, PTL

\* No persist...IfNeeded method writes a change a second time: the approved
\* state has no way out.
THEOREM EffectsComeOnce ==
  ASSUME OneAtATime
  PROVE  Spec => []AppliedAtMostOnce
<1>1. ASSUME IInv, SInv PROVE AppliedAtMostOnce
  <2>1. ASSUME NEW a \in Applications PROVE effects[a] <= 1
    <3>1. CASE a > created
      BY <1>1, <3>1 DEF SInv, Unborn
    <3>2. CASE a \in 1 .. created /\ Rests(a)
      BY <3>2 DEF Rests, Due
    <3>3. CASE a \in 1 .. created /\ ~Rests(a)
      <4>1. PICK r \in Requests : request[r].app = a /\ request[r].pc \in Busy
        BY <1>1, <3>3 DEF SInv
      <4>2. a \in Numbers
        BY <1>1, NumberFacts DEF IInv, TypeOK
      <4>3. a # 0
        BY <1>1, NumberFacts DEF IInv, TypeOK
      <4>4. Stage(r)
        BY <1>1 DEF SInv
      <4>5. effects[a] = 0 \/ effects[a] = Due(a)
        <5>1. CASE request[r].pc \in {"init", "count", "endorse", "recheck", "persist"}
          BY <4>1, <4>2, <4>4, <5>1 DEF Stage
        <5>2. CASE request[r].pc \in {"tally", "tally_rows", "tally_register", "publish"}
          BY <4>1, <4>2, <4>4, <5>2 DEF Stage
        <5>3. CASE request[r].pc \in {"company", "resolve", "application"}
          BY <4>1, <4>2, <4>3, <4>4, <5>3 DEF Stage, Unborn
        <5> QED
          BY <4>1, <5>1, <5>2, <5>3 DEF Busy
      <4> QED
        BY <4>5 DEF Due
    <3> QED
      BY <1>1, <3>1, <3>2, <3>3, NumberFacts DEF IInv, TypeOK
  <2> QED
    BY <2>1 DEF AppliedAtMostOnce
<1> QED
  BY <1>1, SerialInvariance, PTL

\* When no request is under way every application is at rest.
LEMMA QuietRests ==
  ASSUME IInv, SInv, Quiet, NEW a \in Applications
  PROVE  Unborn(a) \/ Rests(a)
<1>1. a > created \/ a \in 1 .. created
  BY NumberFacts DEF IInv, TypeOK
<1>2. \A r \in Requests : request[r].pc \notin Busy
  BY DEF Quiet, Busy
<1> QED
  BY <1>1, <1>2 DEF SInv

\* An approved change has been written when the request that approved it is over.
THEOREM ApprovedIsWritten ==
  ASSUME OneAtATime
  PROVE  Spec => []ApprovedIsApplied
<1>1. ASSUME IInv, SInv PROVE ApprovedIsApplied
  BY <1>1, QuietRests DEF ApprovedIsApplied, Unborn, Rests, Due
<1> QED
  BY <1>1, SerialInvariance, PTL

\* The summary of an open application is the tally of its rows.
THEOREM SummaryIsFresh ==
  ASSUME OneAtATime
  PROVE  Spec => []EndorsementIsFresh
<1>1. ASSUME IInv, SInv PROVE EndorsementIsFresh
  BY <1>1, QuietRests DEF EndorsementIsFresh, Unborn, Rests, Fresh, Exists, IsOpen,
     OpenStatus
<1> QED
  BY <1>1, SerialInvariance, PTL

\* Withdrawing an application withdraws the endorsement of its ballot.
THEOREM WithdrawalUnendorses ==
  ASSUME OneAtATime
  PROVE  Spec => []WithdrawnIsNotEndorsed
<1>1. ASSUME IInv, SInv PROVE WithdrawnIsNotEndorsed
  <2>1. ASSUME Quiet, NEW a \in Applications, application[a].status = "ARCHIVED"
        PROVE  application[a].consent # "APPROVED"
    <3>1. Rests(a)
      BY <1>1, <2>1, QuietRests DEF Unborn, Exists
    <3> QED
      BY <2>1, <3>1 DEF Rests, Agrees, ApplicationStatus
  <2> QED
    BY <2>1 DEF WithdrawnIsNotEndorsed
<1> QED
  BY <1>1, SerialInvariance, PTL

\* A closed application is neither reopened nor approved: the workflow leaves no
\* closed state, and an application whose ballot was lost or that was withdrawn
\* does not pass the gate.
THEOREM ClosingIsFinal ==
  ASSUME OneAtATime
  PROVE  Spec => ClosedStaysClosed
<1> DEFINE Kept == \A a \in Applications :
       /\ application[a].status = "APPROVED" => application'[a].status = "APPROVED"
       /\ application[a].status \in {"REJECTED", "ARCHIVED"}
            => application'[a].status \in {"REJECTED", "ARCHIVED"}
<1>1. ASSUME IInv, Numbering, SInv, NEW r \in Requests, Handle(r) PROVE Kept
  <2>1. RequestsOK /\ TablesOK /\ Stage(r) /\ IsLocals(request[r])
    BY <1>1 DEF IInv, TypeOK, RequestsOK, SInv
  <2>2. PICK a \in Numbers : a = request[r].app
    BY <2>1 DEF IsLocals
  <2>3. \A b \in Applications : b \in Numbers /\ b # 0
    BY <2>1, NumberFacts
  <2>4. ASSUME NEW b \in Applications, b # a PROVE application'[b] = application[b]
    BY <1>1, <2>2, <2>3, <2>4, OtherRowsStay
  <2>5. \/ application'[a].status = application[a].status
        \/ application[a].status \notin ClosedStatus
        \/ UpdateApplication(r)
    <3>1. CASE CreateNext(r)
      BY <2>1, <2>2, <3>1 DEF CreateNext, data, LoadCompany, CheckExisting, CreateInstance,
         CreateApplication, CreateConsents, CountPending, WriteInitialConsent, LinkCompany,
         ConsiderAutoApprove, Stage, Unborn, Exists, ClosedStatus, TablesOK, ApplicationRows
    <3>2. CASE DecideNext(r)
      <4>1. CASE PublishProgress(r)
        BY <2>1, <2>2, <4>1 DEF PublishProgress, Stage, IsOpen, OpenStatus, ClosedStatus
      <4> QED
        BY <3>2, <4>1 DEF DecideNext, data, CheckUndecided, AnswerConsents, ReadRegister,
           ReadRows, TallyLastRows, TallyLastRegister
    <3>3. CASE AdminNext(r)
      BY <3>3 DEF AdminNext, data, StartAction, CheckConsent, FindTransition,
         WriteTransition, UpdateCompany, RecheckConsent, Persist
    <3>4. CASE WithdrawNext(r)
      BY <2>1, <2>2, <3>4 DEF WithdrawNext, data, CheckWithdrawable, Withdraw, Stage,
         IsOpen, OpenStatus, ClosedStatus
    <3> QED
      BY <1>1, <3>1, <3>2, <3>3, <3>4 DEF Handle
  <2>6. ASSUME UpdateApplication(r), a # 0, application[a].status \in ClosedStatus
        PROVE  /\ application[a].status \in {"REJECTED", "ARCHIVED"}
               /\ application'[a].status = "REJECTED"
    <3>1. request[r].pc = "resolve" /\ Exists(a) /\ Gated(request[r])
      BY <2>1, <2>2, <2>6 DEF UpdateApplication, Stage
    <3>2. PICK step \in Flow(Kind(a)) :
            /\ step[1] = request[r].act /\ step[3] = request[r].to /\ Agrees(a, step[2])
      BY <2>1, <2>2, <2>6, <3>1 DEF Stage
    <3>3. a \in Applications /\ Numbering
      BY <1>1, <2>1, <2>6, NumberFacts
    <3>4. /\ step[2] \in {"submitted", "under_review"}
          /\ step[3] \in {"under_review", "rejected", "approved"}
          /\ step[3] = "approved" => step[1] = "approve"
          /\ step[3] = "under_review" => step[1] = "route_to_review"
      BY <2>6, <3>3, ChangeSteps
    <3>5. /\ application[a].status \in {"REJECTED", "ARCHIVED"}
          /\ application[a].consent # "APPROVED"
      BY <2>6, <3>2, <3>4 DEF Agrees, ClosedStatus, ApplicationStatus
    <3>6. request[r].to = "rejected"
      BY <2>2, <3>1, <3>2, <3>4, <3>5 DEF Gated
    <3>7. application'[a].status = ApplicationStatus(request[r].to)
      BY <2>1, <2>2, <2>6, <3>1 DEF UpdateApplication, TablesOK, ApplicationRows
    <3> QED
      BY <3>5, <3>6, <3>7 DEF ApplicationStatus
  <2>7. ASSUME NEW b \in Applications PROVE
          /\ application[b].status = "APPROVED" => application'[b].status = "APPROVED"
          /\ application[b].status \in {"REJECTED", "ARCHIVED"}
               => application'[b].status \in {"REJECTED", "ARCHIVED"}
    <3>1. CASE b # a
      BY <2>4, <3>1
    <3>2. CASE b = a
      BY <2>3, <2>5, <2>6, <3>2 DEF ClosedStatus
    <3> QED
      BY <3>1, <3>2
  <2> QED
    BY <2>7
<1>2. ASSUME UNCHANGED vars PROVE Kept
  BY <1>2 DEF vars, data
<1>3. IInv /\ Numbering /\ SInv /\ [Next]_vars => [Kept]_vars
  BY <1>1, <1>2 DEF Next
<1> QED
  BY <1>3, SerialInvariance, PTL DEF Spec, ClosedStaysClosed
=============================================================================
