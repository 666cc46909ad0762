------------------------- MODULE CompanyRegistration -------------------------
(***************************************************************************)
(* How a company comes into being: one registration application, the       *)
(* ballot of everybody its form names, the review by the authority and the *)
(* transaction that founds the company.                                    *)
(* company-application.service.ts (createApplication, updateMyApplication, *)
(* resubmitMyApplication, decide..., withdraw...),                         *)
(* company-workflow.service.ts (executeRegistrationApplicationWorkflow-    *)
(* Action, createCompanyFromApprovedApplication, executeWorkflowAction)    *)
(* and company-registration-persistence.service.ts.                        *)
(*                                                                         *)
(* Requests are handled one after the other here, each in one step whose   *)
(* disjuncts are the places where the handler may end. How handlers        *)
(* overlap, and the instance an administrator may name instead of that of  *)
(* the application, are the subject of CompanyApplications. An application *)
(* whose creation stops before it is linked to its instance, and that can  *)
(* only be withdrawn, is not told from one that is linked.                 *)
(*                                                                         *)
(* A form is what the applicant sends: the type of the company ("none"     *)
(* when it names none), the holdings of the shareholders (in units of      *)
(* which Whole make up 100%) and the posts it fills, as slots              *)
(* <<role, person>>. Whether the form is validated and who is asked goes   *)
(* by the type: nobody is asked about a company that is no limited         *)
(* liability company. What is written when the company is founded goes by  *)
(* the form. The form has one field for each role of the management.       *)
(***************************************************************************)
EXTENDS ConsentTally

CONSTANTS
  Payloads,    \* the forms the applicant may send
  Whole,       \* how many units 100% are
  Signatory    \* Signatory[p]: the user who answers for party p

ASSUME WholeAssumption == Whole \in Nat \ {0}
ASSUME PayloadsAssumption ==
  \A form \in Payloads :
    /\ form.type \in {"llc", "other", "none"}
    /\ form.posts \subseteq STRING \X Parties
    /\ DOMAIN form.shares \subseteq Parties /\ IsFiniteSet(DOMAIN form.shares)
    /\ form.shares \in [DOMAIN form.shares -> [ratio : Nat, votes : Nat]]
    /\ \A a, b \in form.posts : a[1] \in ManagerRoles /\ a[1] = b[1] => a = b

VARIABLES
  application, \* status, consentStatus, type and payload of the application row
  ballot,      \* its consent rows
  instance,    \* currentState and status of its workflow instance
  company,     \* the status of the company, "none" before it is founded
  shares,      \* the shareholder rows of the company's registration
  posts,       \* the officer rows of the company's registration
  wanted,      \* history: the applicant's last word was to (re)submit
  torn         \* history: the last renewal of the ballot was cut off half way

registrationVars ==
  <<application, ballot, instance, company, shares, posts, wanted, torn>>

-----------------------------------------------------------------------------
(***************************************************************************)
(* The form.                                                               *)
(***************************************************************************)

Users  == {Signatory[p] : p \in Parties}
NoRows == [slot \in {} |-> "PENDING"]

\* Those who hold a post of one of the roles.
Holders(slots, roles) == {slot[2] : slot \in {s \in slots : s[1] \in roles}}

\* The units of one kind, "ratio" or "votes", that are held altogether.
Held(register, unit) == Total([p \in DOMAIN register |-> register[p][unit]])

IsLlc == application.type = "llc"

\* validateLlcApplication.
BoardSize(size) == size = 1 \/ size >= 3

ValidLlc(form) ==
  LET directors   == Holders(form.posts, {"DIRECTOR"})
      supervisors == Holders(form.posts, {"SUPERVISOR"})
      chair       == Holders(form.posts, {"CHAIRPERSON"})
  IN  /\ Held(form.shares, "ratio") = Whole
      /\ Held(form.shares, "votes") = Whole
      /\ BoardSize(Cardinality(directors))
      /\ Cardinality(directors) > 1 => chair # {} /\ chair \subseteq directors
      /\ Holders(form.posts, {"MANAGER"})
           \cap Holders(form.posts, {"DEPUTY_MANAGER"}) = {}
      /\ Holders(form.posts, {"LEGAL_REPRESENTATIVE"})
           \subseteq directors \cup Holders(form.posts, {"MANAGER"})
      /\ supervisors \cap (directors \cup Holders(form.posts, ManagerRoles)) = {}

Acceptable(form) == form.type = "llc" => ValidLlc(form)

\* The rows of initLlcApplicationConsents, one for every name in the form.
Asked(form) == form.posts \cup ({"SHAREHOLDER"} \X DOMAIN form.shares)

NewBallot(form) == [slot \in Asked(form) |-> "PENDING"]

\* The rows of persistLlcRegistration: the financial officer, who is asked, is
\* not among the officers it writes.
Registered(form) == {slot \in form.posts : slot[1] # "FINANCIAL_OFFICER"}

(***************************************************************************)
(* The registration workflow of company.constants.ts.                      *)
(***************************************************************************)
ReviewFlow == { <<"approve", "under_review", "approved">>,
                <<"request_changes", "under_review", "needs_revision">>,
                <<"reject", "under_review", "rejected">>,
                <<"resubmit", "needs_revision", "under_review">>,
                <<"withdraw", "needs_revision", "rejected">>,
                <<"reopen", "rejected", "under_review">> }

CompanyFlow == { <<"suspend", "approved", "suspended">>,
                 <<"reactivate", "suspended", "approved">>,
                 <<"archive", "suspended", "archived">> }

States  == {step[3] : step \in ReviewFlow \cup CompanyFlow}
IsFinal(state) == state \in {"approved", "rejected", "archived"}

ApplicationStatus(state) ==
  CASE state = "under_review"   -> "UNDER_REVIEW"
    [] state = "needs_revision" -> "NEEDS_CHANGES"
    [] state = "approved"       -> "APPROVED"
    [] state = "rejected"       -> "REJECTED"
    [] OTHER                    -> "ARCHIVED"

CompanyStatus(state) ==
  CASE state = "approved"  -> "ACTIVE"
    [] state = "suspended" -> "SUSPENDED"
    [] OTHER               -> "ARCHIVED"

\* What performAction makes of the instance.
Moved(state) == [state |-> state, status |-> IF IsFinal(state) THEN "COMPLETED"
                                                               ELSE "ACTIVE"]

OpenStatus == {"SUBMITTED", "UNDER_REVIEW", "NEEDS_CHANGES"}
IsOpen     == application.status \in OpenStatus
IsFounded  == company # "none"

NoForm == [type |-> "none", posts |-> {},
           shares |-> [p \in {} |-> [ratio |-> 0, votes |-> 0]]]

RegistrationInit ==
  /\ application = [status |-> "none", consent |-> "PENDING", type |-> "none",
                     payload |-> NoForm]
  /\ ballot = NoRows
  /\ instance = Moved("under_review")
  /\ company = "none"
  /\ shares = NoForm.shares
  /\ posts = NoForm.posts
  /\ wanted = FALSE
  /\ torn = FALSE

-----------------------------------------------------------------------------
(***************************************************************************)
(* The applicant.                                                          *)
(***************************************************************************)

\* The rows of a limited liability company are not there when a holding company
\* cannot be asked, or when the server stops before they are created.
CreateApplication(form) ==
  /\ application.status = "none"
  /\ Acceptable(form)
  /\ application' = [status  |-> "UNDER_REVIEW",
                     consent |-> IF form.type = "llc" THEN "PENDING" ELSE "APPROVED",
                     type    |-> form.type,
                     payload |-> form]
  /\ instance' = Moved("under_review")
  /\ ballot' \in IF form.type = "llc" THEN {NewBallot(form), NoRows} ELSE {NoRows}
  /\ wanted' = TRUE
  /\ UNCHANGED <<company, shares, posts, torn>>

\* A form that names no type is stored unseen and leaves the type as it is.
UpdateApplication(form) ==
  /\ application.status = "NEEDS_CHANGES"
  /\ Acceptable(form)
  /\ application' = [application EXCEPT
       !.payload = form,
       !.type    = IF form.type = "none" THEN application.type ELSE form.type]
  /\ UNCHANGED <<ballot, instance, company, shares, posts, wanted, torn>>

\* The summary of a ballot that has been emptied or has only new rows.
Reset_KeepEndorsement(summary) == summary

Reset(summary) == [summary EXCEPT !.consent = "PENDING"]

\* performAction and deleteMany come first: when the form is refused after them
\* (it is not valid, the division it names is gone, a holding company cannot be
\* asked), the application still needs changes and its instance is under review.
Resubmit ==
  /\ application.status = "NEEDS_CHANGES"
  /\ instance.state = "needs_revision"
  /\ instance' = Moved("under_review")
  /\ LET form == application.payload
     IN  \* The server stops after performAction,
         \/ UNCHANGED <<application, ballot, torn>>
         \* or after deleteMany, or the form is refused,
         \/ ballot' = NoRows /\ UNCHANGED <<application, torn>>
         \* or it stops when the rows are out and the form is still open to changes.
         \/ /\ IsLlc /\ ValidLlc(form)
            /\ ballot' = NewBallot(form)
            /\ application' \in {application, Reset(application)}
            /\ torn' = TRUE
         \/ /\ IsLlc => ValidLlc(form)
            /\ ballot' = IF IsLlc THEN NewBallot(form) ELSE NoRows
            /\ application' = [application EXCEPT
                 !.status  = "UNDER_REVIEW",
                 !.consent = IF IsLlc THEN "PENDING" ELSE "APPROVED"]
            /\ torn' = FALSE
  /\ wanted' = TRUE
  /\ UNCHANGED <<company, shares, posts>>

\* A withdrawal refuses for those who have not answered.
Closed(rows) ==
  [slot \in DOMAIN rows |-> IF rows[slot] = "PENDING" THEN "REJECTED" ELSE rows[slot]]

Withdraw_KeepConsent ==
  /\ IsOpen
  /\ ballot' = Closed(ballot)
  /\ application' = [application EXCEPT !.status = "ARCHIVED"]
  /\ instance' = [instance EXCEPT !.status = "CANCELLED"]
  /\ wanted' = FALSE
  /\ UNCHANGED <<company, shares, posts, torn>>

Withdraw ==
  /\ IsOpen
  /\ ballot' = Closed(ballot)
  /\ application' = [application EXCEPT !.status = "ARCHIVED", !.consent = "REJECTED"]
  /\ instance' = [instance EXCEPT !.status = "CANCELLED"]
  /\ wanted' = FALSE
  /\ UNCHANGED <<company, shares, posts, torn>>

(***************************************************************************)
(* Those the form names: decideApplicationConsents.                        *)
(***************************************************************************)

\* The rows of a ballot that still wait for a user.
Waiting(rows, user) ==
  {slot \in DOMAIN rows : rows[slot] = "PENDING" /\ Signatory[slot[2]] = user}

Answered(rows, user, vote) ==
  [slot \in DOMAIN rows |-> IF slot \in Waiting(rows, user) THEN vote ELSE rows[slot]]

Decide(user, vote) ==
  /\ IsOpen
  /\ Waiting(ballot, user) # {}
  /\ ballot' = Answered(ballot, user, vote)
  /\ \/ application' = [application EXCEPT
          !.consent = ConsentProgress("registration", ballot', NoForm.shares)]
     \* The server stops before the summary is written.
     \/ UNCHANGED application
  /\ UNCHANGED <<instance, company, shares, posts, wanted, torn>>

-----------------------------------------------------------------------------
(***************************************************************************)
(* The authority, as long as there is no company.                          *)
(***************************************************************************)

\* Every action but approve: performAction, the status of the application and,
\* for request_changes, the rows and the summary of the ballot.
Review(act) ==
  /\ application.status # "none" /\ ~IsFounded /\ act # "approve"
  /\ \E step \in ReviewFlow \cup CompanyFlow :
       LET told == [application EXCEPT !.status = ApplicationStatus(step[3])]
       IN  /\ step[1] = act /\ step[2] = instance.state
           /\ instance' = Moved(step[3])
           /\ \* The server stops after performAction.
              \/ UNCHANGED <<application, ballot, torn>>
              \/ /\ act # "request_changes"
                 /\ application' = told /\ UNCHANGED <<ballot, torn>>
              \* It stops when the form may be changed and the old ballot counts.
              \/ /\ act = "request_changes"
                 /\ application' = told
                 /\ ballot' \in {ballot, NoRows} /\ torn' = TRUE
              \/ /\ act = "request_changes"
                 /\ application' = Reset(told) /\ ballot' = NoRows /\ torn' = FALSE
  /\ UNCHANGED <<company, shares, posts, wanted>>

\* The transaction of createCompanyFromApprovedApplication, which checks the
\* consent again.
Found ==
  /\ application.consent = "APPROVED"
  /\ company' = "ACTIVE"
  /\ shares' = application.payload.shares
  /\ posts' = Registered(application.payload)

NotFounded == UNCHANGED <<company, shares, posts>>

\* approve: the gate, performAction, the status of the application, the company.
Approve_Ungated ==
  /\ application.status # "none" /\ ~IsFounded
  /\ instance.state = "under_review"
  /\ \/ Found /\ instance' = Moved("approved")
              /\ application' = [application EXCEPT !.status = "APPROVED"]
     \/ NotFounded /\ instance' = Moved("under_review")
                   /\ application' = [application EXCEPT !.status = "UNDER_REVIEW"]
     \/ NotFounded /\ instance' = Moved("approved") /\ UNCHANGED application
     \/ NotFounded /\ instance' = Moved("approved")
                   /\ application' = [application EXCEPT !.status = "APPROVED"]
  /\ UNCHANGED <<ballot, wanted, torn>>

Approve ==
  /\ application.status # "none" /\ ~IsFounded
  /\ application.consent = "APPROVED"
  /\ instance.state = "under_review"
  /\ \/ Found /\ instance' = Moved("approved")
              /\ application' = [application EXCEPT !.status = "APPROVED"]
     \* The company cannot be created: instance and application are put back.
     \/ NotFounded /\ instance' = Moved("under_review")
                   /\ application' = [application EXCEPT !.status = "UNDER_REVIEW"]
     \* The server stops after performAction, or after the next update.
     \/ NotFounded /\ instance' = Moved("approved") /\ UNCHANGED application
     \/ NotFounded /\ instance' = Moved("approved")
                   /\ application' = [application EXCEPT !.status = "APPROVED"]
  /\ UNCHANGED <<ballot, wanted, torn>>

\* approve once more, when the instance is approved and the company is missing.
CreateMissingCompany ==
  /\ application.status # "none" /\ ~IsFounded
  /\ instance.state = "approved"
  /\ Found
  /\ UNCHANGED <<application, ballot, instance, wanted, torn>>

\* executeWorkflowAction on the instance of a company that exists: performAction,
\* the status of the company, that of the application.
Administer(act) ==
  /\ IsFounded
  /\ \E step \in ReviewFlow \cup CompanyFlow :
       /\ step[1] = act /\ step[2] = instance.state
       /\ instance' = Moved(step[3])
       /\ \/ UNCHANGED <<company, application>>
          \/ company' = CompanyStatus(step[3]) /\ UNCHANGED application
          \/ /\ company' = CompanyStatus(step[3])
             /\ application' = [application EXCEPT !.status = ApplicationStatus(step[3])]
  /\ UNCHANGED <<ballot, shares, posts, wanted, torn>>

Acts == {step[1] : step \in ReviewFlow \cup CompanyFlow}

RegistrationNext ==
  \/ \E form \in Payloads : CreateApplication(form) \/ UpdateApplication(form)
  \/ Resubmit
  \/ Withdraw
  \/ \E user \in Users, vote \in {"APPROVED", "REJECTED"} : Decide(user, vote)
  \/ \E act \in Acts : Review(act) \/ Administer(act)
  \/ Approve
  \/ CreateMissingCompany

RegistrationSpec == RegistrationInit /\ [][RegistrationNext]_registrationVars

-----------------------------------------------------------------------------
(***************************************************************************)
(* Properties.                                                             *)
(***************************************************************************)

IsBallot(rows, slots) == DOMAIN rows \subseteq slots /\ rows \in [DOMAIN rows -> Votes]

Forms     == Payloads \cup {NoForm}
FormSlots == UNION {Asked(form) : form \in Forms}

RegistrationTypeOK ==
  /\ application \in [status  : OpenStatus \cup {"none", "APPROVED", "REJECTED",
                                                 "ARCHIVED"},
                      consent : Votes,
                      type    : {"llc", "other", "none"},
                      payload : Forms]
  /\ IsBallot(ballot, FormSlots)
  /\ instance \in [state : States, status : {"ACTIVE", "COMPLETED", "CANCELLED"}]
  /\ company \in {"none", "ACTIVE", "SUSPENDED", "ARCHIVED"}
  /\ wanted \in BOOLEAN /\ torn \in BOOLEAN

\* Everybody the form of the application names has said yes to it.
Agreed ==
  /\ DOMAIN ballot = Asked(application.payload)
  /\ \A slot \in DOMAIN ballot : ballot[slot] = "APPROVED"

\* A limited liability company was agreed to by everybody its form names, however
\* often the form was sent back, rewritten, made one of another type, resubmitted,
\* rejected and reopened before, and wherever a handler was cut off, unless it was
\* in the middle of renewing the ballot.
FoundedOnAgreement == IsFounded /\ IsLlc /\ ~torn => Agreed

\* An approval that did not lead to a company, because the server stopped on the
\* way, can be made good as long as the applicant wants the company: its instance
\* is approved, or the authority itself has suspended or archived it since, and
\* the consent approve asks for is complete.
ApprovalIsRepairable ==
  (application.status = "APPROVED" \/ instance.state = "approved")
    /\ ~IsFounded /\ wanted /\ ~torn
    => /\ application.consent = "APPROVED"
       /\ instance.state \in {"approved", "suspended", "archived"}

\* No company is founded from an application its applicant has withdrawn, though
\* the authority may still act on its cancelled instance.
FoundedIfWanted == [][~IsFounded /\ IsFounded' => wanted]_registrationVars
=============================================================================
