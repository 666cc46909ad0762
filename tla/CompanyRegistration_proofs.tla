--------------------- MODULE CompanyRegistration_proofs ---------------------
(***************************************************************************)
(* What the registration of a company promises for all forms, parties and  *)
(* signatories. No limited liability company is founded without the        *)
(* agreement of everybody its form names, because the summary of a ballot  *)
(* says APPROVED only when all its rows do, and a form is rewritten only   *)
(* when its ballot is gone. Both may fail once a renewal of the ballot has *)
(* been cut off (torn), and come back with the next complete renewal.      *)
(***************************************************************************)
EXTENDS CompanyRegistration, ConsentTally_proofs

\* The rows are those of the form, or have been deleted or never created.
\* Nobody is asked about a company of another type.
BallotIsOfForm ==
  ~torn => DOMAIN ballot = {} \/ (IsLlc /\ DOMAIN ballot = Asked(application.payload))

ConsentIsAgreed == ~torn /\ IsLlc /\ application.consent = "APPROVED" => Agreed

\* A form that names no type is not validated before it is resubmitted.
AskedIsValid ==
  ~torn /\ IsLlc /\ (application.consent = "APPROVED" \/ DOMAIN ballot # {})
    => ValidLlc(application.payload)

\* A form can be rewritten only when nobody has answered it.
RewrittenIsUnasked ==
  ~torn /\ application.status = "NEEDS_CHANGES" =>
    application.consent = "PENDING" /\ DOMAIN ballot = {}

\* A withdrawn form can be neither approved nor answered.
WithdrawnIsOver ==
  ~wanted => /\ application.consent # "APPROVED"
             /\ \A slot \in DOMAIN ballot : ballot[slot] # "PENDING"

\* The states of an instance that has been approved.
Settled == {"approved", "suspended", "archived"}

ApprovedIsAgreed ==
  /\ instance.state \in Settled /\ wanted /\ ~torn => application.consent = "APPROVED"
  /\ application.status = "APPROVED" => instance.state \in Settled

FoundedIsOver ==
  IsFounded => /\ application.status # "none"
               /\ instance.state \in Settled
               /\ ~torn => application.status # "NEEDS_CHANGES"
               /\ ~torn /\ IsLlc => Agreed /\ ValidLlc(application.payload)

RegistrationInv ==
  /\ RegistrationTypeOK
  /\ BallotIsOfForm
  /\ ConsentIsAgreed
  /\ AskedIsValid
  /\ RewrittenIsUnasked
  /\ WithdrawnIsOver
  /\ ApprovedIsAgreed
  /\ FoundedIsOver

\* What the invariant is about.
core == <<application, ballot, instance, company, wanted, torn>>

Applications == [status  : OpenStatus \cup {"none", "APPROVED", "REJECTED", "ARCHIVED"},
                 consent : Votes,
                 type    : {"llc", "other", "none"},
                 payload : Forms]

Instances == [state : States, status : {"ACTIVE", "COMPLETED", "CANCELLED"}]

-----------------------------------------------------------------------------
LEMMA FlowFacts ==
  ASSUME NEW step \in ReviewFlow \cup CompanyFlow
  PROVE  /\ step[3] \in States
         /\ ApplicationStatus(step[3]) \in
              {"UNDER_REVIEW", "NEEDS_CHANGES", "APPROVED", "REJECTED", "ARCHIVED"}
         /\ ApplicationStatus(step[3]) = "NEEDS_CHANGES" => step[1] = "request_changes"
         /\ ApplicationStatus(step[3]) = "APPROVED" <=> step[3] = "approved"
         /\ step[1] = "request_changes" => step[3] = "needs_revision"
         /\ step[1] # "approve" /\ step[3] \in {"approved", "suspended", "archived"}
              => step[2] \in {"approved", "suspended"}
         /\ step[2] \in {"approved", "suspended", "archived"}
              => step[3] \in {"approved", "suspended", "archived"}
         /\ CompanyStatus(step[3]) \in {"ACTIVE", "SUSPENDED", "ARCHIVED"}
         /\ step[1] = "request_changes" => step[2] = "under_review"
<1>1. step[3] \in States
  BY DEF States
<1>2. \/ step = <<"approve", "under_review", "approved">>
      \/ step = <<"request_changes", "under_review", "needs_revision">>
      \/ step = <<"reject", "under_review", "rejected">>
      \/ step = <<"resubmit", "needs_revision", "under_review">>
      \/ step = <<"withdraw", "needs_revision", "rejected">>
      \/ step = <<"reopen", "rejected", "under_review">>
      \/ step = <<"suspend", "approved", "suspended">>
      \/ step = <<"reactivate", "suspended", "approved">>
      \/ step = <<"archive", "suspended", "archived">>
  BY DEF ReviewFlow, CompanyFlow
<1> QED
  BY <1>1, <1>2 DEF ApplicationStatus, CompanyStatus

LEMMA SomeStates ==
  {"under_review", "approved", "needs_revision", "rejected"} \subseteq States
<1>1. /\ <<"resubmit", "needs_revision", "under_review">> \in ReviewFlow
      /\ <<"approve", "under_review", "approved">> \in ReviewFlow
      /\ <<"request_changes", "under_review", "needs_revision">> \in ReviewFlow
      /\ <<"reject", "under_review", "rejected">> \in ReviewFlow
  BY DEF ReviewFlow
<1>2. \A step \in ReviewFlow : step[3] \in States
  BY DEF States
<1>3. /\ <<"resubmit", "needs_revision", "under_review">>[3] = "under_review"
      /\ <<"approve", "under_review", "approved">>[3] = "approved"
      /\ <<"request_changes", "under_review", "needs_revision">>[3] = "needs_revision"
      /\ <<"reject", "under_review", "rejected">>[3] = "rejected"
  OBVIOUS
<1> QED
  BY <1>1, <1>2, <1>3

LEMMA MovedFacts ==
  ASSUME NEW state \in States
  PROVE  Moved(state) \in Instances /\ Moved(state).state = state
  BY DEF Moved, Instances

LEMMA NewBallotFacts ==
  ASSUME NEW form \in Forms
  PROVE  /\ IsBallot(NewBallot(form), FormSlots)
         /\ DOMAIN NewBallot(form) = Asked(form)
<1>1. Asked(form) \subseteq FormSlots
  BY DEF FormSlots
<1> QED
  BY <1>1 DEF NewBallot, IsBallot, Votes

LEMMA NoRowsFacts ==
  DOMAIN NoRows = {} /\ IsBallot(NoRows, FormSlots)
BY DEF NoRows, IsBallot

\* The summary of a registration says APPROVED only of a ballot all whose rows do.
LEMMA AgreedByTally ==
  ASSUME NEW rows, \A slot \in DOMAIN rows : rows[slot] \in Votes,
         NEW register,
         ConsentProgress("registration", rows, register) = "APPROVED"
  PROVE  \A slot \in DOMAIN rows : rows[slot] = "APPROVED"
<1>1. ConsentProgress("registration", rows, register) = DefaultTally(rows)
  BY DEF ConsentProgress, TwoThirdsKinds
<1> QED
  BY <1>1 DEF DefaultTally, Some, Votes

LEMMA TallyIsVote ==
  ASSUME NEW rows, NEW register
  PROVE  ConsentProgress("registration", rows, register) \in Votes
<1>1. ConsentProgress("registration", rows, register) = DefaultTally(rows)
  BY DEF ConsentProgress, TwoThirdsKinds
<1> QED
  BY <1>1 DEF DefaultTally, Votes

-----------------------------------------------------------------------------
LEMMA RegistrationStarts ==
  ASSUME RegistrationInit
  PROVE  RegistrationInv
<1>1. application \in Applications
  BY DEF RegistrationInit, Votes, Applications, Forms
<1>2. DOMAIN ballot = {} /\ IsBallot(ballot, FormSlots)
  BY NoRowsFacts DEF RegistrationInit
<1>3. instance.state = "under_review" /\ instance \in Instances
  BY SomeStates, MovedFacts DEF RegistrationInit
<1> QED
  BY <1>1, <1>2, <1>3 DEF RegistrationInit, RegistrationInv, RegistrationTypeOK,
     Applications, Instances, BallotIsOfForm, ConsentIsAgreed, AskedIsValid,
     RewrittenIsUnasked, WithdrawnIsOver, ApprovedIsAgreed, FoundedIsOver, IsFounded, Settled

LEMMA CreateStep ==
  ASSUME RegistrationInv, NEW form \in Payloads, PayloadsAssumption, CreateApplication(form)
  PROVE  RegistrationInv'
<1>1. /\ application' \in Applications
      /\ application'.status = "UNDER_REVIEW" /\ application'.type = form.type
      /\ application'.payload = form
      /\ application'.consent = (IF form.type = "llc" THEN "PENDING" ELSE "APPROVED")
  BY DEF CreateApplication, Forms, Votes, OpenStatus, Applications, PayloadsAssumption
<1>2. /\ IsBallot(ballot', FormSlots)
      /\ DOMAIN ballot' = {} \/ (form.type = "llc" /\ DOMAIN ballot' = Asked(form))
  <2>1. ballot' = NoRows \/ (form.type = "llc" /\ ballot' = NewBallot(form))
    BY DEF CreateApplication
  <2>2. form \in Forms
    BY DEF Forms
  <2> QED
    BY <2>1, <2>2, NewBallotFacts, NoRowsFacts
<1>3. instance'.state = "under_review" /\ instance' \in Instances
  BY SomeStates, MovedFacts DEF CreateApplication
<1>4. ~IsFounded /\ ~IsFounded' /\ wanted' = TRUE /\ UNCHANGED <<company, torn>>
  BY DEF CreateApplication, RegistrationInv, FoundedIsOver, IsFounded
<1>5. IsLlc' => ValidLlc(application.payload)'
  BY <1>1 DEF CreateApplication, Acceptable, IsLlc, ValidLlc
<1>6. RegistrationTypeOK'
  BY <1>1, <1>2, <1>3, <1>4 DEF RegistrationInv, RegistrationTypeOK, Applications, Instances
<1>7. BallotIsOfForm' /\ ConsentIsAgreed' /\ AskedIsValid'
  BY <1>1, <1>2, <1>5 DEF BallotIsOfForm, ConsentIsAgreed, AskedIsValid, IsLlc
<1> QED
  BY <1>1, <1>3, <1>4, <1>6, <1>7 DEF RegistrationInv, RewrittenIsUnasked, WithdrawnIsOver,
     ApprovedIsAgreed, FoundedIsOver, Settled

LEMMA UpdateStep ==
  ASSUME PayloadsAssumption, RegistrationInv, NEW form \in Payloads, UpdateApplication(form)
  PROVE  RegistrationInv'
<1>1. /\ application' \in Applications
      /\ application'.status = "NEEDS_CHANGES" /\ application'.consent = application.consent
  BY DEF UpdateApplication, RegistrationInv, RegistrationTypeOK, Forms, PayloadsAssumption,
     Applications
<1>2. UNCHANGED <<ballot, instance, company, wanted, torn>>
        /\ application.status = "NEEDS_CHANGES"
  BY DEF UpdateApplication
<1>3. ~torn => application.consent = "PENDING" /\ DOMAIN ballot = {} /\ ~IsFounded
  BY <1>2 DEF RegistrationInv, RewrittenIsUnasked, FoundedIsOver
<1>4. RegistrationTypeOK'
  BY <1>1, <1>2 DEF RegistrationInv, RegistrationTypeOK, Applications, Instances
<1>5. /\ BallotIsOfForm' /\ ConsentIsAgreed' /\ AskedIsValid' /\ RewrittenIsUnasked'
      /\ WithdrawnIsOver'
  BY <1>1, <1>2, <1>3 DEF RegistrationInv, BallotIsOfForm, ConsentIsAgreed, AskedIsValid,
     RewrittenIsUnasked, WithdrawnIsOver
<1> QED
  BY <1>1, <1>2, <1>3, <1>4, <1>5 DEF RegistrationInv, ApprovedIsAgreed, FoundedIsOver, IsFounded

LEMMA ResubmitStep ==
  ASSUME RegistrationInv, Resubmit
  PROVE  RegistrationInv'
<1> DEFINE form == application.payload
<1>1. /\ application.status = "NEEDS_CHANGES" /\ instance.state = "needs_revision"
      /\ form \in Forms /\ wanted' = TRUE /\ company' = company
      /\ application \in Applications /\ IsBallot(ballot, FormSlots)
      /\ company \in {"none", "ACTIVE", "SUSPENDED", "ARCHIVED"} /\ torn \in BOOLEAN
  BY DEF Resubmit, RegistrationInv, RegistrationTypeOK, Applications
<1>2. instance'.state = "under_review" /\ instance' \in Instances
  BY SomeStates, MovedFacts DEF Resubmit
<1>3. ~IsFounded /\ ~IsFounded'
  BY <1>1 DEF RegistrationInv, FoundedIsOver, IsFounded, Settled
<1>4. ~torn => application.consent = "PENDING" /\ DOMAIN ballot = {}
  BY <1>1 DEF RegistrationInv, RewrittenIsUnasked
<1>5. \/ application' = application /\ torn' = torn /\ ballot' \in {ballot, NoRows}
      \/ /\ application' \in {application, Reset(application)} /\ torn' = TRUE
         /\ ballot' = NewBallot(form)
      \/ /\ IsLlc => ValidLlc(form)
         /\ ballot' = (IF IsLlc THEN NewBallot(form) ELSE NoRows)
         /\ application' = [application EXCEPT
              !.status  = "UNDER_REVIEW",
              !.consent = IF IsLlc THEN "PENDING" ELSE "APPROVED"]
         /\ torn' = FALSE
  BY DEF Resubmit
<1>6. CASE application' = application /\ torn' = torn /\ ballot' \in {ballot, NoRows}
  <2>1. IsBallot(ballot', FormSlots) /\ (~torn => DOMAIN ballot' = {})
    BY <1>1, <1>4, <1>6, NoRowsFacts
  <2>2. RegistrationTypeOK'
    BY <1>1, <1>2, <1>6, <2>1 DEF RegistrationTypeOK, Applications, Instances
  <2> QED
    BY <1>1, <1>2, <1>3, <1>4, <1>6, <2>1, <2>2 DEF RegistrationInv,
       BallotIsOfForm, ConsentIsAgreed, AskedIsValid, RewrittenIsUnasked, WithdrawnIsOver,
       ApprovedIsAgreed, FoundedIsOver, Settled, IsLlc
<1>7. CASE /\ application' \in {application, Reset(application)} /\ torn' = TRUE
           /\ ballot' = NewBallot(form)
  <2>1. /\ application' \in Applications /\ application'.status = "NEEDS_CHANGES"
        /\ application'.payload = form
    BY <1>1, <1>7 DEF Reset, Applications, Votes
  <2>2. IsBallot(ballot', FormSlots)
    BY <1>1, <1>7, NewBallotFacts
  <2>3. RegistrationTypeOK'
    BY <1>1, <1>2, <1>7, <2>1, <2>2 DEF RegistrationTypeOK, Applications, Instances
  <2> QED
    BY <1>1, <1>2, <1>3, <1>7, <2>1, <2>3 DEF RegistrationInv, BallotIsOfForm,
       ConsentIsAgreed, AskedIsValid, RewrittenIsUnasked, WithdrawnIsOver, ApprovedIsAgreed,
       FoundedIsOver, Settled
<1>8. CASE /\ IsLlc => ValidLlc(form)
           /\ ballot' = (IF IsLlc THEN NewBallot(form) ELSE NoRows)
           /\ application' = [application EXCEPT
                !.status  = "UNDER_REVIEW",
                !.consent = IF IsLlc THEN "PENDING" ELSE "APPROVED"]
           /\ torn' = FALSE
  <2>1. /\ application' \in Applications /\ application'.status = "UNDER_REVIEW"
        /\ application'.payload = form /\ (IsLlc' <=> IsLlc)
        /\ application'.consent = (IF IsLlc THEN "PENDING" ELSE "APPROVED")
    BY <1>1, <1>8 DEF Applications, Votes, OpenStatus, IsLlc
  <2>2. /\ IsBallot(ballot', FormSlots)
        /\ IsLlc => DOMAIN ballot' = Asked(form)
        /\ ~IsLlc => DOMAIN ballot' = {}
    BY <1>1, <1>8, NewBallotFacts, NoRowsFacts
  <2>3. RegistrationTypeOK'
    BY <1>1, <1>2, <1>8, <2>1, <2>2 DEF RegistrationTypeOK, Applications, Instances
  <2>4. IsLlc => ValidLlc(application'.payload)
    BY <1>8, <2>1
  <2>5. BallotIsOfForm' /\ ConsentIsAgreed' /\ AskedIsValid'
    BY <2>1, <2>2, <2>4 DEF BallotIsOfForm, ConsentIsAgreed, AskedIsValid, ValidLlc
  <2> QED
    BY <1>1, <1>2, <1>3, <2>1, <2>3, <2>5 DEF RegistrationInv, RewrittenIsUnasked,
       WithdrawnIsOver, ApprovedIsAgreed, FoundedIsOver, Settled
<1> QED
  BY <1>5, <1>6, <1>7, <1>8

LEMMA WithdrawStep ==
  ASSUME RegistrationInv, Withdraw
  PROVE  RegistrationInv'
<1>1. /\ application' \in Applications
      /\ application'.status = "ARCHIVED" /\ application'.consent = "REJECTED"
      /\ application'.payload = application.payload /\ (IsLlc' <=> IsLlc)
  BY DEF Withdraw, RegistrationInv, RegistrationTypeOK, Votes, Applications, IsLlc
<1>2. /\ DOMAIN ballot' = DOMAIN ballot
      /\ \A slot \in DOMAIN ballot : ballot'[slot] # "PENDING" /\ ballot'[slot] \in Votes
      /\ \A slot \in DOMAIN ballot : ballot[slot] = "APPROVED" => ballot'[slot] = "APPROVED"
      /\ IsBallot(ballot', FormSlots)
  BY DEF Withdraw, Closed, RegistrationInv, RegistrationTypeOK, IsBallot, Votes
<1>3. /\ instance'.state = instance.state /\ instance' \in Instances
      /\ wanted' = FALSE /\ UNCHANGED <<company, torn>>
  BY DEF Withdraw, RegistrationInv, RegistrationTypeOK, Instances
<1>4. Agreed => Agreed'
  BY <1>1, <1>2 DEF Agreed
<1>5. ValidLlc(application.payload) => ValidLlc(application.payload)'
  BY <1>1 DEF ValidLlc
<1>6. RegistrationTypeOK'
  BY <1>1, <1>2, <1>3 DEF RegistrationInv, RegistrationTypeOK, Applications, Instances
<1>7. BallotIsOfForm' /\ ConsentIsAgreed' /\ AskedIsValid'
  BY <1>1, <1>2, <1>3, <1>5 DEF RegistrationInv, BallotIsOfForm, ConsentIsAgreed, AskedIsValid
<1> QED
  BY <1>1, <1>2, <1>3, <1>4, <1>5, <1>6, <1>7 DEF RegistrationInv, RewrittenIsUnasked,
     WithdrawnIsOver, ApprovedIsAgreed, FoundedIsOver, IsFounded

LEMMA DecideStep ==
  ASSUME RegistrationInv, NEW user, NEW vote \in {"APPROVED", "REJECTED"}, Decide(user, vote)
  PROVE  RegistrationInv'
<1>1. /\ DOMAIN ballot' = DOMAIN ballot
      /\ \A slot \in DOMAIN ballot' : ballot'[slot] \in Votes
      /\ IsBallot(ballot', FormSlots)
  BY DEF Decide, RegistrationInv, RegistrationTypeOK, Answered, Waiting, IsBallot, Votes
<1>2. PICK slot \in DOMAIN ballot : ballot[slot] = "PENDING"
  BY DEF Decide, Waiting
<1>3. ~torn => IsLlc /\ DOMAIN ballot = Asked(application.payload)
  BY <1>2 DEF RegistrationInv, BallotIsOfForm
<1>4. /\ ~Agreed /\ wanted
      /\ ~torn => /\ application.consent # "APPROVED" /\ ~IsFounded
                  /\ application.status # "NEEDS_CHANGES"
                  /\ instance.state \notin Settled
  BY <1>2, <1>3 DEF RegistrationInv, ConsentIsAgreed, FoundedIsOver, WithdrawnIsOver,
     RewrittenIsUnasked, ApprovedIsAgreed, Agreed
<1>5. application'.consent \in Votes
        /\ (application'.consent = "APPROVED" =>
              application' = application \/ \A s \in DOMAIN ballot' : ballot'[s] = "APPROVED")
  <2>1. CASE application' = application
    BY <2>1 DEF RegistrationInv, RegistrationTypeOK
  <2>2. CASE application' = [application EXCEPT
               !.consent = ConsentProgress("registration", ballot', NoForm.shares)]
    <3>1. application'.consent = ConsentProgress("registration", ballot', NoForm.shares)
      BY <2>2 DEF RegistrationInv, RegistrationTypeOK
    <3> QED
      BY <1>1, <3>1, AgreedByTally, TallyIsVote
  <2> QED
    BY <2>1, <2>2 DEF Decide
<1>6. /\ application' \in Applications
      /\ application'.status = application.status
      /\ application'.payload = application.payload /\ (IsLlc' <=> IsLlc)
  BY <1>5 DEF Decide, RegistrationInv, RegistrationTypeOK, Applications, IsLlc
<1>7. UNCHANGED <<instance, company, wanted, torn>>
  BY DEF Decide
<1>8. ConsentIsAgreed' /\ BallotIsOfForm'
  BY <1>1, <1>3, <1>4, <1>5, <1>6, <1>7 DEF ConsentIsAgreed, BallotIsOfForm, Agreed,
     RegistrationInv
<1>9. AskedIsValid'
  <2>1. ~torn => ValidLlc(application.payload)
    BY <1>2, <1>3 DEF RegistrationInv, AskedIsValid
  <2> QED
    BY <1>6, <1>7, <2>1 DEF AskedIsValid, ValidLlc
<1>10. RegistrationTypeOK'
  BY <1>1, <1>6, <1>7 DEF RegistrationInv, RegistrationTypeOK, Applications, Instances
<1>11. RewrittenIsUnasked' /\ WithdrawnIsOver'
  BY <1>4, <1>6, <1>7 DEF RewrittenIsUnasked, WithdrawnIsOver
<1>12. ApprovedIsAgreed' /\ FoundedIsOver'
  BY <1>4, <1>6, <1>7 DEF RegistrationInv, ApprovedIsAgreed, FoundedIsOver, IsFounded
<1> QED
  BY <1>8, <1>9, <1>10, <1>11, <1>12 DEF RegistrationInv

LEMMA ReviewStep ==
  ASSUME RegistrationInv, NEW act, Review(act)
  PROVE  RegistrationInv'
<1>1. PICK step \in ReviewFlow \cup CompanyFlow :
        /\ step[1] = act /\ step[2] = instance.state
        /\ instance' = Moved(step[3])
        /\ LET told == [application EXCEPT !.status = ApplicationStatus(step[3])]
           IN  \/ UNCHANGED <<application, ballot, torn>>
               \/ /\ act # "request_changes"
                  /\ application' = told /\ UNCHANGED <<ballot, torn>>
               \/ /\ act = "request_changes"
                  /\ application' = told
                  /\ ballot' \in {ballot, NoRows} /\ torn' = TRUE
               \/ /\ act = "request_changes"
                  /\ application' = Reset(told) /\ ballot' = NoRows /\ torn' = FALSE
  BY DEF Review
<1> DEFINE told == [application EXCEPT !.status = ApplicationStatus(step[3])]
<1>2. /\ told \in Applications /\ Reset(told) \in Applications
      /\ told.status = ApplicationStatus(step[3])
      /\ told.payload = application.payload /\ told.type = application.type
      /\ told.consent = application.consent
      /\ Reset(told).status = ApplicationStatus(step[3])
      /\ Reset(told).payload = application.payload /\ Reset(told).type = application.type
      /\ Reset(told).consent = "PENDING"
  BY <1>1, FlowFacts DEF RegistrationInv, RegistrationTypeOK, OpenStatus, Votes, Reset,
     Applications
<1> HIDE DEF told
<1>3. \/ UNCHANGED <<application, ballot, torn>>
      \/ act # "request_changes" /\ application' = told /\ UNCHANGED <<ballot, torn>>
      \/ /\ act = "request_changes"
         /\ application' = told /\ ballot' \in {ballot, NoRows} /\ torn' = TRUE
      \/ /\ act = "request_changes"
         /\ application' = Reset(told) /\ ballot' = NoRows /\ torn' = FALSE
  BY <1>1 DEF told
<1>4. /\ instance'.state = step[3] /\ instance' \in Instances
      /\ instance'.state \in Settled => instance.state \in Settled
      /\ ApplicationStatus(step[3]) = "APPROVED" => instance'.state \in Settled
      /\ instance.state \in Settled => instance'.state \in Settled
  BY <1>1, FlowFacts, MovedFacts DEF Review, Settled
<1>5. /\ ~IsFounded /\ ~IsFounded' /\ UNCHANGED <<company, wanted>> /\ act # "approve"
      /\ act = "request_changes" => instance.state \notin Settled /\ instance'.state \notin Settled
      /\ ApplicationStatus(step[3]) = "NEEDS_CHANGES" => act = "request_changes"
  BY <1>1, <1>4, FlowFacts DEF Review, IsFounded, Settled
<1>6. /\ IsBallot(ballot', FormSlots) /\ application' \in Applications /\ torn' \in BOOLEAN
      /\ ballot' \in {ballot, NoRows} /\ application'.payload = application.payload
      /\ application'.type = application.type
      /\ application'.status \in {application.status, ApplicationStatus(step[3])}
      /\ application'.consent \in {application.consent, "PENDING"}
  BY <1>2, <1>3, NoRowsFacts DEF RegistrationInv, RegistrationTypeOK, Applications
<1>7. RegistrationTypeOK'
  BY <1>4, <1>5, <1>6 DEF RegistrationInv, RegistrationTypeOK, Applications, Instances
<1>8. ~torn' => \/ /\ ballot' = ballot /\ torn' = torn
                    /\ application'.consent = application.consent
                    /\ \/ application'.status = application.status
                       \/ /\ application'.status = ApplicationStatus(step[3])
                          /\ act # "request_changes"
                 \/ /\ DOMAIN ballot' = {} /\ application'.consent = "PENDING"
                    /\ act = "request_changes"
  <2>1. CASE UNCHANGED <<application, ballot, torn>>
    BY <2>1
  <2>2. CASE act # "request_changes" /\ application' = told /\ UNCHANGED <<ballot, torn>>
    BY <1>2, <2>2
  <2>3. CASE /\ act = "request_changes"
             /\ application' = Reset(told) /\ ballot' = NoRows /\ torn' = FALSE
    BY <1>2, <2>3, NoRowsFacts
  <2> QED
    BY <1>3, <2>1, <2>2, <2>3
<1>9. (IsLlc' <=> IsLlc) /\ (ValidLlc(application.payload) => ValidLlc(application.payload)')
  BY <1>6 DEF IsLlc, ValidLlc
<1>10. ConsentIsAgreed' /\ BallotIsOfForm'
  BY <1>6, <1>8, <1>9 DEF RegistrationInv, ConsentIsAgreed, BallotIsOfForm, Agreed
<1>11. AskedIsValid'
  BY <1>8, <1>9 DEF RegistrationInv, AskedIsValid
<1>12. RewrittenIsUnasked'
  BY <1>5, <1>8 DEF RegistrationInv, RewrittenIsUnasked
<1>13. WithdrawnIsOver'
  BY <1>5, <1>6, NoRowsFacts DEF RegistrationInv, WithdrawnIsOver
<1>14. ApprovedIsAgreed'
  BY <1>4, <1>5, <1>6, <1>8 DEF RegistrationInv, ApprovedIsAgreed
<1> QED
  BY <1>5, <1>7, <1>10, <1>11, <1>12, <1>13, <1>14 DEF RegistrationInv, FoundedIsOver

LEMMA AdministerStep ==
  ASSUME RegistrationInv, NEW act, Administer(act)
  PROVE  RegistrationInv'
<1>1. PICK step \in ReviewFlow \cup CompanyFlow :
        /\ step[2] = instance.state
        /\ instance' = Moved(step[3])
        /\ \/ UNCHANGED <<company, application>>
           \/ company' = CompanyStatus(step[3]) /\ UNCHANGED application
           \/ /\ company' = CompanyStatus(step[3])
              /\ application' = [application EXCEPT !.status = ApplicationStatus(step[3])]
  BY DEF Administer
<1>2. step[3] \in Settled /\ IsFounded /\ instance.state \in Settled
  BY <1>1, FlowFacts DEF Administer, RegistrationInv, FoundedIsOver, Settled
<1>3. /\ application' \in Applications
      /\ application'.status \in {application.status, ApplicationStatus(step[3])}
      /\ application'.payload = application.payload /\ application'.type = application.type
      /\ application'.consent = application.consent
  BY <1>1, FlowFacts DEF RegistrationInv, RegistrationTypeOK, OpenStatus, Applications
<1>4. instance'.state = step[3] /\ instance' \in Instances
  BY <1>1, FlowFacts, MovedFacts
<1>5. UNCHANGED <<ballot, wanted, torn>>
  BY DEF Administer
<1>6. company' \in {"ACTIVE", "SUSPENDED", "ARCHIVED"}
  BY <1>1, <1>2, FlowFacts DEF RegistrationInv, RegistrationTypeOK, IsFounded
<1>7. ApplicationStatus(step[3]) \notin {"none", "NEEDS_CHANGES"}
  BY <1>2 DEF ApplicationStatus, Settled
<1>8. (IsLlc' <=> IsLlc) /\ (Agreed => Agreed')
        /\ (ValidLlc(application.payload) => ValidLlc(application.payload)')
  BY <1>3, <1>5 DEF IsLlc, Agreed, ValidLlc
<1>9. RegistrationTypeOK'
  BY <1>3, <1>4, <1>5, <1>6 DEF RegistrationInv, RegistrationTypeOK, Applications, Instances
<1>10. BallotIsOfForm' /\ ConsentIsAgreed' /\ AskedIsValid'
  BY <1>3, <1>5, <1>8 DEF RegistrationInv, BallotIsOfForm, ConsentIsAgreed, AskedIsValid
<1>11. RewrittenIsUnasked' /\ WithdrawnIsOver' /\ ApprovedIsAgreed'
  BY <1>2, <1>3, <1>4, <1>5, <1>7 DEF RegistrationInv, RewrittenIsUnasked, WithdrawnIsOver,
     ApprovedIsAgreed
<1>12. FoundedIsOver'
  BY <1>2, <1>3, <1>4, <1>5, <1>6, <1>7, <1>8 DEF RegistrationInv, FoundedIsOver
<1> QED
  BY <1>9, <1>10, <1>11, <1>12 DEF RegistrationInv

LEMMA ApproveStep ==
  ASSUME RegistrationInv, Approve \/ CreateMissingCompany
  PROVE  RegistrationInv'
<1>1. /\ application.consent = "APPROVED" /\ application.status # "none"
      /\ UNCHANGED <<ballot, wanted, torn>>
  BY DEF Approve, CreateMissingCompany, Found
<1>2. /\ wanted
      /\ ~torn => application.status # "NEEDS_CHANGES"
      /\ ~torn /\ IsLlc => Agreed /\ ValidLlc(application.payload)
  BY <1>1 DEF RegistrationInv, ConsentIsAgreed, WithdrawnIsOver, RewrittenIsUnasked, AskedIsValid
<1>3. /\ instance' \in Instances
      /\ instance'.state \in {"approved", "under_review"}
  BY SomeStates, MovedFacts DEF Approve, CreateMissingCompany, RegistrationInv,
     RegistrationTypeOK, Instances
<1>4. /\ application' \in Applications
      /\ application'.status \in {application.status, "APPROVED", "UNDER_REVIEW"}
      /\ application'.payload = application.payload /\ application'.type = application.type
      /\ application'.consent = "APPROVED"
  BY <1>1 DEF Approve, CreateMissingCompany, RegistrationInv, RegistrationTypeOK, OpenStatus,
     Applications
<1>5. application'.status = "APPROVED" => instance'.state = "approved"
  BY SomeStates, MovedFacts DEF Approve, CreateMissingCompany, RegistrationInv,
     RegistrationTypeOK, ApprovedIsAgreed, Settled
<1>6. /\ company' \in {"none", "ACTIVE"}
      /\ company' = "ACTIVE" => instance'.state = "approved"
  BY SomeStates, MovedFacts DEF Approve, CreateMissingCompany, Found, NotFounded, IsFounded
<1>7. (IsLlc' <=> IsLlc) /\ (Agreed => Agreed')
        /\ (ValidLlc(application.payload) => ValidLlc(application.payload)')
  BY <1>1, <1>4 DEF IsLlc, Agreed, ValidLlc
<1>8. RegistrationTypeOK'
  BY <1>1, <1>3, <1>4, <1>6 DEF RegistrationInv, RegistrationTypeOK, Applications, Instances
<1>9. BallotIsOfForm' /\ ConsentIsAgreed' /\ AskedIsValid'
  BY <1>1, <1>2, <1>4, <1>7 DEF RegistrationInv, BallotIsOfForm, ConsentIsAgreed, AskedIsValid
<1>10. RewrittenIsUnasked' /\ WithdrawnIsOver' /\ ApprovedIsAgreed'
  BY <1>1, <1>2, <1>4, <1>5 DEF RegistrationInv, RewrittenIsUnasked, WithdrawnIsOver,
     ApprovedIsAgreed, Settled
<1>11. FoundedIsOver'
  BY <1>1, <1>2, <1>4, <1>6, <1>7 DEF FoundedIsOver, IsFounded, Settled
<1> QED
  BY <1>8, <1>9, <1>10, <1>11 DEF RegistrationInv

LEMMA RegistrationStep ==
  ASSUME PayloadsAssumption, RegistrationInv, [RegistrationNext]_core
  PROVE  RegistrationInv'
<1>1. CASE \/ \E form \in Payloads : CreateApplication(form) \/ UpdateApplication(form)
           \/ Resubmit
  BY <1>1, CreateStep, UpdateStep, ResubmitStep
<1>2. CASE Withdraw
  BY <1>2, WithdrawStep
<1>3. CASE \E user \in Users, vote \in {"APPROVED", "REJECTED"} : Decide(user, vote)
  BY <1>3, DecideStep
<1>4. CASE \E act \in Acts : Review(act) \/ Administer(act)
  BY <1>4, ReviewStep, AdministerStep
<1>5. CASE Approve \/ CreateMissingCompany
  BY <1>5, ApproveStep
<1>6. CASE UNCHANGED core
  BY <1>6 DEF core, RegistrationInv, RegistrationTypeOK, BallotIsOfForm, ConsentIsAgreed,
     AskedIsValid, RewrittenIsUnasked, WithdrawnIsOver, ApprovedIsAgreed, FoundedIsOver,
     IsFounded, IsLlc, Agreed, ValidLlc
<1> QED
  BY <1>1, <1>2, <1>3, <1>4, <1>5, <1>6 DEF RegistrationNext

\* A step that founds the company.
LEMMA FoundingIsWanted ==
  ASSUME RegistrationInv, [RegistrationNext]_core, ~IsFounded, IsFounded'
  PROVE  wanted
<1>1. Approve \/ CreateMissingCompany
  BY DEF RegistrationNext, core, CreateApplication, UpdateApplication, Resubmit, Withdraw,
     Decide, Review, Administer, IsFounded
<1>2. application.consent = "APPROVED"
  BY <1>1 DEF Approve, CreateMissingCompany, Found
<1> QED
  BY <1>2 DEF RegistrationInv, WithdrawnIsOver
=============================================================================
