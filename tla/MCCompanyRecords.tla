-------------------------- MODULE MCCompanyRecords --------------------------
(***************************************************************************)
(* Values for the runs of CompanyRecords: two users, and a holding company *)
(* one of them signs for. A unit is one half.                              *)
(***************************************************************************)
EXTENDS CompanyRecords, TLC

CONSTANTS ann, bob, corp

MCParties   == {ann, bob, corp}
MCPersons   == {ann, bob}
MCSignatory == ann :> ann @@ bob :> bob @@ corp :> bob

Hold(ratio, votes) == [ratio |-> ratio, votes |-> votes]

\* Two shareholders, one of them without a vote, a supervisor, a financial officer.
Joint == [type   |-> "llc",
          shares |-> ann :> Hold(1, 2) @@ corp :> Hold(1, 0),
          posts  |-> {<<"LEGAL_REPRESENTATIVE", ann>>, <<"DIRECTOR", ann>>,
                      <<"SUPERVISOR", bob>>, <<"FINANCIAL_OFFICER", ann>>}]

\* One shareholder who does it all.
Single == [type   |-> "llc",
           shares |-> bob :> Hold(2, 2),
           posts  |-> {<<"LEGAL_REPRESENTATIVE", bob>>, <<"DIRECTOR", bob>>,
                       <<"MANAGER", bob>>}]

\* The supervisor is a director: refused.
Biased == [Joint EXCEPT !.posts = {<<"LEGAL_REPRESENTATIVE", ann>>,
                                   <<"DIRECTOR", ann>>, <<"SUPERVISOR", ann>>}]

\* A company of another type.
Plain == [NoForm EXCEPT !.type = "other"]

\* A form that names no type: half of the company is nobody's, and the director
\* supervises. No limited liability company may be founded so.
Loose == [type   |-> "none",
          shares |-> ann :> Hold(1, 1),
          posts  |-> {<<"LEGAL_REPRESENTATIVE", ann>>, <<"DIRECTOR", ann>>,
                      <<"SUPERVISOR", ann>>}]

MCPayloads == {Joint, Single, Biased, Plain, Loose}

\* Boards that are accepted: the two seats swapped, or one director alone.
Swapped == {<<"DIRECTOR", bob>>, <<"SUPERVISOR", ann>>}
Alone   == {<<"DIRECTOR", ann>>}
\* Refused: no director, the director supervises.
MCBoards == {Swapped, Alone, {<<"SUPERVISOR", ann>>},
             {<<"DIRECTOR", bob>>, <<"SUPERVISOR", bob>>}}

MCTeams == {{}, {<<"MANAGER", ann>>},
            {<<"MANAGER", bob>>, <<"FINANCIAL_OFFICER", ann>>}}

\* Bound: once a change is applied for, the registration is followed no further
\* where it was torn or the administration of the company was cut off. A change
\* looks at nothing of it but the status of the company.
InStep ==
  changes # << >> =>
    /\ ~torn
    /\ company = CompanyStatus(instance.state)
    /\ application.status = ApplicationStatus(instance.state)
=============================================================================
