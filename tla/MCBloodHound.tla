---------------------------- MODULE MCBloodHound ----------------------------
(* Two accounts and two domains; three states of the BloodHound database.  *)
EXTENDS BloodHound

MCForest == <<"corp", "lab">>
MCPeople == {"pat", "quin"}

Known == [Absent EXCEPT !.found = TRUE, !.enabled = TRUE, !.candidate = TRUE]

\* A path that only the sweep finds, to Domain Admins of the second domain and to
\* another anchor; and a member of Domain Admins who is no candidate.
Reaching == [Known EXCEPT !.total = 3, !.direct = 1, !.reach = {<<"lab", "da">>, <<"corp", "node">>}]
Everywhere == [Known EXCEPT !.total = 1, !.members = {"corp"},
                            !.reach = {<<"corp", "da">>, <<"lab", "da">>}]
Hidden == [Known EXCEPT !.total = 2, !.direct = 2, !.reach = {<<"lab", "node">>}]
Shallow == [Known EXCEPT !.total = 1, !.direct = 1, !.reach = {<<"corp", "group">>}]
Quiet == [Known EXCEPT !.enabled = FALSE, !.candidate = FALSE, !.total = 3, !.direct = 1,
                       !.control = TRUE, !.reach = {<<"corp", "group">>}]

MCDirectories == {
    [p \in MCPeople |-> IF p = "pat" THEN Reaching ELSE Quiet],
    [p \in MCPeople |-> IF p = "pat" THEN Hidden ELSE Absent],
    [p \in MCPeople |-> IF p = "pat" THEN Everywhere ELSE Shallow]
}

Enriching == {[k \in Kinds |-> IF k = "bhe" THEN 2 ELSE IF k = "fault" THEN 2 ELSE 0]}
=============================================================================
