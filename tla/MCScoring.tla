----------------------------- MODULE MCScoring -----------------------------
(* Two domains of an audit, three passwords (one of them empty) and what    *)
(* BloodHound may say of their accounts.                                    *)
EXTENDS Scoring, TLC

MCAccounts == {"ann", "ben", "cal"} \X {"corp"} \cup {"dan", "eve"} \X {"lab"}
ann == <<"ann", "corp">>
ben == <<"ben", "corp">>
cal == <<"cal", "corp">>
dan == <<"dan", "lab">>
eve == <<"eve", "lab">>

MCSecrets ==
    ("weak" :> [length |-> 6, complexity |-> 90, common |-> TRUE, dictionary |-> TRUE,
                banned |-> 1, keyboard |-> 0])
    @@ ("strong" :> [length |-> 16, complexity |-> 20, common |-> FALSE, dictionary |-> FALSE,
                     banned |-> 0, keyboard |-> 1])
    @@ ("empty" :> [length |-> 0, complexity |-> 100, common |-> FALSE, dictionary |-> FALSE,
                    banned |-> 0, keyboard |-> 0])
MCHashes == DOMAIN MCSecrets
MCAlike == [pair \in MCHashes \X MCHashes |-> IF "empty" \in {pair[1], pair[2]} THEN 0 ELSE 80]
MCSeen == [h \in MCHashes |-> IF h = "weak" THEN 12 ELSE 0]
MCRiskOf == [d \in {"corp", "lab"} |-> IF d = "corp" THEN "High" ELSE "Low"]

Line(h, c) == [hash |-> h, cracked |-> c]
MCDumps == {
    ann :> Line("weak", FALSE) @@ ben :> Line("weak", FALSE) @@ cal :> Line("strong", FALSE),
    ann :> Line("weak", TRUE) @@ ben :> Line("weak", TRUE) @@ cal :> Line("weak", TRUE),
    ann :> Line("empty", FALSE) @@ ben :> Line("strong", TRUE),
    dan :> Line("weak", FALSE) @@ eve :> Line("strong", FALSE),
    dan :> Line("strong", TRUE) @@ eve :> Line("empty", FALSE)
}
MCCrackFiles == {{"weak"}, {"weak", "strong"}}

Node == [NotCovered EXCEPT !.covered = TRUE]
MCGraphs == {
    Unenriched,
    [a \in MCAccounts |-> CASE a = dan -> [Node EXCEPT !.da = TRUE, !.age = 800]
                            [] a = ann -> [Node EXCEPT !.enabled = FALSE, !.controlled = 60]
                            [] OTHER -> Node],
    [a \in MCAccounts |-> CASE a = cal -> [Node EXCEPT !.tier0 = TRUE, !.spn = TRUE, !.preauth = TRUE]
                            [] a = ben -> [Node EXCEPT !.da = TRUE, !.enabled = FALSE]
                            [] a = dan -> [Node EXCEPT !.controlled = 600]
                            [] OTHER -> [NotCovered EXCEPT !.enabled = FALSE]]
}
MCUserExports == {ann :> [enabled |-> {FALSE}, age |-> 2000, controlled |-> 0, spn |-> TRUE, preauth |-> FALSE]
                  @@ dan :> [enabled |-> {}, age |-> 0, controlled |-> 11, spn |-> FALSE, preauth |-> TRUE]}

DataOnly == {[k \in Kinds |-> IF k = "data" THEN 4 ELSE 0]}
=============================================================================
