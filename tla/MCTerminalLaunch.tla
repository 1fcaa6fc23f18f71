--------------------------- MODULE MCTerminalLaunch ---------------------------
(***************************************************************************)
(* The variables A and B, and one that no env file can hold.  The texts of *)
(* two characters are enough for an escape and what follows it.            *)
(***************************************************************************)
EXTENDS TerminalLaunch

A == <<"A">>
B == <<"B">>
Odd == <<"A", Blank, "B">>
MCKeys == {A, B, Odd}
MCRefs == {"op://1", "op://2"}
MCChar == FormatCharacters \cup MCRefs
MCStyles == {"plain", "exported", "quoted"}

Secret == {"\\", Quote, "$", "\n", "n"}
MCVaults == {"op://1" :> v @@ "op://2" :> <<"x", "\n">> : v \in UNION {[1..n -> Secret] : n \in 0..2}}

MCFileEnvs == {None, (A :> <<"op://1">> @@ B :> <<"x", "$">>)}
MCLaunchEnvs == {None, (A :> <<"op://1">>), (B :> <<"op://2">>), (A :> None @@ B :> <<"x">>),
                 (Odd :> <<"op://1">>)}
MCOwn == <<"r">>
MCInherited == {<<>>, (A :> <<"n">>)}

MCDelays == {0, 10}
MCMarkerTexts == {example.text : example \in Examples}
MCSettings == {None, <<Word("term")>>}

(* Every text of the vault with one marker; every marker with a few texts, up  *)
(* to the request, which no longer depends on it.                             *)
OneMarker ==
    given.marker = None /\ given.setting = None /\ given.field = None /\ given.account = None
FewTexts == \A r \in MCRefs : given.vault[r] \in {<<"n">>, <<"x", "\n">>}
Separate == OneMarker \/ (FewTexts /\ request = None)
=============================================================================
