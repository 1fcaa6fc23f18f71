---------------------------- MODULE InjectTemplate ----------------------------
(***************************************************************************)
(* The template OpRunner.inject hands to op and what it reads back: each   *)
(* reference stands between two sentinels on lines of their own.  The uuid *)
(* in them is fresh, so no value holds a sentinel; {{ ref }} is one        *)
(* character of the template.                                              *)
(***************************************************************************)
EXTENDS Integers, Sequences, SequencesExt

BEGIN(i) == <<"BEGIN", i>>
END(i) == <<"END", i>>

BuildTemplate(refs) ==
    FlattenSeq([i \in DOMAIN refs |->
        <<BEGIN(i), <<"\n">>, <<"ref", refs[i]>>, <<"\n">>, END(i), <<"\n">>>>])

(* op inject: every reference gives way to the value it names. *)
Rendered(template, vault) ==
    FlattenSeq([i \in DOMAIN template |->
        IF template[i][1] # "ref" THEN <<template[i]>>
        ELSE LET value == vault[template[i][2]] IN [k \in DOMAIN value |-> <<value[k]>>]])

(* BEGIN_i, a newline, as little as possible, a newline, END_i *)
Matches(stdout, i) ==
    {m \in (DOMAIN stdout) \X (DOMAIN stdout) :
        /\ stdout[m[1]] = BEGIN(i) /\ stdout[m[2]] = END(i)
        /\ m[1] + 2 < m[2]
        /\ stdout[m[1] + 1] = <<"\n">> /\ stdout[m[2] - 1] = <<"\n">>}

(* A bug: the value is trimmed like the output of the other calls. *)
CapturedTrimmed(stdout, m) ==
    SelectSeq(SubSeq(stdout, m[1] + 2, m[2] - 2), LAMBDA c : c # <<"\n">>)

Captured(stdout, m) == SubSeq(stdout, m[1] + 2, m[2] - 2)

ParseOutput(stdout, refs) ==
    LET found == {i \in DOMAIN refs : Matches(stdout, i) # {}}
        value(i) == LET text == Captured(stdout, CHOOSE m \in Matches(stdout, i) :
                                                    \A o \in Matches(stdout, i) : m[2] <= o[2])
                    IN [k \in DOMAIN text |-> text[k][1]]
    IN [r \in {refs[i] : i \in found} |-> value(CHOOSE i \in found : refs[i] = r)]
=============================================================================
