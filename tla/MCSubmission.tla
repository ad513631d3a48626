---------------------------- MODULE MCSubmission ----------------------------
(* Submission, for TLC: every shape of prompt _dataset_from_prompt tells apart. *)
EXTENDS Submission

MCPrompts == {
    <<"plot">>,
    <<"plot", "hint">>,
    <<"plot", "rucio", "ds1", "stop">>,
    <<"plot", "rucio", "ds1", "line", "text">>,
    <<"plot", "rucio", "line", "ds1">>,
    <<"rucio", "ds1", "line", "rucio", "ds2">>,
    <<"plot", "rucio", "stop">>}

MCFormDatasets == {<<"form">>, <<"blank", "form", "blank">>}

Config == [default_dataset |-> <<"default">>, candidates |-> <<>>,
           model |-> "gpt", repair_cycles |-> 1,
           image |-> [servicex_awkward |-> "awk", rdf |-> "rdf"],
           global_fallback_image |-> "any", docker_image |-> "old"]

Plain    == [prompt |-> <<"plot">>, dataset |-> <<>>]
Naming   == [prompt |-> <<"plot", "rucio", "example">>, dataset |-> <<>>]
Declared == [prompt |-> <<"plot">>, dataset |-> <<"declared">>]

Missing   == [content |-> "none", questions |-> <<>>]
Blank     == [content |-> "blank", questions |-> <<>>]
Text(q)   == [content |-> "text", questions |-> q]

\* The candidates of a package: its direct files and its fallback files.
Package(direct, fallbacks) ==
    [i \in DOMAIN direct |-> [direct |-> direct[i], fallbacks |-> fallbacks]]

MCCandidates == {
    <<>>,
    Package(<<Blank, Text(<<Plain, Naming>>)>>, <<>>),
    Package(<<Missing, Text(<<Declared, Naming>>)>>, <<Blank, Text(<<Plain, Naming>>)>>),
    Package(<<Missing, Missing>>, <<Blank, Text(<<Declared>>)>>)
        \o Package(<<Missing, Missing>>, <<Missing, Text(<<Plain, Naming>>)>>),
    Package(<<Text(<<>>), Text(<<Plain>>)>>, <<Text(<<Declared>>)>>)}

\* Every source of a default dataset, every choice of image, no model.
MCConfigs ==
    {[Config EXCEPT !.default_dataset = d, !.candidates = c] :
        d \in {<<>>, <<"default">>}, c \in MCCandidates}
    \cup
    {[Config EXCEPT !.image = [servicex_awkward |-> a, rdf |-> r],
                    !.global_fallback_image = f[1], !.docker_image = f[2]] :
        a \in {"", "awk"}, r \in {"", " ", "rdf"},
        f \in {<<"", "">>, <<"", "old">>, <<"any", "old">>}}
    \cup
    {[Config EXCEPT !.default_dataset = d] : d \in {<<"blank", "default">>, <<"blank">>}}
    \cup
    {[Config EXCEPT !.model = ""], [Config EXCEPT !.repair_cycles = 0]}
=============================================================================
