--------------------------- MODULE MCInjectionGen ---------------------------
\* Instances of InjectionGen for TLC: two API packages, as for core/v1 and
\* storage/v1, of which the first has two types.
EXTENDS InjectionGen

MCInputDirs ==
    <<[group |-> "core", version |-> "v1", types |-> <<"persistentvolume", "pod">>],
      [group |-> "storage", version |-> "v1", types |-> <<"storageclass">>]>>

AllTagSets ==
    {{}, {"genclient", "list", "watch"}, {"genclient", "list"}, {"genclient", "list", "watch", "noVerbs"}, {"genduck"}}
=============================================================================
