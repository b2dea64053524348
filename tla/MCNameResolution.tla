-------------------------- MODULE MCNameResolution --------------------------
EXTENDS NameResolution, FormatSize

MCHosts == {<<>>, <<"quay.io">>, <<"registry.io", ":", "5000">>}
MCPaths == {<<"app">>, <<"org", "/", "app">>}
MCTags == {<<>>, <<"v1">>}
MCDigests == {<<>>, <<"@", "sha256", ":", "beef">>}

(* Byte counts on both sides of each unit and precision threshold, on    *)
(* rounding ties, and where rounding carries to the next threshold.      *)
MCSizeInputs ==
    {0, 1, 999, 1000, 1005, 1006, 9994, 9995, 9999, 10000, 10050, 99949, 99950,
     99999, 100000, 100500, 999499, 999500, 999999, 1000000, 1234567,
     999999999, 1000000000, 1999999999}

(* get_image_display_name and format_size side by side: both are pure    *)
(* helpers of the report, and a step is a step of one of them.           *)
MCInit == Init /\ FsInit
MCNext == (Next /\ UNCHANGED fsVars) \/ (FsNext /\ UNCHANGED vars)
MCSpec == MCInit /\ [][MCNext]_<<vars, fsVars>>
=============================================================================
