-------------------------------- MODULE MCWeb -------------------------------
(* A root group, a group with a fixed prefix, one with a parameter, paths    *)
(* with a part ("v10") that continues the prefix of a group, and paths with  *)
(* a slash more than they need.                                              *)
EXTENDS Web

MCGroups == << <<"">>, <<"", "v1">>, <<"", ":lang">> >>
MCComps == {<<"", "">>, <<"", "a">>, <<"", ":x", "a">>, <<"", "*f", "a">>}
MCExtends == {<<"v10", "v1">>}
MCPaths == {<<"", "">>, <<"", "v1">>, <<"", "a">>, <<"", "v1", "a">>,
            <<"", "v10", "a">>, <<"", "v1", "b", "">>, <<"", "", "v1", "a">>,
            <<"", "v1", "b", "a">>, <<"", "b", "a", "a">>}
=============================================================================
