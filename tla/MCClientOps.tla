---------------------------- MODULE MCClientOps -----------------------------
(***************************************************************************)
(* Three servers in two groups; one of each kind of call.                  *)
(***************************************************************************)
EXTENDS ClientOps

MCGroup    == [s \in Servers |-> IF s = 3 THEN 2 ELSE 1]
MCFaults   == [k \in {"write", "cdb", "command", "newest", "statuses", "read"} |->
                 IF k \in {"cdb", "newest"} THEN 0 ELSE 1]
MCPref     == <<1>>
MCVersions == {<<1, 2, 2>>, <<2, 1, 1>>, <<2, 0, 2>>}
MCModes    == {<<"write", TRUE>>, <<"cdb", TRUE>>, <<"cdb", FALSE>>, <<"command", TRUE>>,
               <<"newest", TRUE>>, <<"statuses", TRUE>>, <<"read", TRUE>>}
============================================================================
