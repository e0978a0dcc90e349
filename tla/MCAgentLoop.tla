---------------------------- MODULE MCAgentLoop ----------------------------
(***************************************************************************)
(* AgentLoop with a model that asks for one or two tools a turn.           *)
(***************************************************************************)
EXTENDS AgentLoop

MCMaxCalls == [k \in {"search", "read", "command"} |->
                 IF k = "command" THEN 2 ELSE 1]

MCRequests ==
  {<<"command">>, <<"read", "command">>, <<"command", "search">>,
   <<"list", "list">>}

=============================================================================
