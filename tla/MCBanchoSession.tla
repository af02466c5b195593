-------------------------- MODULE MCBanchoSession --------------------------
(* What the server says: logins that succeed, fail, have no verdict or ask  *)
(* for another one, and later answers that are empty, end the session or    *)
(* switch the websocket.                                                   *)
EXTENDS BanchoSession

MCBodies ==
  {<<>>, <<"accepted", "data">>, <<"accepted", "restricted", "data">>, <<"accepted", "restart", "data">>,
   <<"refused">>, <<"refused", "restart">>, <<"restart", "refused">>}
MCPushes == {<<>>, <<"logout">>, <<"switch", "restart">>, <<"restricted", "data">>}
=============================================================================
