--------------------------------- MODULE MCFtp ---------------------------------
(* A server with one slot and two passive ports; the user of c1 makes calls, *)
(* the user of c2 only connects.                                             *)
EXTENDS FtpClient

CONSTANTS c1, c2

MCRows == {<<"alice", "secret">>}
MCMaxCommands == c1 :> 4 @@ c2 :> 0
MCMaxTimeouts == c1 :> 1 @@ c2 :> 0
MCCalls ==
  {<<"Login", "alice", "secret">>, <<"Rename", "a", "b">>, <<"Epsv">>, <<"ReadReply">>,
   <<"RETR", "a">>, <<"STOR", "a">>, <<"LIST", "">>, <<"NOOP">>, <<"CWD", "..", "b">>,
   <<"PORT", "addr">>, <<"DELE", "a">>, <<"MKD", "b">>, <<"SIZE", "a">>, <<"REST", "1">>,
   <<"TYPE", "I">>, <<"Connect", "explicit", "P", "", "">>,
   <<"Connect", "implicit", "P", "alice", "secret">>}
===============================================================================
