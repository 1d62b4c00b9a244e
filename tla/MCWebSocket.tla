----------------------------- MODULE MCWebSocket -----------------------------
(* What the server may send in the runs of WebSocket: whole messages and    *)
(* one in two parts, a ping, a closing frame, a frame that breaks the       *)
(* protocol, and every way in which it may end or be lost.                  *)
EXTENDS WebSocket

MCScripts == {<<"accept", "text", "binary">>,
              <<"accept", "firstBinary", "continuation">>,
              <<"accept", "ping", "close">>,
              <<"accept", "text", "eof">>,
              <<"accept", "bad">>,
              <<"refuse">>,
              <<"accept", "reset">>,
              <<"accept", "gone">>,
              <<"unreachable">>,
              <<"eof">>}
=============================================================================
