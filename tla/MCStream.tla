------------------------------ MODULE MCStream ------------------------------
(* Stream for TLC: bodies that end well, are cut off, carry extra empty      *)
(* lines, or are no event stream at all.                                      *)
EXTENDS Stream

MCBodies == {<<"data", "token", "nl", "nl", "data", "done", "nl", "nl">>,
             <<"data", "token", "nl", "nl", "data", "done", "nl">>,
             <<"nl", "data", "token", "nl", "nl", "nl", "data", "done", "nl", "nl">>,
             <<"other", "nl", "data", "done", "nl", "nl">>,
             <<"other">>,
             <<>>}

=============================================================================
