------------------------------ MODULE MCSubmit ------------------------------
(* Instance of Submit: buffers of a few bytes, and the answers that matter. *)
EXTENDS Submit

EOL == <<"\r", "\n">>

MCResponses ==
  { << >>,                                                  \* the server says nothing
    <<"200">> \o EOL \o EOL \o <<"OK">>,                    \* accepted
    <<"200">> \o EOL \o <<"x">> \o EOL \o EOL \o <<"OK">>,
    <<"200">> \o EOL \o EOL \o <<"OK", "\n">>,              \* OK, and a newline
    <<"200">> \o EOL \o EOL \o <<"x">>,                     \* refused
    <<"404">> \o EOL \o EOL \o <<"OK">>,
    <<"200">> \o EOL \o <<"OK">>,                           \* no empty line
    \* a header that fills buf, so that its end looks like the empty line
    <<"200">> \o EOL \o <<"x", "x", "x", "x", "x">> \o EOL \o <<"OK">> }

MCResults == { <<"letter">>, <<"odd">>, <<"control">>, <<"odd", "blank">> }
=============================================================================
