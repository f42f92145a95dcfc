------------------------------ MODULE MCStream ------------------------------
EXTENDS Stream
MCText == <<"r", "r", "n">>
MCEols == {<<"n">>, <<"r", "n">>}
=============================================================================
