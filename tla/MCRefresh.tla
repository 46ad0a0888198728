------------------------------ MODULE MCRefresh -------------------------------
EXTENDS Refresh

PlainLife == <<"downloading", "completed">>
===============================================================================
