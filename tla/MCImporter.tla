------------------------------ MODULE MCImporter ------------------------------
EXTENDS LateAnswers

\* A download that stalls for want of seeds and recovers.
StallingLife == <<"downloading", "error", "completed">>
===============================================================================
