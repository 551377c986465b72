------------------------------ MODULE MCThread ------------------------------
EXTENDS Thread

Both == {"check", "poll"}
=============================================================================
