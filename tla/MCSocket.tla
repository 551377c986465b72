------------------------------ MODULE MCSocket ------------------------------
EXTENDS Socket

BaseKinds == {"unix", "raw", "loop"}
=============================================================================
