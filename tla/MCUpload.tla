------------------------------ MODULE MCUpload ------------------------------
EXTENDS Upload
=============================================================================
