---------------------------- MODULE MCKeyScanner ----------------------------
EXTENDS KeyScanner
=============================================================================
