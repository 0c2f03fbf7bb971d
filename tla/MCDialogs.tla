----------------------------- MODULE MCDialogs ------------------------------
EXTENDS Dialogs
=============================================================================
