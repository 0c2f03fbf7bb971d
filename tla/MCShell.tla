---- MODULE MCShell ----
EXTENDS Shell
====
