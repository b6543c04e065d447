-------------------------- MODULE MCTerminalSession --------------------------
EXTENDS TerminalSession, TLC
=============================================================================
