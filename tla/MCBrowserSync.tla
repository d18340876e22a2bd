--------------------------- MODULE MCBrowserSync ----------------------------
(* Small instances of BrowserSync for TLC.  A tick stands for a minute.      *)
EXTENDS BrowserSync

CONSTANT c1
=============================================================================
