---------------------------- MODULE MCLspClient ----------------------------
(* Two requests that end differently, and one call that is a notification or *)
(* a reply; one frame fits on the way out, one message on the way back.      *)
EXTENDS LspClient
=============================================================================
