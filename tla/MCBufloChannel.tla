---------------------------- MODULE MCBufloChannel ----------------------------
(* Small instances of BufloChannel: a cell of three bytes, two of payload, *)
(* so that writes stop inside cells and payloads leave room for padding.   *)
EXTENDS BufloChannel

(* A client hears what a server sends, and the reverse.                    *)
MCPeerFlags ==
  [r \in Role |-> IF r = "CSP" THEN {{}, {"AUTO_STOPPED"}, {"DONE"}}
                               ELSE {{}, {"START"}, {"STOP"}}]
=============================================================================
