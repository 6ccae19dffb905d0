--------------------------- MODULE RendererProtocol ---------------------------
(***************************************************************************)
(* What the driver may expect of a renderer: a page is loading, loaded or  *)
(* has failed, once each between two resets; requests are announced and    *)
(* ended only while it is loading or loaded; after a failure there is      *)
(* silence.  The web engine implements this, and the driver is checked     *)
(* against it.                                                             *)
(***************************************************************************)
EXTENDS Naturals

CONSTANT MaxOpen   \* bound on requests that are open at once

VARIABLES phase,   \* "idle", "loading", "loaded" or "failed"
          open     \* requests announced and not yet reported finished

RInit == phase = "idle" /\ open = 0

(* The main resource is requested at once.                                 *)
Begin == phase = "idle" /\ phase' = "loading" /\ open' = 1

(* Requests are sent and end; the page may go on after it is loaded.       *)
Work ==
  /\ phase \in {"loading", "loaded"} /\ open' \in 0..MaxOpen /\ open' # open
  /\ UNCHANGED phase

(* The load event; scopes it runs may send requests.                       *)
Loaded == phase = "loading" /\ phase' = "loaded" /\ open' \in open..MaxOpen

(* The main resource failed; all other requests are forgotten.             *)
Failed == phase = "loading" /\ phase' = "failed" /\ open' = 0

Forget == phase' = "idle" /\ open' = 0

RNext == Begin \/ Work \/ Loaded \/ Failed \/ Forget

RSpec == RInit /\ [][RNext]_<< phase, open >>
===============================================================================
