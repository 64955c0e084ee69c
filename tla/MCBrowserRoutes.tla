-------------------------- MODULE MCBrowserRoutes --------------------------
(* One surface whose queues are as short as they can be, and three events: *)
(* enough for a frame that is replaced, an overflow of each queue, and a   *)
(* Closed event that does not get through.                                 *)
EXTENDS BrowserRoutes
CONSTANTS page
=============================================================================
