----------------------------- MODULE MCDesktop -----------------------------
(***************************************************************************)
(* The desktop application with two supervisor processes, one automatic    *)
(* reconnection in a row and two events from outside: enough for a crash   *)
(* followed by an edit of the proxy, a service that dies under a start and *)
(* again under the reconnection, or an application that ends twice.        *)
(***************************************************************************)
EXTENDS DesktopController

MCProcs == 1 .. 2
=============================================================================
