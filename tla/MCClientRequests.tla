-------------------------- MODULE MCClientRequests --------------------------
(***************************************************************************)
(* One client that sends two requests, one after the other or as a batch,  *)
(* over one connection to bitcoind that breaks once.  The high mark is one *)
(* request, so the second item of a batch has to wait for the first when   *)
(* that goes to bitcoind; the pool takes one job.                          *)
(***************************************************************************)
EXTENDS ClientRequests
=============================================================================
