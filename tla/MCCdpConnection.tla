-------------------------- MODULE MCCdpConnection --------------------------
(* Two calls, one of them with a frame barrier, a cast and a flush.        *)
EXTENDS CdpConnection
CONSTANTS plain, barrier, ack, flushing
=============================================================================
