---------------------------- MODULE MCHttpExchange ----------------------------
(* Four requests on one connection, with bodies of up to four bytes and a *)
(* response without a body among them, so that drops take several pieces. *)
EXTENDS HttpExchange

MCReqBody == << 1, 4, 2, 3 >>
MCRspBody == << 2, 0, 4, 3 >>
===============================================================================
