----------------------------- MODULE MCPageDriver -----------------------------
(* Two loads of at most two requests each, in every configuration in which *)
(* the proxy, if there is one, is connected first.                         *)
EXTENDS PageDriver

Conf(s, p, f) == [shadow |-> s, proxy |-> p, first |-> f]

MCConfs == {Conf(TRUE, FALSE, TRUE), Conf(TRUE, TRUE, TRUE), Conf(FALSE, FALSE, TRUE)}
MCProxyLate == {Conf(TRUE, TRUE, FALSE)}
===============================================================================
