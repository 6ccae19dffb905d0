---------------------------- MODULE MCStreamRelay ----------------------------
(* Both builds.  In Shadow a socket that is read after its end of file     *)
(* reports an error (the poll then ends the connection) or nothing.        *)
EXTENDS StreamRelay

Conf(sh, a, sp) == [shadow |-> sh, after |-> a, splits |-> sp]

MCConfs == {Conf(TRUE, "quiet", FALSE), Conf(TRUE, "error", FALSE),
            Conf(FALSE, "quiet", FALSE)}
MCQuiet  == {Conf(TRUE, "quiet", FALSE)}
MCEof    == {Conf(TRUE, "eof", FALSE)}
MCSplits == {Conf(TRUE, "quiet", TRUE)}
==============================================================================
