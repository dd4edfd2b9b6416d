------------------------------ MODULE MCClient ------------------------------
(* Client with the configuration files of a first start: every kind of     *)
(* section, the missing, incomplete and wrong ones included.               *)
EXTENDS Client

CONSTANT nil

\* Files that load, with the variants that load differently.
Good == [Logging : {nil, [Disable |-> FALSE, File |-> "", Level |-> "debug"]},
         UpstreamProxy : {[Type |-> "", Network |-> "", Usable |-> FALSE,
                           User |-> 0, Password |-> 0],
                          [Type |-> "SOCKS5", Network |-> "tcp", Usable |-> TRUE,
                           User |-> 255, Password |-> 1]},
         Debug : {nil, [PollingInterval |-> 0, SessionDialTimeout |-> 1,
                        InitialMaxPKIRetrievalDelay |-> 0]},
         Katzenmint : {[ChainID |-> c, Complete |-> TRUE,
                        TrustOptions |-> [Height |-> 1, Hash |-> <<c, 1>>]]
                            : c \in {"katzenmint", "other"}},
         Panda : {nil}]

\* Of each section, what Load or New refuses.
Refused(f) ==
    {[f EXCEPT !.Logging = [Disable |-> TRUE, File |-> "", Level |-> "verbose"]],
     [f EXCEPT !.Logging = [Disable |-> FALSE, File |-> "relative", Level |-> "INFO"]],
     [f EXCEPT !.Logging = [Disable |-> TRUE, File |-> "relative", Level |-> ""]],
     [f EXCEPT !.UpstreamProxy = nil],
     [f EXCEPT !.UpstreamProxy = [@ EXCEPT !.Type = "http"]],
     [f EXCEPT !.UpstreamProxy = [@ EXCEPT !.Type = "tor+socks5"]],
     [f EXCEPT !.UpstreamProxy = [@ EXCEPT !.Type = "socks5", !.User = 256]],
     [f EXCEPT !.Katzenmint = nil],
     [f EXCEPT !.Katzenmint.Complete = FALSE],
     [f EXCEPT !.Katzenmint.TrustOptions = [Height |-> 0, Hash |-> nil]],
     [f EXCEPT !.Panda = [Complete |-> FALSE]]}

Files == Good \cup UNION {Refused(f) : f \in Good}
=============================================================================
