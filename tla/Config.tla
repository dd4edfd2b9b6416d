------------------------------- MODULE Config -------------------------------
(***************************************************************************)
(* config/config.go and internal/proxy/proxy.go: what Load makes of a      *)
(* configuration file, as functions from configurations to configurations. *)
(* A configuration is a record of sections, Nil where the file has none.   *)
(***************************************************************************)
EXTENDS Integers

CONSTANT Nil            \* a missing section: a nil pointer

\* The sections, with the fields that Load, New or NewSession looks at.  User
\* and Password are lengths; Usable says whether Address is an IP and port, or a
\* socket for a unix Network.  A block's hash is its chain and height.  Complete
\* says whether the addresses and the database, or Receiver and Provider, are
\* named.
LoggingSection == [Disable : BOOLEAN, File : STRING, Level : STRING]
ProxySection == [Type : STRING, Network : STRING, Usable : BOOLEAN,
                 User : Nat, Password : Nat]
DebugSection == [PollingInterval : Int, SessionDialTimeout : Int,
                 InitialMaxPKIRetrievalDelay : Int]
BlockHash == STRING \X Nat
KatzenmintSection == [ChainID : STRING, Complete : BOOLEAN,
                      TrustOptions : [Height : Int, Hash : BlockHash \cup {Nil}]]
PandaSection == [Complete : BOOLEAN]

Config == [Logging : LoggingSection \cup {Nil}, UpstreamProxy : ProxySection \cup {Nil},
           Debug : DebugSection \cup {Nil}, Katzenmint : KatzenmintSection \cup {Nil},
           Panda : PandaSection \cup {Nil}]

ASSUME NilAssumption ==
    /\ Nil \notin LoggingSection /\ Nil \notin ProxySection /\ Nil \notin DebugSection
    /\ Nil \notin KatzenmintSection /\ Nil \notin PandaSection /\ Nil \notin BlockHash
    /\ Nil \notin Config

\* True of any strings, but nothing that the provers know.
ASSUME StringAssumption == {"", "NOTICE", "DEBUG"} \subseteq STRING

Levels == {"ERROR", "WARNING", "NOTICE", "INFO", "DEBUG"}

\* strings.ToUpper and strings.ToLower on the spellings that files use.
ToUpper(level) == IF level = "debug" THEN "DEBUG" ELSE level
ToLower(type) == IF type = "SOCKS5" THEN "socks5" ELSE type

defaultLogging == [Disable |-> FALSE, File |-> "", Level |-> "NOTICE"]

defaultPollingInterval == 10
defaultInitialMaxPKIRetrievalDelay == 30
defaultSessionDialTimeout == 30

\* FixupAndMinimallyValidate: the Debug section of a file without one.
missingDebug ==
    [PollingInterval |-> defaultPollingInterval, SessionDialTimeout |-> 0,
     InitialMaxPKIRetrievalDelay |-> defaultInitialMaxPKIRetrievalDelay]

OrDefault(n, default) == IF n = 0 THEN default ELSE n

\* Mutant: the interval is converted to milliseconds in place.
ConvertingDebugFixup(d) ==
    [PollingInterval |-> 1000 * OrDefault(d.PollingInterval, defaultPollingInterval),
     SessionDialTimeout |->
        OrDefault(d.SessionDialTimeout, defaultSessionDialTimeout),
     InitialMaxPKIRetrievalDelay |->
        OrDefault(d.InitialMaxPKIRetrievalDelay, defaultInitialMaxPKIRetrievalDelay)]

DebugFixup(d) ==
    [PollingInterval |-> OrDefault(d.PollingInterval, defaultPollingInterval),
     SessionDialTimeout |->
        OrDefault(d.SessionDialTimeout, defaultSessionDialTimeout),
     InitialMaxPKIRetrievalDelay |->
        OrDefault(d.InitialMaxPKIRetrievalDelay, defaultInitialMaxPKIRetrievalDelay)]

\* Logging.validate stores the upper-case level, also over the default that
\* it has just stored for an empty one.
LoggingValid(l) == ToUpper(l.Level) \in Levels \cup {""}
LoggingFixup(l) == [l EXCEPT !.Level = ToUpper(l.Level)]

ProxyTypes == {"none", "socks5", "tor+socks5"}

ProxyType(u) == IF u.Type = "" THEN "none" ELSE ToLower(u.Type)

\* proxy.Config.FixupAndValidate.  Network is in lower case already.
maxSocks5AuthLen == 255
ProxyValid(u) ==
    \/ ToLower(u.Type) \in {"", "none"}
    \/ /\ ProxyType(u) \in {"socks5", "tor+socks5"}
       /\ u.User <= maxSocks5AuthLen /\ u.Password <= maxSocks5AuthLen
       /\ (u.User = 0) <=> (u.Password = 0)
       /\ u.User # 0 => ProxyType(u) # "tor+socks5"
       /\ u.Network \in {"tcp", "unix"} /\ u.Usable

\* TrustOptions.ValidateBasic of tendermint: a positive height and a hash.
TrustValid(t) == t.Height > 0 /\ t.Hash # Nil

KatzenmintValid(k) == TrustValid(k.TrustOptions) /\ k.Complete

\* Panda.validate.  Reunion.validate refuses nothing.
PandaValid(p) == p = Nil \/ p.Complete

\* FixupAndMinimallyValidate, the sections it fills in.
Fixup(c) ==
    [c EXCEPT !.Logging = LoggingFixup(IF c.Logging = Nil THEN defaultLogging
                                                          ELSE c.Logging),
              !.Debug = IF c.Debug = Nil THEN missingDebug ELSE DebugFixup(c.Debug)]

\* FixupAndMinimallyValidate returns nil.  Without an UpstreamProxy or a
\* Katzenmint section it dereferences a nil pointer.
Loadable(c) ==
    /\ c.Logging # Nil => LoggingValid(c.Logging)
    /\ c.UpstreamProxy # Nil /\ ProxyValid(c.UpstreamProxy)
    /\ c.Katzenmint # Nil /\ KatzenmintValid(c.Katzenmint)
    /\ PandaValid(c.Panda)
=============================================================================
