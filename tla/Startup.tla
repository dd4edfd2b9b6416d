------------------------------ MODULE Startup -------------------------------
(***************************************************************************)
(* How a client comes up: cmd/ping's register and main, with the calls     *)
(* they make: LoadFile, UpdateTrust, SaveConfig, AutoRegisterRandomClient, *)
(* NewFromConfig and the first half of NewSession.  The configuration file *)
(* and the lock of the PKI client's database outlive these calls, and the  *)
(* file the process: it may be killed anywhere and started again.          *)
(*                                                                         *)
(* The primary is a node of Chain whose height grows.  A block's hash is   *)
(* its chain and height.  A failed start and a panic both end in "exit".   *)
(***************************************************************************)
EXTENDS Config

CONSTANTS
    File,           \* the configuration files a first start may find
    Chain,          \* the chain ID in the primary's genesis
    MaxHeight, MaxStarts, MaxCalls

ASSUME StartupAssumption ==
    MaxHeight \in Nat /\ MaxStarts \in Nat \ {0} /\ MaxCalls \in Nat \ {0}

\* The trusted height and hash are of one block of the configured chain.
TrustConsistent(c) ==
    TrustValid(c.Katzenmint.TrustOptions)
        => c.Katzenmint.TrustOptions.Hash
               = <<c.Katzenmint.ChainID, c.Katzenmint.TrustOptions.Height>>

\* Who wrote the first file took height and hash from one block.
ASSUME FileAssumption ==
    /\ Chain \in STRING
    /\ \A f \in File : f \in Config /\ (f.Katzenmint # Nil => TrustConsistent(f))

VARIABLES
    file,           \* the configuration file
    cfg,            \* the configuration in memory
    saved,          \* the last configuration that was written completely
    info,           \* UpdateTrust: the height that ABCIInfo gave
    height,         \* the primary's last block
    db,             \* who holds the lock of the PKI client's database
    pc,             \* where the application is
    calls,          \* how often this process has called NewSession
    starts

startVars == <<file, cfg, saved, info, height, db, pc, calls, starts>>

\* What os.Create leaves, and a failed Encode.
Truncated == [Logging |-> Nil, UpstreamProxy |-> Nil, Debug |-> Nil,
              Katzenmint |-> Nil, Panda |-> Nil]

\* Before NewSession has started any goroutine.
Starting == {"load", "trust", "block", "save", "encode", "register", "registering",
             "new", "session", "exit"}

StartInit ==
    /\ file \in File /\ cfg = Nil /\ saved = Nil /\ info = 0 /\ height \in 0 .. MaxHeight
    /\ db = "free" /\ pc = "load" /\ calls = 0 /\ starts = 1

At(from, to) == pc = from /\ pc' = to

\* LoadFile and Load.
LoadFile ==
    /\ pc = "load"
    /\ IF Loadable(file) THEN cfg' = Fixup(file) /\ pc' = "trust"
                         ELSE pc' = "exit" /\ UNCHANGED cfg
    /\ UNCHANGED <<file, saved, info, height, db, calls, starts>>

\* UpdateTrust: ABCIInfo answers with the last height.
ABCIInfo ==
    /\ At("trust", "block") /\ info' = height
    /\ UNCHANGED <<file, cfg, saved, height, db, calls, starts>>

\* UpdateTrust: one of its queries fails; register ignores the error.
TrustFails ==
    /\ pc \in {"trust", "block"} /\ pc' = "save"
    /\ UNCHANGED <<file, cfg, saved, info, height, db, calls, starts>>

\* Mutant: the hash is the latest block's.
TrustLatest(c) == [Height |-> info, Hash |-> <<Chain, height>>]

Trust(c) == [Height |-> info, Hash |-> <<Chain, info>>]

\* UpdateTrust: Block found the block, and Genesis is that of our chain.
BlockAccepted(c) == info > 0 /\ c.Katzenmint.ChainID = Chain

\* UpdateTrust: the block at that height, and the assignments at the end.
UpdateTrust ==
    /\ At("block", "save")
    /\ BlockAccepted(cfg) /\ cfg' = [cfg EXCEPT !.Katzenmint.TrustOptions = Trust(cfg)]
    /\ UNCHANGED <<file, saved, info, height, db, calls, starts>>

\* SaveConfig: os.Create truncates the file.
CreateFile ==
    /\ At("save", "encode") /\ file' = Truncated
    /\ UNCHANGED <<cfg, saved, info, height, db, calls, starts>>

\* SaveConfig: Encode writes the exported sections.
EncodeFile ==
    /\ At("encode", "register") /\ file' = cfg /\ saved' = cfg
    /\ UNCHANGED <<cfg, info, height, db, calls, starts>>

\* SaveConfig: Create or Encode fails; register ignores the error.
SaveFails ==
    /\ pc \in {"save", "encode"} /\ pc' = "register"
    /\ UNCHANGED <<file, cfg, saved, info, height, db, calls, starts>>

\* AutoRegisterRandomClient: NewPKIClient opens the database, or panics.
OpenForRegistration ==
    /\ pc = "register"
    /\ \/ db = "free" /\ db' = "registration" /\ pc' = "registering"
       \/ pc' = "exit" /\ UNCHANGED db
    /\ UNCHANGED <<file, cfg, saved, info, height, calls, starts>>

\* Mutant: the PKI client is not shut down.
StillOpen == db

\* PKIClient.Shutdown, deferred by AutoRegisterRandomClient.
Released == "free"

\* AutoRegisterRandomClient: epoch, document, Provider and registration, each
\* of which may panic.
Register ==
    /\ pc = "registering" /\ pc' \in {"new", "exit"} /\ db' = Released
    /\ UNCHANGED <<file, cfg, saved, info, height, calls, starts>>

\* NewFromConfig and InitLogging; log.New may refuse a level outside Levels.
LogFileOK(l) == l.Disable \/ l.File # "relative"

NewFromConfig ==
    /\ pc = "new"
    /\ \/ LogFileOK(cfg.Logging) /\ pc' = "session"
       \/ ~(LogFileOK(cfg.Logging) /\ cfg.Logging.Level \in Levels) /\ pc' = "exit"
    /\ UNCHANGED <<file, cfg, saved, info, height, db, calls, starts>>

\* NewSession of session.go: NewPKIClient fails.  The database is locked, or
\* cannot be opened, or is left open when the light client fails.
PKIClientFails ==
    /\ At("session", "failed") /\ calls' = calls + 1 /\ db' \in {db, "session"}
    /\ UNCHANGED <<file, cfg, saved, info, height, starts>>

\* NewSession of session.go, up to minclient.New.  ToDialContext panics on a
\* type that it does not know.  Nothing reads the file or the configuration
\* after this, so they are cleared; the session that now begins is the last
\* of its process.
NewPKIClient ==
    /\ pc = "session" /\ db = "free" /\ db' = "session"
    /\ pc' = IF ProxyType(cfg.UpstreamProxy) \in ProxyTypes THEN "await" ELSE "dialPanic"
    /\ file' = Truncated /\ cfg' = Nil /\ saved' = Nil /\ info' = 0 /\ height' = 0
    /\ calls' = MaxCalls /\ starts' = MaxStarts

\* An application that calls NewSession again after an error.
CallAgain ==
    /\ calls < MaxCalls /\ At("failed", "session")
    /\ UNCHANGED <<file, cfg, saved, info, height, db, calls, starts>>

\* The process is killed, or has ended, and is started again.
Restart ==
    /\ pc \in Starting /\ starts < MaxStarts /\ starts' = starts + 1
    /\ pc' = "load" /\ cfg' = Nil /\ info' = 0 /\ db' = "free" /\ calls' = 0
    /\ UNCHANGED <<file, saved, height>>

NewBlock ==
    /\ pc \in {"trust", "block"} /\ height < MaxHeight /\ height' = height + 1
    /\ UNCHANGED <<file, cfg, saved, info, db, pc, calls, starts>>

\* All steps but NewPKIClient, with which the session begins, and Restart.
Start == \/ LoadFile \/ ABCIInfo \/ TrustFails \/ UpdateTrust \/ CreateFile
         \/ EncodeFile \/ SaveFails \/ OpenForRegistration \/ Register
         \/ NewFromConfig \/ PKIClientFails \/ CallAgain \/ NewBlock
-----------------------------------------------------------------------------
(* Every variable holds a value of its kind, and ToDialContext has not     *)
(* panicked over a proxy type: it knows what FixupAndValidate lets through. *)
StartTypeOK ==
    /\ pc # "dialPanic"
    /\ info \in 0 .. MaxHeight /\ height \in 0 .. MaxHeight
    /\ db \in {"free", "registration", "session"}
    /\ calls \in 0 .. MaxCalls /\ starts \in 1 .. MaxStarts

(* The database can only be opened once (session.go, NewSession), and the  *)
(* registration opens it too: it is free whenever a process opens it, but  *)
(* for one that calls NewSession again, whose first call never lets go.    *)
DatabaseFree == pc = "register" \/ (pc = "session" /\ calls = 0) => db = "free"

(* Whatever SaveConfig writes is a file that loads, and the trust in it is *)
(* in one block, although UpdateTrust asks for the height first and the    *)
(* chain grows meanwhile.  Only between Create and Encode is there a file  *)
(* that does not load, which a process that dies there leaves behind.      *)
SavedFileLoads ==
    [][file' # file /\ pc' \notin {"await", "dialPanic"}
            => (Loadable(file') /\ TrustConsistent(file')) \/ pc' = "encode"]_startVars

(* A process that loads what an earlier one saved has the same             *)
(* configuration, but for the SessionDialTimeout that is 0 in the first    *)
(* process of a file without a Debug section.                              *)
RestartSame ==
    pc = "trust" /\ saved # Nil =>
        cfg = [saved EXCEPT !.Debug.SessionDialTimeout =
                                OrDefault(@, defaultSessionDialTimeout)]
=============================================================================
