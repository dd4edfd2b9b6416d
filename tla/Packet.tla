------------------------------- MODULE Packet -------------------------------
(***************************************************************************)
(* minclient/send.go and path.go: ComposeSphinxPacket on top of PkiEpoch.  *)
(* One goroutine, the session's worker, composes.  It asks for the epoch   *)
(* once, to look up mix keys with and to know how long the epoch lasts,    *)
(* and once more for the document of each path: the epoch may change       *)
(* between any two of these.                                               *)
(*                                                                         *)
(* A document has its providers, its layers of mixes (Topology), the       *)
(* epochs every node has a key for (MixKeys) and MuMaxDelay.  Random       *)
(* choices are inputs: the nodes of each attempt, and the draws of         *)
(* rand.Exp.  A millisecond is the unit of delays.                         *)
(***************************************************************************)
EXTENDS PkiEpoch, Sequences

CONSTANTS
    Composer,       \* the getter that composes
    Node,           \* the identity keys of mixes and providers
    Document,       \* the documents of the PKI, by epoch
    Provider, Peer, \* the client's provider, and the recipient's
    Draws,          \* draws of rand.Exp, one for each hop of a path
    DelayModulus,   \* 2^32: a NodeDelay is a uint32
    MaxRedos        \* how often chance makes the composer start again

ASSUME PacketAssumption ==
    /\ Composer \in Getter /\ MaxRedos \in Nat
    /\ DelayModulus \in Nat /\ 2 * TestPeriod <= DelayModulus

\* What a document holds, and that there is a draw for every hop of a path.
ASSUME DocumentAssumption ==
    \A e \in DOMAIN Document :
        /\ Document[e] \in [Providers : SUBSET Node, Topology : Seq(SUBSET Node),
                            MixKeys : [Node -> SUBSET Nat], MuMaxDelay : Nat]
        /\ \A draws \in Draws :
              draws \in Seq(Nat) /\ Len(draws) >= Len(Document[e].Topology) + 2

VARIABLES
    cpc,            \* where ComposeSphinxPacket is
    surb,           \* whether surbID # nil
    base, budget,   \* its epoch and budget
    paths,          \* the paths made: forward, then reverse
    docs,           \* the epoch of the document each was made with
    then,           \* then.Sub(now)
    redos

composeVars == <<cpc, surb, base, budget, paths, docs, then, redos>>
packetVars == <<vars, composeVars>>

maxAttempts == 3

PacketInit ==
    /\ Init
    /\ cpc = "idle" /\ surb = FALSE /\ base = 0 /\ budget = 0
    /\ paths = <<>> /\ docs = <<>> /\ then = 0 /\ redos = 0
-----------------------------------------------------------------------------
FirstHop(isForward, src) == IF isForward THEN <<src>> ELSE <<>>

\* selectHops with isFromClient, between providers: what it may choose;
\* nothing when a layer has no nodes.
selectHops(doc, src, dst, isForward) ==
    LET Layer == DOMAIN doc.Topology
        Nodes == UNION {doc.Topology[l] : l \in Layer}
    IN {FirstHop(isForward, src) \o hops \o <<dst>> :
           hops \in {h \in [Layer -> Nodes] : \A l \in Layer : h[l] \in doc.Topology[l]}}

\* NewPath: which hops have a delay.
Delayed(isLast, isForward) == ~isLast \/ (surb /\ isForward)

\* NewPath: the delay for a draw of rand.Exp.
Delay(doc, draw) ==
    IF doc.MuMaxDelay > 0 /\ draw + 1 > doc.MuMaxDelay THEN doc.MuMaxDelay ELSE draw + 1

\* Mutant: the key of the first hop is taken without a look.
KeysAfterFirst(doc, descs, e) == \A idx \in 2 .. Len(descs) : e \in doc.MixKeys[descs[idx]]

\* NewPath: every hop has a key for the epoch; the first that has none ends the
\* attempt.
KeysFound(doc, descs, e) == \A idx \in DOMAIN descs : e \in doc.MixKeys[descs[idx]]

\* NewPath: the epoch by a given attempt, each of those before having moved it on.
KeyEpoch(e, attempt) == (e + (attempt - 1)) % EpochModulus

\* NewPath: an attempt may choose nodes without the keys, so the next is reached.
MayLackKeys(doc, choices, e, attempt) ==
    \E descs \in choices : ~KeysFound(doc, descs, KeyEpoch(e, attempt))

\* NewPath: the path of the nodes descs, with their commands.
PathHops(doc, descs, draws, isForward, e) ==
    [idx \in DOMAIN descs |->
        LET isLast == idx = Len(descs)
            delay  == IF Delayed(isLast, isForward) THEN Delay(doc, draws[idx]) ELSE 0
        IN [ID |-> descs[idx], PublicKey |-> e, Delay |-> delay,
            Commands |-> {cmd \in {"NodeDelay", "Recipient", "SURBReply"} :
                CASE cmd = "NodeDelay" -> delay > 0
                  [] cmd = "Recipient" -> isLast
                  [] cmd = "SURBReply" -> isLast /\ surb /\ ~isForward}]]
-----------------------------------------------------------------------------
At(from, to) == cpc = from /\ cpc' = to

\* What is local to a call is gone when it returns.
Forget == /\ surb' = FALSE /\ base' = 0 /\ budget' = 0 /\ paths' = <<>>
          /\ docs' = <<>> /\ then' = 0 /\ redos' = 0

\* ComposeSphinxPacket returns an error.
Fail(from) == At(from, "failed") /\ Forget

\* ComposeSphinxPacket is called; it refuses a recipient that is too long.
Compose ==
    /\ \/ /\ At("idle", "now") /\ surb' \in BOOLEAN
          /\ UNCHANGED <<base, budget, paths, docs, then, redos>>
       \/ Fail("idle")
    /\ UNCHANGED vars

\* epochtime.Now, called by ComposeSphinxPacket or by CurrentDocument.
CallNow ==
    /\ cpc \in {"now", "forward", "reverse"} /\ Calling(Composer)
    /\ UNCHANGED composeVars

\* ComposeSphinxPacket: Now has returned.
ReadEpoch ==
    /\ \/ /\ At("now", "forward") /\ gpc[Composer] = "done"
          /\ base' = result[Composer].epoch /\ budget' = result[Composer].till
          /\ UNCHANGED <<surb, paths, docs, then, redos>>
       \/ Fail("now") /\ gpc[Composer] = "error"
    /\ Return(Composer)

\* Durations are int64, but NodeDelay is a uint32.
Truncated(path) == [idx \in DOMAIN path |-> [path[idx] EXCEPT !.Delay = @ % DelayModulus]]

\* NewPath: what its loop adds to the base time, hop by hop.
TotalDelay(path) ==
    LET sum[n \in 0 .. Len(path)] == IF n = 0 THEN 0 ELSE sum[n - 1] + path[n].Delay
    IN sum[Len(path)]

\* What rand.Exp may draw: least, once chance has had its share.
Drawn == IF redos < MaxRedos THEN Draws
         ELSE {draws \in Draws : \A idx \in DOMAIN draws : draws[idx] = 0}

\* makePath: no document, or no such provider in it, or no path.
PathFails == (Fail("forward") \/ Fail("reverse")) /\ Return(Composer)

\* makePath, with the document of what is the epoch by now; after three
\* attempts without all the keys it fails.
makePath(isForward) ==
    /\ gpc[Composer] = "done" /\ Return(Composer)
    /\ LET e == result[Composer].epoch
           src == IF isForward THEN Provider ELSE Peer
           dst == IF isForward THEN Peer ELSE Provider
           doc == Document[e]
           choices == selectHops(doc, src, dst, isForward)
       IN /\ e \in DOMAIN Document /\ {src, dst} \subseteq doc.Providers
          /\ \/ /\ \A i \in 1 .. maxAttempts : MayLackKeys(doc, choices, base, i)
                /\ Fail(cpc)
             \/ /\ \E i \in 1 .. maxAttempts, descs \in choices, draws \in Drawn :
                      LET path == PathHops(doc, descs, draws, isForward, KeyEpoch(base, i))
                      IN /\ \A j \in 1 .. i - 1 : MayLackKeys(doc, choices, base, j)
                         /\ KeysFound(doc, descs, KeyEpoch(base, i))
                         /\ paths' = Append(paths, Truncated(path))
                         /\ then' = then + TotalDelay(path)
                /\ docs' = Append(docs, e)
                /\ cpc' = IF isForward /\ surb THEN "reverse" ELSE "check"
                /\ UNCHANGED <<surb, base, budget, redos>>

ForwardPath == cpc = "forward" /\ makePath(TRUE)
ReversePath == cpc = "reverse" /\ makePath(FALSE)

\* continue: the epoch is read again.
Again ==
    /\ At("check", "now") /\ base' = 0 /\ budget' = 0
    /\ paths' = <<>> /\ docs' = <<>> /\ then' = 0 /\ UNCHANGED <<vars, surb>>

\* time.Since(start) > budget when nothing is left of the epoch.
NoBudget == budget = 0 /\ Again /\ UNCHANGED redos

\* Mutant: the delays are not checked.
AnyDelays == TRUE

DelaysAllowed == then < 2 * TestPeriod

\* The paths took longer than the budget.
Straddled == budget > 0 /\ redos < MaxRedos /\ redos' = redos + 1 /\ Again

\* A series of delays that exceeds the PKI's limits.
TooLong == /\ budget > 0 /\ ~DelaysAllowed /\ Again
           /\ redos' = IF redos < MaxRedos THEN redos + 1 ELSE redos

\* NewSURB and NewPacket, which may fail.
Composed ==
    /\ budget > 0 /\ DelaysAllowed
    /\ \/ /\ At("check", "composed")
          /\ UNCHANGED <<surb, base, budget, paths, docs, then, redos>>
       \/ Fail("check")
    /\ UNCHANGED vars

\* SendCiphertext has the packet, which it hands to sendPacket, or the error;
\* the caller composes another.
Finish == (At("composed", "idle") \/ At("failed", "idle")) /\ Forget /\ UNCHANGED vars

ComposerStep == \/ CallNow \/ ReadEpoch \/ PathFails \/ ForwardPath \/ ReversePath
                \/ NoBudget \/ Straddled \/ TooLong \/ Composed
OtherGetter(g) == (Calling(g) \/ Return(g)) /\ UNCHANGED composeVars
Environment == (NewTimer \/ TimerFires \/ Chain) /\ UNCHANGED composeVars

PacketNext == \/ Compose \/ ComposerStep \/ Finish \/ Environment
              \/ \E g \in Getter \ {Composer} : OtherGetter(g)

PacketSafety == PacketInit /\ [][PacketNext]_packetVars

(* Fairness: goroutines run, those that ask for the epoch do so again and  *)
(* again, the timer fires, the PKI's epochs pass, and it answers some of   *)
(* the queries that it is asked again and again.                           *)
PacketSpec ==
    /\ PacketSafety
    /\ WF_packetVars(ComposerStep)
    /\ WF_packetVars((NewTimer \/ TimerFires) /\ UNCHANGED composeVars)
    /\ WF_packetVars(NextEpoch /\ UNCHANGED composeVars)
    /\ SF_packetVars(CallNow /\ PKIAnswers(Composer) /\ answer' # answer)
    /\ \A g \in Getter \ {Composer} :
          /\ WF_packetVars(OtherGetter(g))
          /\ SF_packetVars(PKIAnswers(g) /\ answer' # answer /\ UNCHANGED composeVars)
-----------------------------------------------------------------------------
(* Every variable holds a value of its kind.                               *)
PacketTypeOK ==
    /\ TypeOK
    /\ cpc \in {"idle", "now", "forward", "reverse", "check", "composed", "failed"}
    /\ surb \in BOOLEAN /\ base \in 0 .. EpochModulus - 1 /\ budget \in 0 .. TestPeriod
    /\ Len(paths) \in 0 .. 2 /\ Len(docs) \in 0 .. 2 /\ then \in Nat
    /\ redos \in 0 .. MaxRedos

(* A packet goes from the client's provider through one mix of every layer, *)
(* in the order of the layers, to the recipient's provider, and its SURB   *)
(* leads from there through every layer again back to the client's         *)
(* provider, although the two paths may come from different documents and  *)
(* attempts were given up half way.  The delay returned with it is the sum *)
(* of what its hops, all but the last, are told: a delay cut off by its    *)
(* uint32 never gets into a packet.                                        *)
RoundTrip ==
    /\ PacketTypeOK
    /\ cpc = "composed" =>
        /\ Len(paths) = IF surb THEN 2 ELSE 1
        /\ paths[1][1].ID = Provider
        /\ \A i \in DOMAIN paths :
              LET path == paths[i]
                  Topology == Document[docs[i]].Topology
                  \* only the forward path has its first provider
                  first == IF i = 1 THEN 1 ELSE 0
              IN /\ Len(path) = first + Len(Topology) + 1
                 /\ \A l \in DOMAIN Topology : path[first + l].ID \in Topology[l]
                 /\ path[Len(path)].ID = IF i = 1 THEN Peer ELSE Provider
                 /\ \A h \in DOMAIN path :
                       "NodeDelay" \in path[h].Commands <=>
                           ~(i = Len(paths) /\ h = Len(path))
        /\ then = TotalDelay(paths[1]) + IF surb THEN TotalDelay(paths[2]) ELSE 0

(* The keys of a path are all of one epoch, one that every hop has a key   *)
(* for, and at most two after the epoch that NewPath was asked for:        *)
(* whichever hop of whichever attempt lacked a key.  The documents that    *)
(* have them are not older than that epoch, nor the reverse path's older   *)
(* than the forward path's: the composer's view of time never goes back.   *)
KeysOfOneEpoch ==
    /\ \A i \in DOMAIN paths : \E k \in 0 .. 2 :
          LET e == (base + k) % EpochModulus
          IN \A h \in DOMAIN paths[i] :
                paths[i][h].PublicKey = e /\ e \in Document[docs[i]].MixKeys[paths[i][h].ID]
    /\ base # EpochModulus - 1 =>
          /\ \A i \in DOMAIN docs : base <= docs[i]
          /\ Len(docs) = 2 => docs[1] <= docs[2]

(* ComposeSphinxPacket returns: at the end of an epoch, when no budget is  *)
(* left and every round of its loop starts over, it does so once the next  *)
(* epoch has been noticed.                                                 *)
ComposeEnds ==
    cpc = "now" ~> (cpc \in {"composed", "failed"} \/ gpc[Composer] = "panic")
=============================================================================
