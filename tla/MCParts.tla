------------------------------ MODULE MCParts -------------------------------
(***************************************************************************)
(* The parts of a node for TLC.  They share nothing, so it is enough to    *)
(* exercise one of them in each behavior: focus, chosen in the initial     *)
(* state, says which.                                                      *)
(***************************************************************************)
EXTENDS Parts, TLC

VARIABLE focus

query == <<qTable, qAttempts, qDuplicates, qPruned, qCall, qPublished, qCalls,
           qAccepted, qDropped>>
limiter == <<lEntries, lGranted, lRefused>>
content == <<cSince, cAlive, cWake, cLosses, cInflight, cEntry, cEnded, cSelected>>
timers == <<rAsked, rEntries, rTaken, rBuffer, rPending, rFallbackWake, rFlushWake,
            rAnswered, rSent, rDiscarded>>

redis == <<dStore, dOpen, dCommands, dStream, dCall, dAlive, dIssued, dOverlapped,
           dAnswer, dFinished>>
codec == <<wLimit, wBytes, wMessage, wDatagram, wReceived>>
settings == <<sEnv, sFile, sRewrites, sPhase, sConfig, sTopology, sSeen>>

tables == <<vars, now, query, limiter, content, timers>>
allVars == <<focus, tables, redis, codec, settings>>

AllInit ==
  /\ focus \in {"sync", "query", "limiter", "content", "timers", "redis", "codec", "settings"}
  /\ Init /\ Query!Init /\ Limiter!Init /\ Content!Init /\ Timers!Init
  /\ Redis!Init /\ Codec!Init /\ Settings!Init

AllNext ==
  /\ UNCHANGED focus
  /\ \/ /\ focus = "sync" /\ Next
        /\ UNCHANGED <<now, query, limiter, content, timers, redis, codec, settings>>
     \/ /\ focus = "query" /\ Query!Next
        /\ UNCHANGED <<vars, limiter, content, timers, redis, codec, settings>>
     \/ /\ focus = "limiter" /\ Limiter!Next
        /\ UNCHANGED <<vars, query, content, timers, redis, codec, settings>>
     \/ /\ focus = "content" /\ Content!Next
        /\ UNCHANGED <<vars, query, limiter, timers, redis, codec, settings>>
     \/ /\ focus = "timers" /\ Timers!Next
        /\ UNCHANGED <<vars, query, limiter, content, redis, codec, settings>>
     \/ /\ focus = "redis" /\ Redis!Next
        /\ UNCHANGED <<tables, codec, settings>>
     \/ /\ focus = "codec" /\ Codec!Next
        /\ UNCHANGED <<tables, redis, settings>>
     \/ /\ focus = "settings" /\ Settings!Next
        /\ UNCHANGED <<tables, redis, codec>>

AllSpec == AllInit /\ [][AllNext]_allVars

\* Keys differ in nothing.
KeySymmetry == Permutations(Key)

\* The type invariants of all parts together.
PartsTypeOK ==
  CASE focus = "sync" -> TypeOK
    [] focus = "query" -> Query!TypeOK
    [] focus = "limiter" -> Limiter!TypeOK
    [] focus = "content" -> Content!TypeOK
    [] focus = "timers" -> Timers!TypeOK
    [] focus = "redis" -> Redis!TypeOK
    [] focus = "codec" -> Codec!TypeOK
    [] focus = "settings" -> Settings!TypeOK
=============================================================================
