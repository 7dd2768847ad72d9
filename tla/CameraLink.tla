----------------------------- MODULE CameraLink -----------------------------
(***************************************************************************)
(* A query of the camera HAL on its way to the webcam and back:            *)
(*                                                                         *)
(*   GenyClient --- TCP --- local_camera --- TCP --- Genymotion player     *)
(*                                                                         *)
(* GenyClient sends one query at a time and reads a size, then as much     *)
(* data; each read times out when nothing comes.  local_camera accepts the *)
(* HAL once and players one after the other, and relays bytes between them *)
(* with select, read and send.  A player may leave, or reset its           *)
(* connection, at any time; its side of the protocol is external.          *)
(*                                                                         *)
(* The bytes of a reply are cut into units: its size, its first bytes      *)
(* (which say "ok"), and, for a frame, the rest.  A read of local_camera   *)
(* returns any number of the units that have arrived.                      *)
(***************************************************************************)
EXTENDS Integers, FiniteSets, Sequences, SequencesExt

CONSTANTS
  MaxQueries,    (* bound on the queries of the HAL                  *)
  MaxPlayers     (* bound on the connections of players              *)

ASSUME CameraLinkAssumption == MaxQueries \in Nat /\ MaxPlayers \in Nat

VARIABLES
  \* GenyClient, in the process of the camera HAL
  up,            (* that process is alive                            *)
  hpc,           (* what doQuery is waiting for                      *)
  asked,         (* queries sent                                     *)
  kind,          (* kind of the last one                             *)
  want,          (* units of the payload still to be read            *)
  body,          (* units of the payload read                        *)
  answered,      (* the query whose answer was used last             *)
  failures,      (* queries that failed                              *)
  torn,          (* a query used a payload made of two replies       *)
  \* the connection between the HAL and local_camera
  toProxy, toHal,
  \* local_camera
  ppc,           (* where main is                                    *)
  ready,         (* the descriptors select reported, still to handle *)
  \* the connection between local_camera and the player
  player,        (* the player's end                                 *)
  players,       (* connections made so far                          *)
  losses,        (* connections lost so far                          *)
  toPlayer, fromPlayer

halVars == <<up, hpc, asked, kind, want, body, answered, failures, torn>>
proxyVars == <<ppc, ready>>
playerVars == <<player, players, losses>>
vars == <<halVars, toProxy, toHal, proxyVars, playerVars, toPlayer, fromPlayer>>

-----------------------------------------------------------------------------
Kinds == {"command", "frame"}
Ids == 1 .. MaxQueries

\* The payload of a reply, and the reply as it is sent.
Payload(k) == IF k = "frame" THEN <<"first", "rest">> ELSE <<"first">>
Reply(q) == <<[id |-> q.id, part |-> "size", units |-> Len(Payload(q.kind))]>> \o
            [i \in 1 .. Len(Payload(q.kind)) |->
               [id |-> q.id, part |-> Payload(q.kind)[i], units |-> 0]]
Units == [id : Ids, part : {"size", "first", "rest"}, units : 0 .. 2]
Queries == [id : Ids, kind : Kinds]

Init ==
  /\ up = TRUE /\ hpc = "idle" /\ asked = 0 /\ kind = "command" /\ want = 0
  /\ body = <<>> /\ answered = 0 /\ failures = 0 /\ torn = FALSE
  /\ toProxy = <<>> /\ toHal = <<>>
  /\ ppc = "acceptHal" /\ ready = {}
  /\ player = "none" /\ players = 0 /\ losses = 0
  /\ toPlayer = <<>> /\ fromPlayer = <<>>

-----------------------------------------------------------------------------
(* GenyClient                                                               *)

\* The query returns: it used the answer of query id, or it failed.
Answered(id) ==
  /\ hpc' = "idle" /\ want' = 0 /\ body' = <<>>
  /\ answered' = id
  /\ UNCHANGED <<up, asked, kind, failures>>

Failed ==
  /\ hpc' = "idle" /\ want' = 0 /\ body' = <<>>
  /\ failures' = failures + 1
  /\ UNCHANGED <<up, asked, kind, answered, torn>>

\* sendMessage.  What is sent to a local_camera that has exited is lost.
SendQuery ==
  /\ up /\ hpc = "idle"
  /\ asked < MaxQueries
  /\ asked' = asked + 1
  /\ kind' \in Kinds
  /\ hpc' = "size"
  /\ toProxy' = IF ppc = "exited" THEN toProxy
                ELSE Append(toProxy, [id |-> asked', kind |-> kind'])
  /\ UNCHANGED <<up, want, body, answered, failures, torn, toHal, proxyVars,
                 playerVars, toPlayer, fromPlayer>>

\* The first read of receiveMessage takes 8 bytes for the size, whatever they are.
\* In the middle of an earlier reply they are not a size: the query reads as much
\* as they happen to say, which is not a reply, and fails.
ReadSize ==
  /\ up /\ hpc = "size"
  /\ toHal # <<>>
  /\ \/ /\ Head(toHal).part = "size"
        /\ hpc' = "data"
        /\ want' = Head(toHal).units
        /\ toHal' = Tail(toHal)
     \/ /\ Head(toHal).part # "size"
        /\ hpc' = "skip"
        /\ toHal' \in {toHal, Tail(toHal)}
        /\ UNCHANGED want
  /\ UNCHANGED <<up, asked, kind, body, answered, failures, torn, toProxy,
                 proxyVars, playerVars, toPlayer, fromPlayer>>

ReadSkip ==
  /\ up /\ hpc = "skip"
  /\ \/ /\ toHal # <<>>
        /\ toHal' = Tail(toHal)
        /\ UNCHANGED halVars
     \/ /\ Failed
        /\ UNCHANGED toHal
  /\ UNCHANGED <<toProxy, proxyVars, playerVars, toPlayer, fromPlayer>>

\* completeQuery accepts a payload that starts with "ok"; queryFrame, one that is
\* large enough.
CompleteQuery(payload) ==
  IF payload[1].part = "first" /\ Len(payload) >= Len(Payload(kind))
  THEN /\ Answered(payload[1].id)
       /\ torn' = (torn \/ \E i \in DOMAIN payload : payload[i].id # payload[1].id)
  ELSE Failed

\* The loop of receiveMessage, one unit at a time.
ReadData ==
  /\ up /\ hpc = "data"
  /\ toHal # <<>>
  /\ toHal' = Tail(toHal)
  /\ IF want = 1
     THEN CompleteQuery(Append(body, Head(toHal)))
     ELSE /\ want' = want - 1
          /\ body' = Append(body, Head(toHal))
          /\ UNCHANGED <<up, hpc, asked, kind, answered, failures, torn>>
  /\ UNCHANGED <<toProxy, proxyVars, playerVars, toPlayer, fromPlayer>>

\* A read finds nothing for the time of SO_RCVTIMEO, or the end of the connection.
ReadFails ==
  /\ up /\ hpc \in {"size", "data"}
  /\ toHal = <<>>
  /\ Failed
  /\ UNCHANGED <<toProxy, toHal, proxyVars, playerVars, toPlayer, fromPlayer>>

\* The process of the HAL crashes.
HalDies ==
  /\ up
  /\ up' = FALSE
  /\ UNCHANGED <<hpc, asked, kind, want, body, answered, failures, torn,
                 toProxy, toHal, proxyVars, playerVars, toPlayer, fromPlayer>>

-----------------------------------------------------------------------------
(* local_camera                                                             *)

AcceptHal ==
  /\ ppc = "acceptHal"
  /\ ppc' = "acceptPlayer"
  /\ UNCHANGED <<halVars, toProxy, toHal, ready, playerVars, toPlayer, fromPlayer>>

AcceptPlayer ==
  /\ ppc = "acceptPlayer"
  /\ player # "none"
  /\ ppc' = "select"
  /\ UNCHANGED <<halVars, toProxy, toHal, ready, playerVars, toPlayer, fromPlayer>>

\* A descriptor is readable when data, or the end of the connection, is there.
Readable(fd) ==
  IF fd = "player" THEN fromPlayer # <<>> \/ player # "open"
                   ELSE toProxy # <<>> \/ ~up

\* What is left to do with the descriptors select reported, the player's first.
Handle(fds) ==
  /\ ready' = fds
  /\ ppc' = IF fds = {} THEN "select" ELSE IF "player" \in fds THEN "player" ELSE "hal"

\* local_camera returns from main; the HAL may lose what it had not read.
Exits ==
  /\ ppc' = "exited" /\ ready' = {}
  /\ toHal' \in {toHal, <<>>}
  /\ toProxy' = <<>> /\ toPlayer' = <<>> /\ fromPlayer' = <<>>

Select ==
  /\ ppc = "select"
  /\ \E fd \in {"player", "hal"} : Readable(fd)
  /\ Handle({fd \in {"player", "hal"} : Readable(fd)})
  /\ UNCHANGED <<halVars, toProxy, toHal, playerVars, toPlayer, fromPlayer>>

\* Mutant: the result of a send that takes part of the buffer is ignored.
PlayerData_ShortSend ==
  /\ ppc = "player"
  /\ fromPlayer # <<>>
  /\ \E n \in 1 .. Len(fromPlayer) :
       /\ fromPlayer' = SubSeq(fromPlayer, n + 1, Len(fromPlayer))
       /\ \E k \in 1 .. n : toHal' = toHal \o SubSeq(fromPlayer, 1, k)
  /\ Handle(ready \ {"player"})
  /\ UNCHANGED <<halVars, toProxy, playerVars, toPlayer>>

\* Mutant: what was read is sent again on the next round.
PlayerData_Twice ==
  /\ ppc = "player"
  /\ fromPlayer # <<>>
  /\ \E n \in 1 .. Len(fromPlayer) :
       /\ fromPlayer' = SubSeq(fromPlayer, n + 1, Len(fromPlayer))
       /\ \E k \in 1 .. 2 :
            toHal' = toHal \o FlattenSeq([i \in 1 .. k |-> SubSeq(fromPlayer, 1, n)])
  /\ Handle(ready \ {"player"})
  /\ UNCHANGED <<halVars, toProxy, playerVars, toPlayer>>

\* Data from the player is sent to the HAL; the send to a HAL that died fails, or
\* is the one that makes the kernel notice.
PlayerData ==
  /\ ppc = "player"
  /\ fromPlayer # <<>>
  /\ \/ \E n \in 1 .. Len(fromPlayer) :
          /\ fromPlayer' = SubSeq(fromPlayer, n + 1, Len(fromPlayer))
          /\ toHal' = toHal \o SubSeq(fromPlayer, 1, n)
          /\ Handle(ready \ {"player"})
          /\ UNCHANGED <<toProxy, toPlayer>>
     \/ ~up /\ Exits
  /\ UNCHANGED <<halVars, playerVars>>

\* The end of the player's connection: it is closed and the next one is accepted.
PlayerLost ==
  /\ ppc = "player"
  /\ fromPlayer = <<>> /\ player # "open"
  /\ player' = "none"
  /\ toPlayer' = <<>>
  /\ ppc' = "acceptPlayer" /\ ready' = {}
  /\ UNCHANGED <<halVars, toProxy, toHal, players, losses, fromPlayer>>

\* Queries are sent to the player.  A player that closed its connection answers
\* with a reset; on a connection that is reset the send fails, and main returns.
HalData ==
  /\ ppc = "hal"
  /\ toProxy # <<>>
  /\ \/ /\ player # "reset"
        /\ \E n \in 1 .. Len(toProxy) :
             /\ toProxy' = SubSeq(toProxy, n + 1, Len(toProxy))
             /\ toPlayer' = IF player = "open"
                            THEN toPlayer \o SubSeq(toProxy, 1, n) ELSE toPlayer
        /\ player' = IF player = "closed" THEN "reset" ELSE player
        /\ Handle({})
        /\ UNCHANGED <<toHal, fromPlayer>>
     \/ /\ player = "reset"
        /\ Exits
        /\ UNCHANGED player
  /\ UNCHANGED <<halVars, players, losses>>

\* The end of the connection of the HAL: main returns.
HalLost ==
  /\ ppc = "hal"
  /\ toProxy = <<>>
  /\ Exits
  /\ UNCHANGED <<halVars, playerVars>>

-----------------------------------------------------------------------------
(* The player.  It connects once local_camera listens for it, answers its   *)
(* queries in order, and may leave in the middle of an answer.              *)

PlayerConnects ==
  /\ player = "none"
  /\ ppc \notin {"acceptHal", "exited"}
  /\ players < MaxPlayers
  /\ player' = "open"
  /\ players' = players + 1
  /\ UNCHANGED <<halVars, toProxy, toHal, proxyVars, losses, toPlayer, fromPlayer>>

PlayerAnswers ==
  /\ player = "open"
  /\ toPlayer # <<>>
  /\ fromPlayer' = fromPlayer \o Reply(Head(toPlayer))
  /\ toPlayer' = Tail(toPlayer)
  /\ UNCHANGED <<halVars, toProxy, toHal, proxyVars, playerVars>>

PlayerLeaves ==
  /\ player = "open"
  /\ \E end \in {"closed", "reset"}, n \in 0 .. Len(fromPlayer) :
       /\ player' = end
       /\ fromPlayer' = SubSeq(fromPlayer, 1, n)
  /\ losses' = losses + 1
  /\ toPlayer' = <<>>
  /\ UNCHANGED <<halVars, toProxy, toHal, proxyVars, players>>

-----------------------------------------------------------------------------
Hal == SendQuery \/ ReadSize \/ ReadSkip \/ ReadData \/ ReadFails
Proxy == AcceptHal \/ AcceptPlayer \/ Select \/ PlayerData \/ PlayerLost
         \/ HalData \/ HalLost
Player == PlayerConnects \/ PlayerAnswers \/ PlayerLeaves

Next == Hal \/ HalDies \/ Proxy \/ Player

Spec == Init /\ [][Next]_vars

\* local_camera is scheduled, and a read of the HAL returns or times out.
FairSpec == Spec /\ WF_vars(Proxy) /\ WF_vars(Hal)

-----------------------------------------------------------------------------
(* Properties                                                               *)

\* Every variable stays within its declared range.
TypeOK ==
  /\ up \in BOOLEAN
  /\ hpc \in {"idle", "size", "data", "skip"}
  /\ asked \in 0 .. MaxQueries /\ answered \in 0 .. MaxQueries
  /\ failures \in 0 .. MaxQueries
  /\ kind \in Kinds /\ want \in 0 .. 2 /\ body \in Seq(Units)
  /\ torn \in BOOLEAN
  /\ toProxy \in Seq(Queries) /\ toPlayer \in Seq(Queries)
  /\ toHal \in Seq(Units) /\ fromPlayer \in Seq(Units)
  /\ ppc \in {"acceptHal", "acceptPlayer", "select", "player", "hal", "exited"}
  /\ ready \subseteq {"player", "hal"}
  /\ player \in {"none", "open", "closed", "reset"}
  /\ players \in 0 .. MaxPlayers /\ losses \in 0 .. MaxPlayers

\* The queries on their way, or answered by something the HAL has not read.
Outstanding ==
  {toProxy[i].id : i \in DOMAIN toProxy} \cup {toPlayer[i].id : i \in DOMAIN toPlayer}
  \cup {fromPlayer[i].id : i \in DOMAIN fromPlayer}
  \cup {toHal[i].id : i \in DOMAIN toHal}

\* The protocol has no identifiers, so what is left on the way of queries that
\* failed is all that can be mistaken for an answer: a query is outstanding only if
\* it is the current one or later than the last answer used, and there are no more
\* of them than failures, plus the current one.
BacklogBounded ==
  /\ \A id \in Outstanding : id >= answered
  /\ Cardinality(Outstanding) <= failures + (IF hpc = "idle" THEN 0 ELSE 1)
                                 + (IF answered \in Outstanding THEN 1 ELSE 0)

\* A query uses a frame made of the pieces of two replies only after a player was lost:
\* timeouts and reads of any size never tear one.
FrameIsWhole == torn => losses > 0

\* Answers are used in order, at most once, and late by at most the failures.
QC == INSTANCE QueryChannel WITH pending <- hpc # "idle"
ImplementsQueryChannel == QC!Spec

\* local_camera: "If connection is lost from the android side, we exit".
HalLossEndsProxy == ~up ~> ppc = "exited"
=============================================================================
