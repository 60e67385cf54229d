----------------------------- MODULE RtspClient -----------------------------
(***************************************************************************)
(* The RTSP player: Live555.start and stop, init and deinit of             *)
(* live555.cpp, and Rtsp.cpp. The user's thread makes an Rtsp object with  *)
(* its client, sends DESCRIBE and starts the event loop thread, in which   *)
(* every answer of the server, the end of a subsession, the RTCP BYE and   *)
(* the timer are handled one after the other (live555, external).          *)
(*                                                                         *)
(* A sink that exists may hand a frame to its callback at any moment, so   *)
(* delivery has no action of its own.                                      *)
(***************************************************************************)
EXTENDS Naturals

CONSTANTS
    MaxStarts,     \* bound: Rtsp objects made
    MaxSubs        \* bound: subsessions an SDP description announces

ASSUME RtspAssumption == {MaxStarts, MaxSubs} \subseteq Nat \ {0}

Ids  == 1 .. MaxStarts
Subs == 1 .. MaxSubs

VARIABLES
    ui,            \* the user's thread: "idle", or where it is in init or deinit
    rtsp,          \* the static pointer: the current Rtsp object, 0 for NULL
    starts,        \* Rtsp objects made
    codec,         \* between mediaCodec_create and mediaCodec_destroy
    obj,           \* the Rtsp objects with their clients
    hasty          \* history: start was called with an Rtsp object there

vars == <<ui, rtsp, starts, codec, obj, hasty>>

(***************************************************************************)
(* An Rtsp object and its client: life tells whether the client has been   *)
(* closed (and so deleted), awaits the request whose answer is pending,    *)
(* subs and sub the subsessions and the one the iterator is at, sink the   *)
(* sink of each with the callback it was made with, bye those whose BYE    *)
(* handler is set. early, closes and ended are history: a sink was made    *)
(* before setFrameCallback; calls of shutdownStream; who ended the stream. *)
(***************************************************************************)
Sinks   == {"none", "unset", "decoder"}
NoSinks == [s \in Subs |-> "none"]

Object ==
    [loop : {"none", "running", "closing", "ended"}, isShutDown : BOOLEAN, watch : BOOLEAN,
     rtsp_client : BOOLEAN, life : {"none", "open", "closed"},
     frameCallback : {"unset", "decoder"}, isPlaying : BOOLEAN,
     awaits : {"nothing", "DESCRIBE", "SETUP", "PLAY"}, subs : 0 .. MaxSubs, sub : 0 .. MaxSubs + 1,
     sink : [Subs -> Sinks], bye : SUBSET Subs, timer : BOOLEAN,
     early : BOOLEAN, closes : Nat, ended : {"not", "server", "user"}]

Unmade ==
    [loop |-> "none", isShutDown |-> FALSE, watch |-> FALSE, rtsp_client |-> FALSE, life |-> "none",
     frameCallback |-> "unset", isPlaying |-> FALSE, awaits |-> "nothing", subs |-> 0, sub |-> 0,
     sink |-> NoSinks, bye |-> {}, timer |-> FALSE, early |-> FALSE, closes |-> 0, ended |-> "not"]

Init ==
    /\ ui = "idle" /\ rtsp = 0 /\ starts = 0 /\ codec = "none" /\ hasty = FALSE
    /\ obj = [i \in Ids |-> Unmade]

-----------------------------------------------------------------------------
(***************************************************************************)
(* shutdownStream                                                          *)
(***************************************************************************)
Closed(o, who) ==
    [o EXCEPT !.sink = NoSinks, !.bye = {}, !.timer = FALSE, !.awaits = "nothing",
              !.life = "closed", !.isPlaying = FALSE, !.closes = @ + 1,
              !.ended = IF @ = "not" THEN who ELSE @]

\* What was closed once and is closed again stays closed.
shutdownStream(o, who) == Closed(o, who)

(***************************************************************************)
(* The event loop thread of object i                                       *)
(***************************************************************************)
Handles(i) == obj[i].loop = "running"
Put(i, o)  == obj' = [obj EXCEPT ![i] = o] /\ UNCHANGED <<ui, rtsp, starts, codec, hasty>>

\* mutant: the iterator is moved once more after the last subsession
PastLast(o) ==
    {[o EXCEPT !.sub = k, !.awaits = IF k <= o.subs THEN "SETUP" ELSE "PLAY"] :
        k \in o.sub + 1 .. o.subs + 2}

\* The next subsession that can be initiated, or PLAY after the last.
setupNextSubsession(o) ==
    {[o EXCEPT !.sub = k, !.awaits = IF k <= o.subs THEN "SETUP" ELSE "PLAY"] :
        k \in o.sub + 1 .. o.subs + 1}

\* A refusal, or a description without subsessions: the client stays as it is.
continueAfterDESCRIBE(i) ==
    /\ Handles(i) /\ obj[i].awaits = "DESCRIBE"
    /\ \/ Put(i, [obj[i] EXCEPT !.awaits = "nothing"])
       \/ \E n \in Subs :
             \E o \in setupNextSubsession([obj[i] EXCEPT !.subs = n]) : Put(i, o)

SetUp(i, o, hasRtcp) ==
    [o EXCEPT !.sink[o.sub] = o.frameCallback,
              !.bye = IF hasRtcp THEN @ \cup {o.sub} ELSE @,
              !.early = @ \/ (ui = "setFrameCallback" /\ rtsp = i)]

continueAfterSETUP(i) ==
    /\ Handles(i) /\ obj[i].awaits = "SETUP"
    /\ \E o \in {obj[i]} \cup {SetUp(i, obj[i], hasRtcp) : hasRtcp \in BOOLEAN} :
          \E p \in setupNextSubsession(o) : Put(i, p)

continueAfterPLAY(i) ==
    /\ Handles(i) /\ obj[i].awaits = "PLAY"
    /\ \/ Put(i, shutdownStream(obj[i], "server"))
       \/ \E timed \in BOOLEAN :
             Put(i, [obj[i] EXCEPT !.awaits = "nothing", !.isPlaying = TRUE, !.timer = timed])

\* The stream is closed with its last subsession, also while a SETUP is pending.
subsessionAfterPlaying(o, s) ==
    LET p == [o EXCEPT !.sink[s] = "none"]
    IN  IF \E t \in Subs : p.sink[t] # "none" THEN p ELSE shutdownStream(p, "server")

SourceClosure(i, s) ==
    /\ Handles(i) /\ obj[i].sink[s] # "none"
    /\ Put(i, subsessionAfterPlaying(obj[i], s))

\* The BYE handler of a subsession is called once (live555).
subsessionByeHandler(i, s) ==
    /\ Handles(i) /\ s \in obj[i].bye
    /\ Put(i, subsessionAfterPlaying([obj[i] EXCEPT !.bye = @ \ {s}], s))

streamTimerHandler(i) ==
    /\ Handles(i) /\ obj[i].timer
    /\ Put(i, shutdownStream([obj[i] EXCEPT !.timer = FALSE], "server"))

\* envThead, once the watch variable has ended the event loop.
LeaveLoop(i) ==
    /\ Handles(i) /\ obj[i].watch
    /\ LET o == [obj[i] EXCEPT !.watch = FALSE, !.loop = "closing"]
       IN  Put(i, IF o.rtsp_client THEN [shutdownStream(o, "user") EXCEPT !.rtsp_client = FALSE]
                                   ELSE o)

\* mutant: the end of the thread closes the client as well
ClosesAgain(i) ==
    /\ obj[i].loop = "closing"
    /\ Put(i, [shutdownStream(obj[i], "user") EXCEPT !.isShutDown = FALSE, !.loop = "ended"])

EndLoop(i) ==
    /\ obj[i].loop = "closing"
    /\ Put(i, [obj[i] EXCEPT !.isShutDown = FALSE, !.loop = "ended"])

\* mutant: isShutDown is reset before the stream is closed
AnnounceFirst(i) ==
    \/ /\ Handles(i) /\ obj[i].watch
       /\ Put(i, [obj[i] EXCEPT !.watch = FALSE, !.loop = "closing", !.isShutDown = FALSE])
    \/ /\ obj[i].loop = "closing"
       /\ Put(i, [shutdownStream(obj[i], "user") EXCEPT !.rtsp_client = FALSE, !.loop = "ended"])

envThead(i) == LeaveLoop(i) \/ EndLoop(i)

Handlers(i) ==
    \/ continueAfterDESCRIBE(i) \/ continueAfterSETUP(i) \/ continueAfterPLAY(i)
    \/ streamTimerHandler(i)
    \/ \E s \in Subs : SourceClosure(i, s) \/ subsessionByeHandler(i, s)

(***************************************************************************)
(* The user's thread                                                       *)
(***************************************************************************)
\* What isPlaying may return; a closed client is read after its deletion.
isPlaying ==
    IF rtsp = 0 THEN {FALSE}
    ELSE IF obj[rtsp].life = "closed" THEN BOOLEAN ELSE {obj[rtsp].isPlaying}

\* Rtsp::start: a new client that has sent DESCRIBE, and its event loop.
Started == [Unmade EXCEPT !.rtsp_client = TRUE, !.life = "open", !.awaits = "DESCRIBE", !.loop = "running"]

start ==
    /\ ui = "idle" /\ starts < MaxStarts
    /\ FALSE \in isPlaying
    /\ starts' = starts + 1
    /\ rtsp' = starts + 1
    /\ obj' = [obj EXCEPT ![starts + 1] = Started]
    /\ codec' = "created"
    /\ ui' = "setFrameCallback"
    /\ hasty' = (hasty \/ rtsp # 0)

\* mutant: the callback is set before start has made the client
TooSoon ==
    /\ ui = "setFrameCallback" /\ ui' = "idle"
    /\ UNCHANGED <<rtsp, starts, codec, obj, hasty>>

setFrameCallback ==
    /\ ui = "setFrameCallback"
    /\ ui' = "idle"
    /\ obj' = [obj EXCEPT ![rtsp].frameCallback = IF obj[rtsp].rtsp_client THEN "decoder" ELSE @]
    /\ UNCHANGED <<rtsp, starts, codec, hasty>>

stop ==
    /\ ui = "idle" /\ (rtsp # 0 \/ codec # "none")
    /\ ui' = IF rtsp # 0 THEN "shutDown" ELSE "mediaCodec_destroy"
    /\ UNCHANGED <<rtsp, starts, codec, obj, hasty>>

\* shutDown sets isShutDown, then the watch variable, then waits.
SetBoth(first, second) ==
    /\ \/ ui = "shutDown" /\ ui' = "watch" /\ obj' = [obj EXCEPT ![rtsp] = first]
       \/ ui = "watch" /\ ui' = "spin" /\ obj' = [obj EXCEPT ![rtsp] = second]
    /\ UNCHANGED <<rtsp, starts, codec, hasty>>

\* mutant: the watch variable first
WatchFirst == rtsp # 0 /\ SetBoth([obj[rtsp] EXCEPT !.watch = TRUE],
                                  [obj[rtsp] EXCEPT !.isShutDown = TRUE])

shutDown == rtsp # 0 /\ SetBoth([obj[rtsp] EXCEPT !.isShutDown = TRUE],
                                [obj[rtsp] EXCEPT !.watch = TRUE])

SpinEnds ==
    /\ ui = "spin" /\ ~obj[rtsp].isShutDown
    /\ ui' = "mediaCodec_destroy"
    /\ rtsp' = 0
    /\ UNCHANGED <<starts, codec, obj, hasty>>

DestroyCodec ==
    /\ ui = "mediaCodec_destroy"
    /\ ui' = "idle"
    /\ codec' = "none"
    /\ UNCHANGED <<rtsp, starts, obj, hasty>>

User == start \/ setFrameCallback \/ stop \/ shutDown \/ SpinEnds \/ DestroyCodec

-----------------------------------------------------------------------------
Next == User \/ \E i \in Ids : Handlers(i) \/ envThead(i)

\* The event loop wakes up at least every 10 ms (BasicTaskScheduler), each
\* handler returns, and a thread in deinit goes on.
Fairness ==
    /\ WF_vars(shutDown \/ SpinEnds \/ DestroyCodec)
    /\ \A i \in Ids : WF_vars(envThead(i))

Spec == Init /\ [][Next]_vars /\ Fairness

(***************************************************************************)
(* Properties                                                              *)
(***************************************************************************)
\* Types of the user's thread and of the Rtsp objects.
TypeOK ==
    /\ ui \in {"idle", "setFrameCallback", "shutDown", "watch", "spin", "mediaCodec_destroy"}
    /\ rtsp \in 0 .. starts /\ starts \in 0 .. MaxStarts
    /\ codec \in {"none", "created"} /\ hasty \in BOOLEAN
    /\ obj \in [Ids -> Object]

\* The event loop of an Rtsp object that is no longer the current one has
\* ended, its client is closed and no sink of it can call back: a stopped
\* player is silent before the codec is destroyed. Only a start made while an
\* object was there (still connecting, or ended by the server: "rtsp already
\* existed") leaves a stream behind that nobody can stop.
OneStream ==
    ~hasty => \A i \in 1 .. starts :
                 i # rtsp => /\ obj[i].loop = "ended" /\ obj[i].life = "closed"
                             /\ obj[i].sink = NoSinks /\ obj[i].bye = {} /\ ~obj[i].timer

\* shutdownStream runs once for a client, and once more only when the user
\* stops a stream that the server had ended (BYE, end of the streams, timer,
\* refused PLAY): rtsp_client still points to the closed client then.
ClosedOnce ==
    \A i \in Ids : obj[i].closes <= IF obj[i].ended = "server" THEN 2 ELSE 1

\* Every sink calls the decoder, unless the server's answer to SETUP came
\* while init was still between start and setFrameCallback.
SinkKnowsDecoder ==
    \A i \in Ids : ~obj[i].early => \A s \in Subs : obj[i].sink[s] # "unset"

\* deinit returns, whatever the server did or failed to do before.
ShutdownReturns == ui = "shutDown" ~> ui = "idle"
=============================================================================
