------------------------- MODULE RtspClient_proofs -------------------------
(***************************************************************************)
(* The safety of the RTSP player for any number of Rtsp objects and        *)
(* subsessions. Sound says of one object which of its fields go together;  *)
(* every handler takes a sound object to a sound object. Served adds what  *)
(* the user's thread knows of the current object and of the earlier ones.  *)
(***************************************************************************)
EXTENDS RtspClient, TLAPS

Quiet(o) == /\ o.sink = NoSinks /\ o.bye = {} /\ ~o.timer
            /\ o.awaits = "nothing" /\ ~o.isPlaying

Counted(o) == IF o.rtsp_client THEN o.closes = 1 /\ o.ended = "server"
              ELSE o.closes = 1 \/ (o.closes = 2 /\ o.ended = "server")

\* A sink that does not know the decoder was made early.
Knows(o) == ~o.early => \A s \in Subs : o.sink[s] # "unset"

Sound(o) ==
    /\ Knows(o)
    /\ o.loop = "none" <=> o.life = "none"
    /\ o.loop \in {"closing", "ended"} => ~o.rtsp_client /\ o.life = "closed"
    /\ o.loop = "running" => o.rtsp_client
    /\ o.life # "open" => Quiet(o)
    /\ o.life # "closed" => o.closes = 0 /\ o.ended = "not"
    /\ o.life = "closed" => Counted(o)
    /\ o.awaits \in {"SETUP"} => o.sub \in 1 .. o.subs

\* What a handler of the server leaves behind in place of the object o.
Kept(o, p) ==
    /\ p \in Object /\ Sound(p)
    /\ p.loop = o.loop /\ p.isShutDown = o.isShutDown /\ p.watch = o.watch
    /\ p.frameCallback = o.frameCallback

\* Until init sets the callback of an object whose loop is running, the user's
\* thread is still at that statement.
AwaitsCallback(i) ==
    obj[i].loop = "running" /\ obj[i].frameCallback = "unset" => ui = "setFrameCallback" /\ rtsp = i

SoundObjects == \A i \in Ids : Sound(obj[i])

\* What the user's thread may rely on.
Served ==
    /\ \A i \in Ids : obj[i].loop = "none" <=> i > starts
    /\ ui \in {"setFrameCallback", "shutDown", "watch", "spin"} => rtsp # 0
    /\ ui = "mediaCodec_destroy" => rtsp = 0
    /\ rtsp # 0 /\ ui # "spin" => ~obj[rtsp].watch /\ obj[rtsp].loop = "running"
    /\ ui \in {"watch", "spin"} => obj[rtsp].isShutDown \/ obj[rtsp].loop = "ended"
    /\ ~hasty => \A i \in 1 .. starts : i # rtsp => obj[i].loop = "ended"
    /\ \A i \in Ids : AwaitsCallback(i)

IInv == TypeOK /\ SoundObjects /\ Served

LEMMA ObjectFields ==
  ASSUME NEW o \in Object
  PROVE  /\ o.loop \in {"none", "running", "closing", "ended"}
         /\ o.isShutDown \in BOOLEAN /\ o.watch \in BOOLEAN /\ o.rtsp_client \in BOOLEAN
         /\ o.life \in {"none", "open", "closed"} /\ o.frameCallback \in {"unset", "decoder"}
         /\ o.isPlaying \in BOOLEAN /\ o.awaits \in {"nothing", "DESCRIBE", "SETUP", "PLAY"}
         /\ o.subs \in 0 .. MaxSubs /\ o.sub \in 0 .. MaxSubs + 1
         /\ o.sink \in [Subs -> Sinks] /\ o.bye \in SUBSET Subs
         /\ o.timer \in BOOLEAN /\ o.early \in BOOLEAN /\ o.closes \in Nat
         /\ o.ended \in {"not", "server", "user"}
BY DEF Object

LEMMA UnmadeIsSound == Unmade \in Object /\ Sound(Unmade)
BY RtspAssumption DEF Unmade, Object, Sound, Knows, Quiet, NoSinks, Sinks, Subs

\* What shutdownStream does to each field of the client.
ClosedFrom(o, who, c) ==
    /\ c \in Object
    /\ c.sink = NoSinks /\ c.bye = {} /\ c.timer = FALSE /\ c.awaits = "nothing"
    /\ c.life = "closed" /\ c.isPlaying = FALSE /\ c.closes = o.closes + 1
    /\ c.ended = (IF o.ended = "not" THEN who ELSE o.ended)
    /\ c.loop = o.loop /\ c.isShutDown = o.isShutDown /\ c.watch = o.watch
    /\ c.rtsp_client = o.rtsp_client /\ c.frameCallback = o.frameCallback

LEMMA ClosedFields ==
  ASSUME NEW o \in Object, NEW who \in {"server", "user"}
  PROVE  ClosedFrom(o, who, shutdownStream(o, who))
<1> DEFINE c == shutdownStream(o, who)
<1>1. NoSinks \in [Subs -> Sinks]  BY DEF NoSinks, Sinks
<1>2. o.closes + 1 \in Nat  BY ObjectFields
<1>3. (IF o.ended = "not" THEN who ELSE o.ended) \in {"not", "server", "user"}  BY ObjectFields
<1>4. c \in Object  BY <1>1, <1>2, <1>3 DEF shutdownStream, Closed, Object
<1> QED  BY <1>4 DEF ClosedFrom, shutdownStream, Closed, Object

\* A client that is open and closed by the server stays with its loop.
LEMMA ServerCloses ==
  ASSUME NEW o \in Object, Sound(o), o.life = "open",
         NEW c, c = shutdownStream(o, "server")
  PROVE  Kept(o, c)
<1>1. ClosedFrom(o, "server", c)  BY ClosedFields
<1>2. o.loop = "running" /\ o.rtsp_client /\ o.closes = 0 /\ o.ended = "not"
  BY ObjectFields DEF Sound
<1>3. Quiet(c) /\ Counted(c)  BY <1>1, <1>2 DEF Quiet, Counted, ClosedFrom
<1>4. Sound(c)  BY <1>1, <1>2, <1>3 DEF Sound, Knows, NoSinks, ClosedFrom
<1> QED  BY <1>1, <1>4 DEF Kept, ClosedFrom

-----------------------------------------------------------------------------
\* Going on to the next subsession.
LEMMA NextSubsessionKeeps ==
  ASSUME NEW o \in Object, Sound(o), o.life = "open", NEW p \in setupNextSubsession(o)
  PROVE  Kept(o, p)
<1>1. PICK k \in o.sub + 1 .. o.subs + 1 :
         p = [o EXCEPT !.sub = k, !.awaits = IF k <= o.subs THEN "SETUP" ELSE "PLAY"]
  BY DEF setupNextSubsession
<1>2. o.sub \in 0 .. MaxSubs + 1 /\ o.subs \in 0 .. MaxSubs  BY ObjectFields
<1>3. k \in 1 .. MaxSubs + 1 /\ (k <= o.subs => k \in 1 .. o.subs)  BY <1>2, RtspAssumption
<1>a. (IF k <= o.subs THEN "SETUP" ELSE "PLAY") \in {"nothing", "DESCRIBE", "SETUP", "PLAY"}
  OBVIOUS
<1>b. k \in 0 .. MaxSubs + 1  BY <1>3, RtspAssumption
<1>4. p \in Object  BY <1>1, <1>a, <1>b DEF Object
<1>5. /\ p.sub = k /\ p.awaits = (IF k <= o.subs THEN "SETUP" ELSE "PLAY")
      /\ p.loop = o.loop /\ p.isShutDown = o.isShutDown /\ p.watch = o.watch
      /\ p.life = "open" /\ p.rtsp_client = o.rtsp_client /\ p.closes = o.closes
      /\ p.ended = o.ended /\ p.subs = o.subs
      /\ p.sink = o.sink /\ p.early = o.early /\ p.frameCallback = o.frameCallback
  BY <1>1 DEF Object
<1>6. Sound(p)  BY <1>3, <1>5 DEF Sound, Knows
<1> QED  BY <1>4, <1>5, <1>6 DEF Kept

\* The sink of the subsession that was set up.
LEMMA SetUpKeeps ==
  ASSUME NEW i, NEW o \in Object, Sound(o), o.life = "open", o.awaits = "SETUP",
         o.frameCallback = "unset" => ui = "setFrameCallback" /\ rtsp = i,
         NEW h \in BOOLEAN, NEW p, p = SetUp(i, o, h)
  PROVE  Kept(o, p) /\ p.life = "open"
<1> DEFINE e == o.early \/ (ui = "setFrameCallback" /\ rtsp = i)
           k == [o.sink EXCEPT ![o.sub] = o.frameCallback]
           b == IF h THEN o.bye \cup {o.sub} ELSE o.bye
<1>1. o.sub \in Subs  BY ObjectFields, RtspAssumption DEF Sound, Subs
<1>2. k \in [Subs -> Sinks]  BY ObjectFields DEF Sinks
<1>3. b \in SUBSET Subs  BY <1>1, ObjectFields
<1>4. e \in BOOLEAN  OBVIOUS
<1>5. p = [o EXCEPT !.sink = k, !.bye = b, !.early = e]  BY DEF SetUp, Object
<1> HIDE DEF e, k, b
<1>6. p \in Object  BY <1>2, <1>3, <1>4, <1>5 DEF Object
<1>7. /\ p.sub = o.sub /\ p.awaits = o.awaits
      /\ p.loop = o.loop /\ p.isShutDown = o.isShutDown /\ p.watch = o.watch
      /\ p.life = "open" /\ p.rtsp_client = o.rtsp_client /\ p.closes = o.closes
      /\ p.ended = o.ended /\ p.subs = o.subs
      /\ p.sink = k /\ p.early = e /\ p.frameCallback = o.frameCallback
  BY <1>5 DEF Object
<1>8. Knows(p)
  <2>1. ~e => o.frameCallback # "unset" /\ ~o.early  BY DEF e
  <2>2. \A s \in Subs : k[s] = o.sink[s] \/ k[s] = o.frameCallback  BY ObjectFields DEF k
  <2> QED  BY <1>7, <2>1, <2>2 DEF Knows, Sound
<1>9. Sound(p)  BY <1>7, <1>8 DEF Sound
<1> QED  BY <1>6, <1>7, <1>9 DEF Kept

\* A subsession that ends, the last one with the client.
LEMMA EndOfSubsessionKeeps ==
  ASSUME NEW o \in Object, Sound(o), o.life = "open", NEW s \in Subs,
         NEW p, p = subsessionAfterPlaying(o, s)
  PROVE  Kept(o, p)
<1> DEFINE k == [o.sink EXCEPT ![s] = "none"]
           q == [o EXCEPT !.sink = k]
<1>1. p = q \/ p = shutdownStream(q, "server")  BY DEF subsessionAfterPlaying, Object
<1>2. k \in [Subs -> Sinks]  BY ObjectFields DEF Sinks
<1> HIDE DEF k
<1>3. q \in Object  BY <1>2 DEF Object
<1>4. /\ q.sub = o.sub /\ q.awaits = o.awaits
      /\ q.loop = o.loop /\ q.isShutDown = o.isShutDown /\ q.watch = o.watch
      /\ q.life = "open" /\ q.rtsp_client = o.rtsp_client /\ q.closes = o.closes
      /\ q.ended = o.ended /\ q.subs = o.subs
      /\ q.sink = k /\ q.early = o.early /\ q.frameCallback = o.frameCallback
  BY DEF Object
<1>5. Sound(q)
  <2>1. \A t \in Subs : k[t] = o.sink[t] \/ k[t] = "none"  BY ObjectFields DEF k
  <2>2. Knows(q)  BY <1>4, <2>1 DEF Knows, Sound
  <2> QED  BY <1>4, <2>2 DEF Sound
<1> HIDE DEF q
<1>6. CASE p = q  BY <1>3, <1>4, <1>5, <1>6 DEF Kept
<1>7. CASE p = shutdownStream(q, "server")
  <2>1. Kept(q, p)  BY <1>3, <1>4, <1>5, <1>7, ServerCloses
  <2> QED  BY <1>4, <2>1 DEF Kept
<1> QED  BY <1>1, <1>6, <1>7

\* Every handler of an answer, an end, a BYE or the timer.
LEMMA HandlersKeep ==
  ASSUME NEW i \in Ids, TypeOK, SoundObjects, AwaitsCallback(i), Handlers(i)
  PROVE  \E p : Kept(obj[i], p) /\ Put(i, p)
<1> DEFINE o == obj[i]
<1>1. o \in Object /\ Sound(o)  BY DEF TypeOK, SoundObjects
<1>2. o.life # "open" => Quiet(o)  BY <1>1 DEF Sound
<1>3. CASE continueAfterDESCRIBE(i)
  <2>1. o.life = "open"  BY <1>2, <1>3 DEF continueAfterDESCRIBE, Quiet
  <2>2. CASE Put(i, [o EXCEPT !.awaits = "nothing"])
    <3> DEFINE p == [o EXCEPT !.awaits = "nothing"]
    <3>1. p \in Object  BY <1>1 DEF Object
    <3>2. Sound(p)  BY <1>1, <2>1 DEF Sound, Knows, Object
    <3>3. Kept(o, p)  BY <1>1, <3>1, <3>2 DEF Kept, Object
    <3> QED  BY <2>2, <3>3
  <2>3. ASSUME NEW n \in Subs, NEW p \in setupNextSubsession([o EXCEPT !.subs = n]), Put(i, p)
        PROVE  Kept(o, p)
    <3> DEFINE q == [o EXCEPT !.subs = n]
    <3>1. n \in 0 .. MaxSubs  BY RtspAssumption DEF Subs
    <3>2. q \in Object  BY <1>1, <3>1 DEF Object
    <3>3. q.life = "open" /\ q.awaits = "DESCRIBE"  BY <1>1, <1>3, <2>1 DEF Object, continueAfterDESCRIBE
    <3>4. Sound(q)  BY <1>1, <2>1, <3>3 DEF Sound, Knows, Object
    <3>5. Kept(q, p)  BY <2>3, <3>2, <3>3, <3>4, NextSubsessionKeeps
    <3>6. q.loop = o.loop /\ q.isShutDown = o.isShutDown /\ q.watch = o.watch
       /\ q.frameCallback = o.frameCallback
    BY <1>1 DEF Object
    <3> QED  BY <3>5, <3>6 DEF Kept
  <2> QED  BY <1>3, <2>2, <2>3 DEF continueAfterDESCRIBE
<1>4. CASE continueAfterSETUP(i)
  <2>1. o.life = "open" /\ o.awaits = "SETUP"  BY <1>2, <1>4 DEF continueAfterSETUP, Quiet
  <2>0. o.frameCallback = "unset" => ui = "setFrameCallback" /\ rtsp = i
    BY <1>4 DEF AwaitsCallback, continueAfterSETUP, Handles
  <2>2. PICK q \in {o} \cup {SetUp(i, o, h) : h \in BOOLEAN} :
           \E p \in setupNextSubsession(q) : Put(i, p)
    BY <1>4 DEF continueAfterSETUP
  <2>3. Kept(o, q) /\ q.life = "open"
    <3>1. CASE q = o  BY <1>1, <2>1, <3>1 DEF Kept
    <3>2. ASSUME NEW h \in BOOLEAN, q = SetUp(i, o, h)  PROVE Kept(o, q) /\ q.life = "open"
      BY <1>1, <2>1, <2>0, <3>2, SetUpKeeps
    <3> QED  BY <2>2, <3>1, <3>2
  <2>4. PICK p \in setupNextSubsession(q) : Put(i, p)  BY <2>2
  <2>5. Kept(q, p)  BY <2>3, NextSubsessionKeeps DEF Kept
  <2> QED  BY <2>3, <2>4, <2>5 DEF Kept
<1>5. CASE continueAfterPLAY(i)
  <2>1. o.life = "open" /\ o.awaits = "PLAY"  BY <1>2, <1>5 DEF continueAfterPLAY, Quiet
  <2>2. CASE Put(i, shutdownStream(o, "server"))  BY <1>1, <2>1, <2>2, ServerCloses
  <2>3. ASSUME NEW t \in BOOLEAN
        PROVE  Kept(o, [o EXCEPT !.awaits = "nothing", !.isPlaying = TRUE, !.timer = t])
    <3> DEFINE p == [o EXCEPT !.awaits = "nothing", !.isPlaying = TRUE, !.timer = t]
    <3>1. p \in Object  BY <1>1 DEF Object
    <3>2. Sound(p)  BY <1>1, <2>1 DEF Sound, Knows, Object
    <3> QED  BY <1>1, <3>1, <3>2 DEF Kept, Object
  <2> QED  BY <1>5, <2>2, <2>3 DEF continueAfterPLAY
<1>6. CASE streamTimerHandler(i)
  <2> DEFINE q == [o EXCEPT !.timer = FALSE]
             p == shutdownStream(q, "server")
  <2>1. o.life = "open" /\ Put(i, p)  BY <1>2, <1>6 DEF streamTimerHandler, Quiet
  <2>2. q \in Object /\ q.life = "open"  BY <1>1, <2>1 DEF Object
  <2>3. Sound(q)  BY <1>1, <2>1 DEF Sound, Knows, Object
  <2>4. Kept(q, p)  BY <2>2, <2>3, ServerCloses
  <2>5. q.loop = o.loop /\ q.isShutDown = o.isShutDown /\ q.watch = o.watch
       /\ q.frameCallback = o.frameCallback
    BY <1>1 DEF Object
  <2> QED  BY <2>1, <2>4, <2>5 DEF Kept
<1>7. ASSUME NEW s \in Subs, SourceClosure(i, s)  PROVE \E p : Kept(o, p) /\ Put(i, p)
  <2>1. o.life = "open"  BY <1>2, <1>7 DEF SourceClosure, Quiet, NoSinks
  <2> QED  BY <1>1, <1>7, <2>1, EndOfSubsessionKeeps DEF SourceClosure
<1>8. ASSUME NEW s \in Subs, subsessionByeHandler(i, s)  PROVE \E p : Kept(o, p) /\ Put(i, p)
  <2> DEFINE q == [o EXCEPT !.bye = o.bye \ {s}]
             p == subsessionAfterPlaying(q, s)
  <2>1. o.life = "open" /\ Put(i, p)  BY <1>1, <1>2, <1>8 DEF subsessionByeHandler, Quiet, Object
  <2>2. o.bye \ {s} \in SUBSET Subs  BY <1>1, ObjectFields
  <2>3. q \in Object  BY <1>1, <2>2 DEF Object
  <2>4. q.life = "open" /\ Sound(q)  BY <1>1, <2>1 DEF Sound, Knows, Object
  <2>5. Kept(q, p)  BY <2>3, <2>4, EndOfSubsessionKeeps
  <2>6. q.loop = o.loop /\ q.isShutDown = o.isShutDown /\ q.watch = o.watch
       /\ q.frameCallback = o.frameCallback
    BY <1>1 DEF Object
  <2> QED  BY <2>1, <2>5, <2>6 DEF Kept
<1> QED  BY <1>3, <1>4, <1>5, <1>6, <1>7, <1>8 DEF Handlers

-----------------------------------------------------------------------------
(***************************************************************************)
(* The inductive invariant                                                 *)
(***************************************************************************)
\* A handler changes nothing the user's thread relies on.
LEMMA HandlersServe ==
  ASSUME IInv, NEW i \in Ids, Handlers(i)
  PROVE  IInv'
<1>1. PICK p : Kept(obj[i], p) /\ Put(i, p)  BY HandlersKeep DEF IInv, Served
<1>2. obj' = [obj EXCEPT ![i] = p] /\ UNCHANGED <<ui, rtsp, starts, codec, hasty>>  BY <1>1 DEF Put
<1>3. TypeOK'  BY <1>1, <1>2 DEF IInv, TypeOK, Kept
<1>4. \A j \in Ids : Kept(obj[j], obj'[j])
  BY <1>1, <1>2 DEF IInv, TypeOK, SoundObjects, Kept
<1>5. SoundObjects'  BY <1>4 DEF SoundObjects, Kept
<1>6. Served'
  <2>1. \A j \in Ids : /\ obj'[j].loop = obj[j].loop /\ obj'[j].watch = obj[j].watch
                       /\ obj'[j].isShutDown = obj[j].isShutDown
                       /\ obj'[j].frameCallback = obj[j].frameCallback
    BY <1>4 DEF Kept
  <2>2. (rtsp # 0 => rtsp \in Ids) /\ 1 .. starts \subseteq Ids
    BY RtspAssumption DEF IInv, TypeOK, Ids
  <2> QED  BY <1>2, <2>1, <2>2 DEF IInv, Served, AwaitsCallback, TypeOK
<1> QED  BY <1>3, <1>5, <1>6 DEF IInv

\* The thread leaves the event loop: the client is closed if it still is there.
LEMMA LeaveLoopServes ==
  ASSUME IInv, NEW i \in Ids, LeaveLoop(i)
  PROVE  IInv'
<1> DEFINE o == obj[i]
           q == [o EXCEPT !.watch = FALSE, !.loop = "closing"]
           c == shutdownStream(q, "user")
           p == [c EXCEPT !.rtsp_client = FALSE]
<1>1. o \in Object /\ Sound(o) /\ o.loop = "running" /\ o.watch
  BY DEF IInv, TypeOK, SoundObjects, LeaveLoop, Handles
<1>2. q \in Object /\ o.rtsp_client /\ o.life # "none"  BY <1>1 DEF Object, Sound
<1>3. obj' = [obj EXCEPT ![i] = p] /\ UNCHANGED <<ui, rtsp, starts, codec, hasty>>
  BY <1>1, <1>2 DEF LeaveLoop, Put, Object
<1>5. /\ c \in Object
      /\ c.sink = NoSinks /\ c.bye = {} /\ c.timer = FALSE /\ c.awaits = "nothing"
      /\ c.life = "closed" /\ c.isPlaying = FALSE /\ c.closes = o.closes + 1
      /\ c.ended = (IF o.ended = "not" THEN "user" ELSE o.ended)
      /\ c.loop = "closing" /\ c.isShutDown = o.isShutDown /\ c.watch = FALSE
  <2>1. /\ q.closes = o.closes /\ q.ended = o.ended /\ q.loop = "closing"
        /\ q.isShutDown = o.isShutDown /\ q.watch = FALSE
    BY <1>1 DEF Object
  <2>2. ClosedFrom(q, "user", c)  BY <1>2, ClosedFields
  <2> HIDE DEF q, c
  <2> QED  BY <2>1, <2>2 DEF ClosedFrom
<1> HIDE DEF c
<1>6. /\ p \in Object
      /\ p.sink = NoSinks /\ p.bye = {} /\ p.timer = FALSE /\ p.awaits = "nothing"
      /\ p.life = "closed" /\ p.isPlaying = FALSE /\ p.closes = o.closes + 1
      /\ p.ended = (IF o.ended = "not" THEN "user" ELSE o.ended)
      /\ p.loop = "closing" /\ p.isShutDown = o.isShutDown /\ p.watch = FALSE
      /\ p.rtsp_client = FALSE
  BY <1>5 DEF Object
<1> HIDE DEF p
<1>7. o.life \in {"open", "closed"} /\ o.closes \in Nat  BY <1>1, <1>2, ObjectFields
<1>8. Counted(p)
  <2>1. CASE o.life = "open"  BY <1>1, <1>6, <2>1 DEF Counted, Sound
  <2>2. CASE o.life = "closed"  BY <1>1, <1>2, <1>6, <2>2 DEF Counted, Sound
  <2> QED  BY <1>7, <2>1, <2>2
<1>9. Sound(p)  BY <1>6, <1>8 DEF Sound, Knows, Quiet, NoSinks
<1>10. TypeOK'  BY <1>3, <1>6 DEF IInv, TypeOK
<1>11. SoundObjects'  BY <1>3, <1>9 DEF IInv, TypeOK, SoundObjects
<1>12. Served'
  <2>1. \A j \in Ids : /\ j # i => obj'[j] = obj[j]
                       /\ j = i => obj'[j] = p
    BY <1>3 DEF IInv, TypeOK
  <2>2. (rtsp # 0 => rtsp \in Ids) /\ 1 .. starts \subseteq Ids
    BY RtspAssumption DEF IInv, TypeOK, Ids
  <2> QED  BY <1>1, <1>3, <1>6, <2>1, <2>2 DEF IInv, Served, AwaitsCallback, TypeOK
<1> QED  BY <1>10, <1>11, <1>12 DEF IInv

LEMMA EndLoopServes ==
  ASSUME IInv, NEW i \in Ids, EndLoop(i)
  PROVE  IInv'
<1> DEFINE o == obj[i]
           p == [o EXCEPT !.isShutDown = FALSE, !.loop = "ended"]
<1>1. o \in Object /\ Sound(o) /\ o.loop = "closing"
  BY DEF IInv, TypeOK, SoundObjects, EndLoop
<1>2. obj' = [obj EXCEPT ![i] = p] /\ UNCHANGED <<ui, rtsp, starts, codec, hasty>>
  BY DEF EndLoop, Put
<1>3. p \in Object /\ p.loop = "ended" /\ p.watch = o.watch  BY <1>1 DEF Object
<1>4. Sound(p)  BY <1>1 DEF Sound, Knows, Quiet, Counted, Object
<1> HIDE DEF p
<1>5. TypeOK'  BY <1>2, <1>3 DEF IInv, TypeOK
<1>6. SoundObjects'  BY <1>2, <1>4 DEF IInv, TypeOK, SoundObjects
<1>7. Served'
  <2>1. \A j \in Ids : /\ j # i => obj'[j] = obj[j]
                       /\ j = i => obj'[j] = p
    BY <1>2 DEF IInv, TypeOK
  <2>2. (rtsp # 0 => rtsp \in Ids) /\ 1 .. starts \subseteq Ids
    BY RtspAssumption DEF IInv, TypeOK, Ids
  <2> QED  BY <1>1, <1>2, <1>3, <2>1, <2>2 DEF IInv, Served, AwaitsCallback, TypeOK
<1> QED  BY <1>5, <1>6, <1>7 DEF IInv

\* The user's thread.
LEMMA UserServes ==
  ASSUME IInv, User
  PROVE  IInv'
<1>1. /\ rtsp \in 0 .. starts /\ starts \in 0 .. MaxStarts /\ starts \in Nat
      /\ (rtsp # 0 => rtsp \in Ids) /\ 1 .. starts \subseteq Ids
  BY RtspAssumption DEF IInv, TypeOK, Ids
<1>2. rtsp # 0 => obj[rtsp] \in Object /\ Sound(obj[rtsp])
  BY <1>1 DEF IInv, TypeOK, SoundObjects
<1>3. CASE start
  <2> DEFINE i == starts + 1
             p == Started
  <2>1. i \in Ids /\ starts' = i /\ rtsp' = i  BY <1>1, <1>3, RtspAssumption DEF start, Ids
  <2>2. p \in Object  BY UnmadeIsSound DEF Object, Started
  <2>3. /\ p.loop = "running" /\ p.life = "open" /\ p.rtsp_client /\ p.awaits = "DESCRIBE"
        /\ p.closes = 0 /\ p.ended = "not" /\ p.watch = FALSE /\ p.sink = NoSinks
    BY DEF Unmade, Started
  <2>4. Sound(p)  BY <2>3 DEF Sound, Knows, NoSinks
  <2> HIDE DEF p
  <2>5. obj' = [obj EXCEPT ![i] = p]  BY <1>3 DEF start, p
  <2>6. TypeOK'
    <3>1. obj' \in [Ids -> Object]  BY <2>1, <2>2, <2>5 DEF IInv, TypeOK
    <3>2. hasty' \in BOOLEAN  BY <1>3 DEF start
    <3>3. ui' = "setFrameCallback" /\ codec' = "created"  BY <1>3 DEF start
    <3>4. rtsp' \in 0 .. starts' /\ starts' \in 0 .. MaxStarts
      BY <1>1, <1>3, <2>1, RtspAssumption DEF start
    <3> QED  BY <3>1, <3>2, <3>3, <3>4 DEF TypeOK
  <2>7. \A j \in Ids : /\ j # i => obj'[j] = obj[j]
                       /\ j = i => obj'[j] = p
    BY <2>1, <2>5 DEF IInv, TypeOK
  <2>8. SoundObjects'  BY <2>4, <2>7 DEF IInv, SoundObjects
  <2>9. Served'
    <3>1. (\A j \in Ids : obj[j].loop = "none" <=> j > starts)'
      BY <1>1, <2>1, <2>3, <2>7 DEF IInv, Served, Ids
    <3>2. ui' = "setFrameCallback" /\ rtsp' # 0 /\ hasty' = (hasty \/ rtsp # 0)
      BY <1>1, <1>3, <2>1 DEF start
    <3>3. (~obj[rtsp].watch /\ obj[rtsp].loop = "running")'
      BY <2>1, <2>3, <2>7
    <3>4. (~hasty => \A j \in 1 .. starts : j # rtsp => obj[j].loop = "ended")'
      <4> SUFFICES ASSUME ~hasty', NEW j \in 1 .. starts', j # rtsp'
                   PROVE  obj'[j].loop = "ended"
        OBVIOUS
      <4>1. ~hasty /\ rtsp = 0  BY <3>2
      <4>2. j \in 1 .. starts /\ j # i /\ j \in Ids  BY <1>1, <2>1, RtspAssumption
      <4> QED  BY <4>1, <4>2, <2>7 DEF IInv, Served
    <3>5. (\A j \in Ids : AwaitsCallback(j))'
      <4>1. ui # "setFrameCallback" /\ ui' = "setFrameCallback" /\ rtsp' = i  BY <1>3, <2>1 DEF start
      <4> QED  BY <4>1, <2>7 DEF IInv, Served, AwaitsCallback
    <3> QED  BY <3>1, <3>2, <3>3, <3>4, <3>5 DEF Served
  <2> QED  BY <2>6, <2>8, <2>9 DEF IInv
<1>4. CASE setFrameCallback
  <2> DEFINE o == obj[rtsp]
             p == [o EXCEPT !.frameCallback = IF o.rtsp_client THEN "decoder" ELSE o.frameCallback]
  <2>0. rtsp # 0  BY <1>4 DEF IInv, Served, setFrameCallback
  <2>1. rtsp \in Ids /\ o \in Object /\ Sound(o)  BY <1>1, <1>2, <2>0
  <2>2. (IF o.rtsp_client THEN "decoder" ELSE o.frameCallback) \in {"unset", "decoder"}
    BY <2>1, ObjectFields
  <2>3. p \in Object  BY <2>1, <2>2 DEF Object
  <2>4. Sound(p)  BY <2>1 DEF Sound, Knows, Quiet, Counted, Object
  <2>5. /\ p.loop = o.loop /\ p.watch = o.watch /\ p.isShutDown = o.isShutDown
        /\ o.rtsp_client => p.frameCallback = "decoder"
    BY <2>1 DEF Object
  <2>6. obj' = [obj EXCEPT ![rtsp] = p]  BY <1>1, <1>4, <2>1 DEF setFrameCallback, IInv, TypeOK
  <2> HIDE DEF p
  <2>7. ui' = "idle" /\ UNCHANGED <<rtsp, starts, codec, hasty>>  BY <1>4 DEF setFrameCallback
  <2>8. \A j \in Ids : /\ j # rtsp => obj'[j] = obj[j]
                       /\ j = rtsp => obj'[j] = p
    BY <2>1, <2>6 DEF IInv, TypeOK
  <2>9. TypeOK'  BY <2>3, <2>6, <2>7 DEF IInv, TypeOK
  <2>10. SoundObjects'  BY <2>4, <2>8 DEF IInv, SoundObjects
  <2>11. (\A j \in Ids : AwaitsCallback(j))'
    <3>1. ui = "setFrameCallback"  BY <1>4 DEF setFrameCallback
    <3>2. o.loop = "running" => o.rtsp_client  BY <2>1 DEF Sound
    <3> QED  BY <2>5, <2>7, <2>8, <3>1, <3>2 DEF IInv, Served, AwaitsCallback
  <2>12. Served'  BY <1>1, <1>4, <2>1, <2>5, <2>7, <2>8, <2>11 DEF IInv, Served, setFrameCallback
  <2> QED  BY <2>9, <2>10, <2>12 DEF IInv
<1>5. CASE stop
  <2>1. UNCHANGED <<rtsp, starts, codec, obj, hasty>> /\ ui = "idle"
        /\ ui' = (IF rtsp # 0 THEN "shutDown" ELSE "mediaCodec_destroy")
    BY <1>5 DEF stop
  <2>2. TypeOK' /\ SoundObjects'  BY <2>1 DEF IInv, TypeOK, SoundObjects
  <2>3. Served'  BY <2>1 DEF IInv, Served, AwaitsCallback
  <2> QED  BY <2>2, <2>3 DEF IInv
<1>6. CASE shutDown
  <2> DEFINE o == obj[rtsp]
             p == [o EXCEPT !.isShutDown = TRUE]
             q == [o EXCEPT !.watch = TRUE]
  <2>0. rtsp # 0 /\ UNCHANGED <<rtsp, starts, codec, hasty>>
    BY <1>6 DEF shutDown, SetBoth
  <2>1. rtsp \in Ids /\ o \in Object /\ Sound(o)  BY <1>1, <1>2, <2>0
  <2>2. p \in Object /\ q \in Object  BY <2>1 DEF Object
  <2>3. Sound(p) /\ Sound(q)  BY <2>1 DEF Sound, Knows, Quiet, Counted, Object
  <2>4. /\ p.loop = o.loop /\ p.watch = o.watch /\ p.isShutDown
        /\ q.loop = o.loop /\ q.isShutDown = o.isShutDown
        /\ p.frameCallback = o.frameCallback /\ q.frameCallback = o.frameCallback
    BY <2>1 DEF Object
  <2>5. \/ ui = "shutDown" /\ ui' = "watch" /\ obj' = [obj EXCEPT ![rtsp] = p]
        \/ ui = "watch" /\ ui' = "spin" /\ obj' = [obj EXCEPT ![rtsp] = q]
    BY <1>6 DEF shutDown, SetBoth
  <2> HIDE DEF p, q
  <2>6. \A j \in Ids : /\ j # rtsp => obj'[j] = obj[j]
                       /\ j = rtsp /\ ui = "shutDown" => obj'[j] = p
                       /\ j = rtsp /\ ui = "watch" => obj'[j] = q
    BY <2>1, <2>5 DEF IInv, TypeOK
  <2>7. TypeOK'  BY <2>0, <2>1, <2>2, <2>5 DEF IInv, TypeOK
  <2>8. SoundObjects'  BY <2>3, <2>5, <2>6 DEF IInv, SoundObjects
  <2>9. Served'
    <3>1. (\A j \in Ids : AwaitsCallback(j))'
      BY <2>0, <2>4, <2>5, <2>6 DEF IInv, Served, AwaitsCallback
    <3>2. CASE ui = "shutDown"  BY <1>1, <2>0, <2>1, <2>4, <2>5, <2>6, <3>1, <3>2 DEF IInv, Served
    <3>3. CASE ui = "watch"  BY <1>1, <2>0, <2>1, <2>4, <2>5, <2>6, <3>1, <3>3 DEF IInv, Served
    <3> QED  BY <2>5, <3>2, <3>3
  <2> QED  BY <2>7, <2>8, <2>9 DEF IInv
<1>7. CASE SpinEnds
  <2>1. /\ ui = "spin" /\ ~obj[rtsp].isShutDown /\ ui' = "mediaCodec_destroy" /\ rtsp' = 0
        /\ UNCHANGED <<starts, codec, obj, hasty>>
    BY <1>7 DEF SpinEnds
  <2>2. TypeOK' /\ SoundObjects'  BY <1>1, <2>1 DEF IInv, TypeOK, SoundObjects
  <2>3. obj[rtsp].loop = "ended"  BY <2>1 DEF IInv, Served
  <2>4. Served'  BY <2>1, <2>3 DEF IInv, Served, AwaitsCallback
  <2> QED  BY <2>2, <2>4 DEF IInv
<1>8. CASE DestroyCodec
  <2>1. /\ ui = "mediaCodec_destroy" /\ ui' = "idle" /\ codec' = "none"
        /\ UNCHANGED <<rtsp, starts, obj, hasty>>
    BY <1>8 DEF DestroyCodec
  <2>2. TypeOK' /\ SoundObjects'  BY <2>1 DEF IInv, TypeOK, SoundObjects
  <2>3. Served'  BY <2>1 DEF IInv, Served, AwaitsCallback
  <2> QED  BY <2>2, <2>3 DEF IInv
<1> QED  BY <1>3, <1>4, <1>5, <1>6, <1>7, <1>8 DEF User

LEMMA Invariant == Spec => []IInv
<1>1. Init => IInv
  <2> SUFFICES ASSUME Init PROVE IInv  OBVIOUS
  <2>1. \A i \in Ids : obj[i] = Unmade  BY DEF Init
  <2>2. TypeOK
    <3>1. obj \in [Ids -> Object]  BY UnmadeIsSound DEF Init
    <3>2. 0 \in 0 .. MaxStarts /\ 0 \in 0 .. 0  BY RtspAssumption
    <3> QED  BY <3>1, <3>2 DEF Init, TypeOK
  <2>3. SoundObjects  BY <2>1, UnmadeIsSound DEF SoundObjects
  <2>4. \A i \in Ids : obj[i].loop = "none" /\ i > 0  BY <2>1 DEF Unmade, Ids
  <2>5. 1 .. 0 = {}  OBVIOUS
  <2>6. Served  BY <2>4, <2>5 DEF Init, Served, AwaitsCallback
  <2> QED  BY <2>2, <2>3, <2>6 DEF IInv
<1>2. IInv /\ [Next]_vars => IInv'
  <2> SUFFICES ASSUME IInv, [Next]_vars PROVE IInv'  OBVIOUS
  <2>1. CASE User  BY <2>1, UserServes
  <2>2. ASSUME NEW i \in Ids, Handlers(i) \/ envThead(i)  PROVE IInv'
    BY <2>2, HandlersServe, LeaveLoopServes, EndLoopServes DEF envThead
  <2>3. CASE UNCHANGED vars  BY <2>3 DEF IInv, TypeOK, SoundObjects, Served, AwaitsCallback, vars
  <2> QED  BY <2>1, <2>2, <2>3 DEF Next
<1> QED  BY <1>1, <1>2, PTL DEF Spec

\* The Rtsp objects and the user's thread stay in the states the model names,
\* however many objects are made and subsessions announced.
THEOREM TypeCorrect == Spec => []TypeOK
<1>1. IInv => TypeOK  BY DEF IInv
<1> QED  BY <1>1, Invariant, PTL

\* A stopped player is silent: no loop, no client, no sink, no handler of an
\* object the user has stopped is left.
THEOREM OneStreamAlways == Spec => []OneStream
<1>1. IInv => OneStream
  <2> SUFFICES ASSUME IInv, ~hasty, NEW i \in 1 .. starts, i # rtsp
               PROVE  /\ obj[i].loop = "ended" /\ obj[i].life = "closed"
                      /\ obj[i].sink = NoSinks /\ obj[i].bye = {} /\ ~obj[i].timer
    BY DEF OneStream
  <2>1. i \in Ids  BY RtspAssumption DEF IInv, TypeOK, Ids
  <2>2. obj[i].loop = "ended"  BY DEF IInv, Served
  <2> QED  BY <2>1, <2>2 DEF IInv, SoundObjects, Sound, Quiet
<1> QED  BY <1>1, Invariant, PTL

\* No client is closed more often than once, or twice if the server came first.
THEOREM ClosedOnceAlways == Spec => []ClosedOnce
<1>1. IInv => ClosedOnce
  <2> SUFFICES ASSUME IInv, NEW i \in Ids
               PROVE  obj[i].closes <= IF obj[i].ended = "server" THEN 2 ELSE 1
    BY DEF ClosedOnce
  <2>1. obj[i] \in Object /\ Sound(obj[i])  BY DEF IInv, TypeOK, SoundObjects
  <2>2. CASE obj[i].life = "closed"  BY <2>1, <2>2 DEF Sound, Counted
  <2>3. CASE obj[i].life # "closed"  BY <2>1, <2>3 DEF Sound
  <2> QED  BY <2>2, <2>3
<1> QED  BY <1>1, Invariant, PTL

\* No sink is without its callback, unless the answer to SETUP came while init
\* was between start and setFrameCallback.
THEOREM SinkKnowsDecoderAlways == Spec => []SinkKnowsDecoder
<1>1. IInv => SinkKnowsDecoder
  BY DEF IInv, SoundObjects, Sound, Knows, SinkKnowsDecoder
<1> QED  BY <1>1, Invariant, PTL
=============================================================================
