------------------------------ MODULE Renderer ------------------------------
(***************************************************************************)
(* From the sender thread to the screen. The sender thread hands each      *)
(* picture to Java (Android_OnFrame), Player.onFrame gives it to           *)
(* VideoRender.onPreviewFrame and asks for a draw. The GL thread draws     *)
(* when it is asked to and there is a surface. The two share mGLRgbBuffer, *)
(* under lock except for its replacement, and the queue mRunOnDraw, whose  *)
(* emptiness both test without a lock.                                     *)
(*                                                                         *)
(* Pictures are numbered from 1; the p-th has the size sizes[p].           *)
(* GLSurfaceView, GL textures and the codec's formats are external.        *)
(***************************************************************************)
EXTENDS Integers, Sequences, ColorLayout

CONSTANTS
    Sizes,
    MaxPictures,    \* bound: pictures handed over
    MaxSurfaces     \* bound: surfaces lost

ASSUME RendererAssumption ==
    /\ Sizes \subseteq (Nat \ {0}) \X (Nat \ {0})
    /\ MaxPictures \in Nat /\ MaxSurfaces \in Nat

VARIABLES
    colorFormat, sizes,
    sender,         \* where the sender thread is
    javaArray,      \* argbarray: its length and the picture in it
    mGLRgbBuffer,   \* its capacity and the picture in it
    lock,           \* who has the lock
    mRunOnDraw,     \* the sizes the queued Runnables have captured
    gl,             \* where the GL thread is
    job,            \* the Runnable it has taken
    mGLTextureId,   \* the texture: its size, the picture and the size it was loaded with
    imageSize, outputSize, cube,
    screen,         \* the texture that was drawn last
    requested,      \* whether a draw is asked for
    surface, changed,  \* whether there is one, and onSurfaceChanged is still to be called
    lost            \* surfaces lost

senderVars == <<sizes, sender, javaArray, mGLRgbBuffer>>
glVars     == <<gl, job, mGLTextureId, imageSize, outputSize, cube, screen>>
viewVars   == <<surface, changed, lost>>
vars == <<colorFormat, senderVars, lock, mRunOnDraw, glVars, requested, viewVars>>

NoSize  == <<0, 0>>
NO_IMAGE == [alloc |-> NoSize, pic |-> 0, as |-> NoSize]
\* What a buffer holds instead of a picture: zeros, or part of the next one.
Zeros == 0
Half  == -1

Picture == Len(sizes)
Size    == sizes[Picture]

Init ==
    /\ colorFormat \in Formats /\ sizes = <<>>
    /\ sender = "idle" /\ javaArray = [len |-> 0, pic |-> 0] /\ mGLRgbBuffer = [len |-> 0, pic |-> Zeros]
    /\ lock = "free" /\ mRunOnDraw = <<>>
    /\ gl = "idle" /\ job = NoSize /\ mGLTextureId = NO_IMAGE /\ imageSize = NoSize
    /\ outputSize = 0 /\ cube = "empty" /\ screen = NO_IMAGE
    /\ requested = FALSE /\ surface = TRUE /\ changed = TRUE /\ lost = 0

-----------------------------------------------------------------------------
(* The sender thread *)

\* toARGB and Android_OnFrame: the array of the picture before is used again if it
\* has the right length, else a new one takes its place.
OnFrame(size) ==
    /\ sender = "idle" /\ Picture < MaxPictures
    /\ sizes' = Append(sizes, size)
    /\ javaArray' = [len |-> toARGB(size, colorFormat), pic |-> Picture + 1]
    /\ sender' = "buffer"
    /\ UNCHANGED <<colorFormat, mGLRgbBuffer, lock, mRunOnDraw, glVars, requested, viewVars>>

Buffer ==
    /\ sender = "buffer" /\ sender' = "lock"
    /\ mGLRgbBuffer' = IF mGLRgbBuffer.len # javaArray.len THEN [len |-> javaArray.len, pic |-> Zeros]
                       ELSE mGLRgbBuffer
    /\ UNCHANGED <<colorFormat, sizes, javaArray, lock, mRunOnDraw, glVars, requested, viewVars>>

\* mutant: the buffer is filled without the lock
NoLock ==
    /\ sender = "lock" /\ sender' = "put"
    /\ mGLRgbBuffer' = [mGLRgbBuffer EXCEPT !.pic = Half]
    /\ UNCHANGED <<colorFormat, sizes, javaArray, lock, mRunOnDraw, glVars, requested, viewVars>>
Lock ==
    /\ sender = "lock" /\ sender' = "put"
    /\ lock = "free" /\ lock' = "sender"
    /\ mGLRgbBuffer' = [mGLRgbBuffer EXCEPT !.pic = Half]
    /\ UNCHANGED <<colorFormat, sizes, javaArray, mRunOnDraw, glVars, requested, viewVars>>

Put ==
    /\ sender = "put" /\ sender' = "look"
    /\ mGLRgbBuffer' = [mGLRgbBuffer EXCEPT !.pic = javaArray.pic] /\ lock' = "free"
    /\ UNCHANGED <<colorFormat, sizes, javaArray, mRunOnDraw, glVars, requested, viewVars>>

\* mutant: a Runnable for every picture
AlwaysAdds ==
    /\ sender = "look" /\ sender' = "add"
    /\ UNCHANGED <<colorFormat, sizes, javaArray, mGLRgbBuffer, lock, mRunOnDraw, glVars, requested, viewVars>>
Look ==
    /\ sender = "look" /\ sender' = IF mRunOnDraw = <<>> THEN "add" ELSE "request"
    /\ UNCHANGED <<colorFormat, sizes, javaArray, mGLRgbBuffer, lock, mRunOnDraw, glVars, requested, viewVars>>

Add ==
    /\ sender = "add" /\ sender' = "request"
    /\ mRunOnDraw' = Append(mRunOnDraw, Size)
    /\ UNCHANGED <<colorFormat, sizes, javaArray, mGLRgbBuffer, lock, glVars, requested, viewVars>>

\* mutant: no draw is asked for while one goes on
Forgets ==
    /\ sender = "request" /\ sender' = "idle" /\ requested' = (requested \/ gl = "idle")
    /\ UNCHANGED <<colorFormat, sizes, javaArray, mGLRgbBuffer, lock, mRunOnDraw, glVars, viewVars>>
RequestRender ==
    /\ sender = "request" /\ sender' = "idle" /\ requested' = TRUE
    /\ UNCHANGED <<colorFormat, sizes, javaArray, mGLRgbBuffer, lock, mRunOnDraw, glVars, viewVars>>

-----------------------------------------------------------------------------
(* The GL thread *)

\* maintainAspect is never set: the picture is scaled to the output, whatever
\* their sizes, if there are any.
adjustImageScaling(output, image) == IF output # 0 /\ image # NoSize THEN "full" ELSE "empty"

OnSurfaceChanged ==
    /\ gl = "idle" /\ surface /\ changed /\ changed' = FALSE /\ requested' = TRUE
    /\ outputSize' = 1 /\ cube' = adjustImageScaling(1, imageSize)
    /\ UNCHANGED <<colorFormat, senderVars, lock, mRunOnDraw, gl, job, mGLTextureId, imageSize, screen, surface, lost>>

OnDrawFrame ==
    /\ gl = "idle" /\ surface /\ ~changed /\ requested /\ requested' = FALSE
    /\ gl' = "lock"
    /\ UNCHANGED <<colorFormat, senderVars, lock, mRunOnDraw, job, mGLTextureId, imageSize, outputSize, cube, screen, viewVars>>

GlLock ==
    /\ gl = "lock" /\ lock = "free" /\ lock' = "gl" /\ gl' = "run"
    /\ UNCHANGED <<colorFormat, senderVars, mRunOnDraw, job, mGLTextureId, imageSize, outputSize, cube, screen, requested, viewVars>>

\* runAll. The queue is a LinkedList that no lock guards (118-127, 157): its poll and
\* its add are taken for atomic.
Poll ==
    /\ gl = "run" /\ mRunOnDraw # <<>>
    /\ job' = Head(mRunOnDraw) /\ mRunOnDraw' = Tail(mRunOnDraw) /\ gl' = "load"
    /\ UNCHANGED <<colorFormat, senderVars, lock, mGLTextureId, imageSize, outputSize, cube, screen, requested, viewVars>>

\* OpenGlUtils.loadTexture: the texture is made by the first picture; GL refuses
\* to load one that does not fit into it.
loadTexture(texture, buffer, size) ==
    CASE texture = NO_IMAGE -> [alloc |-> size, pic |-> buffer.pic, as |-> size]
      [] texture # NO_IMAGE /\ size[1] <= texture.alloc[1] /\ size[2] <= texture.alloc[2] ->
            [texture EXCEPT !.pic = buffer.pic, !.as = size]
      [] OTHER -> texture

\* mutant: the picture is scaled when the surface changes only
RunUnscaled ==
    /\ gl = "load" /\ gl' = "run" /\ job' = NoSize
    /\ mGLTextureId' = loadTexture(mGLTextureId, mGLRgbBuffer, job)
    /\ imageSize' = job
    /\ UNCHANGED <<colorFormat, senderVars, lock, mRunOnDraw, outputSize, cube, screen, requested, viewVars>>
Run ==
    /\ gl = "load" /\ gl' = "run" /\ job' = NoSize
    /\ mGLTextureId' = loadTexture(mGLTextureId, mGLRgbBuffer, job)
    /\ imageSize' = IF imageSize[1] # job[1] THEN job ELSE imageSize
    /\ cube' = IF imageSize[1] # job[1] THEN adjustImageScaling(outputSize, job) ELSE cube
    /\ UNCHANGED <<colorFormat, senderVars, lock, mRunOnDraw, outputSize, screen, requested, viewVars>>

AllRun ==
    /\ gl = "run" /\ mRunOnDraw = <<>> /\ gl' = "draw"
    /\ UNCHANGED <<colorFormat, senderVars, lock, mRunOnDraw, job, mGLTextureId, imageSize, outputSize, cube, screen, requested, viewVars>>

Draw ==
    /\ gl = "draw" /\ gl' = "idle" /\ lock' = "free"
    /\ screen' = mGLTextureId
    /\ UNCHANGED <<colorFormat, senderVars, mRunOnDraw, job, mGLTextureId, imageSize, outputSize, cube, requested, viewVars>>

\* The surface goes between two draws, and comes back.
SurfaceDestroyed ==
    /\ surface /\ gl = "idle" /\ lost < MaxSurfaces /\ lost' = lost + 1 /\ surface' = FALSE
    /\ UNCHANGED <<colorFormat, senderVars, lock, mRunOnDraw, glVars, requested, changed>>
SurfaceCreated ==
    /\ ~surface /\ surface' = TRUE /\ changed' = TRUE
    /\ UNCHANGED <<colorFormat, senderVars, lock, mRunOnDraw, glVars, requested, lost>>

Sender   == Buffer \/ Lock \/ Put \/ Look \/ Add \/ RequestRender
GLThread == OnSurfaceChanged \/ OnDrawFrame \/ GlLock \/ Poll \/ Run \/ AllRun \/ Draw

Next == \/ \E size \in Sizes : OnFrame(size)
        \/ Sender \/ GLThread \/ SurfaceDestroyed \/ SurfaceCreated

Spec == Init /\ [][Next]_vars

\* The two threads go on, and a lost surface comes back.
FairSpec ==
    /\ Spec
    /\ WF_vars(Sender) /\ WF_vars(GLThread) /\ WF_vars(SurfaceCreated)

-----------------------------------------------------------------------------
(* Properties *)

AnySize == Sizes \cup {NoSize}
Lengths == {0} \cup {argb_size(s) : s \in Sizes}
Texture == [alloc : AnySize, pic : Half .. MaxPictures, as : AnySize]

TypeOK ==
    /\ colorFormat \in Formats /\ sizes \in Seq(Sizes) /\ Picture <= MaxPictures
    /\ sender \in {"idle", "buffer", "lock", "put", "look", "add", "request"}
    /\ gl \in {"idle", "lock", "run", "load", "draw"} /\ lock \in {"free", "sender", "gl"}
    /\ javaArray \in [len : Lengths, pic : 0 .. MaxPictures]
    /\ mGLRgbBuffer \in [len : Lengths, pic : Half .. MaxPictures]
    /\ mRunOnDraw \in Seq(Sizes) /\ job \in AnySize /\ (job # NoSize <=> gl = "load")
    /\ {mGLTextureId, screen} \subseteq Texture
    /\ imageSize \in AnySize /\ outputSize \in {0, 1} /\ cube \in {"full", "empty"}
    /\ {requested, surface, changed} \subseteq BOOLEAN /\ lost \in 0 .. MaxSurfaces

OneSize == \A p, q \in 1 .. Picture : sizes[p] = sizes[q]

\* Never is more than one Runnable queued, although the test for an empty queue
\* and the adding are two steps, without a lock over both.
OneRunnable == Len(mRunOnDraw) <= 1

\* As long as the pictures have one size, what is drawn is a whole picture of it.
DrawnWhole == OneSize /\ screen # NO_IMAGE => screen.pic >= 1 /\ screen.alloc = Size /\ screen.as = Size

\* A picture is never drawn into an empty rectangle, whichever comes first, the
\* picture or the size of the surface.
FillsScreen == gl = "draw" /\ mGLTextureId # NO_IMAGE => cube = "full"

\* The camera's pictures have an even width and height: 4:2:0 has a chroma sample for
\* two by two pixels.
EvenSizes == \A s \in Sizes : s[1] % 2 = 0 /\ s[2] % 2 = 0

\* The planes the conversion reads are in the packet and do not share a byte. What
\* toNV21 copies fits into its array exactly when the format has no padding at
\* this size.
PlanesApart ==
    sender = "buffer" =>
       LET planes == Planes(Size, colorFormat)
       IN  /\ toNV21(Size, colorFormat) <= nv21_size(Size) <=> getStride(Size, colorFormat).y = Size
           /\ \A p \in planes : LastByte(p) <= Length(Size, colorFormat) /\ p.width <= p.stride
           /\ \A p, q \in planes : p = q \/ LastByte(p) <= q.at \/ LastByte(q) <= p.at

\* Every picture gets on the screen, or a newer one does, if their size is one
\* and surfaces come back: none is forgotten because a Runnable was queued.
NewestShown ==
    \A p \in 1 .. MaxPictures :
       Picture = p /\ sender # "idle" ~> screen.pic >= p \/ ~OneSize
=============================================================================
